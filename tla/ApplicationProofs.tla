------------------------- MODULE ApplicationProofs -------------------------
(***************************************************************************)
(* Proofs about Application and Demo for every set of configurations,      *)
(* builds and calls: the application's variables keep their types, a       *)
(* server that answers serves what its server.yaml lists, the lifespan     *)
(* stops what it started in an order that never leaves the controller      *)
(* without its batcher, all of which holds with the demo beside it, and    *)
(* the panels of an answered call of the demo are its own.                 *)
(***************************************************************************)
EXTENDS Demo, TLAPS

Batcher == [task : Tasks, busy : BOOLEAN]
Entry   == [name : Name, session : Providers, backend : Backends,
            fault : {"none", "run"}, batching : BOOLEAN]

\* What entry k owes to spec k of the configuration.
Built(k) ==
    LET spec == ModelSpecs[k] IN
    /\ registry[k].name = spec.name
    /\ registry[k].session = OpenedOn(spec.backend)
    /\ registry[k].backend = Resolve(spec.backend)
    /\ registry[k].batching = config.batching
    /\ config.warmup => registry[k].fault = "none"
    /\ spec.backend \in Backends

\* Until it fails, the loop has registered exactly the models gone through.
Registered ==
    phase \in {"load", "serve", "stopping", "down"} =>
        /\ turn <= Len(ModelSpecs)
        /\ Len(registry) = turn
        /\ Len(batchers) = IF config.batching THEN turn ELSE 0
        /\ \A k \in 1..turn : Built(k)
        /\ \A j, k \in 1..turn : registry[j].name = registry[k].name => j = k
        /\ default = IF turn = 0 THEN None ELSE registry[1].name

\* Everything is up until the shutdown, which goes through it in order.
Lifecycle ==
    /\ phase \in {"load", "serve", "failed"} =>
           \A b \in DOMAIN batchers : batchers[b].task = "up"
    /\ phase \in {"load", "failed", "down", "exited"} => controller \in {"none", "down"}
    /\ phase = "serve" =>
           /\ turn = Len(ModelSpecs)
           /\ controller = IF config.controller /\ config.batching /\ turn > 0
                           THEN "up" ELSE "none"
    /\ phase = "stopping" =>
           \/ /\ controller = "stopping"
              /\ \A b \in DOMAIN batchers : batchers[b].task = "up"
           \/ /\ controller \in {"none", "down"}
              /\ \E b \in DOMAIN batchers :
                     /\ \A j \in DOMAIN batchers : j < b => batchers[j].task = "down"
                     /\ batchers[b].task \in {"stopping", "last"}
                     /\ \A j \in DOMAIN batchers : j > b => batchers[j].task = "up"
    /\ phase \in {"down", "exited"} =>
           \A b \in DOMAIN batchers : batchers[b].task = "down"
    /\ controller \in {"up", "stopping"} => config.batching /\ turn > 0

IInv == TypeOK /\ Registered /\ Lifecycle

-----------------------------------------------------------------------------
(* Facts about the configuration and the providers.                        *)

LEMMA SeqElement == ASSUME NEW S, NEW s \in Seq(S), NEW k \in DOMAIN s PROVE s[k] \in S
OBVIOUS

LEMMA Renamed ==
    ASSUME NEW spec \in ModelSpec
    PROVE  /\ [spec EXCEPT !.name = "default"] \in ModelSpec
           /\ [spec EXCEPT !.name = "default"].name = "default"
<1> DEFINE renamed == [name |-> "default", backend |-> spec.backend, fault |-> spec.fault]
<1>1. [spec EXCEPT !.name = "default"] = renamed
    BY DEF ModelSpec
<1>2. spec.backend \in STRING /\ spec.fault \in {"none", "files", "run"}
    BY DEF ModelSpec
<1>3. "default" \in Name
    BY DEF Name
<1>4. renamed \in ModelSpec /\ renamed.name = "default"
    BY <1>2, <1>3 DEF ModelSpec
<1> HIDE DEF renamed
<1> QED
    BY <1>1, <1>4

LEMMA SpecsTyped ==
    ASSUME config \in Configs
    PROVE  /\ ModelSpecs \in Seq(ModelSpec)
           /\ \A k \in 1..Len(ModelSpecs) : ModelSpecs[k].name # None
           /\ {config.batching, config.controller, config.warmup} \subseteq BOOLEAN
<1> DEFINE specs == config.specs
<1>1. /\ specs \in Seq(ModelSpec)
      /\ config.form = "model" => Len(specs) = 1
      /\ \A k \in DOMAIN specs : specs[k].name # None
    BY ApplicationAssumption
<1>2. {config.batching, config.controller, config.warmup} \subseteq BOOLEAN
    BY ApplicationAssumption
<1>3. ModelSpecs = IF config.form = "model" /\ specs[1].name = ""
                   THEN <<[specs[1] EXCEPT !.name = "default"]>> ELSE specs
    BY DEF ModelSpecs
<1> HIDE DEF specs
<1>4. CASE config.form = "model" /\ specs[1].name = ""
    <2>0. Len(specs) = 1
        BY <1>1, <1>4
    <2>1. 1 \in DOMAIN specs
        BY <1>1, <2>0
    <2>2. specs[1] \in ModelSpec
        BY <1>1, <2>1, SeqElement
    <2> DEFINE only == [specs[1] EXCEPT !.name = "default"]
    <2>3. only \in ModelSpec /\ only.name = "default"
        BY <2>2, Renamed
    <2>4. ModelSpecs = <<only>>
        BY <1>3, <1>4
    <2> HIDE DEF only
    <2>5. ModelSpecs \in Seq(ModelSpec) /\ Len(ModelSpecs) = 1 /\ ModelSpecs[1] = only
        BY <2>3, <2>4
    <2> QED
        BY <1>2, <2>3, <2>5 DEF None
<1>5. CASE ~(config.form = "model" /\ specs[1].name = "")
    <2>1. ModelSpecs = specs
        BY <1>3, <1>5
    <2>2. DOMAIN specs = 1..Len(specs)
        BY <1>1
    <2> QED
        BY <1>1, <1>2, <2>1, <2>2
<1> QED
    BY <1>4, <1>5

\* Every chain ends in the CPU, so that it has a first among any providers
\* with the CPU among them.
LEMMA FirstSound ==
    ASSUME NEW backend \in Backends, NEW set, "CPU" \in set
    PROVE  First(ProvidersByBackend[backend], set) \in Providers
<1> DEFINE chain == ProvidersByBackend[backend]
           Is(k) == /\ chain[k] \in set
                    /\ \A j \in 1..(k - 1) : chain[j] \notin set
           first == CHOOSE k \in DOMAIN chain : Is(k)
<1>1. \/ chain = <<"CPU">> \/ chain = <<"CUDA", "CPU">>
      \/ chain = <<"CoreML", "CPU">> \/ chain = <<"Tensorrt", "CUDA", "CPU">>
    BY DEF ProvidersByBackend, Backends
<1>2. \A k \in DOMAIN chain : chain[k] \in Providers
    BY <1>1 DEF Providers
<1>3. \E k \in DOMAIN chain : Is(k)
    <2>1. \/ 1 \in DOMAIN chain /\ Is(1)
          \/ 2 \in DOMAIN chain /\ Is(2)
          \/ 3 \in DOMAIN chain /\ Is(3)
        BY <1>1
    <2> QED
        BY <2>1
<1>4. first \in DOMAIN chain
    <2> HIDE DEF Is
    <2> QED
        BY <1>3
<1>5. First(chain, set) = chain[first]
    BY DEF First
<1> HIDE DEF chain, first
<1>6. First(chain, set) \in Providers
    BY <1>2, <1>4, <1>5
<1> QED
    BY <1>6 DEF chain

\* A session opens on some provider, and its tag is one of the four; the two
\* agree where every provider of the build loads.
LEMMA ResolveSound ==
    ASSUME available \in Builds, "CPU" \in loads, NEW backend \in Backends
    PROVE  /\ OpenedOn(backend) \in Providers
           /\ Resolve(backend) \in Backends
           /\ loads = available => Resolve(backend) = Tag(OpenedOn(backend))
<1>1. "CPU" \in available
    BY ApplicationAssumption
<1>2. \A p \in Providers : Tag(p) \in Backends
    BY DEF Providers, Tag, Backends
<1>3. /\ OpenedOn(backend) \in Providers
      /\ First(ProvidersByBackend[backend], available) \in Providers
    BY <1>1, FirstSound DEF OpenedOn
<1> QED
    BY <1>2, <1>3 DEF Resolve, OpenedOn

LEMMA SeqExcept ==
    ASSUME NEW S, NEW s \in Seq(S), NEW b \in DOMAIN s, NEW e \in S
    PROVE  /\ [s EXCEPT ![b] = e] \in Seq(S)
           /\ Len([s EXCEPT ![b] = e]) = Len(s)
           /\ DOMAIN [s EXCEPT ![b] = e] = DOMAIN s
           /\ \A j \in DOMAIN s : [s EXCEPT ![b] = e][j] = IF j = b THEN e ELSE s[j]
OBVIOUS

\* A change of one batcher is a change of its record.
LEMMA SetTask ==
    ASSUME NEW s \in Seq(Batcher), NEW b \in DOMAIN s, NEW t \in Tasks
    PROVE  /\ [s EXCEPT ![b].task = t] = [s EXCEPT ![b] = [task |-> t, busy |-> s[b].busy]]
           /\ [task |-> t, busy |-> s[b].busy] \in Batcher
<1>1. s[b] \in Batcher
    BY SeqElement
<1>2. [s[b] EXCEPT !.task = t] = [task |-> t, busy |-> s[b].busy]
    BY <1>1 DEF Batcher
<1> QED
    BY <1>1, <1>2 DEF Batcher

LEMMA SetBusy ==
    ASSUME NEW s \in Seq(Batcher), NEW b \in DOMAIN s, NEW d \in BOOLEAN
    PROVE  /\ [s EXCEPT ![b].busy = d] = [s EXCEPT ![b] = [task |-> s[b].task, busy |-> d]]
           /\ [task |-> s[b].task, busy |-> d] \in Batcher
<1>1. s[b] \in Batcher
    BY SeqElement
<1>2. [s[b] EXCEPT !.busy = d] = [task |-> s[b].task, busy |-> d]
    BY <1>1 DEF Batcher
<1> QED
    BY <1>1, <1>2 DEF Batcher

-----------------------------------------------------------------------------
(* The steps that leave the loop over the models alone.                    *)

Phases == {"load", "serve", "stopping", "down", "failed", "exited"}

LEMMA TypesKept ==
    ASSUME TypeOK, UNCHANGED loop, batchers' \in Seq(Batcher), phase' \in Phases,
           controller' \in {"none", "up", "stopping", "down"}
    PROVE  TypeOK'
BY DEF TypeOK, loop, given, models, Batcher, Phases, Names

LEMMA RegisteredKept ==
    ASSUME Registered, UNCHANGED loop, Len(batchers') = Len(batchers),
           phase' \in {"load", "serve", "stopping", "down"} =>
               phase \in {"load", "serve", "stopping", "down"}
    PROVE  Registered'
<1>1. /\ config' = config /\ available' = available /\ loads' = loads
      /\ turn' = turn /\ registry' = registry /\ default' = default
    BY DEF loop, given, models
<1>2. ModelSpecs' = ModelSpecs
    BY <1>1 DEF ModelSpecs
<1>3. \A k \in 1..turn : Built(k) => Built(k)'
    BY <1>1, <1>2 DEF Built, Resolve, OpenedOn
<1> QED
    BY <1>1, <1>2, <1>3 DEF Registered

\* The default model is the first, and has a batcher if any has.
LEMMA DefaultIsFirst ==
    ASSUME IInv, phase \in {"load", "serve", "stopping", "down"}, turn > 0
    PROVE  /\ Default = 1 /\ 1 \in DOMAIN registry
           /\ default = registry[1].name /\ default # None
           /\ registry[1].batching = config.batching
           /\ config.batching => 1 \in DOMAIN batchers
<1>1. /\ turn \in Nat /\ turn <= Len(ModelSpecs) /\ Len(registry) = turn
      /\ registry \in Seq(Entry) /\ batchers \in Seq(Batcher)
      /\ config \in Configs
    BY DEF IInv, TypeOK, Registered, Entry, Batcher
<1>2. 1 \in 1..turn /\ 1 \in DOMAIN registry /\ DOMAIN registry = 1..turn
    BY <1>1
<1>3. Built(1) /\ default = registry[1].name
    BY <1>2 DEF IInv, Registered
<1>4. \A k \in DOMAIN registry : registry[k].name = default <=> k = 1
    BY <1>2, <1>3 DEF IInv, Registered
<1>5. Default = 1
    BY <1>2, <1>4 DEF Default
<1>6. 1 \in 1..Len(ModelSpecs)
    BY <1>1, SpecsTyped
<1>7. default # None
    BY <1>1, <1>3, <1>6, SpecsTyped DEF Built
<1>8. config.batching => 1 \in DOMAIN batchers
    BY <1>1 DEF IInv, Registered
<1> QED
    BY <1>2, <1>3, <1>5, <1>7, <1>8 DEF Built

LEMMA InitInv == Init => IInv
<1> SUFFICES ASSUME Init PROVE IInv
    OBVIOUS
<1>1. ModelSpecs \in Seq(ModelSpec) /\ config.batching \in BOOLEAN
    BY SpecsTyped DEF Init
<1>2. TypeOK
    BY DEF Init, TypeOK
<1>3. Registered
    BY <1>1 DEF Init, Registered
<1>4. Lifecycle
    BY DEF Init, Lifecycle
<1> QED
    BY <1>2, <1>3, <1>4 DEF IInv

\* What StopFrom leaves behind: batcher b is the one being stopped, or none.
LEMMA StopFromInv ==
    ASSUME NEW s \in Seq(Batcher), NEW b \in Nat \ {0}, b <= Len(s) + 1, StopFrom(b, s),
           \A j \in DOMAIN s : j < b => s[j].task = "down",
           \A j \in DOMAIN s : j >= b => s[j].task = "up"
    PROVE  /\ batchers' \in Seq(Batcher) /\ Len(batchers') = Len(s)
           /\ DOMAIN batchers' = DOMAIN s
           /\ \/ phase' = "down" /\ \A j \in DOMAIN s : batchers'[j].task = "down"
              \/ /\ phase' = "stopping" /\ b \in DOMAIN s
                 /\ \A j \in DOMAIN s : j < b => batchers'[j].task = "down"
                 /\ batchers'[b].task = "stopping"
                 /\ \A j \in DOMAIN s : j > b => batchers'[j].task = "up"
<1>1. DOMAIN s = 1..Len(s)
    OBVIOUS
<1>2. CASE b > Len(s)
    <2>1. batchers' = s /\ phase' = "down"
        BY <1>2 DEF StopFrom
    <2>2. \A j \in DOMAIN s : j < b
        BY <1>1, <1>2
    <2> QED
        BY <2>1, <2>2
<1>3. CASE ~(b > Len(s))
    <2>1. batchers' = [s EXCEPT ![b].task = "stopping"] /\ phase' = "stopping"
        BY <1>3 DEF StopFrom
    <2>2. b \in DOMAIN s
        BY <1>1, <1>3
    <2>3. "stopping" \in Tasks
        BY DEF Tasks
    <2> DEFINE e == [task |-> "stopping", busy |-> s[b].busy]
    <2>4. [s EXCEPT ![b].task = "stopping"] = [s EXCEPT ![b] = e] /\ e \in Batcher
        BY <2>2, <2>3, SetTask
    <2>5. batchers' = [s EXCEPT ![b] = e] /\ e.task = "stopping"
        BY <2>1, <2>4
    <2> HIDE DEF e
    <2>6. /\ batchers' \in Seq(Batcher) /\ Len(batchers') = Len(s)
          /\ DOMAIN batchers' = DOMAIN s
          /\ \A j \in DOMAIN s : batchers'[j] = IF j = b THEN e ELSE s[j]
        BY <2>2, <2>4, <2>5, SeqExcept
    <2>7. \A j \in DOMAIN s : (j > b => j >= b) /\ (j > b \/ j < b => j # b)
        BY <1>1
    <2> QED
        BY <2>1, <2>2, <2>5, <2>6, <2>7
<1> QED
    BY <1>2, <1>3

-----------------------------------------------------------------------------
(* The loading.                                                            *)

LEMMA AppendElement ==
    ASSUME NEW S, NEW s \in Seq(S), NEW e \in S
    PROVE  /\ Append(s, e) \in Seq(S) /\ Len(Append(s, e)) = Len(s) + 1
           /\ Append(s, e)[Len(s) + 1] = e
           /\ \A k \in 1..Len(s) : Append(s, e)[k] = s[k]
OBVIOUS

LEMMA LoadModelInv == ASSUME IInv, LoadModel PROVE IInv'
<1> DEFINE spec   == ModelSpecs[turn + 1]
           entry  == [name |-> spec.name, session |-> OpenedOn(spec.backend),
                      backend |-> Resolve(spec.backend), fault |-> spec.fault,
                      batching |-> config.batching]
           up     == [task |-> "up", busy |-> FALSE]
<1>1. /\ config \in Configs /\ available \in Builds /\ turn \in Nat
      /\ loads \subseteq available /\ "CPU" \in loads
      /\ registry \in Seq(Entry) /\ batchers \in Seq(Batcher)
      /\ default \in Names \cup {None}
      /\ controller \in {"none", "up", "stopping", "down"}
    BY DEF IInv, TypeOK, Entry, Batcher
<1>2. /\ phase = "load" /\ turn < Len(ModelSpecs) /\ ~CannotLoad(spec)
      /\ turn' = turn + 1 /\ controller' = controller
      /\ config' = config /\ available' = available /\ loads' = loads
      /\ batchers' = IF config.batching THEN Append(batchers, up) ELSE batchers
      /\ Register(entry)
    BY DEF LoadModel, Loading, given
<1>3. /\ Len(registry) = turn /\ turn <= Len(ModelSpecs)
      /\ Len(batchers) = IF config.batching THEN turn ELSE 0
      /\ default = IF turn = 0 THEN None ELSE registry[1].name
    BY <1>2 DEF IInv, Registered
<1>4. /\ \A k \in 1..turn : Built(k)
      /\ \A j, k \in 1..turn : registry[j].name = registry[k].name => j = k
      /\ \A b \in DOMAIN batchers : batchers[b].task = "up"
      /\ controller \in {"none", "down"}
    BY <1>2 DEF IInv, Registered, Lifecycle
<1>5. spec \in ModelSpec /\ spec.name # None
    BY <1>1, <1>2, SpecsTyped, SeqElement
<1>6. /\ spec.backend \in Backends
      /\ spec.fault \in {"none", "run"}
      /\ config.warmup => spec.fault = "none"
    BY <1>2, <1>5 DEF CannotLoad, ModelSpec
<1>7. OpenedOn(spec.backend) \in Providers /\ Resolve(spec.backend) \in Backends
    BY <1>1, <1>6, ResolveSound
<1>8. entry \in Entry /\ up \in Batcher /\ up.task = "up"
    <2>1. spec.name \in Name
        BY <1>5 DEF ModelSpec
    <2>2. config.batching \in BOOLEAN
        BY <1>1, SpecsTyped
    <2> HIDE DEF spec
    <2> QED
        BY <1>6, <1>7, <2>1, <2>2 DEF Entry, Batcher, Tasks
<1>9. /\ entry.name = spec.name /\ entry.session = OpenedOn(spec.backend)
      /\ entry.backend = Resolve(spec.backend)
      /\ entry.fault = spec.fault /\ entry.batching = config.batching
    OBVIOUS
<1>10. ModelSpecs' = ModelSpecs
    BY <1>2 DEF ModelSpecs
<1>11. \A backend : /\ Resolve(backend)' = Resolve(backend)
                    /\ OpenedOn(backend)' = OpenedOn(backend)
    BY <1>2 DEF Resolve, OpenedOn
<1> HIDE DEF entry, up
<1>12. /\ batchers' \in Seq(Batcher)
       /\ \A b \in DOMAIN batchers' : batchers'[b].task = "up"
       /\ Len(batchers') = IF config.batching THEN turn + 1 ELSE 0
    <2>1. CASE config.batching
        <3>1. batchers' = Append(batchers, up) /\ Len(batchers) = turn
            BY <1>2, <1>3, <2>1
        <3>2. DOMAIN batchers' = 1..(turn + 1) /\ DOMAIN batchers = 1..turn
            BY <1>1, <1>8, <3>1, AppendElement
        <3> QED
            BY <1>1, <1>4, <1>8, <2>1, <3>1, <3>2, AppendElement
    <2>2. CASE ~config.batching
        BY <1>1, <1>2, <1>3, <1>4, <2>2
    <2> QED
        BY <2>1, <2>2
<1>13. CASE spec.name \in Names
    <2>1. phase' = "failed" /\ registry' = registry /\ default' = default
        BY <1>2, <1>9, <1>13 DEF Register, models
    <2>2. TypeOK'
        BY <1>1, <1>2, <1>12, <2>1 DEF TypeOK, Entry, Batcher, Names
    <2>3. Registered'
        BY <2>1 DEF Registered
    <2>4. Lifecycle'
        BY <1>2, <1>4, <1>12, <2>1 DEF Lifecycle
    <2> QED
        BY <2>2, <2>3, <2>4 DEF IInv
<1>14. CASE spec.name \notin Names
    <2>1. /\ registry' = Append(registry, entry) /\ phase' = phase
          /\ default' = IF turn = 0 \/ default = None THEN spec.name ELSE default
        BY <1>2, <1>9, <1>14 DEF Register
    <2>2. /\ registry' \in Seq(Entry) /\ Len(registry') = turn + 1
          /\ registry'[turn + 1] = entry
          /\ \A k \in 1..turn : registry'[k] = registry[k]
        BY <1>1, <1>3, <1>8, <2>1, AppendElement
    <2>3. \A k \in 1..turn : registry[k].name # spec.name
        <3>1. DOMAIN registry = 1..turn
            BY <1>1, <1>3
        <3> QED
            BY <1>14, <3>1 DEF Names
    <2>4. \A k \in 1..turn : Built(k)'
        BY <1>2, <1>4, <1>10, <1>11, <2>2 DEF Built
    <2>5. ASSUME NEW k, k = turn + 1 PROVE Built(k)'
        <3>1. ModelSpecs'[k] = spec /\ registry'[k] = entry
            BY <1>10, <2>2, <2>5
        <3> HIDE DEF spec
        <3> QED
            BY <1>2, <1>6, <1>9, <1>11, <3>1 DEF Built
    <2>6. default' = registry'[1].name
        <3>1. CASE turn = 0
            BY <1>9, <2>1, <2>2, <3>1
        <3>2. CASE turn > 0
            <4>1. 1 \in 1..turn /\ 1 \in 1..Len(ModelSpecs)
                BY <1>1, <1>3, <3>2, SpecsTyped
            <4>2. default # None
                BY <1>1, <1>3, <1>4, <3>2, <4>1, SpecsTyped DEF Built
            <4> QED
                BY <1>3, <2>1, <2>2, <3>2, <4>1, <4>2
        <3> QED
            BY <1>1, <3>1, <3>2
    <2>7. \A k \in 1..(turn + 1) : k \in 1..turn \/ k = turn + 1
        BY <1>1
    <2>8. TypeOK'
        <3>1. default' \in Names'
            <4>1. 1 \in DOMAIN registry'
                BY <1>1, <2>2
            <4> QED
                BY <2>6, <4>1 DEF Names
        <3> QED
            BY <1>1, <1>2, <1>12, <2>1, <2>2, <3>1 DEF TypeOK, Entry, Batcher
    <2>9. Registered'
        <3>1. \A j, k \in 1..(turn + 1) : registry'[j].name = registry'[k].name => j = k
            BY <1>4, <1>9, <2>2, <2>3, <2>7
        <3>2. turn + 1 <= Len(ModelSpecs) /\ turn + 1 # 0
            BY <1>1, <1>2, SpecsTyped
        <3>3. \A k \in 1..turn' : Built(k)'
            BY <1>2, <2>4, <2>5, <2>7
        <3> QED
            BY <1>2, <1>10, <1>12, <2>2, <2>6, <3>1, <3>2, <3>3 DEF Registered
    <2>10. Lifecycle'
        BY <1>2, <1>4, <1>12, <2>1 DEF Lifecycle
    <2> QED
        BY <2>8, <2>9, <2>10 DEF IInv
<1> QED
    BY <1>13, <1>14

LEMMA LoadFailsInv == ASSUME IInv, LoadFails PROVE IInv'
<1>1. phase = "load" /\ phase' = "failed" /\ batchers' = batchers
      /\ controller' = controller /\ UNCHANGED loop
    BY DEF LoadFails, Loading
<1>2. TypeOK'
    BY <1>1, TypesKept DEF IInv, TypeOK, Batcher, Phases
<1>3. Registered'
    BY <1>1 DEF Registered
<1>4. Lifecycle'
    BY <1>1 DEF IInv, Lifecycle
<1> QED
    BY <1>2, <1>3, <1>4 DEF IInv

LEMMA ReadyInv == ASSUME IInv, Ready PROVE IInv'
<1>1. /\ phase = "load" /\ phase' = "serve" /\ batchers' = batchers
      /\ turn = Len(ModelSpecs) /\ UNCHANGED loop
      /\ controller' = IF HasController THEN "up" ELSE "none"
    BY DEF Ready
<1>2. ModelSpecs' = ModelSpecs /\ config' = config /\ turn' = turn
    BY <1>1 DEF ModelSpecs, loop, given
<1>3. HasController <=> config.controller /\ config.batching /\ turn > 0
    <2>1. turn \in Nat /\ (turn = 0 => default = None)
        BY <1>1 DEF IInv, TypeOK, Registered
    <2>2. turn > 0 => default # None /\ registry[Default].batching = config.batching
        BY <1>1, DefaultIsFirst
    <2> QED
        BY <2>1, <2>2 DEF HasController
<1>4. TypeOK'
    BY <1>1, TypesKept DEF IInv, TypeOK, Batcher, Phases
<1>5. Registered'
    BY <1>1, RegisteredKept DEF IInv
<1>6. Lifecycle'
    BY <1>1, <1>2, <1>3 DEF IInv, Lifecycle
<1> QED
    BY <1>4, <1>5, <1>6 DEF IInv

-----------------------------------------------------------------------------
(* Serving and the shutdown.                                               *)

LEMMA RunBatchInv == ASSUME IInv, NEW b \in DOMAIN batchers, RunBatch(b) PROVE IInv'
<1> DEFINE busy == [task |-> batchers[b].task, busy |-> TRUE]
           last == [task |-> "last", busy |-> TRUE]
<1>1. batchers \in Seq(Batcher) /\ "last" \in Tasks /\ last \in Batcher
    BY DEF IInv, TypeOK, Batcher, Tasks
<1>2. /\ phase \in {"serve", "stopping"} /\ phase' = phase
      /\ UNCHANGED loop /\ controller' = controller
    BY DEF RunBatch
<1>3. \/ batchers[b].task = "up" /\ batchers' = [batchers EXCEPT ![b] = busy]
      \/ batchers[b].task = "stopping" /\ batchers' = [batchers EXCEPT ![b] = last]
    BY <1>1, SetBusy, Zenon DEF RunBatch
<1>4. busy \in Batcher /\ busy.task = batchers[b].task /\ last.task = "last"
    BY <1>1, SetBusy
<1> HIDE DEF busy, last
<1>5. PICK e \in Batcher :
          /\ batchers' = [batchers EXCEPT ![b] = e]
          /\ \/ e.task = batchers[b].task
             \/ batchers[b].task = "stopping" /\ e.task = "last"
    BY <1>1, <1>3, <1>4
<1>6. /\ batchers' \in Seq(Batcher) /\ Len(batchers') = Len(batchers)
      /\ DOMAIN batchers' = DOMAIN batchers
      /\ \A j \in DOMAIN batchers : batchers'[j] = IF j = b THEN e ELSE batchers[j]
    BY <1>1, <1>5, SeqExcept
<1>7. TypeOK' /\ Registered'
    BY <1>2, <1>6, TypesKept, RegisteredKept DEF IInv, TypeOK, Phases
<1>8. Lifecycle'
    <2>1. /\ turn' = turn /\ config' = config /\ ModelSpecs' = ModelSpecs
        BY <1>2 DEF loop, given, ModelSpecs
    <2>2. \A j \in DOMAIN batchers :
              \/ batchers'[j].task = batchers[j].task
              \/ batchers[j].task = "stopping" /\ batchers'[j].task = "last"
        BY <1>5, <1>6
    <2> QED
        BY <1>2, <1>6, <2>1, <2>2 DEF IInv, Lifecycle
<1> QED
    BY <1>7, <1>8 DEF IInv

LEMMA RunEndsInv == ASSUME IInv, NEW b \in DOMAIN batchers, RunEnds(b) PROVE IInv'
<1> DEFINE e == [task |-> batchers[b].task, busy |-> FALSE]
<1>1. batchers \in Seq(Batcher)
    BY DEF IInv, TypeOK, Batcher
<1>2. phase' = phase /\ UNCHANGED loop /\ controller' = controller
    BY DEF RunEnds
<1>3. batchers' = [batchers EXCEPT ![b] = e] /\ e \in Batcher /\ e.task = batchers[b].task
    BY <1>1, SetBusy, Zenon DEF RunEnds
<1> HIDE DEF e
<1>4. /\ batchers' \in Seq(Batcher) /\ Len(batchers') = Len(batchers)
      /\ DOMAIN batchers' = DOMAIN batchers
      /\ \A j \in DOMAIN batchers : batchers'[j].task = batchers[j].task
    BY <1>1, <1>3, SeqExcept
<1>5. TypeOK' /\ Registered'
    BY <1>2, <1>4, TypesKept, RegisteredKept DEF IInv, TypeOK, Phases
<1>6. turn' = turn /\ config' = config /\ ModelSpecs' = ModelSpecs
    BY <1>2 DEF loop, given, ModelSpecs
<1>7. Lifecycle'
    BY <1>2, <1>4, <1>6 DEF IInv, Lifecycle
<1> QED
    BY <1>5, <1>7 DEF IInv

\* After StopFrom the line of batchers is cut at b, with the controller gone.
LEMMA StoppedInv ==
    ASSUME IInv, phase \in {"serve", "stopping"}, UNCHANGED loop,
           controller' \in {"none", "down"},
           NEW s \in Seq(Batcher), Len(s) = Len(batchers),
           NEW b \in Nat \ {0}, b <= Len(s) + 1, StopFrom(b, s),
           \A j \in DOMAIN s : j < b => s[j].task = "down",
           \A j \in DOMAIN s : j >= b => s[j].task = "up"
    PROVE  IInv'
<1>1. /\ batchers' \in Seq(Batcher) /\ Len(batchers') = Len(s)
      /\ DOMAIN batchers' = DOMAIN s
      /\ \/ phase' = "down" /\ \A j \in DOMAIN s : batchers'[j].task = "down"
         \/ /\ phase' = "stopping" /\ b \in DOMAIN s
            /\ \A j \in DOMAIN s : j < b => batchers'[j].task = "down"
            /\ batchers'[b].task = "stopping"
            /\ \A j \in DOMAIN s : j > b => batchers'[j].task = "up"
    BY StopFromInv
<1>2. TypeOK' /\ Registered'
    BY <1>1, TypesKept, RegisteredKept DEF IInv, TypeOK, Phases
<1>3. Lifecycle'
    BY <1>1 DEF Lifecycle
<1> QED
    BY <1>2, <1>3 DEF IInv

LEMMA ShutdownInv == ASSUME IInv, Shutdown PROVE IInv'
<1>1. phase = "serve" /\ UNCHANGED loop
    BY DEF Shutdown
<1>2. batchers \in Seq(Batcher) /\ \A b \in DOMAIN batchers : batchers[b].task = "up"
    BY <1>1 DEF IInv, TypeOK, Batcher, Lifecycle
<1>3. CASE controller = "up" /\ controller' = "stopping" /\ phase' = "stopping"
           /\ UNCHANGED batchers
    <2>1. turn' = turn /\ config' = config
        BY <1>1 DEF loop, given
    <2>2. TypeOK' /\ Registered'
        BY <1>1, <1>2, <1>3, TypesKept, RegisteredKept DEF IInv, TypeOK, Phases
    <2>3. Lifecycle'
        BY <1>2, <1>3, <2>1 DEF IInv, Lifecycle
    <2> QED
        BY <2>2, <2>3 DEF IInv
<1>4. CASE controller = "none" /\ UNCHANGED controller /\ StopFrom(1, batchers)
    <2>1. \A j \in DOMAIN batchers : ~(j < 1)
        BY <1>2
    <2> QED
        BY <1>1, <1>2, <1>4, <2>1, StoppedInv
<1> QED
    BY <1>3, <1>4 DEF Shutdown

LEMMA ControllerStoppedInv == ASSUME IInv, ControllerStopped PROVE IInv'
<1>1. /\ controller = "stopping" /\ controller' = "down" /\ UNCHANGED loop
      /\ StopFrom(1, batchers)
    BY DEF ControllerStopped
<1>2. phase = "stopping" /\ batchers \in Seq(Batcher)
      /\ \A b \in DOMAIN batchers : batchers[b].task = "up"
    BY <1>1 DEF IInv, TypeOK, Batcher, Lifecycle
<1>3. \A j \in DOMAIN batchers : ~(j < 1)
    BY <1>2
<1> QED
    BY <1>1, <1>2, <1>3, StoppedInv

LEMMA BatcherStoppedInv ==
    ASSUME IInv, NEW b \in DOMAIN batchers, BatcherStopped(b) PROVE IInv'
<1> DEFINE e == [task |-> "down", busy |-> batchers[b].busy]
           s == [batchers EXCEPT ![b] = e]
<1>1. /\ batchers[b].task \in {"stopping", "last"} /\ UNCHANGED loop
      /\ controller' = controller
      /\ StopFrom(b + 1, [batchers EXCEPT ![b].task = "down"])
    BY DEF BatcherStopped
<1>2. batchers \in Seq(Batcher) /\ "down" \in Tasks
    BY DEF IInv, TypeOK, Batcher, Tasks
<1>3. [batchers EXCEPT ![b].task = "down"] = s /\ e \in Batcher /\ e.task = "down"
    BY <1>2, SetTask, ZenonT(60)
<1>4. StopFrom(b + 1, s)
    BY <1>1, <1>3
<1> HIDE DEF e
<1>5. /\ s \in Seq(Batcher) /\ Len(s) = Len(batchers) /\ DOMAIN s = DOMAIN batchers
      /\ \A j \in DOMAIN batchers : s[j] = IF j = b THEN e ELSE batchers[j]
    BY <1>2, <1>3, SeqExcept
<1> HIDE DEF s
<1>6. b \in 1..Len(batchers) /\ DOMAIN batchers = 1..Len(batchers)
    BY <1>2
\* The batcher being stopped is the one the line is cut at.
<1>7. phase = "stopping"
    <2>1. phase \in Phases
        BY DEF IInv, TypeOK, Phases
    <2> QED
        BY <1>1, <2>1 DEF IInv, Lifecycle, Phases
<1>8. /\ controller \in {"none", "down"}
      /\ \A j \in DOMAIN batchers : j < b => batchers[j].task = "down"
      /\ \A j \in DOMAIN batchers : j > b => batchers[j].task = "up"
    <2>1. ~(controller = "stopping" /\ \A j \in DOMAIN batchers : batchers[j].task = "up")
        BY <1>1
    <2>2. controller \in {"none", "down"}
        BY <1>7, <2>1 DEF IInv, Lifecycle
    <2>3. PICK c \in DOMAIN batchers :
              /\ \A j \in DOMAIN batchers : j < c => batchers[j].task = "down"
              /\ batchers[c].task \in {"stopping", "last"}
              /\ \A j \in DOMAIN batchers : j > c => batchers[j].task = "up"
        BY <1>7, <2>1 DEF IInv, Lifecycle
    <2>4. c = b
        <3>1. ~(b < c) /\ ~(b > c)
            BY <1>1, <2>3
        <3> QED
            BY <1>6, <3>1
    <2> QED
        BY <2>2, <2>3, <2>4
<1>9. /\ \A j \in DOMAIN s : j < b + 1 => s[j].task = "down"
      /\ \A j \in DOMAIN s : j >= b + 1 => s[j].task = "up"
    <2>1. \A j \in DOMAIN s : (j < b + 1 => j = b \/ j < b) /\ (j >= b + 1 => j > b /\ j # b)
        BY <1>5, <1>6
    <2> QED
        BY <1>3, <1>5, <1>8, <2>1
<1>10. /\ b + 1 \in Nat \ {0} /\ b + 1 <= Len(s) + 1
       /\ phase \in {"serve", "stopping"} /\ controller' \in {"none", "down"}
    BY <1>1, <1>2, <1>5, <1>6, <1>7, <1>8
<1> QED
    BY <1>1, <1>4, <1>5, <1>9, <1>10, StoppedInv

LEMMA ExitInv == ASSUME IInv, Exit PROVE IInv'
<1> DEFINE e(b) == [task |-> "down", busy |-> batchers[b].busy]
<1>1. /\ phase \in {"down", "failed"} /\ phase' = "exited"
      /\ batchers' = [b \in DOMAIN batchers |-> [batchers[b] EXCEPT !.task = "down"]]
      /\ controller' = controller /\ UNCHANGED loop
    BY DEF Exit
<1>2. batchers \in Seq(Batcher)
    BY DEF IInv, TypeOK, Batcher
<1>3. ASSUME NEW b \in DOMAIN batchers
      PROVE  /\ [batchers[b] EXCEPT !.task = "down"] = e(b)
             /\ e(b) \in Batcher /\ e(b).task = "down"
    <2>1. batchers[b] \in Batcher
        BY <1>2, SeqElement
    <2> QED
        BY <2>1 DEF Batcher, Tasks
<1> HIDE DEF e
<1>4. /\ batchers' \in Seq(Batcher) /\ DOMAIN batchers' = DOMAIN batchers
      /\ \A b \in DOMAIN batchers : batchers'[b].task = "down"
    <2>1. batchers' = [b \in DOMAIN batchers |-> e(b)]
        BY <1>1, <1>3
    <2>2. DOMAIN batchers = 1..Len(batchers) /\ Len(batchers) \in Nat
        BY <1>2
    <2> QED
        BY <1>3, <2>1, <2>2
<1>5. TypeOK'
    BY <1>1, <1>4, TypesKept DEF IInv, TypeOK, Phases
<1>6. Registered'
    BY <1>1 DEF Registered
<1>7. Lifecycle'
    BY <1>1, <1>4 DEF IInv, Lifecycle
<1> QED
    BY <1>5, <1>6, <1>7 DEF IInv

LEMMA StutterInv == ASSUME IInv, UNCHANGED appVars PROVE IInv'
<1>1. TypeOK' /\ Registered'
    BY TypesKept, RegisteredKept DEF IInv, TypeOK, Phases, Batcher, appVars, loop, given, models
<1>2. Lifecycle'
    BY DEF IInv, Lifecycle, appVars, ModelSpecs
<1> QED
    BY <1>1, <1>2 DEF IInv

LEMMA NextInv == IInv /\ [Next]_appVars => IInv'
BY LoadModelInv, LoadFailsInv, ReadyInv, RunBatchInv, RunEndsInv, BatcherStoppedInv,
   ShutdownInv, ControllerStoppedInv, ExitInv, StutterInv DEF Next, Run

THEOREM AppInvariant == Spec => []IInv
BY InitInv, NextInv, PTL DEF Spec

-----------------------------------------------------------------------------
(* What follows.                                                           *)

\* The variables of the application keep their types, whatever its
\* configuration and the machine.
THEOREM TypeCorrect == Spec => []TypeOK
<1>1. IInv => TypeOK
    BY DEF IInv
<1> QED
    BY <1>1, AppInvariant, PTL

LEMMA ServesConfig == IInv => ServesTheConfig
<1> SUFFICES ASSUME IInv, phase = "serve" PROVE ServesTheConfig
    BY DEF ServesTheConfig
<1>1. /\ config \in Configs /\ available \in Builds /\ turn \in Nat
      /\ registry \in Seq(Entry) /\ batchers \in Seq(Batcher)
    BY DEF IInv, TypeOK, Entry, Batcher
<1>2. /\ turn = Len(ModelSpecs) /\ Len(registry) = turn
      /\ \A b \in DOMAIN batchers : batchers[b].task = "up"
      /\ Len(batchers) = IF config.batching THEN turn ELSE 0
      /\ \A k \in 1..turn : Built(k)
    BY DEF IInv, Registered, Lifecycle
<1>3. DOMAIN ModelSpecs = 1..turn /\ DOMAIN registry = 1..turn
    BY <1>1, <1>2, SpecsTyped
<1>4. [k \in DOMAIN registry |-> registry[k].name]
          = [k \in DOMAIN ModelSpecs |-> ModelSpecs[k].name]
    BY <1>2, <1>3 DEF Built
<1>5. [k \in DOMAIN batchers |-> batchers[k].task]
          = IF config.batching THEN [k \in DOMAIN ModelSpecs |-> "up"] ELSE <<>>
    <2>1. CASE config.batching
        <3>1. DOMAIN batchers = 1..turn
            BY <1>1, <1>2, <2>1
        <3> QED
            BY <1>2, <1>3, <2>1, <3>1
    <2>2. CASE ~config.batching
        <3>1. batchers = <<>>
            BY <1>1, <1>2, <2>2
        <3> QED
            BY <2>2, <3>1
    <2> QED
        BY <2>1, <2>2
<1>6. config.warmup => \A k \in DOMAIN registry : registry[k].fault = "none"
    BY <1>2, <1>3 DEF Built
<1>7. controller = IF config.controller /\ config.batching /\ ModelSpecs # <<>>
                   THEN "up" ELSE "none"
    <2>1. turn > 0 <=> ModelSpecs # <<>>
        BY <1>1, <1>2, SpecsTyped
    <2> QED
        BY <2>1 DEF IInv, Lifecycle
<1>8. ModelSpecs # <<>> => Health = [status |-> 200, backend |-> registry[1].backend]
    <2>1. ModelSpecs # <<>> => turn > 0
        BY <1>1, <1>2, SpecsTyped
    <2>2. turn > 0 => Default = 1 /\ default # None
        BY DefaultIsFirst
    <2> QED
        BY <2>1, <2>2 DEF Health
<1>9. loads = available =>
          \A k \in DOMAIN registry : registry[k].backend = Tag(registry[k].session)
    <2>1. "CPU" \in loads
        BY DEF IInv, TypeOK
    <2>2. ASSUME NEW k \in DOMAIN registry, loads = available
          PROVE  registry[k].backend = Tag(registry[k].session)
        <3>1. Built(k)
            BY <1>2, <1>3
        <3> QED
            BY <1>1, <2>1, <2>2, <3>1, ResolveSound DEF Built
    <2> QED
        BY <2>2
<1> QED
    BY <1>4, <1>5, <1>6, <1>7, <1>8, <1>9 DEF ServesTheConfig

\* A server that answers serves the models its server.yaml lists, in their
\* order and under their names, each with its batcher, and with a controller
\* exactly if one is asked for and has a batcher to tune; /health speaks of
\* the first, and the tags are true where every provider of the build loads.
THEOREM ServesWhatIsConfigured == Spec => []ServesTheConfig
BY ServesConfig, AppInvariant, PTL

LEMMA ShutdownOrder == IInv => OrderlyShutdown
<1> SUFFICES ASSUME IInv PROVE OrderlyShutdown
    OBVIOUS
<1>1. ASSUME controller \in {"up", "stopping"}
      PROVE  registry[Default].batching /\ batchers[Default].task = "up"
    <2>1. config.batching /\ turn > 0 /\ phase \in {"serve", "stopping"}
        BY <1>1 DEF IInv, Lifecycle, TypeOK
    <2>2. \A b \in DOMAIN batchers : batchers[b].task = "up"
        BY <1>1, <2>1 DEF IInv, Lifecycle
    <2> QED
        BY <2>1, <2>2, DefaultIsFirst
<1>2. phase = "down" =>
          /\ controller \in {"none", "down"}
          /\ \A b \in DOMAIN batchers : batchers[b].task = "down"
    BY DEF IInv, Lifecycle
<1> QED
    BY <1>1, <1>2 DEF OrderlyShutdown

\* The controller's batcher runs as long as the controller does, and after
\* the lifespan no task of its is left, however many models there are.
THEOREM ShutdownIsOrderly == Spec => []OrderlyShutdown
BY ShutdownOrder, AppInvariant, PTL

-----------------------------------------------------------------------------
(* The demo beside it.  Its pool and its calls leave the application's     *)
(* variables alone, and the process waits for them only at its exit: every *)
(* behaviour with the demo is one of the application, whose theorems hold  *)
(* of it.                                                                  *)

LEMMA DemoInitIsInit == DemoInit => Init
BY DEF DemoInit

LEMMA DemoStepIsStep == [DemoNext]_vars => [Next]_appVars
<1> SUFFICES ASSUME [DemoNext]_vars PROVE [Next]_appVars
    OBVIOUS
<1>1. CASE Run /\ UNCHANGED demoVars
    BY <1>1 DEF Next
<1>2. CASE LastExit
    BY <1>2 DEF LastExit, Next
<1>3. ASSUME NEW c \in Calls, Compare(c) \/ Resume(c) \/ Expire(c)
      PROVE  UNCHANGED appVars
    <2>1. CASE Compare(c) \/ SubmitLeft(c) \/ SubmitRight(c)
        BY <2>1 DEF Compare, SubmitLeft, SubmitRight, Submit, Fails, Moves
    <2>2. CASE LeftReady(c) \/ RightReady(c) \/ Raised(c) \/ Expire(c)
        BY <2>2 DEF LeftReady, RightReady, Raised, Expire, Fails, Moves
    <2> QED
        BY <1>3, <2>1, <2>2 DEF Resume
<1>4. CASE TakeJob
    BY <1>4 DEF TakeJob
<1>5. CASE Work
    BY <1>5 DEF Work, JobOk, JobFails
<1>6. CASE Close
    BY <1>6 DEF Close
<1>7. CASE UNCHANGED vars
    BY <1>7 DEF vars
<1> QED
    BY <1>1, <1>2, <1>3, <1>4, <1>5, <1>6, <1>7 DEF DemoNext

\* With the demo the application does nothing it would not do without it.
THEOREM DemoImplementsApplication == DemoSpec => Spec
BY DemoInitIsInit, DemoStepIsStep, PTL DEF DemoSpec, Spec

\* The types, the models served and the order of the shutdown hold beside
\* the demo, whatever jobs its calls have left in the pool.
THEOREM ApplicationBesideDemo ==
    DemoSpec => [](TypeOK /\ ServesTheConfig /\ OrderlyShutdown)
BY DemoImplementsApplication, TypeCorrect, ServesWhatIsConfigured, ShutdownIsOrderly, PTL

-----------------------------------------------------------------------------
(* compare().  Until the models are loaded the demo has nothing to do; from *)
(* then on the registry stands, so that what a future holds, and what a    *)
(* call has in hand of it, is titled as server.yaml has it.                *)

Jobs == Calls \X {Left, Right}

Types == DOMAIN result = Jobs /\ DOMAIN call = Calls /\ DOMAIN panels = Calls

\* Nothing is asked of the demo while the models load.
Quiet ==
    phase = "load" =>
        /\ \A c \in Calls : call[c] = "idle"
        /\ jobs = <<>> /\ running = {} /\ \A j \in Jobs : result[j] = <<>>

\* A call that was let in has two models to compare, the configuration's.
Titled == \A side \in {Left, Right} : registry[side].name = ModelSpecs[side].name

Asked(c) == call[c] \notin {"idle", "refused"}

\* A future holds what its job computed.
Futures ==
    \A c \in Calls, side \in {Left, Right} :
        result[<<c, side>>] \in {<<>>, Error, Prediction(side, c)}

\* What a call may have in hand in a state.
Shows(c, state, shown) ==
    LET left  == Panel(Left, Prediction(Left, c))
        right == Panel(Right, Prediction(Right, c))
    IN  /\ state = "right" => shown = <<left>>
        /\ state = "answered" =>
               shown \in {<<Panel(Left, Error), Panel(Right, Error)>>, <<left, right>>}

DemoInv ==
    /\ Types /\ Quiet /\ Futures
    /\ \A c \in Calls : Asked(c) => Titled
    /\ \A c \in Calls : Shows(c, call[c], panels[c])

-----------------------------------------------------------------------------
LEMMA Sides == Left # Right /\ Left = 1 /\ Right = 2
BY DEF Left, Right

LEMMA DemoInitInv == DemoInit => DemoInv
BY DEF DemoInit, Init, DemoInv, Types, Quiet, Futures, Asked, Shows, Jobs

\* Where the registry stands, so do the names.
LEMMA NamesStand ==
    ASSUME registry' = registry, config' = config
    PROVE  /\ \A side, c : Prediction(side, c)' = Prediction(side, c)
           /\ Titled' <=> Titled
           /\ \A c, state, shown : Shows(c, state, shown)' <=> Shows(c, state, shown)
<1>1. \A side, c : Prediction(side, c)' = Prediction(side, c)
    BY DEF Prediction
<1>2. \A side, body : Panel(side, body)' = Panel(side, body)
    BY DEF Panel
<1>3. Titled' <=> Titled
    BY DEF Titled, ModelSpecs
<1>4. \A c, state, shown : Shows(c, state, shown)' <=> Shows(c, state, shown)
    BY DEF Shows, Panel, Prediction
<1> QED
    BY <1>1, <1>3, <1>4

\* The rest of the application does not touch the registry once it serves.
LEMMA AppInv ==
    ASSUME DemoInv, UNCHANGED <<calls, pool>>, phase # "load" => phase' # "load",
           (registry' = registry /\ config' = config) \/ phase = "load"
    PROVE  DemoInv'
<1>1. UNCHANGED <<call, panels, jobs, running, result>>
    BY DEF calls, pool
<1>2. Types' /\ Quiet'
    BY <1>1 DEF DemoInv, Types, Quiet
<1>3. CASE registry' = registry /\ config' = config
    BY <1>1, <1>2, <1>3, NamesStand DEF DemoInv, Futures, Asked
<1>4. CASE phase = "load"
    <2>1. /\ \A c \in Calls : call'[c] = "idle"
          /\ \A c \in Calls, side \in {Left, Right} : result'[<<c, side>>] = <<>>
        BY <1>1, <1>4 DEF DemoInv, Quiet, Jobs
    <2> QED
        BY <1>2, <2>1 DEF DemoInv, Futures, Asked, Shows
<1> QED
    BY <1>3, <1>4

LEMMA RunInv == ASSUME DemoInv, Run, UNCHANGED demoVars PROVE DemoInv'
<1>1. /\ phase # "load" => phase' # "load"
      /\ registry' = registry \/ phase = "load"
      /\ config' = config
    BY DEF Run, LoadModel, LoadFails, Ready, RunBatch, RunEnds, BatcherStopped, Shutdown,
           ControllerStopped, Loading, StopFrom, Register, loop, models, given
<1> QED
    BY <1>1, AppInv DEF demoVars

LEMMA LastExitInv == ASSUME DemoInv, LastExit PROVE DemoInv'
<1>1. phase' # "load" /\ registry' = registry /\ config' = config /\ UNCHANGED <<calls, pool>>
    BY DEF LastExit, Exit, loop, models, given, demoVars
<1> QED
    BY <1>1, AppInv

\* A step of the pool: no future but of a job that ran is set, and to what
\* the job computed or to its exception.
LEMMA PoolInv ==
    ASSUME DemoInv, UNCHANGED <<appVars, calls>>, phase # "load",
           DOMAIN result' = Jobs,
           \A c \in Calls, side \in {Left, Right} :
               result'[<<c, side>>] \in {result[<<c, side>>], Error, Prediction(side, c)}
    PROVE  DemoInv'
<1>1. registry' = registry /\ config' = config /\ phase' = phase
      /\ UNCHANGED <<call, panels>>
    BY DEF appVars, calls
<1>2. Types' /\ Quiet'
    BY <1>1 DEF DemoInv, Types, Quiet
<1>3. Futures'
    BY <1>1, NamesStand DEF DemoInv, Futures
<1> QED
    BY <1>1, <1>2, <1>3, NamesStand DEF DemoInv, Asked

LEMMA TakeJobInv == ASSUME DemoInv, TakeJob PROVE DemoInv'
<1>1. phase # "load" /\ UNCHANGED <<appVars, calls, result>>
    BY DEF DemoInv, Quiet, TakeJob
<1> QED
    BY <1>1, PoolInv DEF DemoInv, Types

LEMMA WorkInv == ASSUME DemoInv, Work PROVE DemoInv'
<1>1. PICK j \in Jobs : JobOk(j) \/ JobFails(j)
    BY DEF Work, Jobs
<1>2. PICK value \in {Error, Prediction(j[2], j[1])} :
          result' = [result EXCEPT ![j] = value]
    BY <1>1 DEF JobOk, JobFails
<1>3. phase # "load" /\ UNCHANGED <<appVars, calls>>
    BY <1>1 DEF DemoInv, Quiet, JobOk, JobFails
<1>4. DOMAIN result' = Jobs
    BY <1>2 DEF DemoInv, Types
<1>5. ASSUME NEW c \in Calls, NEW side \in {Left, Right}
      PROVE  result'[<<c, side>>] \in {result[<<c, side>>], Error, Prediction(side, c)}
    <2>1. <<c, side>> \in Jobs
        BY DEF Jobs
    <2>2. <<c, side>> = j => j[1] = c /\ j[2] = side
        OBVIOUS
    <2> QED
        BY <1>2, <2>1, <2>2 DEF DemoInv, Types
<1> QED
    BY <1>3, <1>4, <1>5, PoolInv

\* A step of a call, whatever it adds to the pool's queue.
LEMMA CallMoves ==
    ASSUME DemoInv, UNCHANGED <<appVars, result>>, NEW c \in Calls, NEW state, NEW shown,
           call' = [call EXCEPT ![c] = state], DOMAIN panels' = Calls,
           panels'[c] = shown, \A b \in Calls \ {c} : panels'[b] = panels[b],
           phase # "load", state = "refused" \/ Titled, Shows(c, state, shown)
    PROVE  DemoInv'
<1>1. registry' = registry /\ config' = config /\ phase' = phase /\ result' = result
    BY DEF appVars
<1>2. /\ DOMAIN call' = Calls /\ call'[c] = state
      /\ \A b \in Calls \ {c} : call'[b] = call[b]
    BY DEF DemoInv, Types
<1>3. Types' /\ Quiet'
    BY <1>1, <1>2 DEF DemoInv, Types, Quiet
<1>4. Futures'
    <2>1. ASSUME NEW b \in Calls, NEW side \in {Left, Right}
          PROVE  result'[<<b, side>>] \in {<<>>, Error, Prediction(side, b)'}
        <3>1. result[<<b, side>>] \in {<<>>, Error, Prediction(side, b)}
            BY DEF DemoInv, Futures
        <3>2. Prediction(side, b)' = Prediction(side, b)
            BY <1>1, NamesStand
        <3> QED
            BY <1>1, <3>1, <3>2
    <2> QED
        BY <2>1 DEF Futures
<1>5. \A b \in Calls : Asked(b)' => Titled'
    BY <1>1, <1>2, NamesStand DEF DemoInv, Asked
<1>6. \A b \in Calls : Shows(b, call[b], panels[b])'
    <2>1. ASSUME NEW b \in Calls PROVE Shows(b, call'[b], panels'[b])
        BY <1>2 DEF DemoInv
    <2> QED
        BY <1>1, <2>1, NamesStand
<1> QED
    BY <1>3, <1>4, <1>5, <1>6 DEF DemoInv

LEMMA FailsInv ==
    ASSUME DemoInv, NEW c \in Calls, Asked(c), Fails(c) PROVE DemoInv'
<1> DEFINE shown == <<Panel(Left, Error), Panel(Right, Error)>>
<1>1. /\ call' = [call EXCEPT ![c] = "answered"] /\ panels' = [panels EXCEPT ![c] = shown]
      /\ UNCHANGED <<appVars, result>>
    BY DEF Fails, Moves, pool
<1>2. phase # "load" /\ Titled
    BY DEF DemoInv, Quiet, Asked
<1>3. Shows(c, "answered", shown)
    BY DEF Shows
<1> HIDE DEF shown
<1>4. /\ DOMAIN panels' = Calls /\ panels'[c] = shown
      /\ \A b \in Calls \ {c} : panels'[b] = panels[b]
    BY <1>1 DEF DemoInv, Types
<1> QED
    BY <1>1, <1>2, <1>3, <1>4, CallMoves

\* entries = registry.all(): the loop has registered what server.yaml lists.
LEMMA CompareInv ==
    ASSUME DemoInv, IInv, NEW c \in Calls, Compare(c) PROVE DemoInv'
<1> DEFINE state == IF Len(registry) < 2 THEN "refused" ELSE "entered"
<1>1. /\ phase \in {"serve", "stopping"} /\ call' = [call EXCEPT ![c] = state]
      /\ UNCHANGED <<appVars, panels, result>>
    BY DEF Compare, pool
<1>2. state = "refused" \/ Titled
    <2>1. /\ turn \in Nat /\ Len(registry) = turn
          /\ \A k \in 1..turn : registry[k].name = ModelSpecs[k].name
        BY <1>1 DEF IInv, TypeOK, Registered, Built
    <2> QED
        BY <2>1, Sides DEF Titled
<1>3. Shows(c, state, panels[c])
    BY DEF Shows
<1> HIDE DEF state
<1> QED
    BY <1>1, <1>2, <1>3, CallMoves DEF DemoInv, Types

LEMMA SubmitInv ==
    ASSUME DemoInv, NEW c \in Calls, NEW side, NEW from, NEW to, Submit(c, side, from, to),
           from \notin {"idle", "refused"}, to \in {"submit", "left"}
    PROVE  DemoInv'
<1>1. Asked(c)
    BY DEF Submit, Asked
<1>2. CASE /\ call' = [call EXCEPT ![c] = to] /\ UNCHANGED <<appVars, panels, running, result>>
    <2>1. phase # "load" /\ Titled
        BY <1>1 DEF DemoInv, Quiet, Asked
    <2>2. Shows(c, to, panels[c])
        BY DEF Shows
    <2> QED
        BY <1>2, <2>1, <2>2, CallMoves DEF DemoInv, Types
<1>3. CASE Fails(c)
    BY <1>1, <1>3, FailsInv
<1> QED
    BY <1>2, <1>3 DEF Submit

LEMMA LeftReadyInv == ASSUME DemoInv, NEW c \in Calls, LeftReady(c) PROVE DemoInv'
<1> DEFINE shown == <<Panel(Left, Prediction(Left, c))>>
<1>1. /\ call[c] = "left" /\ result[<<c, Left>>] = Prediction(Left, c)
    BY DEF LeftReady, Done, DemoInv, Futures
<1>2. /\ call' = [call EXCEPT ![c] = "right"] /\ panels' = [panels EXCEPT ![c] = shown]
      /\ UNCHANGED <<appVars, result>>
    BY <1>1 DEF LeftReady, Moves, pool
<1>3. phase # "load" /\ Titled /\ Shows(c, "right", shown)
    BY <1>1 DEF DemoInv, Quiet, Asked, Shows
<1> HIDE DEF shown
<1>4. /\ DOMAIN panels' = Calls /\ panels'[c] = shown
      /\ \A b \in Calls \ {c} : panels'[b] = panels[b]
    BY <1>2 DEF DemoInv, Types
<1> QED
    BY <1>2, <1>3, <1>4, CallMoves

LEMMA AppendToOne ==
    ASSUME NEW x, NEW y PROVE Append(<<x>>, y) = <<x, y>>
<1> DEFINE T == {x, y}
<1>1. <<x>> \in Seq(T) /\ Len(<<x>>) = 1 /\ y \in T
    OBVIOUS
<1>2. /\ Append(<<x>>, y) \in Seq(T) /\ Len(Append(<<x>>, y)) = 2
      /\ Append(<<x>>, y)[1] = x /\ Append(<<x>>, y)[2] = y
    BY <1>1
<1>3. \A s \in Seq(T) : Len(s) = 2 /\ s[1] = x /\ s[2] = y => s = <<x, y>>
    <2> HIDE DEF T
    <2> SUFFICES ASSUME NEW s \in Seq(T), Len(s) = 2, s[1] = x, s[2] = y
                 PROVE  s = <<x, y>>
        OBVIOUS
    <2> QED
        OBVIOUS
<1> HIDE DEF T
<1> QED
    BY <1>2, <1>3

LEMMA RightReadyInv == ASSUME DemoInv, NEW c \in Calls, RightReady(c) PROVE DemoInv'
<1> DEFINE left  == Panel(Left, Prediction(Left, c))
           right == Panel(Right, Prediction(Right, c))
           shown == <<left, right>>
<1>1. /\ call[c] = "right" /\ result[<<c, Right>>] = Prediction(Right, c)
    BY DEF RightReady, Done, DemoInv, Futures
<1>2. panels[c] = <<left>>
    BY <1>1 DEF DemoInv, Shows
<1>3. Append(panels[c], Panel(Right, result[<<c, Right>>])) = shown
    <2> HIDE DEF left, right
    <2>1. Append(<<left>>, right) = <<left, right>>
        BY AppendToOne
    <2>2. Panel(Right, result[<<c, Right>>]) = right
        BY <1>1 DEF right
    <2> QED
        BY <1>2, <2>1, <2>2
<1>4. /\ call' = [call EXCEPT ![c] = "answered"] /\ panels' = [panels EXCEPT ![c] = shown]
      /\ UNCHANGED <<appVars, result>>
    BY <1>3 DEF RightReady, Moves, pool
<1>5. phase # "load" /\ Titled /\ Shows(c, "answered", shown)
    BY <1>1 DEF DemoInv, Quiet, Asked, Shows
<1> HIDE DEF shown
<1>6. /\ DOMAIN panels' = Calls /\ panels'[c] = shown
      /\ \A b \in Calls \ {c} : panels'[b] = panels[b]
    BY <1>4 DEF DemoInv, Types
<1> QED
    BY <1>4, <1>5, <1>6, CallMoves

LEMMA CallInv ==
    ASSUME DemoInv, IInv, NEW c \in Calls, Compare(c) \/ Resume(c) \/ Expire(c)
    PROVE  DemoInv'
<1>1. CASE Compare(c)
    BY <1>1, CompareInv
<1>2. CASE SubmitLeft(c) \/ SubmitRight(c)
    BY <1>2, SubmitInv DEF SubmitLeft, SubmitRight
<1>3. CASE LeftReady(c) \/ RightReady(c)
    BY <1>3, LeftReadyInv, RightReadyInv
<1>4. CASE Raised(c) \/ Expire(c)
    <2>1. Asked(c) /\ Fails(c)
        BY <1>4 DEF Raised, Expire, Awaits, Asked
    <2> QED
        BY <2>1, FailsInv
<1> QED
    BY <1>1, <1>2, <1>3, <1>4 DEF Resume

LEMMA DemoNextInv == DemoInv /\ IInv /\ [DemoNext]_vars => DemoInv'
<1> SUFFICES ASSUME DemoInv, IInv, [DemoNext]_vars PROVE DemoInv'
    OBVIOUS
<1>1. CASE Run /\ UNCHANGED demoVars
    BY <1>1, RunInv
<1>2. CASE LastExit
    BY <1>2, LastExitInv
<1>3. CASE \E c \in Calls : Compare(c) \/ Resume(c) \/ Expire(c)
    BY <1>3, CallInv
<1>4. CASE TakeJob
    BY <1>4, TakeJobInv
<1>5. CASE Work
    BY <1>5, WorkInv
<1>6. CASE Close \/ UNCHANGED vars
    BY <1>6, AppInv DEF Close, vars, appVars, demoVars, given
<1> QED
    BY <1>1, <1>2, <1>3, <1>4, <1>5, <1>6 DEF DemoNext

\* The invariant that carries the theorem below: the demo's steps keep it
\* because the application keeps its own.
THEOREM DemoInvariant == DemoSpec => []DemoInv
<1>1. DemoSpec => []IInv
    BY DemoImplementsApplication, AppInvariant, PTL
<1> QED
    BY <1>1, DemoInitInv, DemoNextInv, PTL DEF DemoSpec

\* compare() shows the two predictions of the call's own text under the names
\* that server.yaml gives the first two models, each by the model it is titled
\* with, or an error under both: never one panel of each.
THEOREM PanelsAreRight == DemoSpec => []PanelsMatch
<1>1. DemoInv => PanelsMatch
    <2> SUFFICES ASSUME DemoInv, NEW c \in Calls, call[c] = "answered"
                 PROVE  panels[c] \in {Panels(Error, Error),
                            Panels(<<ModelSpecs[Left].name, c>>, <<ModelSpecs[Right].name, c>>)}
        BY DEF PanelsMatch
    <2>1. Titled /\ Shows(c, "answered", panels[c])
        BY DEF DemoInv, Asked
    <2> QED
        BY <2>1 DEF Titled, Shows, Panel, Prediction, Panels
<1> QED
    BY <1>1, DemoInvariant, PTL
=============================================================================
