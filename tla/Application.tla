---------------------------- MODULE Application ----------------------------
(***************************************************************************)
(* server/app.py: the life of the process.  Its lifespan loads the models  *)
(* of server.yaml one after the other (engine/model_runner.py), starts a   *)
(* batcher for each, registers them (server/registry.py), starts the       *)
(* controller of the default model, and at the end stops what it started.  *)
(* Nothing in the loading suspends, so no other task runs meanwhile; of a  *)
(* batcher there are its task and the thread that runs its session, which  *)
(* a cancel does not stop.                                                 *)
(***************************************************************************)
EXTENDS Naturals, Sequences

CONSTANTS
    Configs,    \* the server.yaml and model directories there are
    Builds      \* the execution providers a build of onnxruntime may have

Backends   == {"onnxruntime-cpu", "onnxruntime-cuda", "onnxruntime-coreml",
               "onnxruntime-tensorrt"}
Providers  == {"CPU", "CUDA", "CoreML", "Tensorrt"}
None       == "none"     \* no model is called so
Name       ==            \* what a model may be called
    {"default"} \cup UNION {{c.specs[k].name : k \in DOMAIN c.specs} : c \in Configs}
ModelSpec  == [name : Name, backend : STRING,
               fault : {"none", "files", "run"}]  \* unreadable; cannot run

\* Every build of onnxruntime has the CPU provider.
ASSUME ApplicationAssumption ==
    /\ \A c \in Configs :
          /\ c.form \in {"models", "model", "neither"}
          /\ c.specs \in Seq(ModelSpec)
          /\ c.form = "model" => Len(c.specs) = 1
          /\ \A k \in DOMAIN c.specs : c.specs[k].name # None
          /\ {c.batching, c.controller, c.warmup} \subseteq BOOLEAN
    /\ \A b \in Builds : "CPU" \in b /\ b \subseteq Providers

VARIABLES
    config, available,  \* what the process was started with
    loads,              \* the providers whose libraries a session can load
    turn,               \* of the loop over the models: those gone through
    phase,              \* "load", "serve", "stopping", "down", "failed", "exited"
    registry,           \* ModelRegistry._entries, in the order registered
    default,            \* ModelRegistry._default
    batchers,           \* started_batchers: the task, and its worker thread
    controller          \* the controller's task

appVars == <<config, available, loads, turn, phase, registry, default, batchers,
             controller>>
given  == <<config, available, loads>>
models == <<registry, default>>
loop   == <<given, turn, models>>

Init ==
    /\ config \in Configs /\ available \in Builds
    /\ loads \in SUBSET available /\ "CPU" \in loads
    /\ turn = 0 /\ phase = "load"
    /\ registry = <<>> /\ default = None
    /\ batchers = <<>>
    /\ controller = "none"

-----------------------------------------------------------------------------
(* ModelRunner.                                                            *)

ProvidersByBackend ==
    [b \in Backends |->
        CASE b = "onnxruntime-cpu"      -> <<"CPU">>
          [] b = "onnxruntime-cuda"     -> <<"CUDA", "CPU">>
          [] b = "onnxruntime-coreml"   -> <<"CoreML", "CPU">>
          [] b = "onnxruntime-tensorrt" -> <<"Tensorrt", "CUDA", "CPU">>]

Tag(provider) ==
    CASE provider = "CPU"      -> "onnxruntime-cpu"
      [] provider = "CUDA"     -> "onnxruntime-cuda"
      [] provider = "CoreML"   -> "onnxruntime-coreml"
      [] provider = "Tensorrt" -> "onnxruntime-tensorrt"

\* The first of a chain that is in a set of providers.
First(chain, set) ==
    chain[CHOOSE k \in DOMAIN chain :
             /\ chain[k] \in set
             /\ \A j \in 1..(k - 1) : chain[j] \notin set]

\* resolve_providers: tagged by the first of the chain that the build has.
Resolve(backend) == Tag(First(ProvidersByBackend[backend], available))

\* The session is given those the build has, and comes up without the ones
\* that do not load: the first it has left.
OpenedOn(backend) == First(ProvidersByBackend[backend], loads)

\* Mutant: the files are opened at the first run.
CannotLoadLazy(spec) ==
    \/ spec.backend \notin Backends
    \/ spec.fault = "run" /\ config.warmup

\* The constructor raises, or the warm-up run does.
CannotLoad(spec) ==
    \/ spec.backend \notin Backends
    \/ spec.fault = "files"
    \/ spec.fault = "run" /\ config.warmup

-----------------------------------------------------------------------------
(* The lifespan up to its yield.                                           *)

ModelSpecs ==
    IF config.form = "model" /\ config.specs[1].name = ""
    THEN <<[config.specs[1] EXCEPT !.name = "default"]>> ELSE config.specs

Names == {registry[k].name : k \in DOMAIN registry}

Default == CHOOSE k \in DOMAIN registry : registry[k].name = default

\* Mutant: a name registered twice takes the place of the first.
RegisterOver(e) ==
    /\ registry' = IF e.name \in Names
                   THEN [k \in DOMAIN registry |->
                           IF registry[k].name = e.name THEN e ELSE registry[k]]
                   ELSE Append(registry, e)
    /\ default' = IF turn = 0 \/ default = None THEN e.name ELSE default
    /\ UNCHANGED phase

\* ModelRegistry.register raises on a name it has.
Register(e) ==
    \/ /\ e.name \in Names
       /\ phase' = "failed"
       /\ UNCHANGED models
    \/ /\ e.name \notin Names
       /\ registry' = Append(registry, e)
       /\ default' = IF turn = 0 \/ default = None THEN e.name ELSE default
       /\ UNCHANGED phase

Loading == phase = "load" /\ config.form # "neither" /\ turn < Len(ModelSpecs)

\* One turn of the loop: runner, warm-up, batcher, registration.
LoadModel ==
    LET spec == ModelSpecs[turn + 1]
    IN  /\ Loading /\ ~CannotLoad(spec)
        /\ turn' = turn + 1
        /\ batchers' = IF config.batching
                       THEN Append(batchers, [task |-> "up", busy |-> FALSE])
                       ELSE batchers
        /\ Register([name |-> spec.name, session |-> OpenedOn(spec.backend),
                     backend |-> Resolve(spec.backend), fault |-> spec.fault,
                     batching |-> config.batching])
        /\ UNCHANGED <<given, controller>>

\* An exception before the yield: the finally clause is not reached, and the
\* batchers started so far are left.
LoadFails ==
    /\ \/ Loading /\ CannotLoad(ModelSpecs[turn + 1])
       \/ phase = "load" /\ config.form = "neither"
    /\ phase' = "failed"
    /\ UNCHANGED <<loop, batchers, controller>>

HasController ==
    config.controller /\ default # None /\ registry[Default].batching

\* The controller is started and app.state filled in, then the yield.
Ready ==
    /\ phase = "load" /\ config.form # "neither"
    /\ turn = Len(ModelSpecs)
    /\ controller' = IF HasController THEN "up" ELSE "none"
    /\ phase' = "serve"
    /\ UNCHANGED <<loop, batchers>>

-----------------------------------------------------------------------------
(* Serving.                                                                *)

\* GET /health
Health ==
    IF default = None THEN [status |-> 503]
    ELSE [status |-> 200, backend |-> registry[Default].backend]

\* asyncio.to_thread(self.runner.run, texts).  A cancel that the collector's
\* wait_for swallowed leaves the task one more batch (DynamicBatcher).
RunBatch(b) ==
    /\ phase \in {"serve", "stopping"}
    /\ ~batchers[b].busy
    /\ \/ batchers[b].task = "up"
          /\ batchers' = [batchers EXCEPT ![b].busy = TRUE]
       \/ batchers[b].task = "stopping"
          /\ batchers' = [batchers EXCEPT ![b] = [task |-> "last", busy |-> TRUE]]
    /\ UNCHANGED <<loop, phase, controller>>

RunEnds(b) ==
    /\ batchers[b].busy
    /\ batchers' = [batchers EXCEPT ![b].busy = FALSE]
    /\ UNCHANGED <<loop, phase, controller>>

-----------------------------------------------------------------------------
(* The finally clause.                                                     *)

\* The call of stop() on batcher b, or the end of the loop over them.
StopFrom(b, list) ==
    IF b > Len(list) THEN batchers' = list /\ phase' = "down"
    ELSE batchers' = [list EXCEPT ![b].task = "stopping"] /\ phase' = "stopping"

\* Mutant: the batchers are stopped first, and the controller is forgotten.
ShutdownBatchersOnly ==
    /\ phase = "serve"
    /\ StopFrom(1, batchers)
    /\ UNCHANGED <<loop, controller>>

\* The server resumes the lifespan: controller.stop(), or the first batcher's.
Shutdown ==
    /\ phase = "serve"
    /\ \/ controller = "up" /\ controller' = "stopping"
          /\ phase' = "stopping" /\ UNCHANGED batchers
       \/ controller = "none" /\ UNCHANGED controller /\ StopFrom(1, batchers)
    /\ UNCHANGED <<loop>>

ControllerStopped ==
    /\ controller = "stopping"
    /\ controller' = "down"
    /\ StopFrom(1, batchers)
    /\ UNCHANGED <<loop>>

\* Mutant: stop() joins the worker thread of a task it has cancelled.
BatcherStoppedIdle(b) ==
    /\ batchers[b].task = "last"
    /\ StopFrom(b + 1, [batchers EXCEPT ![b].task = "down"])
    /\ UNCHANGED <<loop, controller>>

\* stop() resumes: the cancel has ended the task at its await, the thread it
\* awaited goes on; or the last batch is over and the flag has ended the loop.
BatcherStopped(b) ==
    /\ \/ batchers[b].task = "stopping"
       \/ batchers[b].task = "last" /\ ~batchers[b].busy
    /\ StopFrom(b + 1, [batchers EXCEPT ![b].task = "down"])
    /\ UNCHANGED <<loop, controller>>

\* The process: asyncio ends what tasks are left and joins the threads.
Exit ==
    /\ phase \in {"down", "failed"}
    /\ \A b \in DOMAIN batchers : ~batchers[b].busy
    /\ phase' = "exited"
    /\ batchers' = [b \in DOMAIN batchers |-> [batchers[b] EXCEPT !.task = "down"]]
    /\ UNCHANGED <<loop, controller>>

Run ==
    \/ LoadModel \/ LoadFails \/ Ready
    \/ \E b \in DOMAIN batchers : RunBatch(b) \/ RunEnds(b) \/ BatcherStopped(b)
    \/ Shutdown \/ ControllerStopped

Next == Run \/ Exit

Spec == Init /\ [][Next]_appVars

-----------------------------------------------------------------------------
(* Properties.                                                             *)

Tasks == {"up", "stopping", "last", "down"}

\* Type invariant.
TypeOK ==
    /\ config \in Configs /\ available \in Builds
    /\ "CPU" \in loads /\ loads \subseteq available
    /\ turn \in Nat
    /\ phase \in {"load", "serve", "stopping", "down", "failed", "exited"}
    /\ registry \in Seq([name : Name, session : Providers,
                         backend : Backends, fault : {"none", "run"},
                         batching : BOOLEAN])
    /\ default \in Names \cup {None}
    /\ batchers \in Seq([task : Tasks, busy : BOOLEAN])
    /\ controller \in {"none", "up", "stopping", "down"}

\* A server that answers has every model of its configuration under its own
\* name with a batcher of its own, and after a warm-up none that cannot run;
\* it has a controller exactly if one is asked for and there is a batcher to
\* tune; /health speaks of the first model, and where every provider of the
\* build loads, each tag is that of the provider its session runs on first.
ServesTheConfig ==
    phase = "serve" =>
        /\ [k \in DOMAIN registry |-> registry[k].name]
               = [k \in DOMAIN ModelSpecs |-> ModelSpecs[k].name]
        /\ [k \in DOMAIN batchers |-> batchers[k].task]
               = IF config.batching THEN [k \in DOMAIN ModelSpecs |-> "up"] ELSE <<>>
        /\ config.warmup => \A k \in DOMAIN registry : registry[k].fault = "none"
        /\ controller = IF config.controller /\ config.batching /\ ModelSpecs # <<>>
                        THEN "up" ELSE "none"
        /\ ModelSpecs # <<>> => Health = [status |-> 200, backend |-> registry[1].backend]
        /\ loads = available =>
              \A k \in DOMAIN registry : registry[k].backend = Tag(registry[k].session)

\* "/health and response.model_backend show the truth, not the wish"
\* (model_runner.py:82-83): the tag is that of the provider the session runs
\* on first.  Where a provider the build has does not load, it is not.
BackendIsTruth ==
    phase = "serve" =>
        \A k \in DOMAIN registry : registry[k].backend = Tag(registry[k].session)

\* The controller never tunes a batcher that is not running, and when the
\* lifespan is over no task of its is left: also with batches in flight, whose
\* threads go on, and with a cancel that was swallowed.
OrderlyShutdown ==
    /\ controller \in {"up", "stopping"} =>
           registry[Default].batching /\ batchers[Default].task = "up"
    /\ phase = "down" =>
           /\ controller \in {"none", "down"}
           /\ \A b \in DOMAIN batchers : batchers[b].task = "down"
=============================================================================
