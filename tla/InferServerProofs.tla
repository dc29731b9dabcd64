-------------------------- MODULE InferServerProofs --------------------------
(***************************************************************************)
(* Proofs about InferServer for any requests, models, bodies and bounds.   *)
(* The invariant has a part for the shared cache, whose entries are sound, *)
(* and one for each request: at every turn of its loops, what it has found *)
(* is right and what it has not found is on its list of misses, whatever   *)
(* other requests and the reset have done to the cache in between.         *)
(***************************************************************************)
EXTENDS InferServer, DataLemmas

Entry == [key : Metadata \X Texts, value : Models \X Texts]

\* A cache within its capacity, one entry per key, of entries in E.
CacheOver(E) ==
    {c \in Seq(Entry) : /\ Len(c) <= Capacity
                        /\ \A i, j \in 1..Len(c) : c[i].key = c[j].key => i = j
                        /\ \A i \in 1..Len(c) : c[i] \in E}

\* A request all whose misses came back.
Fills(r) == phase[r] = "fill" \/ Answered(r, 200)

\* What the cache may hold: what an entry of that metadata made of that text,
\* for a request all whose misses came back.
Sound ==
    {e \in Entry : /\ e.key = Key(e.value[1], e.value[2])
                   /\ \E r \in Requests : /\ Fills(r)
                                         /\ model[r] = e.value[1]
                                         /\ e.value[2] \in ToSet(inputs[r])}

Phases   == {"idle", "lookup", "submit", "gather", "fill", "done"}
Statuses == {0, 200, 429, 500, 504}
Seen     == {"idle", "waiting", "ok", "error", "timeout", "overflow"}
Verdicts == {"none", "pending", "result", "error", "cancelled"}
Some     == (Models \X Texts) \cup {None}

Types ==
    /\ config \in Configs
    /\ running = None \/ running \in Requests \X Nat
    /\ model \in [Requests -> Models \cup {None}]
    /\ inputs \in [Requests -> Bodies \cup {<<>>}]
    /\ phase \in [Requests -> Phases]
    /\ preds \in [Requests -> Seq(Some)]
    /\ missing \in [Requests -> Seq(Places)]
    /\ status \in [Requests -> Statuses]
    /\ hit \in [Requests -> BOOLEAN]
    /\ seen \in [Items -> Seen]
    /\ verdict \in [Items -> Verdicts]
    /\ line \in [Models -> Seq(Items)]

\* A request that has come in: its model, and an answer under way whose
\* predictions so far are of the texts at their positions.
Begun(r) ==
    /\ model[r] \in Models /\ inputs[r] \in Bodies
    /\ Len(preds[r]) = Len(inputs[r])
    /\ missing[r] \in Seq(1..Len(inputs[r]))
    /\ \A j \in 1..Len(inputs[r]) :
          preds[r][j] = None \/ preds[r][j] \in Equivalent(model[r], inputs[r][j])

\* Every position before place p has its prediction, or is the n-th miss or a
\* later one.
Covered(r, p, n) ==
    \A j \in 1..Len(inputs[r]) : j < p =>
        \/ preds[r][j] # None
        \/ \E k \in 1..Len(missing[r]) : k >= n /\ missing[r][k] = j

\* What request r is at, at each turn n of its loops.
Looping(r) ==
    /\ phase[r] \in {"lookup", "fill"} => \E n \in Nat : running = <<r, n>>
    /\ \A n \in Nat : running = <<r, n>> =>
          /\ phase[r] = "lookup" => Covered(r, n, 1)
          /\ phase[r] = "fill"   => Covered(r, Len(inputs[r]) + 1, n)

\* No item of r has been submitted.
Idle(r) == \A j \in Places : seen[<<r, j>>] = "idle"

\* Every miss of r has been submitted.
Submitted(r) == \A k \in 1..Len(missing[r]) : seen[<<r, missing[r][k]>>] # "idle"

\* An answer 200 is complete, and says that all was cached if no item of it
\* has been submitted.
Complete(r) ==
    /\ \A j \in 1..Len(inputs[r]) : preds[r][j] # None
    /\ config.batching =>
          (hit[r] <=> \A j \in 1..Len(inputs[r]) : seen[<<r, j>>] = "idle")

Local(r) ==
    /\ Looping(r)
    /\ hit[r] => phase[r] = "done"
    /\ phase[r] = "idle" => missing[r] = <<>>
    /\ phase[r] \in {"idle", "lookup", "submit"} => Idle(r)
    /\ phase[r] \in {"lookup", "submit", "gather", "fill"} => Begun(r)
    /\ phase[r] \in {"submit", "gather"} =>
          config.batching /\ Covered(r, Len(inputs[r]) + 1, 1)
    /\ phase[r] \in {"submit", "gather", "fill"} => missing[r] # <<>>
    /\ phase[r] = "gather" => Submitted(r)
    /\ phase[r] = "fill" /\ config.batching => Submitted(r)
    /\ Answered(r, 200) => Begun(r) /\ Complete(r)

IInv == Types /\ cache \in CacheOver(Sound) /\ \A r \in Requests : Local(r)

-----------------------------------------------------------------------------
(* The cache.                                                              *)

LEMMA CacheFacts ==
    ASSUME NEW E, NEW c \in CacheOver(E)
    PROVE  /\ c \in Seq(Entry) /\ Len(c) \in Nat /\ DOMAIN c = 1..Len(c)
           /\ Len(c) <= Capacity /\ Capacity \in Nat \ {0}
           /\ \A i, j \in 1..Len(c) : c[i].key = c[j].key => i = j
           /\ \A i \in 1..Len(c) : c[i] \in E /\ c[i] \in Entry
<1>1. c \in Seq(Entry) /\ Len(c) <= Capacity
    BY DEF CacheOver
<1>2. \A i, j \in 1..Len(c) : c[i].key = c[j].key => i = j
    BY DEF CacheOver
<1>3. \A i \in 1..Len(c) : c[i] \in E
    BY DEF CacheOver
<1> QED
    BY <1>1, <1>2, <1>3, LenProperties, ServerAssumption

LEMMA Found ==
    ASSUME NEW E, NEW c \in CacheOver(E), NEW k, Lru!Has(c, k)
    PROVE  Lru!Pos(c, k) \in 1..Len(c) /\ c[Lru!Pos(c, k)].key = k
BY CacheFacts DEF Lru!Has, Lru!Pos

\* A hit moves an entry and keeps the others.
LEMMA TouchCache ==
    ASSUME NEW E, NEW c \in CacheOver(E), NEW k, Lru!Has(c, k)
    PROVE  Lru!Touch(c, k) \in CacheOver(E)
<1> DEFINE p == Lru!Pos(c, k)
           n == Len(c)
           t == Append(RemoveAt(c, p), c[p])
<1>1. p \in 1..n
    BY Found
<1>2. Lru!Touch(c, k) = t
    BY DEF Lru!Touch, Lru!RemoveAt, RemoveAt
<1>3. c \in Seq(Entry) /\ n \in Nat /\ n <= Capacity /\ c[p] \in Entry
    BY <1>1, CacheFacts
<1> HIDE DEF p
<1>4. /\ t \in Seq(Entry) /\ Len(t) = n /\ t[n] = c[p]
      /\ \A j \in 1..(n - 1) : t[j] = IF j < p THEN c[j] ELSE c[j + 1]
    BY <1>1, <1>3, Moved
<1> HIDE DEF t
<1> DEFINE from(j) == IF j = n THEN p ELSE IF j < p THEN j ELSE j + 1
<1>5. \A j \in 1..n : from(j) \in 1..n /\ t[j] = c[from(j)]
    BY <1>1, <1>3, <1>4
<1>6. \A i, j \in 1..n : from(i) = from(j) => i = j
    BY <1>1, <1>3
<1> HIDE DEF from
<1>7. ASSUME NEW i \in 1..n, NEW j \in 1..n, t[i].key = t[j].key PROVE i = j
    <2>1. c[from(i)].key = c[from(j)].key /\ from(i) \in 1..n /\ from(j) \in 1..n
        BY <1>5, <1>7
    <2>2. from(i) = from(j)
        BY <2>1, CacheFacts
    <2> QED
        BY <1>6, <2>2
<1>8. \A i \in 1..n : t[i] \in E
    BY <1>5, CacheFacts
<1> QED
    BY <1>2, <1>3, <1>4, <1>7, <1>8 DEF CacheOver

\* A new entry drives out the one of its key, and then the oldest ones.
LEMMA InsertCache ==
    ASSUME NEW E, NEW c \in CacheOver(E), NEW k, NEW v,
           [key |-> k, value |-> v] \in E, [key |-> k, value |-> v] \in Entry
    PROVE  Lru!Insert(c, k, v) \in CacheOver(E)
<1> DEFINE e == [key |-> k, value |-> v]
           d == IF Lru!Has(c, k) THEN RemoveAt(c, Lru!Pos(c, k)) ELSE c
           a == Append(d, e)
           n == Smaller(Len(a), Capacity)
           t == SubSeq(a, Len(a) - n + 1, Len(a))
<1>1. /\ d \in Seq(Entry)
      /\ \A i, j \in 1..Len(d) : d[i].key = d[j].key => i = j
      /\ \A i \in 1..Len(d) : d[i] \in E /\ d[i].key # k
    <2>1. CASE ~Lru!Has(c, k)
        BY <2>1, CacheFacts DEF Lru!Has
    <2>2. CASE Lru!Has(c, k)
        <3> DEFINE p == Lru!Pos(c, k)
                   r == RemoveAt(c, p)
                   from(j) == IF j < p THEN j ELSE j + 1
        <3>1. p \in 1..Len(c) /\ c[p].key = k
            BY <2>2, Found
        <3>2. c \in Seq(Entry) /\ Len(c) \in Nat
            BY CacheFacts
        <3> HIDE DEF p
        <3>3. /\ r \in Seq(Entry) /\ Len(r) = Len(c) - 1
              /\ \A j \in 1..(Len(c) - 1) : r[j] = IF j < p THEN c[j] ELSE c[j + 1]
            BY <3>1, <3>2, Removed
        <3> HIDE DEF r
        <3>4. \A j \in 1..Len(r) : from(j) \in 1..Len(c) /\ from(j) # p /\ r[j] = c[from(j)]
            BY <3>1, <3>2, <3>3
        <3>5. \A i, j \in 1..Len(r) : from(i) = from(j) => i = j
            BY <3>1, <3>2, <3>3
        <3> HIDE DEF from
        <3>6. \A i, j \in 1..Len(r) : r[i].key = r[j].key => i = j
            BY <3>4, <3>5, CacheFacts
        <3>7. \A i \in 1..Len(r) : r[i] \in E /\ r[i].key # k
            BY <3>1, <3>4, CacheFacts
        <3>8. d = r
            BY <2>2 DEF r, p
        <3> QED
            BY <3>3, <3>6, <3>7, <3>8
    <2> QED
        BY <2>1, <2>2
<1> HIDE DEF d
<1>2. /\ a \in Seq(Entry) /\ Len(d) \in Nat /\ Len(a) = Len(d) + 1 /\ a[Len(a)] = e
      /\ \A j \in 1..Len(d) : a[j] = d[j]
    BY <1>1, Appended, LenProperties
<1>3. \A i, j \in 1..Len(a) : a[i].key = a[j].key => i = j
    BY <1>1, <1>2
<1>4. \A i \in 1..Len(a) : a[i] \in E
    BY <1>1, <1>2
<1>5. Capacity \in Nat
    BY ServerAssumption
<1>6. Lru!Insert(c, k, v) = t
    <2>1. Lru!Insert(c, k, v) = Lru!Trim(a)
        BY DEF Lru!Insert, d, Lru!RemoveAt, RemoveAt
    <2>2. Lru!Trim(a) = SubSeq(a, Len(a) - Min({Len(a), Capacity}) + 1, Len(a))
        BY DEF Lru!Trim, Lru!Min, Min
    <2> HIDE DEF a
    <2>3. Len(a) \in Nat
        BY <1>2
    <2>4. Min({Len(a), Capacity}) = n
        BY <1>5, <2>3, MinIsSmaller
    <2> QED
        BY <2>1, <2>2, <2>4
<1> HIDE DEF a
<1>7. n \in 0..Len(a) /\ n <= Capacity
    BY <1>2, <1>5 DEF Smaller
<1> HIDE DEF n
<1>8. t \in Seq(Entry) /\ Len(t) = n /\ \A j \in 1..n : t[j] = a[Len(a) - n + j]
    BY <1>2, <1>7, Ending
<1> HIDE DEF t
<1>9. \A j \in 1..n : Len(a) - n + j \in 1..Len(a)
    BY <1>2, <1>7
<1>10. \A i, j \in 1..n : t[i].key = t[j].key => i = j
    <2> SUFFICES ASSUME NEW i \in 1..n, NEW j \in 1..n, t[i].key = t[j].key PROVE i = j
        OBVIOUS
    <2>1. PICK x \in 1..Len(a), y \in 1..Len(a) :
              x = Len(a) - n + i /\ y = Len(a) - n + j
        BY <1>9
    <2>2. x = y
        BY <1>3, <1>8, <2>1
    <2>3. Len(a) \in Nat /\ n \in Nat /\ i \in Nat /\ j \in Nat
        BY <1>2, <1>7
    <2> QED
        BY <2>1, <2>2, <2>3
<1>11. \A j \in 1..n : t[j] \in E
    BY <1>4, <1>8, <1>9
<1> QED
    BY <1>6, <1>7, <1>8, <1>10, <1>11 DEF CacheOver

-----------------------------------------------------------------------------
(* Bodies, answers and the step of one request.                            *)

LEMMA BodyFacts ==
    ASSUME NEW b \in Bodies
    PROVE  /\ b \in Seq(Texts) /\ Len(b) \in Nat /\ Len(b) >= 1 /\ DOMAIN b = 1..Len(b)
           /\ 1..Len(b) \subseteq Places /\ \A j \in 1..Len(b) : b[j] \in Texts
           /\ \A j \in 1..Len(b) : b[j] \in ToSet(b)
<1>1. b \in Seq(Texts) /\ b # <<>>
    BY ServerAssumption
<1>2. DOMAIN b \subseteq Places
    BY DEF Places
<1>3. \A j \in DOMAIN b : b[j] \in ToSet(b)
    BY DEF ToSet
<1> QED
    BY <1>1, <1>2, <1>3, LenProperties

LEMMA Updated ==
    ASSUME NEW S, NEW s \in Seq(S), NEW n \in 1..Len(s), NEW v \in S
    PROVE  LET t == [s EXCEPT ![n] = v]
           IN  /\ t \in Seq(S) /\ Len(t) = Len(s) /\ t[n] = v
               /\ \A j \in 1..Len(s) : j # n => t[j] = s[j]
BY LenProperties

LEMMA PairIsSome == \A v \in Models \X Texts : v # None
<1>1. \A x, y : <<x, y>> # <<>>
    OBVIOUS
<1> QED
    BY <1>1 DEF None

\* The metadata of every entry, and the keys made of it.
LEMMA KeyFacts ==
    ASSUME Types, NEW m \in Models, NEW t \in Texts
    PROVE  /\ Key(m, t) \in Metadata \X Texts /\ Prediction(m, t) \in Models \X Texts
           /\ Prediction(m, t) \in Equivalent(m, t)
<1>1. config.metadata[m] \in Metadata
    BY ServerAssumption DEF Types
<1> QED
    BY <1>1 DEF Key, Prediction, Equivalent

\* Nothing of request r changes.
Settled(r) ==
    /\ phase'[r] = phase[r] /\ status'[r] = status[r] /\ preds'[r] = preds[r]
    /\ missing'[r] = missing[r] /\ hit'[r] = hit[r]
    /\ model'[r] = model[r] /\ inputs'[r] = inputs[r]

\* A request in whose loop no step was taken is as it was.
LEMMA LocalKept ==
    ASSUME Types, NEW r \in Requests, Local(r), Settled(r), UNCHANGED config,
           \A j \in Places : seen'[<<r, j>>] = "idle" <=> seen[<<r, j>>] = "idle",
           running' = running \/ phase[r] \notin {"lookup", "fill"}
    PROVE  Local(r)'
<1>1. Begun(r) => 1..Len(inputs[r]) \subseteq Places
    BY BodyFacts DEF Begun
<1>2. Begun(r) => Begun(r)'
    BY DEF Settled, Begun, Equivalent, Prediction
<1>3. Looping(r)'
    BY DEF Settled, Local, Looping, Covered
<1>4. Begun(r) /\ Submitted(r) => Submitted(r)'
    <2> SUFFICES ASSUME Begun(r), NEW k \in 1..Len(missing[r]) PROVE missing[r][k] \in Places
        BY DEF Settled, Submitted
    <2>1. missing[r] \in Seq(1..Len(inputs[r]))
        BY DEF Begun
    <2>2. missing[r][k] \in 1..Len(inputs[r])
        BY <2>1
    <2> QED
        BY <1>1, <2>2
<1>5. Begun(r) /\ Complete(r) => Complete(r)'
    BY <1>1 DEF Settled, Complete
<1>6. Idle(r) => Idle(r)'
    BY DEF Idle
<1>7. Covered(r, Len(inputs[r]) + 1, 1) => Covered(r, Len(inputs[r]) + 1, 1)'
    BY DEF Settled, Covered
<1> QED
    BY <1>1, <1>2, <1>3, <1>4, <1>5, <1>6, <1>7 DEF Settled, Local, Answered

\* What is sound stays so.
LEMMA SoundKept ==
    ASSUME UNCHANGED config,
           \A r \in Requests : Fills(r) =>
               Fills(r)' /\ model'[r] = model[r] /\ inputs'[r] = inputs[r]
    PROVE  Sound \subseteq Sound'
<1> SUFFICES ASSUME NEW e \in Sound PROVE e \in Sound'
    OBVIOUS
<1>1. PICK r \in Requests : /\ Fills(r) /\ model[r] = e.value[1]
                            /\ e.value[2] \in ToSet(inputs[r])
    BY DEF Sound
<1>2. Fills(r)' /\ model'[r] = e.value[1] /\ e.value[2] \in ToSet(inputs'[r])
    BY <1>1
<1>3. e \in Entry /\ e.key = Key(e.value[1], e.value[2])'
    BY DEF Sound, Key
<1> QED
    BY <1>2, <1>3 DEF Sound, Entry

LEMMA CacheKept ==
    ASSUME Sound \subseteq Sound', NEW c \in CacheOver(Sound)
    PROVE  c \in CacheOver(Sound')
BY DEF CacheOver

\* A step of one request: what has to be shown of it.
LEMMA StepInv ==
    ASSUME IInv, Types', NEW r \in Requests, UNCHANGED config,
           running = None \/ (\E n \in Nat : running = <<r, n>>),
           \A s \in Requests : s # r => Settled(s),
           \A i \in Items : i[1] # r => seen'[i] = seen[i],
           Fills(r) => Fills(r)' /\ model'[r] = model[r] /\ inputs'[r] = inputs[r],
           cache' \in CacheOver(Sound), Local(r)'
    PROVE  IInv'
<1>1. Sound \subseteq Sound'
    <2>1. \A s \in Requests : Fills(s) =>
              Fills(s)' /\ model'[s] = model[s] /\ inputs'[s] = inputs[s]
        BY DEF Fills, Answered, Settled
    <2> QED
        BY <2>1, SoundKept
<1>2. cache' \in CacheOver(Sound')
    BY <1>1, CacheKept
<1>3. ASSUME NEW s \in Requests, s # r PROVE Local(s)'
    <2>1. phase[s] \notin {"lookup", "fill"}
        <3>1. \A n \in Nat : running # <<s, n>>
            BY <1>3 DEF None
        <3> QED
            BY <3>1 DEF IInv, Local, Looping
    <2>2. \A j \in Places : seen'[<<s, j>>] = seen[<<s, j>>]
        BY <1>3 DEF Items
    <2> QED
        BY <1>3, <2>1, <2>2, LocalKept DEF IInv
<1> QED
    BY <1>2, <1>3 DEF IInv

\* Reply and Goes change one request.
LEMMA Moves ==
    ASSUME Types, NEW r \in Requests,
           NEW code \in {200, 429, 500, 504}, NEW to \in Phases,
           Reply(r, code) \/ (Goes(r, to) /\ UNCHANGED status)
    PROVE  /\ phase' \in [Requests -> Phases] /\ status' \in [Requests -> Statuses]
           /\ \A s \in Requests : s # r => phase'[s] = phase[s] /\ status'[s] = status[s]
           /\ Reply(r, code) => phase'[r] = "done" /\ status'[r] = code
           /\ Goes(r, to) => phase'[r] = to
<1>1. phase \in [Requests -> Phases] /\ status \in [Requests -> Statuses]
    BY DEF Types
<1>2. code \in Statuses /\ "done" \in Phases
    BY DEF Statuses, Phases
<1>3. CASE Reply(r, code)
    BY <1>1, <1>2, <1>3 DEF Reply, Goes
<1>4. CASE Goes(r, to) /\ UNCHANGED status
    <2>1. phase' = [phase EXCEPT ![r] = to] /\ status' = status
        BY <1>4 DEF Goes
    <2>2. ~Reply(r, code) \/ to = "done"
        BY <1>1, <2>1 DEF Reply, Goes
    <2> QED
        BY <1>1, <1>2, <2>1, <2>2 DEF Reply
<1> QED
    BY <1>3, <1>4

-----------------------------------------------------------------------------
(* run_inference up to its await.                                          *)

LEMMA ArriveInv ==
    ASSUME IInv, NEW r \in Requests, NEW m \in Models, NEW b \in Bodies, Arrive(r, m, b)
    PROVE  IInv'
<1> DEFINE nones == [j \in DOMAIN b |-> None]
           all == [j \in DOMAIN b |-> j]
<1>1. /\ running = None /\ phase[r] = "idle"
      /\ model' = [model EXCEPT ![r] = m] /\ inputs' = [inputs EXCEPT ![r] = b]
      /\ preds' = [preds EXCEPT ![r] = nones]
      /\ \/ config.cache /\ running' = <<r, 1>> /\ UNCHANGED missing
         \/ /\ ~config.cache /\ running' = <<r, Len(b) + 1>>
            /\ missing' = [missing EXCEPT ![r] = all]
      /\ phase' = [phase EXCEPT ![r] = "lookup"]
      /\ UNCHANGED <<config, status, hit, seen, verdict, line, cache>>
    BY DEF Arrive, Turn, Goes, items
<1>2. Types /\ Local(r)
    BY DEF IInv
<1>3. /\ Len(b) \in Nat /\ DOMAIN b = 1..Len(b) /\ 1..Len(b) \subseteq Places
    BY BodyFacts
<1>4. /\ nones \in Seq(Some) /\ Len(nones) = Len(b) /\ \A j \in 1..Len(b) : nones[j] = None
      /\ all \in Seq(1..Len(b)) /\ all \in Seq(Places) /\ Len(all) = Len(b)
      /\ \A j \in 1..Len(b) : all[j] = j
    BY <1>3 DEF Some
<1> HIDE DEF nones, all
<1>5. Types'
    <2>1. running' \in Requests \X Nat
        BY <1>1, <1>3
    <2>2. /\ model' \in [Requests -> Models \cup {None}]
          /\ inputs' \in [Requests -> Bodies \cup {<<>>}]
        BY <1>1, <1>2 DEF Types
    <2>3. /\ preds' \in [Requests -> Seq(Some)] /\ missing' \in [Requests -> Seq(Places)]
        BY <1>1, <1>2, <1>4 DEF Types
    <2>4. phase' \in [Requests -> Phases]
        BY <1>1, <1>2 DEF Types, Phases
    <2> QED
        BY <1>1, <1>2, <2>1, <2>2, <2>3, <2>4 DEF Types
<1>6. \A s \in Requests : s # r => Settled(s)
    BY <1>1, <1>2 DEF Types, Settled
<1>7. ~Fills(r)
    <2>1. ~Answered(r, 200)
        BY <1>1 DEF Answered
    <2> QED
        BY <1>1, <2>1 DEF Fills
<1>8. /\ phase'[r] = "lookup" /\ inputs'[r] = b /\ model'[r] = m /\ preds'[r] = nones
      /\ hit'[r] = hit[r] /\ ~hit[r]
    BY <1>1, <1>2 DEF Types, Local
<1>9. Begun(r)' /\ Looping(r)'
    <2>1. config.cache => missing'[r] = <<>>
        BY <1>1, <1>2 DEF Local
    <2>2. ~config.cache => missing'[r] = all
        BY <1>1, <1>2 DEF Types
    <2>3. missing'[r] \in Seq(1..Len(b))
        <3>1. <<>> \in Seq(1..Len(b))
            OBVIOUS
        <3> QED
            BY <1>4, <2>1, <2>2, <3>1
    <2>4. Begun(r)'
        BY <1>4, <1>8, <2>3 DEF Begun
    <2>5. ASSUME NEW n \in Nat, running' = <<r, n>> PROVE Covered(r, n, 1)'
        <3>1. CASE config.cache
            BY <1>1, <1>3, <1>8, <2>5, <3>1 DEF Covered
        <3>2. CASE ~config.cache
            BY <1>3, <1>4, <1>8, <2>2, <3>2 DEF Covered
        <3> QED
            BY <3>1, <3>2
    <2>6. \E n \in Nat : running' = <<r, n>>
        BY <1>1, <1>3
    <2> QED
        BY <1>8, <2>4, <2>5, <2>6 DEF Looping
<1>10. Local(r)'
    <2>1. Idle(r)'
        BY <1>1, <1>2 DEF Local, Idle
    <2> QED
        BY <1>8, <1>9, <2>1 DEF Local, Answered
<1>11. cache' \in CacheOver(Sound) /\ UNCHANGED <<config, seen>>
    BY <1>1 DEF IInv
<1> QED
    BY <1>1, <1>5, <1>6, <1>7, <1>10, <1>11, StepInv

\* What a turn of the look-up finds, and what it leaves as it is.
LEMMA Looking ==
    ASSUME IInv, NEW r \in Requests, NEW n, LookingUp(r, n)
    PROVE  /\ phase[r] = "lookup" /\ running = <<r, n>> /\ running' = <<r, n + 1>>
           /\ n \in 1..Len(inputs[r]) /\ Begun(r) /\ Covered(r, n, 1) /\ Idle(r) /\ ~hit[r]
           /\ Key(model[r], inputs[r][n]) = <<config.metadata[model[r]], inputs[r][n]>>
           /\ UNCHANGED <<config, model, inputs, phase, status, hit, seen, verdict, line>>
           /\ ~Fills(r)
<1>1. /\ phase[r] = "lookup" /\ running = <<r, n>> /\ running' = <<r, n + 1>>
      /\ n \in DOMAIN inputs[r]
      /\ UNCHANGED <<config, model, inputs, phase, status, hit, seen, verdict, line>>
    BY DEF LookingUp, Turn, given, items
<1>2. Begun(r) /\ Idle(r) /\ ~hit[r] /\ Looping(r)
    BY <1>1 DEF IInv, Local
<1>3. n \in 1..Len(inputs[r]) /\ n \in Nat
    BY <1>1, <1>2, BodyFacts DEF Begun
<1>4. Covered(r, n, 1)
    BY <1>1, <1>2, <1>3 DEF Looping
<1> QED
    BY <1>1, <1>2, <1>3, <1>4 DEF Key, Fills, Answered

LEMMA GetHitInv ==
    ASSUME IInv, NEW r \in Requests, NEW n, GetHit(r, n)
    PROVE  IInv'
<1> DEFINE k == Key(model[r], inputs[r][n])
           v == Lru!ValueOf(cache, k)
           t == [preds[r] EXCEPT ![n] = v]
           b == inputs[r]
<1>1. /\ LookingUp(r, n) /\ Lru!Has(cache, k) /\ cache' = Lru!Touch(cache, k)
      /\ preds' = [preds EXCEPT ![r] = t]
      /\ UNCHANGED missing
    BY DEF GetHit
<1>2. /\ phase[r] = "lookup" /\ running = <<r, n>> /\ running' = <<r, n + 1>>
      /\ n \in 1..Len(b) /\ Begun(r) /\ Covered(r, n, 1) /\ Idle(r) /\ ~hit[r]
      /\ k = <<config.metadata[model[r]], b[n]>>
      /\ UNCHANGED <<config, model, inputs, phase, status, hit, seen, verdict, line>>
      /\ ~Fills(r)
    BY <1>1, Looking
<1>3. Types /\ cache \in CacheOver(Sound)
    BY DEF IInv
<1>4. v \in Models \X Texts /\ v \in Equivalent(model[r], b[n])
    <2>1. Lru!Pos(cache, k) \in 1..Len(cache) /\ cache[Lru!Pos(cache, k)].key = k
        BY <1>1, <1>3, Found
    <2>2. PICK e \in Sound : e.key = k /\ e.value = v
        BY <1>3, <2>1, CacheFacts DEF Lru!ValueOf
    <2>3. PICK o \in Models, x \in Texts : v = <<o, x>>
        BY <2>2 DEF Sound, Entry
    <2>4. k = <<config.metadata[o], x>>
        BY <2>2, <2>3 DEF Sound, Key
    <2> HIDE DEF k, v, b
    <2>5. config.metadata[o] = config.metadata[model[r]] /\ x = b[n]
        BY <1>2, <2>4
    <2> QED
        BY <2>3, <2>5 DEF Equivalent, Prediction
<1>5. preds[r] \in Seq(Some) /\ Len(preds[r]) = Len(b) /\ Len(b) \in Nat
    BY <1>2, <1>3, BodyFacts DEF Types, Begun
<1>6. /\ t \in Seq(Some) /\ Len(t) = Len(b) /\ t[n] = v
      /\ \A j \in 1..Len(b) : j # n => t[j] = preds[r][j]
    BY <1>2, <1>4, <1>5, Updated DEF Some
<1>7. cache' \in CacheOver(Sound)
    BY <1>1, <1>3, TouchCache
<1>8. preds'[r] = t
    BY <1>1, <1>3 DEF Types
<1> HIDE DEF t, k, v, b
<1>9. Types'
    <2>1. running' \in Requests \X Nat
        BY <1>2, <1>5
    <2>2. preds' \in [Requests -> Seq(Some)]
        BY <1>1, <1>3, <1>6 DEF Types
    <2> QED
        BY <1>1, <1>2, <1>3, <2>1, <2>2 DEF Types
<1>10. \A s \in Requests : s # r => Settled(s)
    BY <1>1, <1>2, <1>3 DEF Types, Settled
<1>11. Begun(r)'
    <2>1. \A j \in 1..Len(b) : t[j] = None \/ t[j] \in Equivalent(model[r], b[j])
        BY <1>2, <1>4, <1>6 DEF Begun, b
    <2> QED
        BY <1>1, <1>2, <1>6, <1>8, <2>1 DEF Begun, Equivalent, Prediction, b
<1>12. Looping(r)'
    <2>1. Covered(r, n + 1, 1)'
        <3>1. ASSUME NEW j \in 1..Len(b), j < n + 1
              PROVE  \/ t[j] # None
                     \/ \E i \in 1..Len(missing[r]) : i >= 1 /\ missing[r][i] = j
            <4>1. CASE j = n
                BY <1>4, <1>6, <4>1, PairIsSome
            <4>2. CASE j # n
                <5>1. j < n
                    BY <1>2, <1>5, <3>1, <4>2
                <5>2. t[j] = preds[r][j]
                    BY <1>6, <4>2
                <5> QED
                    BY <1>2, <5>1, <5>2 DEF Covered, b
            <4> QED
                BY <4>1, <4>2
        <3>2. inputs'[r] = b /\ missing' = missing
            BY <1>1, <1>2 DEF b
        <3> QED
            BY <1>8, <3>1, <3>2 DEF Covered
    <2>2. n + 1 \in Nat
        BY <1>2, <1>5
    <2>3. \A x \in Nat : running' = <<r, x>> => x = n + 1
        BY <1>2
    <2>4. phase'[r] = "lookup"
        BY <1>2
    <2> QED
        BY <1>2, <2>1, <2>2, <2>3, <2>4 DEF Looping
<1>13. Local(r)'
    <2>1. phase'[r] = "lookup" /\ ~hit'[r] /\ Idle(r)'
        BY <1>2 DEF Idle
    <2> QED
        BY <1>11, <1>12, <2>1 DEF Local, Answered
<1> QED
    BY <1>2, <1>5, <1>7, <1>9, <1>10, <1>13, StepInv

LEMMA GetMissInv ==
    ASSUME IInv, NEW r \in Requests, NEW n, GetMiss(r, n)
    PROVE  IInv'
<1> DEFINE b == inputs[r]
           t == Append(missing[r], n)
<1>1. /\ LookingUp(r, n)
      /\ missing' = [missing EXCEPT ![r] = t]
      /\ UNCHANGED <<preds, cache>>
    BY DEF GetMiss
<1>2. /\ phase[r] = "lookup" /\ running = <<r, n>> /\ running' = <<r, n + 1>>
      /\ n \in 1..Len(b) /\ Begun(r) /\ Covered(r, n, 1) /\ Idle(r) /\ ~hit[r]
      /\ UNCHANGED <<config, model, inputs, phase, status, hit, seen, verdict, line>>
      /\ ~Fills(r)
    BY <1>1, Looking
<1>3. Types /\ cache' \in CacheOver(Sound)
    BY <1>1 DEF IInv
<1>4. missing[r] \in Seq(1..Len(b)) /\ Len(b) \in Nat /\ 1..Len(b) \subseteq Places
    BY <1>2, BodyFacts DEF Begun
<1>5. /\ t \in Seq(1..Len(b)) /\ t \in Seq(Places)
      /\ Len(missing[r]) \in Nat /\ Len(t) = Len(missing[r]) + 1 /\ t[Len(t)] = n
      /\ \A k \in 1..Len(missing[r]) : t[k] = missing[r][k]
    <2>1. PICK S : S = 1..Len(b)
        OBVIOUS
    <2>2. missing[r] \in Seq(S) /\ n \in S /\ S \subseteq Places
        BY <1>2, <1>4, <2>1
    <2> HIDE DEF b
    <2>3. /\ t \in Seq(S) /\ Len(t) = Len(missing[r]) + 1 /\ t[Len(missing[r]) + 1] = n
          /\ \A k \in 1..Len(missing[r]) : t[k] = missing[r][k]
        BY <2>2, Appended
    <2>4. t \in Seq(Places)
        BY <2>2, <2>3
    <2> QED
        BY <1>4, <2>1, <2>2, <2>3, <2>4, LenProperties
<1>6. missing'[r] = t
    BY <1>1, <1>3 DEF Types
<1> HIDE DEF t
<1>7. Types'
    <2>1. running' \in Requests \X Nat
        BY <1>2, <1>4
    <2>2. missing' \in [Requests -> Seq(Places)]
        BY <1>1, <1>3, <1>5 DEF Types
    <2> QED
        BY <1>1, <1>2, <1>3, <2>1, <2>2 DEF Types
<1>8. \A s \in Requests : s # r => Settled(s)
    BY <1>1, <1>2, <1>3 DEF Types, Settled
<1>9. Begun(r)'
    BY <1>1, <1>2, <1>5, <1>6 DEF Begun, Equivalent, Prediction
<1>10. Looping(r)'
    <2>1. Covered(r, n + 1, 1)'
        <3>1. ASSUME NEW j \in 1..Len(b), j < n + 1
              PROVE  \/ preds[r][j] # None
                     \/ \E k \in 1..Len(t) : k >= 1 /\ t[k] = j
            <4>1. CASE j = n
                <5>1. Len(t) \in 1..Len(t) /\ Len(t) >= 1
                    BY <1>5
                <5> QED
                    BY <1>5, <4>1, <5>1
            <4>2. CASE j # n
                <5>1. j < n
                    BY <1>2, <1>4, <3>1, <4>2
                <5>2. \/ preds[r][j] # None
                      \/ \E k \in 1..Len(missing[r]) : k >= 1 /\ missing[r][k] = j
                    BY <1>2, <5>1 DEF Covered
                <5>3. Len(missing[r]) \in Nat /\ Len(t) = Len(missing[r]) + 1
                    BY <1>5
                <5>4. \A k \in 1..Len(missing[r]) : k \in 1..Len(t)
                    BY <5>3
                <5>5. \A k \in 1..Len(missing[r]) : t[k] = missing[r][k]
                    BY <1>5
                <5> QED
                    BY <5>2, <5>4, <5>5
            <4> QED
                BY <4>1, <4>2
        <3>2. inputs'[r] = b /\ preds' = preds
            BY <1>1, <1>2
        <3> QED
            BY <1>6, <3>1, <3>2 DEF Covered
    <2>2. n + 1 \in Nat
        BY <1>2, <1>4
    <2>3. \A x \in Nat : running' = <<r, x>> => x = n + 1
        BY <1>2
    <2>4. phase'[r] = "lookup"
        BY <1>2
    <2> QED
        BY <1>2, <2>1, <2>2, <2>3, <2>4 DEF Looping
<1>11. Local(r)'
    <2>1. phase'[r] = "lookup" /\ ~hit'[r] /\ Idle(r)'
        BY <1>2 DEF Idle
    <2> QED
        BY <1>9, <1>10, <2>1 DEF Local, Answered
<1> QED
    BY <1>2, <1>3, <1>4, <1>7, <1>8, <1>11, StepInv

\* The end of the look-up, with its three ways to go on.
LEMMA LookedUpInv ==
    ASSUME IInv, NEW r \in Requests, AllCached(r) \/ FanOut(r) \/ RunDirect(r)
    PROVE  IInv'
<1> DEFINE b == inputs[r]
<1>1. /\ phase[r] = "lookup" /\ running = <<r, Len(b) + 1>>
      /\ UNCHANGED <<config, model, inputs, preds, missing, seen, verdict, line,
                     cache>>
    BY DEF AllCached, FanOut, RunDirect, LookedUp, given, items
<1>2. \/ /\ missing[r] = <<>> /\ running' = None /\ Reply(r, 200)
         /\ hit' = [hit EXCEPT ![r] = TRUE]
      \/ /\ missing[r] # <<>> /\ config.batching /\ running' = None
         /\ Goes(r, "submit") /\ UNCHANGED <<status, hit>>
      \/ /\ missing[r] # <<>> /\ ~config.batching /\ running' = <<r, 1>>
         /\ Goes(r, "fill") /\ UNCHANGED <<status, hit>>
      \/ running' = None /\ Reply(r, 500) /\ UNCHANGED hit
    BY DEF AllCached, FanOut, RunDirect, Turn
<1>3. Types /\ cache' \in CacheOver(Sound) /\ Local(r)
    BY <1>1 DEF IInv
<1>4. Begun(r) /\ Idle(r) /\ ~hit[r] /\ Looping(r)
    BY <1>1, <1>3 DEF Local
<1>5. Len(b) \in Nat /\ 1..Len(b) \subseteq Places
    BY <1>4, BodyFacts DEF Begun
<1>6. Covered(r, Len(b) + 1, 1)
    BY <1>1, <1>4, <1>5 DEF Looping
<1>7. /\ phase' \in [Requests -> Phases] /\ status' \in [Requests -> Statuses]
      /\ \A s \in Requests : s # r => phase'[s] = phase[s] /\ status'[s] = status[s]
    BY <1>2, <1>3, Moves DEF Phases
<1>8. Types'
    <2>1. hit' \in [Requests -> BOOLEAN]
        BY <1>2, <1>3 DEF Types
    <2>2. running' = None \/ running' \in Requests \X Nat
        BY <1>2
    <2> QED
        BY <1>1, <1>3, <1>7, <2>1, <2>2 DEF Types
<1>9. \A s \in Requests : s # r => Settled(s)
    <2>1. \A s \in Requests : s # r => hit'[s] = hit[s]
        BY <1>2, <1>3 DEF Types
    <2> QED
        BY <1>1, <1>7, <2>1 DEF Settled
<1>10. ~Fills(r) /\ Begun(r)' /\ Idle(r)' /\ Covered(r, Len(b) + 1, 1)'
    BY <1>1, <1>4, <1>6 DEF Fills, Answered, Begun, Equivalent, Prediction, Idle, Covered
<1>11. Local(r)'
    <2>1. CASE /\ missing[r] = <<>> /\ running' = None /\ Reply(r, 200)
               /\ hit' = [hit EXCEPT ![r] = TRUE]
        <3>1. phase'[r] = "done" /\ status'[r] = 200 /\ hit'[r]
            BY <1>3, <2>1, Moves DEF Types, Phases
        <3>2. \A j \in 1..Len(b) : preds[r][j] # None
            BY <1>5, <1>6, <2>1 DEF Covered
        <3>3. Complete(r)'
            BY <1>1, <1>4, <1>5, <3>1, <3>2 DEF Complete, Idle
        <3> QED
            BY <1>10, <3>1, <3>3 DEF Local, Looping, Answered
    <2>2. CASE /\ missing[r] # <<>> /\ config.batching /\ running' = None
               /\ Goes(r, "submit") /\ UNCHANGED <<status, hit>>
        <3>1. phase'[r] = "submit" /\ ~hit'[r]
            BY <1>3, <1>4, <2>2, Moves DEF Phases
        <3> QED
            BY <1>1, <1>10, <2>2, <3>1 DEF Local, Looping, Answered
    <2>3. CASE /\ missing[r] # <<>> /\ ~config.batching /\ running' = <<r, 1>>
               /\ Goes(r, "fill") /\ UNCHANGED <<status, hit>>
        <3>1. phase'[r] = "fill" /\ ~hit'[r]
            BY <1>3, <1>4, <2>3, Moves DEF Phases
        <3>2. \A x \in Nat : running' = <<r, x>> => x = 1
            BY <2>3
        <3>3. Looping(r)'
            BY <1>1, <1>10, <2>3, <3>1, <3>2 DEF Looping
        <3> QED
            BY <1>1, <1>10, <2>3, <3>1, <3>3 DEF Local, Answered
    <2>4. CASE running' = None /\ Reply(r, 500) /\ UNCHANGED hit
        <3>1. phase'[r] = "done" /\ status'[r] = 500
            BY <1>3, <2>4, Moves DEF Phases
        <3> QED
            BY <3>1 DEF Local, Looping, Answered
    <2> QED
        BY <1>2, <2>1, <2>2, <2>3, <2>4
<1>12. \E n \in Nat : running = <<r, n>>
    BY <1>1, <1>5
<1> QED
    BY <1>1, <1>3, <1>8, <1>9, <1>10, <1>11, <1>12, StepInv

-----------------------------------------------------------------------------
(* The tasks of a request, and the batchers.                               *)

LEMMA SubmitMissesInv ==
    ASSUME IInv, NEW r \in Requests, SubmitMisses(r)
    PROVE  IInv'
<1> DEFINE m == model[r]
           open == missing[r]
<1>1. /\ running = None /\ phase[r] = "submit"
      /\ UNCHANGED <<config, model, inputs, running, preds, missing, hit,
                     cache>>
    BY DEF SubmitMisses, given, answer
<1>2. PICK n \in 0..Len(open) :
          LET taken == {<<r, open[j]>> : j \in 1..n}
          IN  /\ line' = [line EXCEPT ![m] = @ \o [j \in 1..n |-> <<r, open[j]>>]]
              /\ verdict' = [i \in DOMAIN verdict |->
                               IF i \in taken THEN "pending" ELSE verdict[i]]
              /\ seen' = [i \in DOMAIN seen |->
                            IF i \in taken THEN "waiting"
                            ELSE IF i \in {<<r, open[j]>> : j \in n + 1..Len(open)}
                            THEN "overflow" ELSE seen[i]]
              /\ IF n < Len(open) THEN Reply(r, 429)
                 ELSE Goes(r, "gather") /\ UNCHANGED status
    BY DEF SubmitMisses
<1> DEFINE taken == {<<r, open[j]>> : j \in 1..n}
           late == {<<r, open[j]>> : j \in n + 1..Len(open)}
           more == [j \in 1..n |-> <<r, open[j]>>]
<1>3. Types /\ Local(r) /\ cache' \in CacheOver(Sound)
    BY <1>1 DEF IInv
<1>4. /\ Begun(r) /\ ~hit[r] /\ open # <<>> /\ config.batching
      /\ Covered(r, Len(inputs[r]) + 1, 1)
    BY <1>1, <1>3 DEF Local
<1>5. /\ m \in Models /\ Len(open) \in Nat
      /\ \A j \in 1..Len(open) : <<r, open[j]>> \in Items
    <2>1. 1..Len(inputs[r]) \subseteq Places /\ open \in Seq(1..Len(inputs[r]))
        BY <1>4, BodyFacts DEF Begun
    <2> QED
        BY <1>4, <2>1, LenProperties DEF Begun, Items
<1> HIDE DEF m, open
<1>6. more \in Seq(Items)
    BY <1>5
<1>7. /\ line' = [line EXCEPT ![m] = @ \o more]
      /\ verdict' = [i \in DOMAIN verdict |->
                       IF i \in taken THEN "pending" ELSE verdict[i]]
      /\ seen' = [i \in DOMAIN seen |->
                    IF i \in taken THEN "waiting"
                    ELSE IF i \in late THEN "overflow" ELSE seen[i]]
    BY <1>2
<1>8. \/ n < Len(open) /\ Reply(r, 429)
      \/ n = Len(open) /\ Goes(r, "gather") /\ UNCHANGED status
    BY <1>2, <1>5
<1>9. \A i \in Items : i[1] # r => i \notin taken /\ i \notin late
    OBVIOUS
<1> HIDE DEF taken, late, more
<1>10. /\ phase' \in [Requests -> Phases] /\ status' \in [Requests -> Statuses]
       /\ \A s \in Requests : s # r => phase'[s] = phase[s] /\ status'[s] = status[s]
    BY <1>3, <1>8, Moves DEF Phases
<1>11. Types'
    <2>1. line' \in [Models -> Seq(Items)]
        <3>1. line[m] \o more \in Seq(Items)
            BY <1>3, <1>5, <1>6, ConcatProperties DEF Types
        <3> QED
            BY <1>3, <1>7, <3>1 DEF Types
    <2>2. verdict' \in [Items -> Verdicts] /\ seen' \in [Items -> Seen]
        BY <1>3, <1>7 DEF Types, Verdicts, Seen
    <2> QED
        BY <1>1, <1>3, <1>10, <2>1, <2>2 DEF Types
<1>12. \A s \in Requests : s # r => Settled(s)
    BY <1>1, <1>10 DEF Settled
<1>13. \A i \in Items : i[1] # r => seen'[i] = seen[i]
    BY <1>3, <1>7, <1>9 DEF Types
<1>14. ~Fills(r) /\ ~hit'[r]
    BY <1>1, <1>4 DEF Fills, Answered
<1>15. Local(r)'
    <2>1. CASE n < Len(open) /\ Reply(r, 429)
        <3>1. phase'[r] = "done" /\ status'[r] = 429
            BY <1>3, <2>1, Moves DEF Phases
        <3> QED
            BY <3>1 DEF Local, Looping, Answered
    <2>2. CASE n = Len(open) /\ Goes(r, "gather") /\ UNCHANGED status
        <3>1. phase'[r] = "gather"
            BY <1>3, <2>2, Moves DEF Phases
        <3>2. Submitted(r)'
            <4>1. ASSUME NEW k \in 1..Len(open) PROVE seen'[<<r, open[k]>>] = "waiting"
                BY <1>3, <1>5, <1>7, <2>2, <4>1 DEF taken, Types
            <4> QED
                BY <1>1, <4>1 DEF Submitted, open
        <3>3. Begun(r)' /\ Covered(r, Len(inputs[r]) + 1, 1)'
            BY <1>1, <1>4 DEF Begun, Equivalent, Prediction, Covered
        <3> QED
            BY <1>1, <1>4, <1>14, <3>1, <3>2, <3>3 DEF Local, Looping, Answered, open
    <2> QED
        BY <1>8, <2>1, <2>2
<1> QED
    BY <1>1, <1>3, <1>11, <1>12, <1>13, <1>14, <1>15, StepInv

\* Steps that change no request: Sound stays, and every Local.
LEMMA AsideInv ==
    ASSUME IInv, Types', cache' \in CacheOver(Sound),
           UNCHANGED <<config, running, model, inputs, phase, preds, missing,
                       status, hit, seen>>
    PROVE  IInv'
<1>1. Sound \subseteq Sound'
    BY SoundKept DEF Fills, Answered
<1>2. ASSUME NEW r \in Requests PROVE Local(r)'
    <2>1. Settled(r)
        BY DEF Settled
    <2> QED
        BY <2>1, LocalKept DEF IInv
<1> QED
    BY <1>1, <1>2, CacheKept DEF IInv

LEMMA ServeInv ==
    ASSUME IInv, NEW m \in Models, NEW k \in Sizes(m),
           NEW v \in {"result", "error"}, Serve(m, k, v)
    PROVE  IInv'
<1> DEFINE served == {line[m][j] : j \in 1..k}
<1>1. /\ line' = [line EXCEPT ![m] = SubSeq(@, k + 1, Len(@))]
      /\ verdict' = [i \in DOMAIN verdict |->
                       IF i \in served /\ verdict[i] = "pending" THEN v ELSE verdict[i]]
      /\ UNCHANGED <<config, running, model, inputs, phase, preds, missing, status,
                     hit, seen, cache>>
    BY DEF Serve, given, answer
<1> HIDE DEF served
<1>2. Types /\ cache' \in CacheOver(Sound)
    BY <1>1 DEF IInv
<1>3. line' \in [Models -> Seq(Items)]
    <2>1. k \in Nat
        BY DEF Sizes
    <2>2. line[m] \in Seq(Items) /\ Len(line[m]) \in Nat
        BY <1>2, LenProperties DEF Types
    <2>3. \A j \in (k + 1)..Len(line[m]) : line[m][j] \in Items
        BY <2>1, <2>2, LenProperties
    <2>4. SubSeq(line[m], k + 1, Len(line[m])) \in Seq(Items)
        BY <2>1, <2>2, <2>3, SubSeqProperties
    <2> QED
        BY <1>1, <1>2, <2>4 DEF Types
<1>4. verdict' \in [Items -> Verdicts]
    BY <1>1, <1>2 DEF Types, Verdicts
<1>5. Types'
    BY <1>1, <1>2, <1>3, <1>4 DEF Types
<1> QED
    BY <1>1, <1>2, <1>5, AsideInv

LEMMA ResetCacheInv ==
    ASSUME IInv, ResetCache
    PROVE  IInv'
<1>1. /\ cache' = <<>>
      /\ UNCHANGED <<config, running, model, inputs, phase, preds, missing, status,
                     hit, seen, verdict, line>>
    BY DEF ResetCache, given, answer, items
<1>2. Types'
    BY <1>1 DEF IInv, Types
<1>3. cache' \in CacheOver(Sound)
    <2>1. <<>> \in Seq(Entry) /\ Len(<<>>) = 0
        OBVIOUS
    <2> QED
        BY <1>1, <2>1, ServerAssumption DEF CacheOver
<1> QED
    BY <1>1, <1>2, <1>3, AsideInv

LEMMA TaskInv ==
    ASSUME IInv, NEW r \in Requests, NEW i \in ItemsOf(r),
           TaskOk(i) \/ TaskFail(i) \/ Timeout(i)
    PROVE  IInv'
<1>1. i[1] = r /\ i = <<r, i[2]>>
    BY DEF ItemsOf
<1>2. PICK x \in {"ok", "error", "timeout"} :
          seen[i] = "waiting" /\ seen' = [seen EXCEPT ![i] = x]
    BY DEF TaskOk, TaskFail, Timeout, Ends
<1>3. /\ running = None
      /\ UNCHANGED <<config, model, inputs, running, preds, missing, hit, line,
                     cache>>
      /\ \/ UNCHANGED verdict
         \/ verdict' = [verdict EXCEPT ![i] = IF @ = "pending" THEN "cancelled" ELSE @]
      /\ \/ UNCHANGED <<phase, status>>
         \/ phase[r] = "gather" /\ Reply(r, 500)
         \/ phase[r] = "gather" /\ Reply(r, 504)
    BY <1>1 DEF TaskOk, TaskFail, Timeout, Ends, FailOnce, given, answer
<1>4. Types /\ cache' \in CacheOver(Sound) /\ Local(r)
    BY <1>3 DEF IInv
<1>5. \A y \in Items : seen'[y] = "idle" <=> seen[y] = "idle"
    BY <1>2, <1>4 DEF Types
<1>6. /\ phase' \in [Requests -> Phases] /\ status' \in [Requests -> Statuses]
      /\ \A s \in Requests : s # r => phase'[s] = phase[s] /\ status'[s] = status[s]
    <2>1. CASE UNCHANGED <<phase, status>>
        BY <1>4, <2>1 DEF Types
    <2>2. CASE Reply(r, 500) \/ Reply(r, 504)
        BY <1>4, <2>2, Moves DEF Phases
    <2> QED
        BY <1>3, <2>1, <2>2
<1>7. Types'
    <2>1. seen' \in [Items -> Seen]
        BY <1>2, <1>4 DEF Types, Seen
    <2>2. verdict' \in [Items -> Verdicts]
        <3>1. i \in Items => (IF verdict[i] = "pending" THEN "cancelled" ELSE verdict[i])
                                 \in Verdicts
            BY <1>4 DEF Types, Verdicts
        <3>2. CASE UNCHANGED verdict
            BY <1>4, <3>2 DEF Types
        <3>3. CASE verdict' = [verdict EXCEPT ![i] = IF @ = "pending" THEN "cancelled" ELSE @]
            BY <1>4, <3>1, <3>3 DEF Types
        <3> QED
            BY <1>3, <3>2, <3>3
    <2> QED
        BY <1>3, <1>4, <1>6, <2>1, <2>2 DEF Types
<1>8. \A s \in Requests : s # r => Settled(s)
    BY <1>3, <1>6 DEF Settled
<1>9. \A y \in Items : y[1] # r => seen'[y] = seen[y]
    BY <1>1, <1>2, <1>4 DEF Types
<1>10. CASE UNCHANGED <<phase, status>>
    <2>1. Settled(r)
        BY <1>3, <1>10 DEF Settled
    <2>2. \A j \in Places : seen'[<<r, j>>] = "idle" <=> seen[<<r, j>>] = "idle"
        BY <1>5 DEF Items
    <2>3. Local(r)'
        BY <1>3, <1>4, <2>1, <2>2, LocalKept
    <2>4. Fills(r) => Fills(r)'
        BY <1>10 DEF Fills, Answered
    <2> QED
        BY <1>3, <1>4, <1>7, <1>8, <1>9, <2>3, <2>4, StepInv
<1>11. CASE phase[r] = "gather" /\ (Reply(r, 500) \/ Reply(r, 504))
    <2>1. phase'[r] = "done" /\ status'[r] # 200
        BY <1>4, <1>11, Moves DEF Phases
    <2>2. Local(r)'
        BY <2>1 DEF Local, Looping, Answered
    <2>3. ~Fills(r)
        BY <1>11 DEF Fills, Answered
    <2> QED
        BY <1>3, <1>4, <1>7, <1>8, <1>9, <2>2, <2>3, StepInv
<1> QED
    BY <1>3, <1>10, <1>11

-----------------------------------------------------------------------------
(* run_inference after its await.                                          *)

LEMMA GatheredInv ==
    ASSUME IInv, NEW r \in Requests, Gathered(r)
    PROVE  IInv'
<1>1. /\ running = None /\ phase[r] = "gather" /\ running' = <<r, 1>> /\ Goes(r, "fill")
      /\ UNCHANGED <<config, model, inputs, preds, missing, hit, status, seen,
                     verdict, line, cache>>
    BY DEF Gathered, Turn, given, answer, items
<1>2. Types /\ cache' \in CacheOver(Sound) /\ Local(r)
    BY <1>1 DEF IInv
<1>3. /\ phase' \in [Requests -> Phases] /\ phase'[r] = "fill"
      /\ \A s \in Requests : s # r => phase'[s] = phase[s]
    BY <1>1, <1>2, Moves DEF Phases
<1>4. Types'
    BY <1>1, <1>2, <1>3 DEF Types
<1>5. \A s \in Requests : s # r => Settled(s)
    BY <1>1, <1>3 DEF Settled
<1>6. Local(r)'
    <2>1. /\ Begun(r) /\ Submitted(r) /\ Covered(r, Len(inputs[r]) + 1, 1)
          /\ missing[r] # <<>> /\ ~hit[r]
        BY <1>1, <1>2 DEF Local
    <2>2. Begun(r)' /\ Submitted(r)' /\ Covered(r, Len(inputs[r]) + 1, 1)'
        BY <1>1, <2>1 DEF Begun, Equivalent, Prediction, Submitted, Covered
    <2>3. \A x \in Nat : running' = <<r, x>> => x = 1
        BY <1>1
    <2>4. Looping(r)'
        BY <1>1, <1>3, <2>2, <2>3 DEF Looping
    <2> QED
        BY <1>1, <1>3, <2>1, <2>2, <2>4 DEF Local, Answered
<1>7. ~Fills(r)
    BY <1>1 DEF Fills, Answered
<1> QED
    BY <1>1, <1>2, <1>4, <1>5, <1>6, <1>7, StepInv

\* A prediction that a request puts is sound.
LEMMA PutSound ==
    ASSUME Types, NEW r \in Requests, Fills(r), Begun(r),
           NEW j \in 1..Len(inputs[r])
    PROVE  LET p == Prediction(model[r], inputs[r][j])
               e == [key |-> Key(model[r], inputs[r][j]), value |-> p]
           IN  e \in Sound /\ e \in Entry
<1>1. /\ model[r] \in Models /\ inputs[r][j] \in Texts /\ inputs[r][j] \in ToSet(inputs[r])
    BY BodyFacts DEF Begun
<1> DEFINE p == Prediction(model[r], inputs[r][j])
           e == [key |-> Key(model[r], inputs[r][j]), value |-> p]
<1>2. p[1] = model[r] /\ p[2] = inputs[r][j]
    BY DEF Prediction
<1>3. e \in Entry
    BY <1>1, KeyFacts DEF Entry
<1>4. e.key = Key(e.value[1], e.value[2]) /\ e.value[1] = model[r] /\ e.value[2] = inputs[r][j]
    BY <1>2
<1> HIDE DEF e, p
<1>5. e \in Sound
    BY <1>1, <1>3, <1>4 DEF Sound
<1> QED
    BY <1>3, <1>5 DEF e, p

LEMMA PutInv ==
    ASSUME IInv, NEW r \in Requests, NEW n, Put(r, n)
    PROVE  IInv'
<1> DEFINE b == inputs[r]
           q == missing[r][n]
           p == Prediction(model[r], b[q])
           t == [preds[r] EXCEPT ![q] = p]
<1>1. /\ phase[r] = "fill" /\ running = <<r, n>> /\ n \in DOMAIN missing[r]
      /\ running' = <<r, n + 1>> /\ preds' = [preds EXCEPT ![r] = t]
      /\ cache' = IF config.cache THEN Lru!Insert(cache, Key(model[r], b[q]), p)
                  ELSE cache
      /\ UNCHANGED <<config, model, inputs, phase, missing, hit, status, seen,
                     verdict, line>>
    BY DEF Put, Turn, given, items
<1>2. Types /\ cache \in CacheOver(Sound) /\ Local(r)
    BY DEF IInv
<1>3. Begun(r) /\ Looping(r) /\ missing[r] # <<>> /\ ~hit[r]
    BY <1>1, <1>2 DEF Local
<1>4. /\ missing[r] \in Seq(1..Len(b)) /\ Len(b) \in Nat /\ Len(missing[r]) \in Nat
      /\ n \in 1..Len(missing[r]) /\ q \in 1..Len(b)
    BY <1>1, <1>3, BodyFacts, LenProperties DEF Begun
<1>5. Covered(r, Len(b) + 1, n)
    BY <1>1, <1>3, <1>4 DEF Looping
<1>6. p \in Models \X Texts /\ p \in Equivalent(model[r], b[q])
    <2>1. model[r] \in Models /\ b[q] \in Texts
        BY <1>3, <1>4, BodyFacts DEF Begun
    <2> QED
        BY <1>2, <2>1, KeyFacts
<1>7. cache' \in CacheOver(Sound)
    <2> DEFINE e == [key |-> Key(model[r], b[q]), value |-> p]
    <2>1. e \in Sound /\ e \in Entry
        BY <1>1, <1>2, <1>3, <1>4, PutSound DEF Fills
    <2>2. PICK E : E = Sound
        OBVIOUS
    <2>3. Lru!Insert(cache, Key(model[r], b[q]), p) \in CacheOver(E)
        BY <1>2, <2>1, <2>2, InsertCache
    <2> QED
        BY <1>1, <1>2, <2>2, <2>3
<1>8. preds[r] \in Seq(Some) /\ Len(preds[r]) = Len(b)
    BY <1>2, <1>3 DEF Types, Begun
<1> HIDE DEF p, q
<1>9. /\ t \in Seq(Some) /\ Len(t) = Len(b) /\ t[q] = p
      /\ \A j \in 1..Len(b) : j # q => t[j] = preds[r][j]
    BY <1>4, <1>6, <1>8, Updated DEF Some
<1>10. preds'[r] = t
    BY <1>1, <1>2 DEF Types
<1> HIDE DEF t, b
<1>11. Types'
    <2>1. running' \in Requests \X Nat
        BY <1>1, <1>4
    <2>2. preds' \in [Requests -> Seq(Some)]
        BY <1>1, <1>2, <1>9 DEF Types
    <2> QED
        BY <1>1, <1>2, <2>1, <2>2 DEF Types
<1>12. \A s \in Requests : s # r => Settled(s)
    BY <1>1, <1>2 DEF Types, Settled
<1>13. Begun(r)'
    <2>1. \A j \in 1..Len(b) : t[j] = None \/ t[j] \in Equivalent(model[r], b[j])
        BY <1>3, <1>6, <1>9 DEF Begun, b
    <2> QED
        BY <1>1, <1>3, <1>9, <1>10, <2>1 DEF Begun, Equivalent, Prediction, b
<1>14. Looping(r)'
    <2>1. Covered(r, Len(b) + 1, n + 1)'
        <3>1. p # None
            BY <1>6, PairIsSome
        <3> SUFFICES ASSUME NEW j \in 1..Len(b), j # q, t[j] = None
                     PROVE  \E k \in 1..Len(missing[r]) : k >= n + 1 /\ missing[r][k] = j
            BY <1>1, <1>9, <1>10, <3>1 DEF Covered, b
        <3>2. j < Len(b) + 1 /\ preds[r][j] = None
            BY <1>4, <1>9
        <3>3. PICK k \in 1..Len(missing[r]) : k >= n /\ missing[r][k] = j
            BY <1>5, <3>2 DEF Covered, b
        <3>4. k # n
            BY <3>3 DEF q
        <3> QED
            BY <1>4, <3>3, <3>4
    <2>2. n + 1 \in Nat
        BY <1>4
    <2>3. \A x \in Nat : running' = <<r, x>> => x = n + 1
        BY <1>1
    <2>4. phase'[r] = "fill" /\ Len(inputs'[r]) = Len(b)
        BY <1>1 DEF b
    <2> QED
        BY <1>1, <2>1, <2>2, <2>3, <2>4 DEF Looping, b
<1>15. Local(r)'
    <2>1. config.batching => Submitted(r)'
        BY <1>1, <1>2 DEF Local, Submitted
    <2> QED
        BY <1>1, <1>3, <1>13, <1>14, <2>1 DEF Local, Answered
<1>16. Fills(r)'
    BY <1>1 DEF Fills
<1>17. \E x \in Nat : running = <<r, x>>
    BY <1>1, <1>4
<1> QED
    BY <1>1, <1>7, <1>11, <1>12, <1>15, <1>16, <1>17, StepInv

LEMMA FinishInv ==
    ASSUME IInv, NEW r \in Requests, Finish(r)
    PROVE  IInv'
<1> DEFINE b == inputs[r]
<1>1. /\ phase[r] = "fill" /\ running = <<r, Len(missing[r]) + 1>> /\ running' = None
      /\ Reply(r, 200)
      /\ UNCHANGED <<config, model, inputs, preds, missing, hit, seen, verdict, line,
                     cache>>
    BY DEF Finish, given, answer, items
<1>2. Types /\ cache' \in CacheOver(Sound) /\ Local(r)
    BY <1>1 DEF IInv
<1>3. Begun(r) /\ Looping(r) /\ missing[r] # <<>> /\ ~hit[r]
    BY <1>1, <1>2 DEF Local
<1>4. /\ missing[r] \in Seq(1..Len(b)) /\ Len(missing[r]) \in Nat /\ Len(b) \in Nat
      /\ Len(missing[r]) >= 1
    BY <1>3, BodyFacts, LenProperties DEF Begun
<1>5. /\ phase' \in [Requests -> Phases] /\ status' \in [Requests -> Statuses]
      /\ \A s \in Requests : s # r => phase'[s] = phase[s] /\ status'[s] = status[s]
      /\ phase'[r] = "done" /\ status'[r] = 200
    BY <1>1, <1>2, Moves DEF Phases
<1>6. Types'
    BY <1>1, <1>2, <1>5 DEF Types
<1>7. \A s \in Requests : s # r => Settled(s)
    BY <1>1, <1>5 DEF Settled
<1>8. Local(r)'
    <2>1. Covered(r, Len(b) + 1, Len(missing[r]) + 1)
        BY <1>1, <1>3, <1>4 DEF Looping
    <2>2. \A j \in 1..Len(b) : preds[r][j] # None
        <3>1. /\ \A j \in 1..Len(b) : j < Len(b) + 1
              /\ \A k \in 1..Len(missing[r]) : ~(k >= Len(missing[r]) + 1)
            BY <1>4
        <3> QED
            BY <2>1, <3>1 DEF Covered
    <2>3. config.batching => \E j \in 1..Len(b) : seen[<<r, j>>] # "idle"
        <3>1. config.batching => Submitted(r)
            BY <1>1, <1>2 DEF Local
        <3>2. missing[r][1] \in 1..Len(b) /\ 1 \in 1..Len(missing[r])
            BY <1>4
        <3> QED
            BY <3>1, <3>2 DEF Submitted
    <2>4. Complete(r)'
        BY <1>1, <1>3, <2>2, <2>3 DEF Complete
    <2>5. Begun(r)'
        BY <1>1, <1>3 DEF Begun, Equivalent, Prediction
    <2> QED
        BY <1>5, <2>4, <2>5 DEF Local, Looping, Answered
<1>9. Fills(r)' /\ \E x \in Nat : running = <<r, x>>
    BY <1>1, <1>4, <1>5 DEF Fills, Answered
<1> QED
    BY <1>1, <1>2, <1>6, <1>7, <1>8, <1>9, StepInv

-----------------------------------------------------------------------------
(* The theorems.                                                           *)

LEMMA InitInv == Init => IInv
<1> SUFFICES ASSUME Init PROVE IInv
    OBVIOUS
<1>1. Types
    <2>1. <<>> \in Seq(Some) /\ <<>> \in Seq(Items) /\ <<>> \in Seq(Places)
        OBVIOUS
    <2> QED
        BY <2>1 DEF Init, Types, Phases, Statuses, Seen, Verdicts
<1>2. cache \in CacheOver(Sound)
    <2>1. <<>> \in Seq(Entry) /\ Len(<<>>) = 0
        OBVIOUS
    <2> QED
        BY <2>1, ServerAssumption DEF Init, CacheOver
<1>3. ASSUME NEW r \in Requests PROVE Local(r)
    BY DEF Init, Local, Looping, Idle, Answered, Items
<1> QED
    BY <1>1, <1>2, <1>3 DEF IInv

LEMMA NextInv == IInv /\ [Next]_vars => IInv'
<1> SUFFICES ASSUME IInv, [Next]_vars PROVE IInv'
    OBVIOUS
<1>1. CASE UNCHANGED vars
    <2>1. UNCHANGED <<config, running, model, inputs, phase, preds, missing, status, hit,
                      seen, verdict, line, cache>>
        BY <1>1 DEF vars
    <2>2. Types'
        BY <2>1 DEF IInv, Types
    <2> QED
        BY <2>1, <2>2, AsideInv DEF IInv
<1>2. ASSUME NEW r \in Requests, NEW m \in Models, NEW b \in Bodies, Arrive(r, m, b)
      PROVE  IInv'
    BY <1>2, ArriveInv
<1>3. ASSUME NEW r \in Requests, Continue(r) PROVE IInv'
    BY <1>3, GetHitInv, GetMissInv, PutInv, LookedUpInv, FinishInv DEF Continue
<1>4. ASSUME NEW r \in Requests,
             \/ SubmitMisses(r) \/ Gathered(r)
             \/ \E i \in ItemsOf(r) : TaskOk(i) \/ TaskFail(i) \/ Timeout(i)
      PROVE  IInv'
    BY <1>4, SubmitMissesInv, GatheredInv, TaskInv
<1>5. ASSUME NEW m \in Models, NEW k \in Sizes(m), NEW v \in {"result", "error"},
             Serve(m, k, v)
      PROVE  IInv'
    BY <1>5, ServeInv
<1> QED
    BY <1>1, <1>2, <1>3, <1>4, <1>5, ResetCacheInv DEF Next

\* The cache is sound and every request is as its phase says, in every state.
THEOREM ServerInvariant == Spec => []IInv
BY InitInv, NextInv, PTL DEF Spec

LEMMA TypesFollow == IInv => TypeOK
<1> SUFFICES ASSUME IInv PROVE TypeOK
    OBVIOUS
<1>1. /\ cache \in Seq(Entry) /\ Len(cache) <= Capacity
      /\ \A i, j \in DOMAIN cache : cache[i].key = cache[j].key => i = j
    BY CacheFacts DEF IInv
<1> QED
    BY <1>1 DEF IInv, Types, TypeOK, Entry, Phases, Statuses, Seen, Verdicts, Some

\* The types hold, and the cache all models share stays within cache.max_entries,
\* with one entry per key (cache.py:64-72).
THEOREM TypeCorrect == Spec => []TypeOK
BY TypesFollow, ServerInvariant, PTL

LEMMA AlignedFollows == IInv => RepliesAligned
<1> SUFFICES ASSUME IInv, NEW r \in Requests, Answered(r, 200)
             PROVE  /\ Len(preds[r]) = Len(inputs[r])
                    /\ \A j \in DOMAIN inputs[r] :
                          preds[r][j] \in Equivalent(model[r], inputs[r][j])
    BY DEF RepliesAligned
<1>1. Begun(r) /\ Complete(r)
    BY DEF IInv, Local
<1>2. DOMAIN inputs[r] = 1..Len(inputs[r])
    BY <1>1, BodyFacts DEF Begun
<1> QED
    BY <1>1, <1>2 DEF Begun, Complete

\* An answer 200 has at every position a prediction of that text by an entry of
\* the model_id and precision asked for, whichever came from the shared cache
\* and whichever from a batch, and wherever resets fell between its cache calls.
THEOREM AnswersAligned == Spec => []RepliesAligned
BY AlignedFollows, ServerInvariant, PTL

LEMMA SoundFollows == IInv => CacheSound
<1> SUFFICES ASSUME IInv, NEW i \in DOMAIN cache
             PROVE  /\ cache[i].key = Key(cache[i].value[1], cache[i].value[2])
                    /\ \E r \in Requests : /\ phase[r] = "fill" \/ Answered(r, 200)
                                          /\ model[r] = cache[i].value[1]
                                          /\ cache[i].value[2] \in ToSet(inputs[r])
    BY DEF CacheSound
<1>1. cache[i] \in Sound
    BY CacheFacts DEF IInv
<1> QED
    BY <1>1 DEF Sound, Fills

\* The cache holds, under the metadata of an entry, only what an entry of that
\* metadata made of a text of a request whose misses all came back: one that
\* was refused, failed or timed out leaves nothing behind.
THEOREM CacheIsSound == Spec => []CacheSound
BY SoundFollows, ServerInvariant, PTL

LEMMA NoWorkFollows == IInv => HitMeansNoWork
<1> SUFFICES ASSUME IInv, config.batching, NEW r \in Requests, Answered(r, 200)
             PROVE  hit[r] <=> \A i \in ItemsOf(r) : seen[i] = "idle"
    BY DEF HitMeansNoWork
<1>1. Begun(r) /\ (hit[r] <=> \A j \in 1..Len(inputs[r]) : seen[<<r, j>>] = "idle")
    BY DEF IInv, Local, Complete
<1>2. DOMAIN inputs[r] = 1..Len(inputs[r])
    BY <1>1, BodyFacts DEF Begun
<1> QED
    BY <1>1, <1>2 DEF ItemsOf

\* cache_hit is said exactly of the answers that cost no model any work.
THEOREM HitsCostNothing == Spec => []HitMeansNoWork
BY NoWorkFollows, ServerInvariant, PTL
=============================================================================
