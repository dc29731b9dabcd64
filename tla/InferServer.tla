----------------------------- MODULE InferServer -----------------------------
(***************************************************************************)
(* server/inference.py behind the /infer routes: requests of one or more   *)
(* inputs, the prediction cache all models share, and one batcher per      *)
(* model.  The batcher is its abstract specification, BatchService, which  *)
(* DynamicBatcher is proved to implement: an item <<r, j>> is the j-th     *)
(* input of request r.  A prediction is the pair of the entry that made it *)
(* and the text it was made of, which is all that the answers depend on.   *)
(*                                                                         *)
(* Coroutines run one at a time, up to an await.  The reset of the cache   *)
(* is not one of them: it runs in a thread, and the cache's lock is taken  *)
(* call by call, so that it may fall between any two calls of a request.   *)
(* The cache's counters are left to PredictionCache and MetricsEndpoint.   *)
(***************************************************************************)
EXTENDS SequencesExt

CONSTANTS
    Requests,
    Models,        \* the registry's entries, each with a runner and a batcher
    Texts,
    Metadata,      \* the pairs of model_id and precision in metadata.json files
    Bodies,        \* the `inputs' a request may carry: non-empty sequences
    QueueMax,      \* queue.max_size of each batcher; 0 is unbounded
    MaxBatch,      \* the largest batch a batcher takes
    Capacity,      \* cache.max_entries
    Configs        \* the server.yaml there are: cache.enabled, batching.enabled
                   \* and the metadata of each entry, which two may share

ASSUME ServerAssumption ==
    /\ Bodies \subseteq Seq(Texts) \ {<<>>}
    /\ QueueMax \in Nat /\ MaxBatch \in Nat \ {0} /\ Capacity \in Nat \ {0}
    /\ Configs \subseteq [cache : BOOLEAN, batching : BOOLEAN,
                         metadata : [Models -> Metadata]]

VARIABLES
    config,         \* the one the server was started with
    running,        \* the request whose coroutine is in a loop over its inputs,
                    \* and the turn of the loop; None while it is at no call
    model, inputs,  \* of each request: its ModelEntry and its texts
    phase,          \* "idle", "lookup", "submit" (tasks made), "gather",
                    \* "fill", "done"
    preds,          \* the answer's predictions, a sequence, None where open
    missing,        \* miss_indices
    status,         \* HTTP status, 0 while there is none
    hit,            \* the answer's cache_hit
    seen,           \* what the task of each item has come to
    verdict,        \* the future of each item
    line,           \* of each model: items accepted and not served
    cache

vars == <<config, running, model, inputs, phase, preds, missing, status, hit, seen,
          verdict, line, cache>>
given     == <<config, model, inputs>>
answer    == <<preds, missing, hit>>
items     == <<seen, verdict, line>>

Lru == INSTANCE PredictionCache
         WITH Keys <- Metadata \X Texts, Values <- Models \X Texts,
              MaxLookups <- 0, store <- cache, hits <- 0, misses <- 0,
              used <- <<>>, written <- <<>>

None   == <<>>
Places == UNION {DOMAIN b : b \in Bodies}
Items  == Requests \X Places
ItemsOf(r) == {<<r, j>> : j \in DOMAIN inputs[r]}

\* cache_key: of the metadata, not of the entry.
Key(m, t) == <<config.metadata[m], t>>

\* What the runner of entry m makes of a text.
Prediction(m, t) == <<m, t>>

Init ==
    /\ config \in Configs
    /\ running = None
    /\ model = [r \in Requests |-> None]
    /\ inputs = [r \in Requests |-> <<>>]
    /\ phase = [r \in Requests |-> "idle"]
    /\ preds = [r \in Requests |-> <<>>]
    /\ missing = [r \in Requests |-> <<>>]
    /\ status = [r \in Requests |-> 0]
    /\ hit = [r \in Requests |-> FALSE]
    /\ seen = [i \in Items |-> "idle"]
    /\ verdict = [i \in Items |-> "none"]
    /\ line = [m \in Models |-> <<>>]
    /\ cache = <<>>

-----------------------------------------------------------------------------
(* run_inference up to its await.                                          *)

Turn(r, n) == running' = <<r, n>>

Goes(r, to) == phase' = [phase EXCEPT ![r] = to]

Reply(r, code) ==
    /\ status' = [status EXCEPT ![r] = code]
    /\ Goes(r, "done")

\* The request comes in; without a cache every input is a miss.
Arrive(r, m, b) ==
    /\ running = None /\ phase[r] = "idle"
    /\ model' = [model EXCEPT ![r] = m]
    /\ inputs' = [inputs EXCEPT ![r] = b]
    /\ preds' = [preds EXCEPT ![r] = [j \in DOMAIN b |-> None]]
    /\ IF config.cache THEN Turn(r, 1) /\ UNCHANGED missing
       ELSE /\ Turn(r, Len(b) + 1)
            /\ missing' = [missing EXCEPT ![r] = [j \in DOMAIN b |-> j]]
    /\ Goes(r, "lookup")
    /\ UNCHANGED <<config, status, hit, items, cache>>

LookingUp(r, n) ==
    /\ phase[r] = "lookup" /\ running = <<r, n>>
    /\ n \in DOMAIN inputs[r]
    /\ Turn(r, n + 1)
    /\ UNCHANGED <<given, phase, status, hit, items>>

\* One cache.get, which finds an entry and moves it to the young end.
GetHit(r, n) ==
    LET k == Key(model[r], inputs[r][n])
    IN  /\ LookingUp(r, n) /\ Lru!Has(cache, k)
        /\ cache' = Lru!Touch(cache, k)
        /\ preds' = [preds EXCEPT ![r][n] = Lru!ValueOf(cache, k)]
        /\ UNCHANGED missing

GetMiss(r, n) ==
    /\ LookingUp(r, n) /\ ~Lru!Has(cache, Key(model[r], inputs[r][n]))
    /\ missing' = [missing EXCEPT ![r] = Append(@, n)]
    /\ UNCHANGED <<preds, cache>>

LookedUp(r) ==
    /\ phase[r] = "lookup" /\ running = <<r, Len(inputs[r]) + 1>>
    /\ UNCHANGED <<given, preds, missing, items, cache>>

\* Every input was in the cache.
AllCached(r) ==
    /\ LookedUp(r) /\ missing[r] = <<>>
    /\ running' = None
    /\ hit' = [hit EXCEPT ![r] = TRUE]
    /\ Reply(r, 200)

\* gather makes a task for each miss, which has not run yet.
FanOut(r) ==
    /\ LookedUp(r) /\ missing[r] # <<>>
    /\ config.batching
    /\ running' = None
    /\ Goes(r, "submit")
    /\ UNCHANGED <<status, hit>>

\* No batcher: runner.run on the event loop, which returns or raises.
RunDirect(r) ==
    /\ LookedUp(r) /\ missing[r] # <<>>
    /\ ~config.batching
    /\ \/ Turn(r, 1) /\ Goes(r, "fill") /\ UNCHANGED status
       \/ running' = None /\ Reply(r, 500)
    /\ UNCHANGED hit

-----------------------------------------------------------------------------
(* The tasks of gather and the batchers.                                   *)

\* The first failure of gather answers; later ones find nobody waiting.
FailOnce(r, code) ==
    IF phase[r] = "gather" THEN Reply(r, code) ELSE UNCHANGED <<status, phase>>

\* All puts of a request run back to back: the first n are accepted, and one
\* that is refused answers 429 with the accepted ones in the line.
SubmitMisses(r) ==
    LET m == model[r]
        open == missing[r]
    IN  /\ running = None /\ phase[r] = "submit"
        /\ \E n \in 0..Len(open) :
             LET taken == {<<r, open[j]>> : j \in 1..n}
             IN  /\ n > 0 /\ QueueMax > 0 =>
                        Len(line[m]) + n - 1 < QueueMax + MaxBatch
                 /\ n < Len(open) => QueueMax > 0 /\ Len(line[m]) + n >= QueueMax
                 /\ line' = [line EXCEPT ![m] = @ \o [j \in 1..n |-> <<r, open[j]>>]]
                 /\ verdict' = [i \in DOMAIN verdict |->
                                  IF i \in taken THEN "pending" ELSE verdict[i]]
                 /\ seen' = [i \in DOMAIN seen |->
                               IF i \in taken THEN "waiting"
                               ELSE IF i \in {<<r, open[j]>> : j \in n + 1..Len(open)}
                               THEN "overflow" ELSE seen[i]]
                 /\ IF n < Len(open) THEN Reply(r, 429)
                    ELSE Goes(r, "gather") /\ UNCHANGED status
    /\ UNCHANGED <<given, running, answer, cache>>

\* Mutant: a batch is answered only where the request still waits, and the
\* other items stay.
ServeWaiting(m, k, v) ==
    /\ running = None
    /\ \A j \in 1..k : phase[line[m][j][1]] = "gather"
    /\ line' = [line EXCEPT ![m] = SubSeq(@, k + 1, Len(@))]
    /\ verdict' = [i \in DOMAIN verdict |->
                     IF i \in {line[m][j] : j \in 1..k} /\ verdict[i] = "pending"
                     THEN v ELSE verdict[i]]
    /\ UNCHANGED <<given, running, phase, answer, status, seen, cache>>

\* BatchService!Serve of the model's batcher.
Serve(m, k, v) ==
    /\ running = None
    /\ line' = [line EXCEPT ![m] = SubSeq(@, k + 1, Len(@))]
    /\ verdict' = [i \in DOMAIN verdict |->
                     IF i \in {line[m][j] : j \in 1..k} /\ verdict[i] = "pending"
                     THEN v ELSE verdict[i]]
    /\ UNCHANGED <<given, running, phase, answer, status, seen, cache>>

\* The task of item i ends as it does.
Ends(i, how) ==
    /\ running = None
    /\ seen[i] = "waiting"
    /\ seen' = [seen EXCEPT ![i] = how]
    /\ UNCHANGED <<given, running, answer, line, cache>>

\* Mutant: the task fills the cache, and not the request when it has all.
TaskOkPuts(i) ==
    LET m == model[i[1]]
        t == inputs[i[1]][i[2]]
    IN  /\ running = None
        /\ seen[i] = "waiting" /\ verdict[i] = "result"
        /\ seen' = [seen EXCEPT ![i] = "ok"]
        /\ cache' = IF config.cache THEN Lru!Insert(cache, Key(m, t), Prediction(m, t))
                    ELSE cache
        /\ UNCHANGED <<given, running, phase, answer, status, verdict, line>>

TaskOk(i) ==
    /\ Ends(i, "ok") /\ verdict[i] = "result"
    /\ UNCHANGED <<phase, status, verdict>>

\* Mutant: a runner's error ends the task and nothing else.
TaskFailQuiet(i) ==
    /\ Ends(i, "error") /\ verdict[i] = "error"
    /\ UNCHANGED <<phase, status, verdict>>

TaskFail(i) ==
    /\ Ends(i, "error") /\ verdict[i] = "error"
    /\ FailOnce(i[1], 500)
    /\ UNCHANGED verdict

\* wait_for's timer, also just after the verdict came.
Timeout(i) ==
    /\ Ends(i, "timeout")
    /\ verdict' = [verdict EXCEPT ![i] = IF @ = "pending" THEN "cancelled" ELSE @]
    /\ FailOnce(i[1], 504)

-----------------------------------------------------------------------------
(* run_inference after its await.                                          *)

\* gather has every result.
Gathered(r) ==
    /\ running = None /\ phase[r] = "gather"
    /\ \A n \in DOMAIN missing[r] : seen[<<r, missing[r][n]>>] = "ok"
    /\ Turn(r, 1) /\ Goes(r, "fill")
    /\ UNCHANGED <<given, answer, status, items, cache>>

\* Mutant: result n is stored at position n, not at that of the n-th miss.
PutByRank(r, n) ==
    /\ phase[r] = "fill" /\ running = <<r, n>>
    /\ n \in DOMAIN missing[r]
    /\ Turn(r, n + 1)
    /\ LET t == inputs[r][missing[r][n]]
           p == Prediction(model[r], t)
       IN  /\ preds' = [preds EXCEPT ![r][n] = p]
           /\ cache' = IF config.cache THEN Lru!Insert(cache, Key(model[r], t), p)
                       ELSE cache
    /\ UNCHANGED <<given, phase, missing, hit, status, items>>

\* Result n belongs at the position of the n-th miss; one cache.put.
Put(r, n) ==
    /\ phase[r] = "fill" /\ running = <<r, n>>
    /\ n \in DOMAIN missing[r]
    /\ Turn(r, n + 1)
    /\ LET t == inputs[r][missing[r][n]]
           p == Prediction(model[r], t)
       IN  /\ preds' = [preds EXCEPT ![r][missing[r][n]] = p]
           /\ cache' = IF config.cache THEN Lru!Insert(cache, Key(model[r], t), p)
                       ELSE cache
    /\ UNCHANGED <<given, phase, missing, hit, status, items>>

\* Mutant: cache_hit means that something was in the cache.
FinishSomeHit(r) ==
    /\ phase[r] = "fill" /\ running = <<r, Len(missing[r]) + 1>>
    /\ running' = None
    /\ hit' = [hit EXCEPT ![r] = Len(missing[r]) < Len(inputs[r])]
    /\ Reply(r, 200)
    /\ UNCHANGED <<given, preds, missing, items, cache>>

Finish(r) ==
    /\ phase[r] = "fill" /\ running = <<r, Len(missing[r]) + 1>>
    /\ running' = None
    /\ Reply(r, 200)
    /\ UNCHANGED <<given, answer, items, cache>>

\* POST /admin/cache/reset, in a thread of the pool.
ResetCache ==
    /\ config.cache
    /\ cache' = <<>>
    /\ UNCHANGED <<given, running, phase, answer, status, items>>

Sizes(m) == 1..Min({Len(line[m]), MaxBatch})

\* The coroutine goes on to its next call or await.
Continue(r) ==
    \/ \E n \in Places : GetHit(r, n) \/ GetMiss(r, n) \/ Put(r, n)
    \/ AllCached(r) \/ FanOut(r) \/ RunDirect(r) \/ Finish(r)

Next ==
    \/ \E r \in Requests :
          \/ \E m \in Models, b \in Bodies : Arrive(r, m, b)
          \/ Continue(r)
          \/ SubmitMisses(r) \/ Gathered(r)
          \/ \E i \in ItemsOf(r) : TaskOk(i) \/ TaskFail(i) \/ Timeout(i)
    \/ \E m \in Models : \E k \in Sizes(m), v \in {"result", "error"} : Serve(m, k, v)
    \/ ResetCache

Spec == Init /\ [][Next]_vars

\* The event loop runs what is ready and each batcher serves its line.  No
\* timer has to fire, nobody has to call.
Fairness ==
    /\ \A r \in Requests : WF_vars(Continue(r) \/ SubmitMisses(r) \/ Gathered(r))
    /\ \A i \in Items : WF_vars(TaskOk(i) \/ TaskFail(i))
    /\ \A m \in Models :
          WF_vars(\E k \in Sizes(m), v \in {"result", "error"} : Serve(m, k, v))

FairSpec == Spec /\ Fairness
-----------------------------------------------------------------------------
(* Properties.                                                             *)

\* Types, and the cache within its capacity with one entry per key.
TypeOK ==
    /\ config \in Configs
    /\ running = None \/ running \in Requests \X Nat
    /\ model \in [Requests -> Models \cup {None}]
    /\ inputs \in [Requests -> Bodies \cup {<<>>}]
    /\ phase \in [Requests -> {"idle", "lookup", "submit", "gather", "fill", "done"}]
    /\ preds \in [Requests -> Seq((Models \X Texts) \cup {None})]
    /\ missing \in [Requests -> Seq(Places)]
    /\ status \in [Requests -> {0, 200, 429, 500, 504}]
    /\ hit \in [Requests -> BOOLEAN]
    /\ seen \in [Items -> {"idle", "waiting", "ok", "error", "timeout", "overflow"}]
    /\ verdict \in [Items -> {"none", "pending", "result", "error", "cancelled"}]
    /\ line \in [Models -> Seq(Items)]
    /\ cache \in Seq([key : Metadata \X Texts, value : Models \X Texts])
    /\ Len(cache) <= Capacity
    /\ \A i, j \in DOMAIN cache : cache[i].key = cache[j].key => i = j

Answered(r, code) == phase[r] = "done" /\ status[r] = code

\* What an entry with the metadata of m makes of text t.
Equivalent(m, t) ==
    {Prediction(o, t) : o \in {e \in Models : config.metadata[e] = config.metadata[m]}}

\* An answer 200 has, at every position, a prediction of the text at that
\* position by a model of the same model_id and precision, whichever of them
\* came from the shared cache and whichever from a batch (predictions[idx]),
\* whenever the cache was reset.  No answer leaks from FP32 into an INT8
\* deployment (README.md:256); one of another backend may be shared.
RepliesAligned ==
    \A r \in Requests :
        Answered(r, 200) =>
            /\ Len(preds[r]) = Len(inputs[r])
            /\ \A j \in DOMAIN inputs[r] : preds[r][j] \in Equivalent(model[r], inputs[r][j])

\* What is cached under a key was made of that text by an entry of that
\* metadata, for a request all whose misses came back: one whose gather
\* raised leaves nothing behind, although some of its misses were run.
CacheSound ==
    \A i \in DOMAIN cache :
        /\ cache[i].key = Key(cache[i].value[1], cache[i].value[2])
        /\ \E r \in Requests : /\ phase[r] = "fill" \/ Answered(r, 200)
                              /\ model[r] = cache[i].value[1]
                              /\ cache[i].value[2] \in ToSet(inputs[r])

\* cache_hit is said exactly of the answers that cost no model any work.
HitMeansNoWork ==
    config.batching => \A r \in Requests :
        Answered(r, 200) => (hit[r] <=> \A i \in ItemsOf(r) : seen[i] = "idle")

\* Whatever is refused, fails or is late, every request that has come in is
\* answered in the end, also when no timer fires.
EveryRequestAnswered == <>[](\A r \in Requests : phase[r] \in {"idle", "done"})

\* The items of requests that have been answered leave the line as well.
LinesDrain == <>[](\A m \in Models : line[m] = <<>>)
=============================================================================
