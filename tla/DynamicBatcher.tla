--------------------------- MODULE DynamicBatcher ---------------------------
(***************************************************************************)
(* engine/batcher.py and engine/request_queue.py: the asyncio task that    *)
(* turns single submit() calls into batches for the model runner, with the *)
(* callers that wait on it (server/inference.py, _submit_misses) and the   *)
(* stop() that cancels it.                                                 *)
(*                                                                         *)
(* A step is what the event loop runs between two awaits.  The awaits of   *)
(* the task are the values of pc:                                          *)
(*   "get"      RequestQueue.get() on an empty queue                       *)
(*   "collect"  RequestQueue.get_with_timeout(remaining)                   *)
(*   "run"      asyncio.to_thread(self.runner.run, texts)                  *)
(*   "ended"    the task is done, stop() has not resumed yet               *)
(*   "off"      there is no task                                           *)
(* get_with_timeout is asyncio.wait_for, which on Python 3.11 runs the     *)
(* queue's get() in a task of its own: the item that inner task has taken  *)
(* and the collector has not yet seen is in `handed'.                      *)
(***************************************************************************)
EXTENDS Naturals, Sequences, FiniteSets

CONSTANTS
    Items,         \* calls of submit(), one per input text
    QueueMax,      \* BatcherConfig.queue_max_size; 0 is unbounded
    InitBatch,     \* BatcherConfig.max_batch_size at construction
    CtlMaxBatch,   \* ControllerConfig.max_batch_size
    BatchStep      \* ControllerConfig.batch_step

ASSUME BatcherAssumption ==
    {QueueMax, InitBatch, CtlMaxBatch, BatchStep} \subseteq Nat

VARIABLES
    queue,      \* RequestQueue._queue
    fut,        \* the future of each BatchedRequest
    client,     \* each caller of submit()
    pc,         \* the await the batcher task is at
    batch,      \* the batch being collected or run
    handed,     \* at most one item: taken by the inner getter, not yet seen
    stopping,   \* self._stopping
    cancel,     \* a cancel() of the task not yet delivered
    maxBatch,   \* self.config.max_batch_size, tuned live
    hist,       \* self._batch_size_histogram
    fate        \* history: what became of each accepted item

vars == <<queue, fut, client, pc, batch, handed, stopping, cancel,
          maxBatch, hist, fate>>
callVars == <<fut, client>>
ctlVars  == <<stopping, cancel, maxBatch>>

Least(a, b)    == IF a < b THEN a ELSE b
Greatest(a, b) == IF a < b THEN b ELSE a

\* No batch is larger: `first` is taken whatever the limit says.
BatchBound == Greatest(1, Greatest(InitBatch, CtlMaxBatch))

Elems(s) == {s[j] : j \in 1..Len(s)}

\* Accepted and not yet served, oldest first.
Line == batch \o handed \o queue

-----------------------------------------------------------------------------
Init ==
    /\ queue = <<>>
    /\ fut = [i \in Items |-> "none"]
    /\ client = [i \in Items |-> "idle"]
    /\ pc = "off"
    /\ batch = <<>>
    /\ handed = <<>>
    /\ stopping = FALSE
    /\ cancel = FALSE
    /\ maxBatch = InitBatch
    /\ hist = [n \in 1..BatchBound |-> 0]
    /\ fate = [i \in Items |-> "none"]

-----------------------------------------------------------------------------
(* Callers.                                                                *)

\* Mutant: the queue overshoots its limit by one.
QueueFullLate(q) == QueueMax > 0 /\ Len(q) > QueueMax

QueueFull(q) == QueueMax > 0 /\ Len(q) >= QueueMax

\* submit(): the put happens in the caller's own step, or raises.
Submit(i) ==
    /\ client[i] = "idle"
    /\ \/ /\ QueueFull(queue)
          /\ client' = [client EXCEPT ![i] = "overflow"]
          /\ UNCHANGED <<queue, fut, fate>>
       \/ /\ ~QueueFull(queue)
          /\ queue' = Append(queue, i)
          /\ fut' = [fut EXCEPT ![i] = "pending"]
          /\ client' = [client EXCEPT ![i] = "waiting"]
          /\ fate' = [fate EXCEPT ![i] = "queued"]
    /\ UNCHANGED <<pc, batch, handed, ctlVars, hist>>

\* `return await req.future' resumes with the verdict.
Deliver(i) ==
    /\ client[i] = "waiting"
    /\ fut[i] \in {"result", "error"}
    /\ client' = [client EXCEPT ![i] = IF fut[i] = "result" THEN "ok" ELSE "error"]
    /\ UNCHANGED <<queue, fut, pc, batch, handed, ctlVars, hist, fate>>

\* wait_for's timer.  It cancels a pending future; one settled in the same
\* turn of the loop is settled in vain.  Nothing takes the item back.
Timeout(i) ==
    /\ client[i] = "waiting"
    /\ client' = [client EXCEPT ![i] = "timeout"]
    /\ fut' = [fut EXCEPT ![i] = IF @ = "pending" THEN "cancelled" ELSE @]
    /\ UNCHANGED <<queue, pc, batch, handed, ctlVars, hist, fate>>

-----------------------------------------------------------------------------
(* The batcher task.                                                       *)

Flush(b, q) == pc' = "run" /\ batch' = b /\ queue' = q

Await(b, q) == pc' = "collect" /\ batch' = b /\ queue' = q

\* Mutant: the drain at the deadline is left out.
RoomNone(b, q) == 0

Room(b, q) == Least(maxBatch - Len(b), Len(q))

\* The loop of _collect_batch from its test to the next await.  Whether the
\* deadline has passed is not known here: time is not in the model.
Extend(b, q) ==
    \/ Len(b) >= maxBatch /\ Flush(b, q)
    \/ Len(b) < maxBatch /\ Await(b, q)
    \/ /\ Len(b) < maxBatch
       /\ LET n == Room(b, q)
          IN  Flush(b \o SubSeq(q, 1, n), SubSeq(q, n + 1, Len(q)))

Exit(q) == pc' = "ended" /\ batch' = <<>> /\ queue' = q

\* Mutant: `while True', the flag is not tested.
LoopForever(q) ==
    \/ q = <<>> /\ pc' = "get" /\ batch' = <<>> /\ queue' = q
    \/ q # <<>> /\ Extend(<<Head(q)>>, Tail(q))

\* _run from the test of _stopping to the next await.
Loop(q) ==
    \/ stopping /\ Exit(q)
    \/ ~stopping /\ q = <<>> /\ pc' = "get" /\ batch' = <<>> /\ queue' = q
    \/ ~stopping /\ q # <<>> /\ Extend(<<Head(q)>>, Tail(q))

TakeFirst ==
    /\ pc = "get" /\ ~cancel
    /\ queue # <<>>
    /\ Extend(<<Head(queue)>>, Tail(queue))
    /\ UNCHANGED <<callVars, handed, ctlVars, hist, fate>>

\* Mutant: the inner getter serves the newest item.
GetterTakeNewest ==
    /\ pc = "collect" /\ handed = <<>>
    /\ queue # <<>>
    /\ handed' = <<queue[Len(queue)]>>
    /\ queue' = SubSeq(queue, 1, Len(queue) - 1)
    /\ UNCHANGED <<callVars, pc, batch, ctlVars, hist, fate>>

\* Mutant: a getter cancelled by its timeout takes an item all the same.
GetterTakeTwice ==
    /\ pc = "collect"
    /\ queue # <<>>
    /\ handed' = Append(handed, Head(queue))
    /\ queue' = Tail(queue)
    /\ UNCHANGED <<callVars, pc, batch, ctlVars, hist, fate>>

\* Mutant: the item is looked at and not removed.
GetterTakePeek ==
    /\ pc = "collect" /\ handed = <<>>
    /\ queue # <<>>
    /\ handed' = <<Head(queue)>>
    /\ UNCHANGED <<queue, callVars, pc, batch, ctlVars, hist, fate>>

\* The task inside wait_for, which is not told of a cancel at once.
GetterTake ==
    /\ pc = "collect" /\ handed = <<>>
    /\ queue # <<>>
    /\ handed' = <<Head(queue)>>
    /\ queue' = Tail(queue)
    /\ UNCHANGED <<callVars, pc, batch, ctlVars, hist, fate>>

\* Mutant: a timeout that meets the item's arrival drops the item.
CollectResumeDrop ==
    /\ pc = "collect" /\ handed # <<>>
    /\ Flush(batch, queue)
    /\ handed' = <<>>
    /\ cancel' = FALSE
    /\ UNCHANGED <<callVars, stopping, maxBatch, hist, fate>>

\* wait_for returns the item it has, and swallows a cancel that met it.
CollectResume ==
    /\ pc = "collect" /\ handed # <<>>
    /\ Extend(batch \o handed, queue)
    /\ handed' = <<>>
    /\ cancel' = FALSE
    /\ UNCHANGED <<callVars, stopping, maxBatch, hist, fate>>

\* get_with_timeout returns None: run what there is.
CollectTimeout ==
    /\ pc = "collect" /\ handed = <<>> /\ ~cancel
    /\ Flush(batch, queue)
    /\ UNCHANGED <<callVars, handed, ctlVars, hist, fate>>

\* Mutant: only the head of the batch is answered.
SettleHead(v) ==
    fut' = [i \in Items |->
              IF i = Head(batch) /\ fut[i] = "pending" THEN v ELSE fut[i]]

\* The futures of the batch that are not done() get v.
Settle(v) ==
    fut' = [i \in Items |->
              IF i \in Elems(batch) /\ fut[i] = "pending" THEN v ELSE fut[i]]

Mark(f) ==
    fate' = [i \in Items |-> IF i \in Elems(batch) THEN f ELSE fate[i]]

RunOk ==
    /\ pc = "run" /\ ~cancel
    /\ hist' = [hist EXCEPT ![Len(batch)] = @ + 1]
    /\ Settle("result")
    /\ Mark("ran")
    /\ Loop(queue)
    /\ UNCHANGED <<client, handed, ctlVars>>

\* Mutant: the batch is counted before it is known to have run.
RunFailCounted ==
    /\ pc = "run" /\ ~cancel
    /\ hist' = [hist EXCEPT ![Len(batch)] = @ + 1]
    /\ Settle("error")
    /\ Mark("failed")
    /\ Loop(queue)
    /\ UNCHANGED <<client, handed, ctlVars>>

RunFail ==
    /\ pc = "run" /\ ~cancel
    /\ Settle("error")
    /\ Mark("failed")
    /\ Loop(queue)
    /\ UNCHANGED <<client, handed, ctlVars, hist>>

\* CancelledError at the await: no handler settles the batch.
CancelDelivered ==
    /\ cancel /\ handed = <<>>
    /\ pc \in {"get", "collect", "run"}
    /\ Exit(queue)
    /\ cancel' = FALSE
    /\ Mark("stranded")
    /\ UNCHANGED <<callVars, handed, stopping, maxBatch, hist>>

-----------------------------------------------------------------------------
(* start(), stop() and the controller's write of max_batch_size.           *)

Start ==
    /\ pc = "off"
    /\ pc' = "get"
    /\ stopping' = FALSE
    /\ UNCHANGED <<queue, callVars, batch, handed, cancel, maxBatch, hist, fate>>

Stop ==
    /\ pc \in {"get", "collect", "run"} /\ ~stopping
    /\ stopping' = TRUE
    /\ cancel' = TRUE
    /\ UNCHANGED <<queue, callVars, pc, batch, handed, maxBatch, hist, fate>>

StopReturn ==
    /\ pc = "ended"
    /\ pc' = "off"
    /\ UNCHANGED <<queue, callVars, batch, handed, ctlVars, hist, fate>>

Retune ==
    /\ maxBatch' = Least(CtlMaxBatch, maxBatch + BatchStep)
    /\ UNCHANGED <<queue, callVars, pc, batch, handed, stopping, cancel, hist, fate>>

Turn == TakeFirst \/ CollectResume \/ CollectTimeout \/ CancelDelivered

Next ==
    \/ \E i \in Items : Submit(i) \/ Deliver(i) \/ Timeout(i)
    \/ TakeFirst \/ GetterTake \/ CollectResume \/ CollectTimeout
    \/ RunOk \/ RunFail \/ CancelDelivered
    \/ Start \/ Stop \/ StopReturn \/ Retune

Spec == Init /\ [][Next]_vars

\* The loop runs what is ready, a timer fires, the worker thread finishes.
\* Nothing makes a caller call, time out, or the server stop or retune.
Fairness ==
    /\ WF_vars(Turn)
    /\ WF_vars(GetterTake)
    /\ WF_vars(RunOk \/ RunFail)
    /\ WF_vars(StopReturn)
    /\ \A i \in Items : WF_vars(Deliver(i))

FairSpec == Spec /\ Fairness

-----------------------------------------------------------------------------
(* What must hold.                                                         *)

\* Type invariant.
TypeOK ==
    /\ queue \in Seq(Items) /\ batch \in Seq(Items) /\ handed \in Seq(Items)
    /\ Len(handed) <= 1
    /\ fut \in [Items -> {"none", "pending", "result", "error", "cancelled"}]
    /\ client \in [Items -> {"idle", "waiting", "ok", "error", "timeout", "overflow"}]
    /\ pc \in {"off", "get", "collect", "run", "ended"}
    /\ stopping \in BOOLEAN /\ cancel \in BOOLEAN
    /\ maxBatch \in Nat
    /\ hist \in [1..BatchBound -> Nat]
    /\ fate \in [Items -> {"none", "queued", "ran", "failed", "stranded"}]

\* No caller waits on a future that nothing will ever settle, but for the
\* items a stop() dropped: whatever the await the collector is at, the item of
\* a pending future is in the queue, in the getter's hand or in the batch.
WaiterReachable ==
    \A i \in Items :
        client[i] = "waiting" /\ fut[i] = "pending" =>
            i \in Elems(Line) \/ fate[i] = "stranded"

\* No item is run twice or settled before it is run: each accepted item is in
\* one place of the line exactly as long as its fate is open, and an item in
\* the line has no verdict yet (batcher.py hands futures from deque to list).
ServedOnce ==
    /\ \A j, k \in 1..Len(Line) : Line[j] = Line[k] => j = k
    /\ \A i \in Items : i \in Elems(Line) <=> fate[i] = "queued"
    /\ \A i \in Elems(Line) : fut[i] \in {"pending", "cancelled"}

\* The queue keeps to queue_max_size, and a batch to the largest limit it was
\* collected under even when the controller moves the limit in mid-collection.
WithinLimits ==
    /\ QueueMax > 0 => Len(queue) <= QueueMax
    /\ Len(batch \o handed) <= BatchBound

Ran == {i \in Items : fate[i] = "ran"}

\* The items of the batches a histogram counts.
Counted(h) ==
    LET upTo[n \in 0..BatchBound] == IF n = 0 THEN 0 ELSE upTo[n - 1] + n * h[n]
    IN  upTo[BatchBound]

\* The histogram accounts for the items that ran and for no other: the sum of
\* size times count is their number (batcher.py:148-151, read by /metrics).
HistogramAccounts == Counted(hist) = Cardinality(Ran)

\* A batch under the limit does not leave items behind in the queue, unless
\* it was the collector's timer that sent it (TRADEOFFS.md section 9: before
\* the drain, every batch under backlog had size 1).
BacklogDrained ==
    [][pc' = "run" /\ batch' # batch /\ Len(batch') < maxBatch
         => queue' = <<>>]_vars

\* After stop() has set the flag at most the batch in hand is run: a cancel
\* swallowed by wait_for does not let the loop go round again.
NoBatchAfterStop ==
    [][stopping /\ pc = "run" /\ batch' # batch => pc' = "ended"]_vars

\* stop() returns, whatever the await its cancel met.
StopCompletes == stopping /\ pc # "off" ~> pc = "off"

\* An accepted item gets a verdict or is given up by its caller, those left
\* in the queue by an earlier stop too, unless the batcher is stopped (again).
NoStarvation ==
    \A i \in Items :
        fut[i] = "pending" /\ fate[i] = "queued"
            ~> fut[i] # "pending" \/ pc \in {"ended", "off"}

\* The batcher is a FIFO line served in batches from its front.
Service == INSTANCE BatchService
             WITH MaxServed <- BatchBound, line <- Line,
                  verdict <- fut, caller <- client
ServiceSpec == Service!Spec

\* README.md section 4.3 says of a request that waited too long "drop": once
\* its caller has timed out, an item still queued is not given to the runner.
DroppedOnTimeout ==
    [][\A i \in Items :
         client[i] = "timeout" /\ i \in Elems(queue) => i \notin Elems(batch')]_vars
=============================================================================
