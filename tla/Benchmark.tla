------------------------------ MODULE Benchmark ------------------------------
(***************************************************************************)
(* The harness: scenarios A to E of benchmarks/run_benchmark.py with the   *)
(* workloads of benchmarks/workloads.py, against a server of which only    *)
(* the cache and its counters matter.  The main thread goes through the    *)
(* sub-runs; in each it warms the server up, opens a window, and waits for *)
(* the threads of a pool, which record their outcomes under one lock.      *)
(*   A, B: closed loop, each worker sends while the window is open         *)
(*   C, D, E: open loop, the main thread submits tasks to the pool         *)
(* Time is abstracted: a deadline has or has not passed.  A request whose  *)
(* client has given up may be looked up at any later time.                 *)
(***************************************************************************)
EXTENDS Integers, Sequences, FiniteSets

CONSTANTS
    Scenarios,      \* those considered, of "A" to "E"
    Workers,        \* threads of the pool: the concurrency, or max_inflight
    SubRuns,        \* entries of the sweep; A and D have one
    MaxWarm,        \* bound: requests of a warm-up
    MaxSent,        \* bound: requests of a window
    MaxLate,        \* bound: requests the server still has that nobody awaits
    NoOne           \* lock holder while it is free

ASSUME HarnessAssumption ==
    /\ Scenarios \subseteq {"A", "B", "C", "D", "E"}
    /\ {SubRuns, MaxWarm, MaxSent, MaxLate} \subseteq Nat /\ SubRuns > 0
    /\ IsFiniteSet(Workers) /\ NoOne \notin Workers

VARIABLES
    scenario, main, subrun,
    over,           \* the window has ended: nothing more is sent
    sent,           \* requests of this window
    pending,        \* tasks in the pool that no thread has taken
    thread,         \* where each thread is
    lock,
    lists, errors,  \* WorkloadResult; a sample is the thread that took it
    loaded,         \* errors as read by errors += 1
    raised,         \* history: requests that ended in an exception of the task
    server,         \* hits, misses, whether the repeated text has been looked
                    \* up, and the requests it has that nobody awaits
    pre, post,      \* the server's counters as read, <<>> if the read failed
    sweep,          \* the entry of each sub-run: its samples and errors
    files,          \* what the run directory holds
    own             \* history, of the sub-run: requests of its warm-up, and
                    \* late ones at its first read

vars == <<scenario, main, subrun, over, sent, pending, thread, lock, lists, errors,
          loaded, raised, server, pre, post, sweep, files, own>>
result == <<lists, errors, loaded, raised>>
pool   == <<over, sent, pending, thread, lock>>
report == <<pre, post, sweep, files>>

Closed == scenario \in {"A", "B"}
Single == scenario \in {"A", "D"}
Reads  == scenario \in {"D", "E"}
Fields == {"latencies_ms", "inference_ms", "queue_wait_ms"}

\* The texts a window sends: D only unique ones, E the hot key and unique
\* ones, the others a short cycle.
Texts ==
    CASE scenario = "D" -> {"fresh"}
      [] scenario = "E" -> {"fresh", "repeated"}
      [] OTHER          -> {"repeated"}

NoSamples == [f \in Fields |-> <<>>]

Init ==
    /\ scenario \in Scenarios
    /\ main = "reset" /\ subrun = 1
    /\ over = FALSE /\ sent = 0 /\ pending = 0
    /\ thread = [w \in Workers |-> "idle"]
    /\ lock = NoOne
    /\ lists = NoSamples /\ errors = 0 /\ loaded = [w \in Workers |-> 0]
    /\ raised = 0
    /\ server = [hits |-> 0, misses |-> 0, known |-> FALSE, late |-> 0]
    /\ pre = <<>> /\ post = <<>> /\ sweep = <<>> /\ files = {}
    /\ own = [warm |-> 0, late |-> 0]

-----------------------------------------------------------------------------
(* The server.                                                             *)

\* One look-up.  It may hit if the text has been looked up before: that
\* request may have filled the cache since, and the entry be there still.
Lookup(text, hit, late) ==
    /\ hit => text = "repeated" /\ server.known
    /\ server' = [hits   |-> server.hits + (IF hit THEN 1 ELSE 0),
                  misses |-> server.misses + (IF hit THEN 0 ELSE 1),
                  known  |-> server.known \/ text = "repeated",
                  late   |-> late]

\* A request whose client timed out before its look-up.
Postpone == server.late < MaxLate /\ server' = [server EXCEPT !.late = @ + 1]

\* It is looked up after all, in whatever sub-run that is by now.
LateLookup ==
    /\ server.late > 0
    /\ \E text \in Texts \cup {"repeated"}, hit \in BOOLEAN :
         Lookup(text, hit, server.late - 1)
    /\ UNCHANGED <<scenario, main, subrun, pool, result, report, own>>

-----------------------------------------------------------------------------
(* The main thread.                                                        *)

\* E posts /admin/cache/reset without a token: the server refuses, the return
\* value is not looked at.
Reset ==
    /\ main = "reset"
    /\ main' = IF Reads THEN "pre" ELSE "warm"
    /\ own' = [warm |-> 0, late |-> 0]
    /\ UNCHANGED <<scenario, subrun, pool, result, server, report>>

\* Mutant: the counters are read before the sweep and not in it.
ReadPreOnce ==
    /\ main = "pre"
    /\ pre' \in IF subrun = 1 THEN {<<server.hits, server.misses>>, <<>>} ELSE {pre}
    /\ own' = [own EXCEPT !.late = server.late]
    /\ post' = <<>>
    /\ main' = "warm"
    /\ UNCHANGED <<scenario, subrun, pool, result, server, sweep, files>>

ReadPre ==
    /\ main = "pre"
    /\ pre' \in {<<server.hits, server.misses>>, <<>>}
    /\ own' = [own EXCEPT !.late = server.late]
    /\ post' = <<>>
    /\ main' = "warm"
    /\ UNCHANGED <<scenario, subrun, pool, result, server, sweep, files>>

\* One request of the warm-up, which repeats a text: looked up, left behind
\* at its timeout, or never there.
Warm ==
    /\ main = "warm" /\ own.warm < MaxWarm
    /\ \/ \E hit \in BOOLEAN : Lookup("repeated", hit, server.late)
       \/ Postpone
       \/ UNCHANGED server
    /\ own' = [own EXCEPT !.warm = @ + 1]
    /\ UNCHANGED <<scenario, main, subrun, pool, result, report>>

\* Mutant: the sub-runs share one result.
OpenShared ==
    /\ main = "warm"
    /\ main' = "run"
    /\ over' = FALSE /\ sent' = 0
    /\ UNCHANGED <<scenario, subrun, pending, thread, lock, result, server, report, own>>

\* The warm-up's deadline; the workload starts with an empty result.
Open ==
    /\ main = "warm"
    /\ main' = "run"
    /\ over' = FALSE /\ sent' = 0
    /\ lists' = NoSamples /\ errors' = 0 /\ raised' = 0
    /\ UNCHANGED <<scenario, subrun, pending, thread, lock, loaded, server, report, own>>

\* Open loop: the next arrival is due.
Dispatch ==
    /\ main = "run" /\ ~Closed /\ ~over
    /\ sent < MaxSent
    /\ sent' = sent + 1 /\ pending' = pending + 1
    /\ UNCHANGED <<scenario, main, subrun, over, thread, lock, result, server, report, own>>

Deadline ==
    /\ main = "run" /\ ~over
    /\ over' = TRUE
    /\ UNCHANGED <<scenario, main, subrun, sent, pending, thread, lock, result,
                   server, report, own>>

\* The end of the pool's with block: every task is done.  A closed loop reads
\* its workers' results, and raises what one of them has raised.
Join ==
    /\ main = "run" /\ over
    /\ pending = 0 /\ \A w \in Workers : thread[w] \in {"idle", "dead"}
    /\ main' = IF \E w \in Workers : thread[w] = "dead" THEN "crashed"
               ELSE IF Reads THEN "post" ELSE "summary"
    /\ UNCHANGED <<scenario, subrun, pool, result, server, report, own>>

ReadPost ==
    /\ main = "post"
    /\ post' \in {<<server.hits, server.misses>>, <<>>}
    /\ main' = "summary"
    /\ UNCHANGED <<scenario, subrun, pool, result, server, pre, sweep, files, own>>

Known == pre # <<>> /\ post # <<>>
DeltaHits    == post[1] - pre[1]
DeltaLookups == DeltaHits + post[2] - pre[2]

\* The sub-run's entry of the report; then the next sub-run, or the report.
\* Scenario E's ratio is the quotient of DeltaHits and DeltaLookups here.
Summarize ==
    /\ main = "summary"
    /\ sweep' = Append(sweep,
                  [samples |-> Len(lists.latencies_ms), errors |-> errors])
    /\ IF ~Single /\ subrun < SubRuns
       THEN main' = "reset" /\ subrun' = subrun + 1
       ELSE main' = "report" /\ UNCHANGED subrun
    /\ UNCHANGED <<scenario, pool, result, server, pre, post, files, own>>

\* A sub-run without a sample: its latencies are None.
Empty == \E k \in DOMAIN sweep : sweep[k].samples = 0

Write(names, next) ==
    /\ files' = files \cup names
    /\ main' = next
    /\ UNCHANGED <<scenario, subrun, pool, result, server, pre, post, sweep, own>>

\* The summary of a single run formats its latencies without asking whether
\* there are any; that of a sweep asks.
CannotFormat == Single /\ Empty

\* The latency chart of a sweep takes the percentiles of every entry.
CannotPlot == ~Single /\ Empty

WriteReport ==
    /\ main = "report"
    /\ IF CannotFormat THEN Write({"results.json"}, "failed")
       ELSE Write({"results.json", "summary.md", "config.snapshot.yaml"}, "raw")

SaveRawSamples == main = "raw" /\ Write({"raw_latencies.json"}, "charts")

WriteCharts ==
    /\ main = "charts"
    /\ IF CannotPlot THEN Write({}, "failed") ELSE Write({"charts"}, "done")

-----------------------------------------------------------------------------
(* A thread of the pool.                                                   *)

Go(w, at) == thread' = [thread EXCEPT ![w] = at]

\* Closed loop: the worker's next request, while the window is open.  A has
\* one worker.
Send(w) ==
    /\ main = "run" /\ Closed /\ ~over
    /\ thread[w] = "idle" /\ sent < MaxSent
    /\ scenario = "A" => \A v \in Workers : thread[v] = "idle"
    /\ sent' = sent + 1
    /\ Go(w, "flight")
    /\ UNCHANGED <<scenario, main, subrun, over, pending, lock, result, server, report, own>>

\* Open loop: a thread takes the next task, whenever one is free.
Take(w) ==
    /\ thread[w] = "idle" /\ pending > 0
    /\ pending' = pending - 1
    /\ Go(w, "flight")
    /\ UNCHANGED <<scenario, main, subrun, over, sent, lock, result, server, report, own>>

\* The request reaches the server and is looked up.
Arrive(w) ==
    /\ thread[w] = "flight"
    /\ \E text \in Texts, hit \in BOOLEAN : Lookup(text, hit, server.late)
    /\ Go(w, "served")
    /\ UNCHANGED <<scenario, main, subrun, over, sent, pending, lock, result, report, own>>

\* A 200 with the keys that _post_one looks up.
Receive(w) ==
    /\ thread[w] = "served"
    /\ Go(w, "answer")
    /\ UNCHANGED <<scenario, main, subrun, over, sent, pending, lock, result,
                   server, report, own>>

\* httpx.HTTPError: an error status, no connection, or the client's timeout,
\* with the request still on its way to the look-up.
Fail(w) ==
    /\ thread[w] \in {"flight", "served"}
    /\ \/ UNCHANGED server
       \/ thread[w] = "flight" /\ Postpone
    /\ Go(w, "error")
    /\ UNCHANGED <<scenario, main, subrun, over, sent, pending, lock, result,
                   report, own>>

\* Any other exception, of the client's making or of an answer that is not
\* JSON or lacks a key: it ends the worker of a closed loop, and in an open
\* loop the task, whose future nobody reads.
Raise(w) ==
    /\ thread[w] \in {"flight", "served"}
    /\ raised' = raised + 1
    /\ Go(w, IF Closed THEN "dead" ELSE "idle")
    /\ UNCHANGED <<scenario, main, subrun, over, sent, pending, lock, lists, errors,
                   loaded, server, report, own>>

\* Mutant: the result is updated without the lock.
AcquireNot(w) ==
    /\ thread[w] \in {"answer", "error"}
    /\ Go(w, IF thread[w] = "answer" THEN "latencies_ms" ELSE "load")
    /\ UNCHANGED <<scenario, main, subrun, over, sent, pending, lock, result,
                   server, report, own>>

Acquire(w) ==
    /\ thread[w] \in {"answer", "error"}
    /\ lock = NoOne
    /\ lock' = w
    /\ Go(w, IF thread[w] = "answer" THEN "latencies_ms" ELSE "load")
    /\ UNCHANGED <<scenario, main, subrun, over, sent, pending, result, server, report, own>>

After(field) ==
    CASE field = "latencies_ms" -> "inference_ms"
      [] field = "inference_ms" -> "queue_wait_ms"
      [] OTHER                  -> "idle"

\* The three appends, the last of which ends the with block.
Record(w) ==
    /\ thread[w] \in Fields
    /\ lists' = [lists EXCEPT ![thread[w]] = Append(@, w)]
    /\ Go(w, After(thread[w]))
    /\ lock' = IF thread'[w] = "idle" THEN NoOne ELSE lock
    /\ UNCHANGED <<scenario, main, subrun, over, sent, pending, errors, loaded,
                   raised, server, report, own>>

\* errors += 1 is a read and a write, after which what was read is gone.
LoadErrors(w) ==
    /\ thread[w] = "load"
    /\ loaded' = [loaded EXCEPT ![w] = errors]
    /\ Go(w, "store")
    /\ UNCHANGED <<scenario, main, subrun, over, sent, pending, lock, lists, errors,
                   raised, server, report, own>>

\* Mutant: the error path keeps the lock.
StoreErrorsKeep(w) ==
    /\ thread[w] = "store"
    /\ errors' = loaded[w] + 1
    /\ loaded' = [loaded EXCEPT ![w] = 0]
    /\ Go(w, "idle")
    /\ UNCHANGED <<scenario, main, subrun, over, sent, pending, lock, lists, raised,
                   server, report, own>>

StoreErrors(w) ==
    /\ thread[w] = "store"
    /\ errors' = loaded[w] + 1
    /\ loaded' = [loaded EXCEPT ![w] = 0]
    /\ lock' = NoOne
    /\ Go(w, "idle")
    /\ UNCHANGED <<scenario, main, subrun, over, sent, pending, lists, raised,
                   server, report, own>>

Main == Reset \/ ReadPre \/ Open \/ Deadline \/ Join \/ ReadPost \/ Summarize
          \/ WriteReport \/ SaveRawSamples \/ WriteCharts
Work(w) == Take(w) \/ Arrive(w) \/ Receive(w) \/ Fail(w) \/ Raise(w) \/ Acquire(w)
             \/ Record(w) \/ LoadErrors(w) \/ StoreErrors(w)

Next == Main \/ Warm \/ LateLookup \/ Dispatch \/ \E w \in Workers : Send(w) \/ Work(w)

Spec == Init /\ [][Next]_vars

\* Time passes, threads run, and a request has an outcome within the client's
\* timeout of 10 s.  How many requests a window sends is not promised.
FairSpec == Spec /\ WF_vars(Main) /\ \A w \in Workers : WF_vars(Work(w))

-----------------------------------------------------------------------------
(* What must hold.                                                         *)

\* Type invariant.
TypeOK ==
    /\ scenario \in Scenarios
    /\ main \in {"reset", "pre", "warm", "run", "post", "summary", "report", "raw",
                "charts", "done", "failed", "crashed"}
    /\ subrun \in 1..SubRuns
    /\ over \in BOOLEAN /\ sent \in 0..MaxSent /\ pending \in 0..sent
    /\ thread \in [Workers -> {"idle", "flight", "served", "answer", "error", "load",
                              "store", "dead"} \cup Fields]
    /\ lock \in Workers \cup {NoOne}
    /\ \A f \in Fields : lists[f] \in Seq(Workers)
    /\ errors \in 0..sent /\ raised \in 0..sent
    /\ server \in [hits : Nat, misses : Nat, known : BOOLEAN, late : Nat]
    /\ \A c \in {pre, post} : c = <<>> \/ c \in Nat \X Nat

\* What a workload returns has each request it sent once, as a sample or an
\* error, but those whose task ended in an exception, which no closed loop
\* returns from; and sample n of the three lists is the same request: threads
\* of the pool update the result all at the same time (workloads.py:100-112,
\* 143-154).
EachOutcomeOnce ==
    main \in {"post", "summary"} =>
        /\ Len(lists.latencies_ms) + errors + raised = sent
        /\ Closed => raised = 0
        /\ \A f \in Fields : lists[f] = lists.latencies_ms

\* The difference of the two reads of /metrics has a look-up for each sample of
\* the window, and none that was not asked for since the first read or left
\* over then: not those that an earlier sub-run was answered for.
DeltaAccounts ==
    main = "summary" /\ Reads /\ Known =>
        /\ DeltaHits >= 0
        /\ Len(lists.latencies_ms) <= DeltaLookups
        /\ DeltaLookups <= own.warm + own.late + sent

\* A scenario comes to its end with the numbers of every sub-run on disk; its
\* last step fails only where a sub-run has no sample.  A closed loop may lose
\* them all, to an exception of one request that is not httpx's.
Finishes ==
    <>(/\ main \in {"done", "failed", "crashed"}
       /\ main # "crashed" => "results.json" \in files
       /\ main = "failed" => Empty
       /\ main = "crashed" => Closed /\ raised > 0)

\* generate_report.py:85: a sweep with a sub-run all of whose requests failed,
\* "common when a backend is unstable", gets a placeholder row "instead of
\* crashing the report".
SweepSurvives ==
    ~Single /\ (\A k \in DOMAIN sweep : sweep[k].samples + sweep[k].errors > 0)
        => main # "failed"

\* run_benchmark.py:254: the observed hit ratio "reflects only this ratio's
\* traffic".  The hits it counts are then no more than the requests that the
\* window has sent.
HitsReflectTraffic ==
    main = "summary" /\ scenario = "E" /\ Known => DeltaHits <= sent
=============================================================================
