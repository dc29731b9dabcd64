------------------------- MODULE AdaptiveController -------------------------
(***************************************************************************)
(* engine/controller.py: the task that reads the batcher's recent p95 and  *)
(* queue depth every adjust_interval_sec and moves the two knobs of its    *)
(* BatcherConfig.  What it reads is the environment's: any latency may be  *)
(* observed next, at any queue depth.  The p95 is computed of the window   *)
(* the batcher keeps.  Times are whole milliseconds.                       *)
(***************************************************************************)
EXTENDS Statistics

CONSTANTS
    InitBatch, InitWait,    \* BatcherConfig at construction
    CtlMaxBatch,            \* ControllerConfig.max_batch_size
    MinWait, MaxWait,       \* ControllerConfig.min_wait_ms, max_wait_ms
    BatchStep, WaitStep,    \* ControllerConfig.batch_step, wait_step_ms
    SatFactor,              \* ControllerConfig.saturation_qsize_factor
    Slo,                    \* ControllerConfig.latency_slo_ms
    GrowPercent,            \* ControllerConfig.grow_under_ratio
    MinSamples,             \* ControllerConfig.min_samples
    WindowSize,             \* maxlen of _recent_latencies
    Latencies, QueueDepths, \* those that occur
    MaxHistory              \* self._max_decision_history

ASSUME ControllerAssumption ==
    /\ {InitBatch, InitWait, CtlMaxBatch, MinWait, MaxWait, BatchStep,
        WaitStep, SatFactor, Slo, GrowPercent, MinSamples} \subseteq Nat
    /\ QueueDepths \subseteq Nat /\ Latencies \subseteq Nat
    /\ {MaxHistory, WindowSize} \subseteq Nat \ {0}
    /\ MinWait <= MaxWait

VARIABLES
    window,       \* batcher.recent_latencies()
    qsize,        \* batcher.qsize()
    maxBatch,     \* bcfg.max_batch_size
    maxWait,      \* bcfg.max_wait_ms
    decisions,    \* self._decisions
    pc            \* the task: "off", "sleep", "cancelled"

vars  == <<window, qsize, maxBatch, maxWait, decisions, pc>>
obs   == <<window, qsize>>
knobs == <<maxBatch, maxWait>>

Actions == {"no-data", "hold", "grow", "grow-saturation", "shrink-wait"}

Least(a, b)    == IF a < b THEN a ELSE b
Greatest(a, b) == IF a < b THEN b ELSE a

Init ==
    /\ window = <<>> /\ qsize \in QueueDepths
    /\ maxBatch = InitBatch /\ maxWait = InitWait
    /\ decisions = <<>>
    /\ pc = "off"

-----------------------------------------------------------------------------
(* The decision rule of step_once.                                         *)

Saturated == qsize > SatFactor * maxBatch
HasQueue  == 2 * qsize > maxBatch

\* In hundredths of a millisecond; `or 0.0' when there is no latency.
P95 == IF window = <<>> THEN 0 ELSE OwnPercentile(window, 95)

Decision ==
    LET p95     == P95
        tooHigh == p95 > 100 * Slo
        wellLow == p95 < GrowPercent * Slo
    IN  CASE Len(window) < MinSamples -> "no-data"
          [] tooHigh /\ Saturated     -> "grow-saturation"
          [] tooHigh /\ ~Saturated    -> "shrink-wait"
          [] wellLow /\ HasQueue      -> "grow"
          [] OTHER                    -> "hold"

\* Mutant: the min() with the controller's maximum is left out.
BatchAfterUnclamped(d) ==
    IF d \in {"grow", "grow-saturation"} THEN maxBatch + BatchStep ELSE maxBatch

\* Mutant: the naive controller (TRADEOFFS.md 6.1) shrinks under overload.
BatchAfterNaive(d) ==
    CASE d = "grow"            -> Least(CtlMaxBatch, maxBatch + BatchStep)
      [] d = "grow-saturation" -> Greatest(1, maxBatch - BatchStep)
      [] OTHER                 -> maxBatch

BatchAfter(d) ==
    IF d \in {"grow", "grow-saturation"}
    THEN Least(CtlMaxBatch, maxBatch + BatchStep) ELSE maxBatch

\* Mutant: a step that would pass min_wait_ms is not made at all.
WaitAfterShort(d) ==
    CASE d = "grow"        -> Least(MaxWait, maxWait + WaitStep)
      [] d = "shrink-wait" -> IF maxWait < MinWait + WaitStep THEN maxWait
                              ELSE maxWait - WaitStep
      [] OTHER             -> maxWait

WaitAfter(d) ==
    CASE d = "grow"        -> Least(MaxWait, maxWait + WaitStep)
      [] d = "shrink-wait" -> Greatest(MinWait, maxWait - WaitStep)
      [] OTHER             -> maxWait

\* Appended to a history of at most n: the oldest goes.
Pushed(s, x, n) == LET h == Append(s, x) IN IF Len(h) > n THEN Tail(h) ELSE h

\* Mutant: the history is never cut.
RecordAll(r) == decisions' = Append(decisions, r)

\* Mutant: the history is cut at the wrong end.
RecordOldest(r) ==
    LET h == Append(decisions, r) IN
    decisions' = IF Len(h) > MaxHistory THEN SubSeq(h, 1, MaxHistory) ELSE h

\* _record keeps the last MaxHistory decisions.
Record(r) == decisions' = Pushed(decisions, r, MaxHistory)

\* The timer of _run fires: one decision, written to the live config.
Tick ==
    /\ pc = "sleep"
    /\ LET d == Decision
       IN  /\ maxBatch' = BatchAfter(d)
           /\ maxWait' = WaitAfter(d)
           /\ Record([action |-> d, batch |-> maxBatch', wait |-> maxWait'])
    /\ UNCHANGED <<obs, pc>>

-----------------------------------------------------------------------------
Start ==
    /\ pc = "off"
    /\ pc' = "sleep"
    /\ UNCHANGED <<obs, knobs, decisions>>

\* stop() wakes and cancels the sleep in one step; either ends the task.
Stop ==
    /\ pc = "sleep"
    /\ pc' = "cancelled"
    /\ UNCHANGED <<obs, knobs, decisions>>

StopReturn ==
    /\ pc = "cancelled"
    /\ pc' = "off"
    /\ UNCHANGED <<obs, knobs, decisions>>

\* The batcher serves, the queue moves.  Without traffic the window stays as
\* it is, and its p95 with it: latencies are not aged (batcher.py:60).
Observe ==
    /\ \/ \E l \in Latencies : window' = Pushed(window, l, WindowSize)
          /\ UNCHANGED qsize
       \/ qsize' \in QueueDepths /\ UNCHANGED window
    /\ UNCHANGED <<knobs, decisions, pc>>

Next == Tick \/ Start \/ Stop \/ StopReturn \/ Observe

Spec == Init /\ [][Next]_vars

\* The loop's timer fires and a cancelled task ends; nothing else must happen.
FairSpec == Spec /\ WF_vars(Tick) /\ WF_vars(StopReturn)

-----------------------------------------------------------------------------
(* What must hold.                                                         *)

\* Type invariant.
TypeOK ==
    /\ window \in Seq(Nat) /\ Len(window) <= WindowSize
    /\ qsize \in QueueDepths
    /\ maxBatch \in Nat /\ maxWait \in Nat
    /\ decisions \in Seq([action : Actions, batch : Nat, wait : Nat])
    /\ Len(decisions) <= MaxHistory
    /\ pc \in {"off", "sleep", "cancelled"}

\* However many ticks, and whatever the environment does between them, the
\* knobs stay between where they started and the controller's clamps.
WithinClamps ==
    /\ maxBatch >= Least(InitBatch, CtlMaxBatch)
    /\ maxBatch <= Greatest(InitBatch, CtlMaxBatch)
    /\ maxWait >= Least(InitWait, MinWait)
    /\ maxWait <= Greatest(InitWait, MaxWait)

\* No tick takes drain capacity away (the regression of TRADEOFFS.md 6.1),
\* given that the server starts at or below the controller's maximum.
BatchNeverShrinks ==
    [][InitBatch <= CtlMaxBatch => maxBatch' >= maxBatch]_vars

\* What /metrics shows as the last decision is what the batcher runs with.
LastDecisionInForce ==
    decisions # <<>> =>
        /\ decisions[Len(decisions)].batch = maxBatch
        /\ decisions[Len(decisions)].wait = maxWait

\* A queue that stays saturated gets the largest batch there is, if the
\* controller is left running.
SaturationReachesMax ==
    <>[](/\ pc = "sleep" /\ qsize > SatFactor * CtlMaxBatch
         /\ Len(window) >= MinSamples /\ P95 > 100 * Slo)
        => <>(maxBatch = CtlMaxBatch)

\* A p95 that stays high over a shallow queue walks the wait down to its
\* minimum and no further, also when it is only stale: an idle window is not
\* aged (batcher.py:60).
ShallowReachesMinWait ==
    <>[](/\ pc = "sleep" /\ qsize <= SatFactor * Least(InitBatch, CtlMaxBatch)
         /\ Len(window) >= MinSamples /\ P95 > 100 * Slo)
        => <>[](maxWait = MinWait)

\* The controller's own percentile of a window in order of arrival is the one
\* the harness reports of the same samples, whatever the window has pushed
\* out; with latency_stats in order from the minimum to the maximum, and p95
\* between samples that at least 95 of 100, and 5 of 100, lie on either side of.
P95Agrees ==
    window # <<>> =>
        LET stats == LatencyStats(window)
            p95   == P95
            upTo  == {j \in DOMAIN window : 100 * window[j] <= p95}
            from  == {j \in DOMAIN window : 100 * window[j] >= p95}
        IN  /\ p95 = stats.p95
            /\ stats.min <= stats.p50 /\ stats.p50 <= stats.p90 /\ stats.p90 <= stats.p95
            /\ stats.p95 <= stats.p99 /\ stats.p99 <= stats.max
            /\ 100 * Cardinality(upTo) >= 95 * (Len(window) - 1)
            /\ 100 * Cardinality(from) >= 5 * (Len(window) - 1)
=============================================================================
