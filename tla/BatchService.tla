---------------------------- MODULE BatchService ----------------------------
(***************************************************************************)
(* What DynamicBatcher promises its callers, with the queue, the collector *)
(* and the worker thread forgotten: one waiting line, served from its      *)
(* front in batches.  Every accepted item leaves the line once, in the     *)
(* order of acceptance, and a verdict is given to it only while its caller *)
(* is still waiting for one.                                               *)
(***************************************************************************)
EXTENDS Naturals, Sequences

CONSTANTS
    Items,      \* calls of submit()
    QueueMax,   \* the queue's limit; 0 is unbounded
    MaxServed   \* the largest batch the service may take

VARIABLES
    line,       \* accepted items, oldest first
    verdict,    \* what the item's future holds
    caller      \* what the caller of submit() has seen

vars == <<line, verdict, caller>>

Verdicts == {"result", "error"}

Front(k)     == {line[j] : j \in 1..k}
DropFront(k) == SubSeq(line, k + 1, Len(line))

Init ==
    /\ line = <<>>
    /\ verdict = [i \in Items |-> "none"]
    /\ caller = [i \in Items |-> "idle"]

\* The queue is the part of the line that is not in hand.
MayAccept == QueueMax = 0 \/ Len(line) < QueueMax + MaxServed
MayReject == QueueMax > 0 /\ Len(line) >= QueueMax

Accept(i) ==
    /\ caller[i] = "idle"
    /\ MayAccept
    /\ line' = Append(line, i)
    /\ verdict' = [verdict EXCEPT ![i] = "pending"]
    /\ caller' = [caller EXCEPT ![i] = "waiting"]

Reject(i) ==
    /\ caller[i] = "idle"
    /\ MayReject
    /\ caller' = [caller EXCEPT ![i] = "overflow"]
    /\ UNCHANGED <<line, verdict>>

\* The oldest k items leave together; those still awaited get the verdict v.
Serve(k, v) ==
    /\ line' = DropFront(k)
    /\ verdict' = [i \in Items |->
                     IF i \in Front(k) /\ verdict[i] = "pending"
                     THEN v ELSE verdict[i]]
    /\ UNCHANGED caller

\* A stop drops the oldest k items and tells nobody.
Abandon(k) ==
    /\ line' = DropFront(k)
    /\ UNCHANGED <<verdict, caller>>

Answer(i) ==
    /\ caller[i] = "waiting"
    /\ verdict[i] \in Verdicts
    /\ caller' = [caller EXCEPT ![i] = IF verdict[i] = "result" THEN "ok" ELSE "error"]
    /\ UNCHANGED <<line, verdict>>

\* The caller gives up; its place in the line is not taken back.
GiveUp(i) ==
    /\ caller[i] = "waiting"
    /\ caller' = [caller EXCEPT ![i] = "timeout"]
    /\ verdict' = [verdict EXCEPT ![i] = IF @ = "pending" THEN "cancelled" ELSE @]
    /\ UNCHANGED line

Sizes == 1..(IF Len(line) < MaxServed THEN Len(line) ELSE MaxServed)

Next ==
    \/ \E i \in Items : Accept(i) \/ Reject(i) \/ Answer(i) \/ GiveUp(i)
    \/ \E k \in Sizes : Abandon(k) \/ \E v \in Verdicts : Serve(k, v)

Spec == Init /\ [][Next]_vars
=============================================================================
