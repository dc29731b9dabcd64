----------------------------- MODULE Statistics -----------------------------
(***************************************************************************)
(* The percentile arithmetic of engine/metrics.py, which is to be "the     *)
(* single source of truth", and the copy of it in engine/controller.py.    *)
(* Latencies are whole numbers of a time unit, so that a hundred times a   *)
(* percentile is a whole number too: results are in hundredths of the      *)
(* unit, and there is no rounding, where the code computes with doubles.   *)
(***************************************************************************)
EXTENDS Integers, Sequences, FiniteSets

\* sorted(): position k (from 1) holds a value that fewer than k values are
\* below and at least k values are not above.
AtRank(s, k) ==
    CHOOSE v \in {s[j] : j \in DOMAIN s} :
        /\ Cardinality({j \in DOMAIN s : s[j] < v}) < k
        /\ Cardinality({j \in DOMAIN s : s[j] <= v}) >= k

Sorted(s) == [k \in DOMAIN s |-> AtRank(s, k)]

\* Linear interpolation between positions lo and lo + 1, counted from 0.
Interpolated(sorted, lo, frac) ==
    LET n  == Len(sorted)
        hi == IF lo + 1 < n THEN lo + 1 ELSE n - 1
    IN  100 * sorted[lo + 1] + frac * (sorted[hi + 1] - sorted[lo + 1])

\* metrics.percentile(sorted_values, p)
Percentile(sorted, p) ==
    LET rank == p * (Len(sorted) - 1)
    IN  IF Len(sorted) = 1 THEN 100 * sorted[1]
        ELSE Interpolated(sorted, rank \div 100, rank % 100)

\* Mutant: the rank is taken of the number of values.
OwnPercentileOfCount(values, p) ==
    LET rank == p * Len(values)
    IN  IF Len(values) = 1 THEN 100 * values[1]
        ELSE Interpolated(Sorted(values), rank \div 100, rank % 100)

\* controller._percentile(values, p) of values that are not sorted
OwnPercentile(values, p) ==
    LET rank == p * (Len(values) - 1)
    IN  IF Len(values) = 1 THEN 100 * values[1]
        ELSE Interpolated(Sorted(values), rank \div 100, rank % 100)

\* metrics.latency_stats, but for the mean.
LatencyStats(s) ==
    LET o == Sorted(s)
    IN  [count |-> Len(o), min |-> 100 * o[1], p50 |-> Percentile(o, 50),
         p90 |-> Percentile(o, 90), p95 |-> Percentile(o, 95),
         p99 |-> Percentile(o, 99), max |-> 100 * o[Len(o)]]
=============================================================================
