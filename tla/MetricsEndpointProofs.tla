----------------------- MODULE MetricsEndpointProofs -----------------------
(***************************************************************************)
(* Proofs about MetricsEndpoint for every value of its constants: what an  *)
(* answer of /metrics may be relied on for, however its reads fall between *)
(* the writes.  Each invariant says how far the writers are ahead of one   *)
(* another, and how far what was read lags behind.                         *)
(***************************************************************************)
EXTENDS MetricsEndpoint, TLAPS

Types ==
    /\ loop \in {"idle", "sum", "hist", "wait", "record", "evict"}
    /\ size \in Nat /\ batches \in Nat /\ sum \in Nat /\ hist \in Nat
    /\ batch \in Nat /\ wait \in Nat /\ decided \in Nat
    /\ entries \in Nat /\ hits \in Nat /\ misses \in Nat
    /\ lock \in {"free", "loop", "admin", "reader"}
    /\ admin \in {"idle", "hits", "misses"}
    /\ reader \in 0..11
    /\ seen \in [Shown -> Nat] /\ counted \in Nat

\* The three counters of a batch, which has an item at least, are written one
\* after the other.
Counting ==
    /\ loop = "sum" =>
           /\ batches = hist + 1 /\ size > 0 /\ sum + size <= MaxBatch * batches
           /\ batches <= sum + 1
    /\ loop = "hist" => batches = hist + 1
    /\ loop # "sum" => batches <= sum
    /\ loop \notin {"sum", "hist"} => batches = hist
    /\ sum <= MaxBatch * batches

\* The sum is read before the count, the count before the histogram.
Averages ==
    /\ seen["empty"] <= batches /\ seen["sum"] <= sum /\ seen["count"] <= batches
    /\ reader \in {5, 6} => seen["empty"] > 0
    /\ reader >= 6 /\ seen["empty"] > 0 =>
           seen["empty"] <= counted /\ counted <= seen["sum"] + 1
    /\ reader >= 7 /\ seen["empty"] > 0 =>
           seen["count"] > 0 /\ seen["sum"] <= MaxBatch * seen["count"]
    /\ reader >= 10 => seen["hist"] + 1 >= seen["count"]

\* The knobs are written one after the other, and the decision after them.
Ticks ==
    /\ loop = "wait" => batch = decided + 1 /\ wait = decided
    /\ loop = "record" => batch = decided + 1 /\ wait = decided + 1
    /\ loop \notin {"wait", "record"} => batch = decided /\ wait = decided

\* They are read in the same order.
KnobsSeen ==
    /\ seen["batch"] <= batch /\ seen["wait"] <= wait
    /\ reader >= 9 => seen["batch"] <= seen["wait"] + 1
    /\ reader >= 11 => seen["batch"] <= seen["decided"] + 1
                       /\ seen["wait"] <= seen["decided"] + 1

\* Who holds the cache's lock, and what it may leave in between.
Locking ==
    /\ lock = "loop" <=> loop = "evict"
    /\ lock = "admin" <=> admin # "idle"
    /\ lock = "reader" <=> reader \in {2, 3}
    /\ entries <= Capacity + 1
    /\ loop # "evict" => entries <= Capacity
    /\ admin = "idle" => (hits > 0 => entries > 0)
    /\ admin = "misses" => hits = 0

CacheSeen ==
    /\ reader \in {2, 3} => seen["hits"] = hits
    /\ reader >= 4 => /\ seen["entries"] <= Capacity
                      /\ seen["hits"] > 0 => seen["entries"] > 0

IInv == Types /\ Counting /\ Averages /\ Ticks /\ KnobsSeen /\ Locking /\ CacheSeen

USE DEF Types, Counting, Averages, Ticks, KnobsSeen, Locking, CacheSeen

-----------------------------------------------------------------------------
LEMMA OrderIs ==
    /\ Len(Order) = 10 /\ DOMAIN Order = 1..10
    /\ Order[1] = "hits" /\ Order[2] = "misses" /\ Order[3] = "entries"
    /\ Order[4] = "empty" /\ Order[5] = "sum" /\ Order[6] = "count"
    /\ Order[7] = "batch" /\ Order[8] = "wait" /\ Order[9] = "hist"
    /\ Order[10] = "decided"
BY DEF Order

LEMMA BatchIsSeventh == (CHOOSE p \in DOMAIN Order : Order[p] = "batch") = 7
<1>1. \A p \in DOMAIN Order : Order[p] = "batch" <=> p = 7
    BY OrderIs
<1> QED
    BY <1>1, OrderIs

LEMMA SeenNat ==
    ASSUME Types
    PROVE  /\ seen["hits"] \in Nat /\ seen["entries"] \in Nat /\ seen["empty"] \in Nat
           /\ seen["sum"] \in Nat /\ seen["count"] \in Nat /\ seen["batch"] \in Nat
           /\ seen["wait"] \in Nat /\ seen["hist"] \in Nat /\ seen["decided"] \in Nat
BY DEF Shown

LEMMA InitInv == Init => IInv
BY MetricsAssumption DEF Init, IInv, Shown

LEMMA CountInv == ASSUME IInv, NEW k \in 1..MaxBatch, CountBatch(k) PROVE IInv'
<1>1. MaxBatch \in Nat \ {0} /\ Capacity \in Nat \ {0}
    BY MetricsAssumption
<1>0. /\ seen["hits"] \in Nat /\ seen["entries"] \in Nat /\ seen["empty"] \in Nat
      /\ seen["sum"] \in Nat /\ seen["count"] \in Nat /\ seen["batch"] \in Nat
      /\ seen["wait"] \in Nat /\ seen["hist"] \in Nat /\ seen["decided"] \in Nat
    BY SeenNat DEF IInv
<1>2. MaxBatch * (batches + 1) = MaxBatch * batches + MaxBatch
    BY <1>1 DEF IInv
<1> QED
    BY <1>0, <1>1, <1>2 DEF IInv, CountBatch, knobs, cache, reading

LEMMA LoopInv ==
    ASSUME IInv,
           AddSize \/ AddToHistogram \/ SetBatch \/ SetWait \/ Record
    PROVE  IInv'
<1>1. MaxBatch \in Nat \ {0} /\ Capacity \in Nat \ {0}
    BY MetricsAssumption
<1>0. /\ seen["hits"] \in Nat /\ seen["entries"] \in Nat /\ seen["empty"] \in Nat
      /\ seen["sum"] \in Nat /\ seen["count"] \in Nat /\ seen["batch"] \in Nat
      /\ seen["wait"] \in Nat /\ seen["hist"] \in Nat /\ seen["decided"] \in Nat
    BY SeenNat DEF IInv
<1>2. CASE AddSize
    BY <1>0, <1>1, <1>2 DEF IInv, AddSize, knobs, cache, reading
<1>3. CASE AddToHistogram
    BY <1>0, <1>1, <1>3 DEF IInv, AddToHistogram, knobs, cache, reading
<1>4. CASE SetBatch
    BY <1>0, <1>1, <1>4 DEF IInv, SetBatch, counters, cache, reading
<1>5. CASE SetWait
    BY <1>0, <1>1, <1>5 DEF IInv, SetWait, counters, cache, reading
<1>6. CASE Record
    BY <1>0, <1>1, <1>6 DEF IInv, Record, counters, cache, reading
<1> QED
    BY <1>2, <1>3, <1>4, <1>5, <1>6

LEMMA CacheInv ==
    ASSUME IInv,
           Get \/ Insert \/ Evict \/ Clear \/ ZeroHits \/ ZeroMisses
    PROVE  IInv'
<1>1. MaxBatch \in Nat \ {0} /\ Capacity \in Nat \ {0}
    BY MetricsAssumption
<1>0. /\ seen["hits"] \in Nat /\ seen["entries"] \in Nat /\ seen["empty"] \in Nat
      /\ seen["sum"] \in Nat /\ seen["count"] \in Nat /\ seen["batch"] \in Nat
      /\ seen["wait"] \in Nat /\ seen["hist"] \in Nat /\ seen["decided"] \in Nat
    BY SeenNat DEF IInv
<1>2. CASE Get
    BY <1>0, <1>1, <1>2 DEF IInv, Get, counters, knobs, reading
<1>3. CASE Insert
    BY <1>0, <1>1, <1>3 DEF IInv, Insert, counters, knobs, reading
<1>4. CASE Evict
    BY <1>0, <1>1, <1>4 DEF IInv, Evict, counters, knobs, reading
<1>5. CASE Clear
    BY <1>0, <1>1, <1>5 DEF IInv, Clear, counters, knobs, reading
<1>6. CASE ZeroHits
    BY <1>0, <1>1, <1>6 DEF IInv, ZeroHits, counters, knobs, reading
<1>7. CASE ZeroMisses
    BY <1>0, <1>1, <1>7 DEF IInv, ZeroMisses, counters, knobs, reading
<1> QED
    BY <1>2, <1>3, <1>4, <1>5, <1>6, <1>7

LEMMA RequestInv == ASSUME IInv, Request PROVE IInv'
<1>1. MaxBatch \in Nat \ {0} /\ Capacity \in Nat \ {0}
    BY MetricsAssumption
<1>2. \A what \in Shown : seen'[what] = 0
    BY DEF Request
<1>3. reader' = 1 /\ seen' \in [Shown -> Nat]
    BY DEF Request
<1>4. reader \notin {2, 3}
    BY OrderIs DEF Request, Done
<1> QED
    BY <1>1, <1>2, <1>3, <1>4 DEF IInv, Request, Shown, counters, knobs, cache

\* One lemma for each kind of access; what is read, and where the reader goes.
LEMMA ReadStep ==
    ASSUME IInv, Read, NEW n \in 1..10, reader = n, NEW w, w = Order[n]
    PROVE  /\ Locked(w)
           /\ seen' = [seen EXCEPT ![w] = Now[w]]
           /\ reader' = IF w = "empty" /\ batches = 0 THEN 7 ELSE n + 1
           /\ counted' = IF w = "sum" THEN batches ELSE counted
           /\ UNCHANGED <<loop, counters, knobs, entries, hits, misses, admin>>
BY BatchIsSeventh DEF Read, After

LEMMA ReadInv == ASSUME IInv, Read PROVE IInv'
<1>1. MaxBatch \in Nat \ {0} /\ Capacity \in Nat \ {0}
    BY MetricsAssumption
<1>2. reader \in 1..10
    BY OrderIs DEF Read
<1>3. CASE reader = 1
    BY <1>1, <1>3, ReadStep, OrderIs DEF IInv, Locked, Now, Shown, counters, knobs
<1>4. CASE reader = 2
    BY <1>1, <1>4, ReadStep, OrderIs DEF IInv, Locked, Now, Shown, counters, knobs
<1>5. CASE reader = 3
    BY <1>1, <1>5, ReadStep, OrderIs DEF IInv, Locked, Now, Shown, counters, knobs
<1>6. CASE reader = 4
    BY <1>1, <1>6, ReadStep, OrderIs DEF IInv, Locked, Now, Shown, counters, knobs
<1>7. CASE reader = 5
    BY <1>1, <1>7, ReadStep, OrderIs DEF IInv, Locked, Now, Shown, counters, knobs
<1>8. CASE reader = 6
    BY <1>1, <1>8, ReadStep, OrderIs DEF IInv, Locked, Now, Shown, counters, knobs
<1>9. CASE reader = 7
    BY <1>1, <1>9, ReadStep, OrderIs DEF IInv, Locked, Now, Shown, counters, knobs
<1>10. CASE reader = 8
    BY <1>1, <1>10, ReadStep, OrderIs DEF IInv, Locked, Now, Shown, counters, knobs
<1>11. CASE reader = 9
    BY <1>1, <1>11, ReadStep, OrderIs DEF IInv, Locked, Now, Shown, counters, knobs
<1>12. CASE reader = 10
    BY <1>1, <1>12, ReadStep, OrderIs DEF IInv, Locked, Now, Shown, counters, knobs
<1> QED
    BY <1>2, <1>3, <1>4, <1>5, <1>6, <1>7, <1>8, <1>9, <1>10, <1>11, <1>12

LEMMA NextInv == IInv /\ [Next]_vars => IInv'
<1> SUFFICES ASSUME IInv, [Next]_vars PROVE IInv'
    OBVIOUS
<1>1. CASE \E k \in 1..MaxBatch : CountBatch(k)
    BY <1>1, CountInv
<1>2. CASE AddSize \/ AddToHistogram \/ SetBatch \/ SetWait \/ Record
    BY <1>2, LoopInv
<1>3. CASE Get \/ Insert \/ Evict \/ Clear \/ ZeroHits \/ ZeroMisses
    BY <1>3, CacheInv
<1>4. CASE Request
    BY <1>4, RequestInv
<1>5. CASE Read
    BY <1>5, ReadInv
<1>6. CASE UNCHANGED vars
    BY <1>6 DEF IInv, vars
<1> QED
    BY <1>1, <1>2, <1>3, <1>4, <1>5, <1>6 DEF Next

LEMMA Invariance == Spec => []IInv
BY InitInv, NextInv, PTL DEF Spec

-----------------------------------------------------------------------------
\* An average that /metrics shows is never too high, and lacks the size of
\* one at most of the batches counted when its sum was read; the histogram
\* shown with it lacks one batch at most (batcher.py:82-90, 148-151).
THEOREM AverageShown == Spec => []AverageInRange
<1>1. IInv => AverageInRange
    BY OrderIs DEF IInv, AverageInRange, Done
<1> QED
    BY <1>1, Invariance, PTL

\* The cache's figures are of one moment (cache.py:74-92).
THEOREM CacheShown == Spec => []CacheSnapshot
<1>1. IInv => CacheSnapshot
    BY OrderIs DEF IInv, CacheSnapshot, Done
<1> QED
    BY <1>1, Invariance, PTL

\* The knobs shown are at most a tick ahead of the decisions shown with them
\* (controller.py:169-181, routes.py:131-158).
THEOREM KnobsShown == Spec => []KnobsExplained
<1>1. IInv => KnobsExplained
    BY OrderIs DEF IInv, KnobsExplained, Done
<1> QED
    BY <1>1, Invariance, PTL
=============================================================================
