---------------------- MODULE AdaptiveControllerProofs ----------------------
(***************************************************************************)
(* Proofs about AdaptiveController for every value of its constants: the   *)
(* clamps are inductive, and the direction of the batch knob follows from  *)
(* them.  The percentile needs the order statistics of a window: that they *)
(* exist and are in order is proved from Statistics, where they are chosen *)
(* by cardinality, and an interpolation lies between two neighbours.       *)
(***************************************************************************)
EXTENDS AdaptiveController, DataLemmas

IInv == TypeOK /\ WithinClamps /\ LastDecisionInForce

\* What ControllerAssumption says of each knob's constants.
LEMMA ConstantsNat ==
    /\ InitBatch \in Nat /\ CtlMaxBatch \in Nat /\ BatchStep \in Nat
    /\ InitWait \in Nat /\ MinWait \in Nat /\ MaxWait \in Nat
    /\ WaitStep \in Nat /\ MinWait <= MaxWait
BY ControllerAssumption

\* A batch decision stays within the clamps, and never goes down from below
\* the controller's maximum.
LEMMA BatchStepBounds ==
    ASSUME TypeOK, WithinClamps, NEW d
    PROVE  /\ BatchAfter(d) \in Nat
           /\ BatchAfter(d) >= Least(InitBatch, CtlMaxBatch)
           /\ BatchAfter(d) <= Greatest(InitBatch, CtlMaxBatch)
           /\ InitBatch <= CtlMaxBatch => BatchAfter(d) >= maxBatch
<1>1. /\ maxBatch \in Nat
      /\ maxBatch >= Least(InitBatch, CtlMaxBatch)
      /\ maxBatch <= Greatest(InitBatch, CtlMaxBatch)
    BY DEF TypeOK, WithinClamps
<1> QED
    BY <1>1, ConstantsNat DEF BatchAfter, Least, Greatest

\* A wait decision stays within the clamps.
LEMMA WaitStepBounds ==
    ASSUME TypeOK, WithinClamps, NEW d
    PROVE  /\ WaitAfter(d) \in Nat
           /\ WaitAfter(d) >= Least(InitWait, MinWait)
           /\ WaitAfter(d) <= Greatest(InitWait, MaxWait)
<1>1. /\ maxWait \in Nat
      /\ maxWait >= Least(InitWait, MinWait)
      /\ maxWait <= Greatest(InitWait, MaxWait)
    BY DEF TypeOK, WithinClamps
<1>2. CASE d = "grow"
    BY <1>1, <1>2, ConstantsNat DEF WaitAfter, Least, Greatest
<1>3. CASE d = "shrink-wait"
    BY <1>1, <1>3, ConstantsNat DEF WaitAfter, Least, Greatest
<1>4. CASE d \notin {"grow", "shrink-wait"}
    BY <1>1, <1>4 DEF WaitAfter
<1> QED
    BY <1>2, <1>3, <1>4

\* Pushing onto a bounded history keeps the bound and puts the new item last.
LEMMA PushedLast ==
    ASSUME NEW S, NEW h \in Seq(S), NEW x \in S, NEW n \in Nat \ {0}, Len(h) <= n
    PROVE  /\ Pushed(h, x, n) \in Seq(S)
           /\ Len(Pushed(h, x, n)) <= n
           /\ Pushed(h, x, n) # <<>>
           /\ Pushed(h, x, n)[Len(Pushed(h, x, n))] = x
<1> DEFINE g == Append(h, x)
<1>1. /\ g \in Seq(S) /\ g # <<>>
      /\ Len(h) \in Nat
      /\ Len(g) = Len(h) + 1
      /\ g[Len(h) + 1] = x
    BY AppendProperties, LenProperties
<1>2. Pushed(h, x, n) = IF Len(g) > n THEN Tail(g) ELSE g
    BY DEF Pushed
<1> HIDE DEF g
<1>3. CASE Len(g) <= n
    BY <1>1, <1>2, <1>3
<1>4. CASE Len(g) > n
  <2>1. Len(h) = n /\ Pushed(h, x, n) = Tail(g)
      BY <1>1, <1>2, <1>4
  <2>2. /\ Tail(g) \in Seq(S) /\ Len(Tail(g)) = Len(g) - 1
        /\ \A i \in 1..Len(Tail(g)) : Tail(g)[i] = g[i + 1]
      BY <1>1, HeadTailProperties
  <2>3. Len(Tail(g)) = n /\ Tail(g)[n] = x
      BY <1>1, <2>1, <2>2
  <2>4. Tail(g) # <<>>
      BY <2>2, <2>3, EmptySeq
  <2> QED
      BY <2>1, <2>2, <2>3, <2>4
<1> QED
    BY <1>1, <1>3, <1>4

LEMMA InitInv == Init => IInv
<1> SUFFICES ASSUME Init PROVE IInv
    OBVIOUS
<1>1. /\ decisions \in Seq([action : Actions, batch : Nat, wait : Nat])
      /\ Len(decisions) <= MaxHistory
      /\ window \in Seq(Nat) /\ Len(window) <= WindowSize
    BY EmptySeq, ControllerAssumption DEF Init
<1>2. TypeOK
    BY <1>1, ControllerAssumption DEF Init, TypeOK
<1>3. WithinClamps /\ LastDecisionInForce
    BY ControllerAssumption DEF Init, WithinClamps, LastDecisionInForce, Least, Greatest
<1> QED
    BY <1>2, <1>3 DEF IInv

LEMMA TickInv == ASSUME IInv, Tick PROVE IInv'
<1> DEFINE d == Decision
           S == [action : Actions, batch : Nat, wait : Nat]
           r == [action |-> d, batch |-> maxBatch', wait |-> maxWait']
<1>1. /\ TypeOK /\ WithinClamps
      /\ maxBatch' = BatchAfter(d) /\ maxWait' = WaitAfter(d)
      /\ decisions' = Pushed(decisions, r, MaxHistory)
      /\ UNCHANGED <<window, qsize, pc>>
    BY DEF IInv, Tick, obs, Record
<1>2. d \in Actions
    BY DEF Decision, Actions
<1> HIDE DEF d
<1>3. /\ maxBatch' \in Nat /\ maxWait' \in Nat
      /\ WithinClamps'
    BY <1>1, BatchStepBounds, WaitStepBounds DEF WithinClamps
<1>4. r \in S /\ r.batch = maxBatch' /\ r.wait = maxWait'
    BY <1>2, <1>3
<1>5. /\ decisions \in Seq(S) /\ Len(decisions) <= MaxHistory
      /\ MaxHistory \in Nat \ {0}
    BY <1>1, ControllerAssumption DEF TypeOK
<1> HIDE DEF r, S
<1>6. /\ decisions' \in Seq(S) /\ Len(decisions') <= MaxHistory
      /\ decisions'[Len(decisions')] = r
    BY <1>1, <1>4, <1>5, PushedLast
<1>7. TypeOK'
    BY <1>1, <1>3, <1>6 DEF TypeOK, S
<1>8. LastDecisionInForce'
    BY <1>4, <1>6 DEF LastDecisionInForce
<1> QED
    BY <1>3, <1>7, <1>8 DEF IInv

LEMMA ObserveInv == ASSUME IInv, Observe PROVE IInv'
<1>1. /\ window' \in Seq(Nat) /\ Len(window') <= WindowSize
      /\ qsize' \in QueueDepths
  <2>1. CASE UNCHANGED window /\ qsize' \in QueueDepths
      BY <2>1 DEF IInv, TypeOK
  <2>2. ASSUME NEW l \in Latencies, window' = Pushed(window, l, WindowSize),
               UNCHANGED qsize
        PROVE  /\ window' \in Seq(Nat) /\ Len(window') <= WindowSize
               /\ qsize' \in QueueDepths
      BY <2>2, PushedLast, ControllerAssumption DEF IInv, TypeOK
  <2> QED
      BY <2>1, <2>2 DEF Observe
<1>2. UNCHANGED <<knobs, decisions, pc>>
    BY DEF Observe
<1> QED
    BY <1>1, <1>2 DEF IInv, TypeOK, WithinClamps, LastDecisionInForce, knobs

LEMMA NextInv == IInv /\ [Next]_vars => IInv'
<1> SUFFICES ASSUME IInv, [Next]_vars PROVE IInv'
    OBVIOUS
<1>1. CASE Tick
    BY <1>1, TickInv
<1>2. CASE Start \/ Stop \/ StopReturn
    BY <1>2 DEF Start, Stop, StopReturn, obs, knobs, IInv, TypeOK, WithinClamps,
                LastDecisionInForce
<1>3. CASE Observe
    BY <1>3, ObserveInv
<1>4. CASE UNCHANGED vars
    BY <1>4 DEF vars, IInv, TypeOK, WithinClamps, LastDecisionInForce
<1> QED
    BY <1>1, <1>2, <1>3, <1>4 DEF Next

LEMMA Invariance == Spec => []IInv
BY InitInv, NextInv, PTL DEF Spec

-----------------------------------------------------------------------------
(* Order statistics.  Sorted is defined by rank; the value at a rank is    *)
(* the least bound of as many samples, from which its order follows, and   *)
(* from that where an interpolated percentile lies.                        *)

UpTo(s, v)  == {j \in DOMAIN s : s[j] <= v}
Below(s, v) == {j \in DOMAIN s : s[j] < v}

LEMMA Counts ==
    ASSUME NEW s \in Seq(Nat), NEW T \in SUBSET (DOMAIN s)
    PROVE  IsFiniteSet(T) /\ Cardinality(T) \in Nat /\ Cardinality(T) <= Len(s)
<1>1. Len(s) \in Nat /\ DOMAIN s = 1..Len(s)
    BY LenProperties
<1>2. 1 \in Int /\ Len(s) \in Int
    BY <1>1
<1>3. /\ IsFiniteSet(1..Len(s))
      /\ Cardinality(1..Len(s)) = IF 1 > Len(s) THEN 0 ELSE Len(s) - 1 + 1
    BY <1>2, FS_Interval, Zenon
<1>4. IsFiniteSet(T) /\ Cardinality(T) <= Cardinality(DOMAIN s)
    BY <1>1, <1>3, FS_Subset
<1>5. Cardinality(T) \in Nat
    BY <1>4, FS_CardinalityType
<1> QED
    BY <1>1, <1>3, <1>4, <1>5

LEMMA MoreCounts ==
    ASSUME NEW s \in Seq(Nat), NEW T \in SUBSET (DOMAIN s), NEW U \in SUBSET T
    PROVE  Cardinality(U) <= Cardinality(T)
<1>1. IsFiniteSet(T)
    BY Counts
<1> QED
    BY <1>1, FS_Subset

LEMMA Bounded ==
    ASSUME NEW s \in Seq(Nat)
    PROVE  \E m \in Nat : \A j \in 1..Len(s) : s[j] <= m
<1> DEFINE T == {n \in Nat : n <= Len(s) => \E m \in Nat : \A j \in 1..n : s[j] <= m}
<1>1. Len(s) \in Nat /\ \A j \in 1..Len(s) : s[j] \in Nat
    BY LenProperties
<1>2. 0 \in T
    OBVIOUS
<1>3. ASSUME NEW n \in Nat, n \in T PROVE n + 1 \in T
    <2> SUFFICES ASSUME n + 1 <= Len(s)
                 PROVE  \E m \in Nat : \A j \in 1..(n + 1) : s[j] <= m
        OBVIOUS
    <2>1. PICK m \in Nat : \A j \in 1..n : s[j] <= m
        BY <1>1, <1>3
    <2>2. s[n + 1] \in Nat /\ \A j \in 1..n : s[j] \in Nat
        BY <1>1
    <2>3. m + s[n + 1] \in Nat
        BY <2>2
    <2>4. \A j \in 1..(n + 1) : s[j] <= m + s[n + 1]
        <3>1. ASSUME NEW j \in 1..(n + 1) PROVE s[j] <= m + s[n + 1]
            <4>1. CASE j = n + 1
                BY <2>2, <4>1
            <4>2. CASE j # n + 1
                <5>1. j \in 1..n
                    BY <4>2
                <5> QED
                    BY <2>1, <2>2, <5>1
            <4> QED
                BY <4>1, <4>2
        <3> QED
            BY <3>1
    <2> QED
        BY <2>3, <2>4
<1> HIDE DEF T
<1>4. Len(s) \in T
    BY <1>1, <1>2, <1>3, SetInduction
<1> QED
    BY <1>1, <1>4 DEF T

\* What Sorted holds at a rank.
LEMMA RankFound ==
    ASSUME NEW s \in Seq(Nat), NEW k \in 1..Len(s)
    PROVE  /\ AtRank(s, k) \in {s[j] : j \in DOMAIN s} /\ AtRank(s, k) \in Nat
           /\ Cardinality(Below(s, AtRank(s, k))) < k
           /\ Cardinality(UpTo(s, AtRank(s, k))) >= k
<1> DEFINE T == {v \in Nat : Cardinality(UpTo(s, v)) >= k}
<1>1. /\ Len(s) \in Nat /\ DOMAIN s = 1..Len(s) /\ k \in Nat
      /\ \A j \in DOMAIN s : s[j] \in Nat
    BY LenProperties
<1>2. \A v \in Nat : /\ UpTo(s, v) \in SUBSET (DOMAIN s) /\ Below(s, v) \in SUBSET (DOMAIN s)
    BY DEF UpTo, Below
<1>3. T # {}
    <2>1. PICK m \in Nat : \A j \in 1..Len(s) : s[j] <= m
        BY Bounded
    <2>2. UpTo(s, m) = 1..Len(s)
        BY <1>1, <2>1 DEF UpTo
    <2>3. 1 \in Int /\ Len(s) \in Int
        BY <1>1
    <2>4. Cardinality(1..Len(s)) = IF 1 > Len(s) THEN 0 ELSE Len(s) - 1 + 1
        BY <2>3, FS_Interval, Zenon
    <2> QED
        BY <1>1, <2>2, <2>4
<1>4. PICK v \in T : \A u \in T : v <= u
    <2>1. \A t \in T : t \in Nat
        OBVIOUS
    <2> HIDE DEF T
    <2> QED
        BY <1>3, <2>1, Smallest
<1>5. Cardinality(UpTo(s, v)) >= k
    BY <1>4
<1>6. Cardinality(Below(s, v)) < k
    <2>1. Cardinality(Below(s, v)) \in Nat
        BY <1>2, Counts
    <2>2. CASE v = 0
        <3>1. Below(s, v) = {}
            BY <1>1, <2>2 DEF Below
        <3> QED
            BY <1>1, <3>1, FS_EmptySet
    <2>3. CASE v # 0
        <3>1. v - 1 \in Nat /\ v - 1 \notin T
            BY <1>4, <2>3
        <3>2. Below(s, v) = UpTo(s, v - 1)
            BY <1>1, <1>4 DEF Below, UpTo
        <3> QED
            BY <1>1, <2>1, <3>1, <3>2
    <2> QED
        BY <2>2, <2>3
<1>7. v \in {s[j] : j \in DOMAIN s}
    <2>1. UpTo(s, v) # Below(s, v)
        <3>1. Cardinality(UpTo(s, v)) \in Nat /\ Cardinality(Below(s, v)) \in Nat
            BY <1>2, Counts
        <3> QED
            BY <1>1, <1>5, <1>6, <3>1
    <2>2. PICK j \in DOMAIN s : ~(j \in UpTo(s, v) <=> j \in Below(s, v))
        BY <2>1 DEF UpTo, Below
    <2> QED
        BY <1>1, <1>4, <2>2 DEF UpTo, Below
<1> DEFINE r == AtRank(s, k)
<1>8. r \in {s[j] : j \in DOMAIN s} /\ Cardinality(Below(s, r)) < k /\ Cardinality(UpTo(s, r)) >= k
    BY <1>5, <1>6, <1>7 DEF AtRank, Below, UpTo
<1> QED
    BY <1>1, <1>8

LEMMA SortedInOrder ==
    ASSUME NEW s \in Seq(Nat)
    PROVE  /\ Sorted(s) \in Seq(Nat) /\ Len(Sorted(s)) = Len(s)
           /\ \A k \in 1..Len(s) : Sorted(s)[k] = AtRank(s, k)
           /\ \A j, k \in 1..Len(s) : j <= k => Sorted(s)[j] <= Sorted(s)[k]
<1>1. Len(s) \in Nat /\ DOMAIN s = 1..Len(s)
    BY LenProperties
<1>2. \A k \in 1..Len(s) : Sorted(s)[k] = AtRank(s, k) /\ AtRank(s, k) \in Nat
    BY <1>1, RankFound DEF Sorted
<1>3. Sorted(s) \in [1..Len(s) -> Nat]
    BY <1>1, RankFound DEF Sorted
<1>4. Sorted(s) \in Seq(Nat) /\ Len(Sorted(s)) = Len(s)
    BY <1>1, <1>3
<1>5. ASSUME NEW j \in 1..Len(s), NEW k \in 1..Len(s), j <= k, AtRank(s, k) < AtRank(s, j)
      PROVE  FALSE
    <2> DEFINE v == AtRank(s, j)
               w == AtRank(s, k)
    <2>1. /\ v \in Nat /\ w \in Nat /\ w < v
          /\ Cardinality(Below(s, v)) < j /\ Cardinality(UpTo(s, w)) >= k
        BY <1>5, RankFound
    <2> HIDE DEF v, w
    <2>2. UpTo(s, w) \subseteq Below(s, v) /\ Below(s, v) \in SUBSET (DOMAIN s)
        <3>1. \A i \in DOMAIN s : s[i] \in Nat
            BY <1>1
        <3> QED
            BY <2>1, <3>1 DEF UpTo, Below
    <2>3. Cardinality(UpTo(s, w)) <= Cardinality(Below(s, v))
        BY <2>2, MoreCounts
    <2> DEFINE c == Cardinality(UpTo(s, w))
               d == Cardinality(Below(s, v))
    <2>4. c \in Nat /\ d \in Nat
        BY <2>2, Counts
    <2>5. d < j /\ c >= k /\ c <= d
        BY <2>1, <2>3
    <2>6. j \in Nat /\ k \in Nat
        BY <1>1
    <2> HIDE DEF c, d
    <2> QED
        BY <1>5, <2>4, <2>5, <2>6
<1>6. \A j, k \in 1..Len(s) : j <= k => AtRank(s, j) <= AtRank(s, k)
    BY <1>2, <1>5
<1> QED
    BY <1>2, <1>4, <1>6

Ordered(o) == \A j, k \in 1..Len(o) : j <= k => o[j] <= o[k]

\* Where a percentile lies: between positions Lo and Hi, counted from 0.
Rank(o, p) == p * (Len(o) - 1)
Lo(o, p)   == Rank(o, p) \div 100
Frac(o, p) == Rank(o, p) % 100
Hi(o, p)   == IF Lo(o, p) + 1 < Len(o) THEN Lo(o, p) + 1 ELSE Len(o) - 1
Gap(o, p)  == o[Hi(o, p) + 1] - o[Lo(o, p) + 1]

LEMMA ProductOrder ==
    ASSUME NEW a \in Nat, NEW b \in Nat, NEW d \in Nat, a <= b
    PROVE  a * d \in Nat /\ b * d \in Nat /\ a * d <= b * d
<1> DEFINE T == {n \in Nat : a * n \in Nat /\ b * n \in Nat /\ a * n <= b * n}
<1>1. 0 \in T
    OBVIOUS
<1>2. ASSUME NEW n \in Nat, n \in T PROVE n + 1 \in T
    <2>1. a * (n + 1) = a * n + a /\ b * (n + 1) = b * n + b
        OBVIOUS
    <2> QED
        BY <1>2, <2>1
<1> HIDE DEF T
<1>3. d \in T
    BY <1>1, <1>2, SetInduction
<1> QED
    BY <1>3 DEF T

LEMMA Places ==
    ASSUME NEW o \in Seq(Nat), o # <<>>, Ordered(o), NEW p \in 0..100
    PROVE  /\ Rank(o, p) \in Nat
           /\ Lo(o, p) \in 0..(Len(o) - 1) /\ Hi(o, p) \in 0..(Len(o) - 1)
           /\ Lo(o, p) \in Nat /\ Hi(o, p) \in Nat /\ Lo(o, p) <= Hi(o, p)
           /\ Hi(o, p) = Lo(o, p) + 1 \/ Lo(o, p) = Len(o) - 1
           /\ Lo(o, p) + 1 \in 1..Len(o) /\ Hi(o, p) + 1 \in 1..Len(o)
           /\ Frac(o, p) \in Nat /\ Frac(o, p) <= 99
           /\ Rank(o, p) = 100 * Lo(o, p) + Frac(o, p)
           /\ o[Lo(o, p) + 1] \in Nat /\ o[Hi(o, p) + 1] \in Nat /\ Gap(o, p) \in Nat
<1>1. Len(o) \in Nat /\ Len(o) >= 1 /\ \A k \in 1..Len(o) : o[k] \in Nat
    BY LenProperties, EmptySeq
<1>2. Rank(o, p) \in Nat /\ Rank(o, p) <= 100 * (Len(o) - 1)
    <2>1. p \in Nat /\ p <= 100 /\ Len(o) - 1 \in Nat /\ 100 \in Nat
        BY <1>1
    <2> QED
        BY <2>1, ProductOrder DEF Rank
<1> DEFINE r == Rank(o, p)
<1> HIDE DEF r
<1>3. r \in Nat /\ r <= 100 * (Len(o) - 1)
    BY <1>2 DEF r
<1> DEFINE l == Lo(o, p)
           h == Hi(o, p)
           f == Frac(o, p)
<1>4. l \in Nat /\ f \in Nat /\ f <= 99 /\ r = 100 * l + f
    <2>1. l = r \div 100 /\ f = r % 100
        BY DEF Lo, Frac, r
    <2> HIDE DEF l, f
    <2> QED
        BY <1>3, <2>1
<1>5. h = IF l + 1 < Len(o) THEN l + 1 ELSE Len(o) - 1
    BY DEF Hi
<1>6. Gap(o, p) = o[h + 1] - o[l + 1]
    BY DEF Gap
<1> HIDE DEF l, h, f
<1>7. l \in 0..(Len(o) - 1)
    BY <1>1, <1>3, <1>4
<1>8. /\ h \in 0..(Len(o) - 1) /\ h \in Nat /\ l <= h
      /\ h = l + 1 \/ l = Len(o) - 1
    BY <1>1, <1>5, <1>7
<1>9. l + 1 \in 1..Len(o) /\ h + 1 \in 1..Len(o) /\ l + 1 <= h + 1
    BY <1>1, <1>7, <1>8
<1>10. o[l + 1] \in Nat /\ o[h + 1] \in Nat /\ o[l + 1] <= o[h + 1]
    BY <1>1, <1>9 DEF Ordered
<1>11. Gap(o, p) \in Nat
    BY <1>6, <1>10
<1> QED
    BY <1>3, <1>4, <1>7, <1>8, <1>9, <1>10, <1>11 DEF r, l, h, f

\* One sample is its own percentile: the general formula says so too.
LEMMA PercentileIs ==
    ASSUME NEW o \in Seq(Nat), o # <<>>, Ordered(o), NEW p \in 0..100
    PROVE  Percentile(o, p) = 100 * o[Lo(o, p) + 1] + Frac(o, p) * Gap(o, p)
<1>1. /\ Frac(o, p) \in Nat /\ Lo(o, p) \in 0..(Len(o) - 1) /\ Hi(o, p) \in 0..(Len(o) - 1)
      /\ Len(o) \in Nat
    BY Places, LenProperties
<1>2. CASE Len(o) = 1
    <2>1. Lo(o, p) = 0 /\ Hi(o, p) = 0
        BY <1>1, <1>2
    <2>2. o[1] \in Nat
        BY <1>2
    <2>3. Gap(o, p) = 0
        BY <2>1, <2>2 DEF Gap
    <2>4. Frac(o, p) * Gap(o, p) = 0
        BY <1>1, <2>3
    <2> QED
        BY <1>2, <2>1, <2>2, <2>4 DEF Percentile
<1>3. CASE Len(o) # 1
    BY <1>3 DEF Percentile, Interpolated, Rank, Lo, Frac, Hi, Gap
<1> QED
    BY <1>2, <1>3

LEMMA PercentileBetween ==
    ASSUME NEW o \in Seq(Nat), o # <<>>, Ordered(o), NEW p \in 0..100
    PROVE  /\ Percentile(o, p) \in Nat
           /\ 100 * o[Lo(o, p) + 1] <= Percentile(o, p)
           /\ Percentile(o, p) <= 100 * o[Hi(o, p) + 1]
<1> DEFINE f    == Frac(o, p)
           g    == Gap(o, p)
           a    == o[Lo(o, p) + 1]
           b    == o[Hi(o, p) + 1]
           part == f * g
<1>1. f \in Nat /\ f <= 99 /\ g \in Nat /\ a \in Nat /\ b \in Nat
    BY Places
<1>2. g = b - a
    BY DEF Gap
<1>3. Percentile(o, p) = 100 * a + part
    BY PercentileIs
<1> HIDE DEF f, g, a, b
<1>4. part \in Nat /\ part <= 100 * g
    BY <1>1, ProductOrder
<1> HIDE DEF part
<1>5. 100 * a + part \in Nat /\ 100 * a <= 100 * a + part /\ 100 * a + part <= 100 * b
    BY <1>1, <1>2, <1>4
<1> QED
    BY <1>3, <1>5 DEF a, b

LEMMA PercentilesInOrder ==
    ASSUME NEW o \in Seq(Nat), o # <<>>, Ordered(o),
           NEW p \in 0..100, NEW q \in 0..100, p <= q
    PROVE  Percentile(o, p) <= Percentile(o, q)
<1> DEFINE l == Lo(o, p)
           h == Hi(o, p)
           f == Frac(o, p)
           m == Lo(o, q)
           e == Frac(o, q)
           r == Rank(o, p)
           t == Rank(o, q)
<1>1. Len(o) \in Nat /\ Len(o) >= 1 /\ \A k \in 1..Len(o) : o[k] \in Nat
    BY LenProperties, EmptySeq
<1>2. r <= t
    <2>1. p \in Nat /\ q \in Nat /\ Len(o) - 1 \in Nat
        BY <1>1
    <2> QED
        BY <2>1, ProductOrder DEF Rank
<1>3. /\ l \in Nat /\ h \in Nat /\ f \in Nat /\ f <= 99 /\ r = 100 * l + f
      /\ h + 1 \in 1..Len(o)
      /\ h = l + 1 \/ l = Len(o) - 1
    BY Places
<1>4. /\ m \in Nat /\ e \in Nat /\ e <= 99 /\ t = 100 * m + e
      /\ m + 1 \in 1..Len(o)
    BY Places
<1>5. CASE l = m
    <2> DEFINE g == Gap(o, p)
               a == f * g
               b == e * g
               v == o[l + 1]
    <2>1. f <= e
        <3> HIDE DEF l, m, f, e, r, t
        <3> QED
            BY <1>2, <1>3, <1>4, <1>5
    <2>2. Gap(o, q) = g /\ g \in Nat /\ v \in Nat
        BY <1>5, Places DEF Gap, Hi
    <2>3. Percentile(o, p) = 100 * v + a
        BY PercentileIs
    <2>4. Percentile(o, q) = 100 * v + b
        BY <1>5, <2>2, PercentileIs
    <2> HIDE DEF f, e, g, v
    <2>5. a \in Nat /\ b \in Nat /\ a <= b
        BY <1>3, <1>4, <2>1, <2>2, ProductOrder
    <2> HIDE DEF a, b
    <2> QED
        BY <2>2, <2>3, <2>4, <2>5
<1>6. CASE l # m
    <2> DEFINE a == o[h + 1]
               b == o[m + 1]
    <2>1. Percentile(o, p) \in Nat /\ Percentile(o, p) <= 100 * a
        BY PercentileBetween
    <2>2. Percentile(o, q) \in Nat /\ 100 * b <= Percentile(o, q)
        BY PercentileBetween
    <2> HIDE DEF l, h, m, f, e, r, t
    <2>3. h + 1 <= m + 1
        <3>1. l < m
            BY <1>2, <1>3, <1>4, <1>6
        <3> QED
            BY <1>1, <1>3, <1>4, <3>1
    <2>4. a <= b /\ a \in Nat /\ b \in Nat
        BY <1>1, <1>3, <1>4, <2>3 DEF Ordered
    <2> HIDE DEF a, b
    <2> QED
        BY <2>1, <2>2, <2>4
<1> QED
    BY <1>5, <1>6

\* How many samples lie on either side of a percentile.
AtMost(s, v)  == {j \in DOMAIN s : 100 * s[j] <= v}
AtLeast(s, v) == {j \in DOMAIN s : 100 * s[j] >= v}

LEMMA Sides ==
    ASSUME NEW s \in Seq(Nat), s # <<>>, NEW p \in 0..100
    PROVE  LET v == Percentile(Sorted(s), p)
           IN  /\ 100 * Cardinality(AtMost(s, v)) >= p * (Len(s) - 1)
               /\ 100 * Cardinality(AtLeast(s, v)) >= (100 - p) * (Len(s) - 1)
<1> DEFINE o == Sorted(s)
           v == Percentile(o, p)
           n == Len(s)
           l == Lo(o, p)
           h == Hi(o, p)
           f == Frac(o, p)
           r == Rank(o, p)
           a == o[l + 1]
           b == o[h + 1]
<1>1. /\ n \in Nat /\ n >= 1 /\ DOMAIN s = 1..n
      /\ \A j \in DOMAIN s : s[j] \in Nat
    BY LenProperties, EmptySeq
<1>2. /\ o \in Seq(Nat) /\ Len(o) = n /\ Ordered(o)
      /\ \A k \in 1..n : o[k] = AtRank(s, k)
    BY SortedInOrder DEF Ordered
<1> HIDE DEF o
<1>3. o # <<>>
    BY <1>1, <1>2, EmptySeq
<1>4. /\ l \in Nat /\ h \in Nat /\ f \in Nat /\ r = 100 * l + f /\ f <= 99
      /\ l + 1 \in 1..Len(o) /\ h + 1 \in 1..Len(o)
      /\ h = l + 1 \/ l = Len(o) - 1
    <2>1. o \in Seq(Nat) /\ o # <<>> /\ Ordered(o)
        BY <1>2, <1>3
    <2>2. l \in Nat /\ h \in Nat /\ f \in Nat /\ r = 100 * l + f /\ f <= 99
        BY <2>1, Places, ZenonT(60)
    <2>3. /\ l + 1 \in 1..Len(o) /\ h + 1 \in 1..Len(o)
          /\ h = l + 1 \/ l = Len(o) - 1
        BY <2>1, Places
    <2> QED
        BY <2>2, <2>3
<1>5. v \in Nat /\ 100 * a <= v /\ v <= 100 * b
    BY <1>2, <1>3, PercentileBetween
<1>6. r = p * (n - 1)
    BY <1>2 DEF Rank
<1> HIDE DEF v, l, h, f, r
<1>7. /\ a \in Nat /\ Cardinality(UpTo(s, a)) >= l + 1
      /\ b \in Nat /\ Cardinality(Below(s, b)) < h + 1
    BY <1>2, <1>4, RankFound
<1> HIDE DEF a, b
<1>8. 100 * Cardinality(AtMost(s, v)) >= r
    <2>1. UpTo(s, a) \in SUBSET AtMost(s, v) /\ AtMost(s, v) \in SUBSET (DOMAIN s)
        BY <1>1, <1>5, <1>7 DEF UpTo, AtMost
    <2>2. Cardinality(UpTo(s, a)) <= Cardinality(AtMost(s, v))
        BY <2>1, MoreCounts
    <2> DEFINE c == Cardinality(UpTo(s, a))
               d == Cardinality(AtMost(s, v))
    <2>3. c \in Nat /\ d \in Nat
        BY <2>1, Counts
    <2>4. c <= d /\ c >= l + 1
        BY <1>7, <2>2
    <2> HIDE DEF c, d
    <2>5. 100 * d >= r
        BY <1>4, <2>3, <2>4
    <2> QED
        BY <2>5 DEF d
<1>9. 100 * Cardinality(AtLeast(s, v)) >= 100 * (n - 1) - r
    <2> DEFINE rest == (DOMAIN s) \ Below(s, b)
    <2>1. /\ rest \in SUBSET AtLeast(s, v) /\ AtLeast(s, v) \in SUBSET (DOMAIN s)
          /\ Below(s, b) \in SUBSET (DOMAIN s)
        BY <1>1, <1>5, <1>7 DEF Below, AtLeast
    <2>2. Cardinality(rest) = n - Cardinality(Below(s, b))
        <3>1. 1 \in Int /\ n \in Int
            BY <1>1
        <3>2. IsFiniteSet(1..n) /\ Cardinality(1..n) = IF 1 > n THEN 0 ELSE n - 1 + 1
            BY <3>1, FS_Interval, Zenon
        <3>3. IsFiniteSet(DOMAIN s) /\ Cardinality(DOMAIN s) = n
            BY <1>1, <3>2
        <3>4. Cardinality(rest) = Cardinality(DOMAIN s) - Cardinality((DOMAIN s) \cap Below(s, b))
            BY <3>3, FS_Difference
        <3>5. (DOMAIN s) \cap Below(s, b) = Below(s, b)
            BY <2>1
        <3> QED
            BY <3>3, <3>4, <3>5
    <2> DEFINE c == Cardinality(rest)
               d == Cardinality(AtLeast(s, v))
               e == Cardinality(Below(s, b))
    <2>3. c <= d
        BY <2>1, MoreCounts
    <2>4. c = n - e /\ d \in Nat /\ e \in Nat /\ e < h + 1
        BY <1>7, <2>1, <2>2, Counts
    <2> HIDE DEF rest, c, d, e, n
    <2>5. d >= n - h
        BY <1>1, <1>4, <2>3, <2>4
    <2>6. 100 * d >= 100 * (n - 1) - r
        <3>1. CASE h = l + 1
            BY <1>1, <1>4, <2>4, <2>5, <3>1
        <3>2. CASE l = Len(o) - 1
            BY <1>1, <1>2, <1>4, <2>4, <3>2
        <3> QED
            BY <1>4, <3>1, <3>2
    <2> QED
        BY <2>6 DEF d
<1>10. (100 - p) * (n - 1) = 100 * (n - 1) - r
    BY <1>1, <1>6
<1> QED
    BY <1>6, <1>8, <1>9, <1>10 DEF v, o

\* The controller sorts what the harness has sorted already.
LEMMA OwnIsShared ==
    ASSUME NEW s \in Seq(Nat), s # <<>>, NEW p \in 0..100
    PROVE  OwnPercentile(s, p) = Percentile(Sorted(s), p)
<1>1. Len(s) \in Nat /\ Len(Sorted(s)) = Len(s) /\ DOMAIN s = 1..Len(s)
    BY LenProperties, SortedInOrder
<1>2. CASE Len(s) = 1
    <2>1. Sorted(s)[1] = AtRank(s, 1) /\ AtRank(s, 1) \in {s[j] : j \in 1..1}
        BY <1>1, <1>2, SortedInOrder, RankFound
    <2>2. Sorted(s)[1] = s[1]
        BY <2>1
    <2> QED
        BY <1>1, <1>2, <2>2 DEF OwnPercentile, Percentile
<1>3. CASE Len(s) # 1
    BY <1>1, <1>3 DEF OwnPercentile, Percentile
<1> QED
    BY <1>2, <1>3

LEMMA WindowAgrees == TypeOK => P95Agrees
<1> SUFFICES ASSUME TypeOK, window # <<>> PROVE P95Agrees
    BY DEF P95Agrees
<1> DEFINE o     == Sorted(window)
           stats == LatencyStats(window)
<1>1. window \in Seq(Nat) /\ Len(window) \in Nat /\ Len(window) >= 1
    BY LenProperties, EmptySeq DEF TypeOK
<1>2. o \in Seq(Nat) /\ Len(o) = Len(window) /\ Ordered(o)
    BY <1>1, SortedInOrder DEF Ordered
<1>3. P95 = Percentile(o, 95)
    BY <1>1, OwnIsShared DEF P95
<1>4. /\ stats.min = 100 * o[1] /\ stats.p50 = Percentile(o, 50)
      /\ stats.p90 = Percentile(o, 90) /\ stats.p95 = Percentile(o, 95)
      /\ stats.p99 = Percentile(o, 99) /\ stats.max = 100 * o[Len(o)]
    BY DEF LatencyStats
<1>5. /\ 100 * Cardinality(AtMost(window, P95)) >= 95 * (Len(window) - 1)
      /\ 100 * Cardinality(AtLeast(window, P95)) >= 5 * (Len(window) - 1)
    <2>1. 95 \in 0..100 /\ 100 - 95 = 5
        OBVIOUS
    <2>2. /\ 100 * Cardinality(AtMost(window, Percentile(o, 95))) >= 95 * (Len(window) - 1)
          /\ 100 * Cardinality(AtLeast(window, Percentile(o, 95)))
                 >= (100 - 95) * (Len(window) - 1)
        BY <1>1, <2>1, Sides
    <2> HIDE DEF o
    <2> QED
        BY <1>3, <2>1, <2>2
<1> HIDE DEF o, stats
<1>6. o # <<>>
    BY <1>1, <1>2, EmptySeq
<1>7. /\ Percentile(o, 50) <= Percentile(o, 90) /\ Percentile(o, 90) <= Percentile(o, 95)
      /\ Percentile(o, 95) <= Percentile(o, 99)
    <2>1. \A p, q \in 0..100 : p <= q => Percentile(o, p) <= Percentile(o, q)
        BY <1>2, <1>6, PercentilesInOrder
    <2>2. {50, 90, 95, 99} \subseteq 0..100
        OBVIOUS
    <2> QED
        BY <2>1, <2>2
<1>8. 100 * o[1] <= Percentile(o, 50)
    <2>1. /\ Lo(o, 50) + 1 \in 1..Len(o) /\ 1 \in 1..Len(o) /\ 1 <= Lo(o, 50) + 1
          /\ o[Lo(o, 50) + 1] \in Nat
        BY <1>1, <1>2, <1>6, Places
    <2>2. o[1] <= o[Lo(o, 50) + 1] /\ o[1] \in Nat
        BY <1>2, <2>1 DEF Ordered
    <2>3. Percentile(o, 50) \in Nat /\ 100 * o[Lo(o, 50) + 1] <= Percentile(o, 50)
        BY <1>2, <1>6, PercentileBetween
    <2> QED
        BY <2>1, <2>2, <2>3
<1>9. Percentile(o, 99) <= 100 * o[Len(o)]
    <2>1. /\ Hi(o, 99) + 1 \in 1..Len(o) /\ Len(o) \in 1..Len(o) /\ Hi(o, 99) + 1 <= Len(o)
          /\ o[Hi(o, 99) + 1] \in Nat
        BY <1>1, <1>2, <1>6, Places
    <2>2. o[Hi(o, 99) + 1] <= o[Len(o)] /\ o[Len(o)] \in Nat
        BY <1>2, <2>1 DEF Ordered
    <2>3. Percentile(o, 99) \in Nat /\ Percentile(o, 99) <= 100 * o[Hi(o, 99) + 1]
        BY <1>2, <1>6, PercentileBetween
    <2> QED
        BY <2>1, <2>2, <2>3
<1> QED
    BY <1>3, <1>4, <1>5, <1>7, <1>8, <1>9 DEF P95Agrees, stats, AtMost, AtLeast

\* The p95 the controller steers by is the one the harness reports of the same
\* samples, for a window of any size and any latencies, and lies where a 95th
\* percentile must (controller.py _percentile against engine/metrics.py).
THEOREM PercentilesAgree == Spec => []P95Agrees
<1>1. IInv => P95Agrees
    BY WindowAgrees DEF IInv
<1> QED
    BY <1>1, Invariance, PTL

-----------------------------------------------------------------------------
\* Every variable keeps its type, the history its bound.
THEOREM TypeCorrect == Spec => []TypeOK
<1>1. IInv => TypeOK
    BY DEF IInv
<1> QED
    BY <1>1, Invariance, PTL

\* The knobs never leave the range from where they started to the clamps,
\* over any number of ticks and any observations (controller.py:142-170).
THEOREM ClampsHold == Spec => []WithinClamps
<1>1. IInv => WithinClamps
    BY DEF IInv
<1> QED
    BY <1>1, Invariance, PTL

\* The decision /metrics shows is the configuration in force.
THEOREM DecisionInForce == Spec => []LastDecisionInForce
<1>1. IInv => LastDecisionInForce
    BY DEF IInv
<1> QED
    BY <1>1, Invariance, PTL

\* No step of the controller, under overload or not, takes batch size away
\* when the initial size is within the controller's maximum.
THEOREM NeverShrinks == Spec => BatchNeverShrinks
<1> DEFINE A == InitBatch <= CtlMaxBatch => maxBatch' >= maxBatch
<1>1. IInv /\ [Next]_vars => [A]_vars
  <2> SUFFICES ASSUME IInv, Next, InitBatch <= CtlMaxBatch
               PROVE  maxBatch' >= maxBatch
      OBVIOUS
  <2>1. CASE Tick
      BY <2>1, BatchStepBounds DEF IInv, Tick
  <2>2. CASE Start \/ Stop \/ StopReturn \/ Observe
      BY <2>2 DEF Start, Stop, StopReturn, Observe, knobs, IInv, TypeOK
  <2> QED
      BY <2>1, <2>2 DEF Next
<1> QED
    BY <1>1, Invariance, PTL DEF Spec, BatchNeverShrinks
=============================================================================
