----------------------- MODULE PredictionCacheProofs -----------------------
(***************************************************************************)
(* Proofs about PredictionCache for any keys, values and capacity.  Its    *)
(* entries are the end of the list of keys by last use: the two lists are  *)
(* compared position by position, which a move, an insertion and a trim    *)
(* shift alike.                                                            *)
(***************************************************************************)
EXTENDS PredictionCache, DataLemmas

Entry == [key : Keys, value : Values]

Distinct(u) == \A i, j \in 1..Len(u) : u[i] = u[j] => i = j

\* The entries of c are those of the last keys of u, in their order.
Aligned(c, u) ==
    /\ Len(c) = Smaller(Len(u), Capacity)
    /\ \A j \in 1..Len(c) : c[j].key = u[Len(u) - Len(c) + j]

Types ==
    /\ store \in Seq(Entry) /\ used \in Seq(Keys)
    /\ hits \in Nat /\ misses \in Nat
    /\ DOMAIN written = {used[j] : j \in 1..Len(used)}

Current == \A j \in 1..Len(store) : store[j].value = written[store[j].key]

IInv == Types /\ Distinct(used) /\ Aligned(store, used) /\ Current

-----------------------------------------------------------------------------
(* The operators on sequences.                                             *)

LEMMA Trimmed ==
    ASSUME NEW S, NEW s \in Seq(S)
    PROVE  LET n == Smaller(Len(s), Capacity)
           IN  /\ Trim(s) \in Seq(S) /\ Len(Trim(s)) = n
               /\ \A j \in 1..n : Trim(s)[j] = s[Len(s) - n + j]
<1> DEFINE n == Smaller(Len(s), Capacity)
<1>1. Len(s) \in Nat /\ Capacity \in Nat /\ \A i \in 1..Len(s) : s[i] \in S
    BY LenProperties, CacheAssumption
<1>2. Trim(s) = SubSeq(s, Len(s) - n + 1, Len(s))
    BY <1>1, MinIsSmaller DEF Trim
<1>3. n \in 0..Len(s)
    BY <1>1 DEF Smaller
<1> HIDE DEF n
<1>4. Trim(s) \in Seq(S) /\ Len(Trim(s)) = n
      /\ \A j \in 1..n : Trim(s)[j] = s[Len(s) - n + j]
    BY <1>2, <1>3, Ending
<1> QED
    BY <1>4 DEF n

\* With no key twice, the first occurrence is the occurrence.
LEMMA RemovedFirst ==
    ASSUME NEW u \in Seq(Keys), Distinct(u), NEW p \in 1..Len(u)
    PROVE  RemoveFirst(u, u[p]) = RemoveAt(u, p)
<1> DEFINE I == {i \in 1..Len(u) : u[i] = u[p]}
<1>1. I = {p}
    BY DEF Distinct
<1>2. Min(I) = p
    BY <1>1 DEF Min
<1>3. SelectInSeq(u, LAMBDA v : v = u[p]) = p
    BY <1>1, <1>2 DEF SelectInSeq
<1> QED
    BY <1>3 DEF RemoveFirst

-----------------------------------------------------------------------------
(* The list of keys by last use.                                           *)

RangeOf(u) == {u[j] : j \in 1..Len(u)}

LEMMA UsedAgain ==
    ASSUME NEW u \in Seq(Keys), Distinct(u), NEW p \in 1..Len(u)
    PROVE  LET t == Append(RemoveFirst(u, u[p]), u[p])
           IN  /\ t = Append(RemoveAt(u, p), u[p])
               /\ t \in Seq(Keys) /\ Len(t) = Len(u) /\ t[Len(u)] = u[p]
               /\ \A j \in 1..(Len(u) - 1) : t[j] = IF j < p THEN u[j] ELSE u[j + 1]
               /\ Distinct(t) /\ RangeOf(t) = RangeOf(u)
<1> DEFINE t == Append(RemoveFirst(u, u[p]), u[p])
<1>1. t = Append(RemoveAt(u, p), u[p])
    BY RemovedFirst
<1>2. Len(u) \in Nat /\ u[p] \in Keys
    BY LenProperties
<1>3. /\ t \in Seq(Keys) /\ Len(t) = Len(u) /\ t[Len(u)] = u[p]
      /\ \A j \in 1..(Len(u) - 1) : t[j] = IF j < p THEN u[j] ELSE u[j + 1]
    <2> DEFINE w == Append(RemoveAt(u, p), u[p])
    <2>1. /\ w \in Seq(Keys) /\ Len(w) = Len(u) /\ w[Len(u)] = u[p]
          /\ \A j \in 1..(Len(u) - 1) : w[j] = IF j < p THEN u[j] ELSE u[j + 1]
        BY <1>2, Moved
    <2>2. t = w
        BY <1>1
    <2> HIDE DEF t, w
    <2> QED
        BY <2>1, <2>2
<1> HIDE DEF t
\* Where position j of t comes from.
<1> DEFINE From(j) == IF j = Len(u) THEN p ELSE IF j < p THEN j ELSE j + 1
<1>4. \A j \in 1..Len(u) : t[j] = u[From(j)] /\ From(j) \in 1..Len(u)
    BY <1>2, <1>3
<1>5. \A i, j \in 1..Len(u) : From(i) = From(j) => i = j
    BY <1>2
<1>6. \A k \in 1..Len(u) : \E j \in 1..Len(u) : From(j) = k
    <2> SUFFICES ASSUME NEW k \in 1..Len(u) PROVE \E j \in 1..Len(u) : From(j) = k
        OBVIOUS
    <2>1. CASE k = p
        <3>1. Len(u) \in 1..Len(u) /\ From(Len(u)) = k
            BY <1>2, <2>1
        <3> QED
            BY <3>1
    <2>2. CASE k < p
        <3>1. k \in 1..Len(u) /\ From(k) = k
            BY <1>2, <2>2
        <3> QED
            BY <3>1
    <2>3. CASE k > p
        <3>1. k - 1 \in 1..Len(u) /\ From(k - 1) = k
            BY <1>2, <2>3
        <3> QED
            BY <3>1
    <2> QED
        BY <1>2, <2>1, <2>2, <2>3
<1> HIDE DEF From
<1>7. Distinct(t)
    <2>1. ASSUME NEW i \in 1..Len(u), NEW j \in 1..Len(u), t[i] = t[j] PROVE i = j
        <3>1. u[From(i)] = u[From(j)] /\ From(i) \in 1..Len(u) /\ From(j) \in 1..Len(u)
            BY <1>4, <2>1
        <3>2. From(i) = From(j)
            BY <3>1 DEF Distinct
        <3> QED
            BY <1>5, <3>2
    <2> QED
        BY <1>3, <2>1 DEF Distinct
<1>8. RangeOf(t) = RangeOf(u)
    <2>1. ASSUME NEW j \in 1..Len(u) PROVE t[j] \in RangeOf(u)
        BY <1>4 DEF RangeOf
    <2>2. ASSUME NEW k \in 1..Len(u) PROVE u[k] \in RangeOf(t)
        <3>1. PICK j \in 1..Len(u) : From(j) = k
            BY <1>6
        <3> QED
            BY <1>3, <1>4, <3>1 DEF RangeOf
    <2> QED
        BY <1>3, <2>1, <2>2 DEF RangeOf
<1> QED
    BY <1>1, <1>3, <1>7, <1>8 DEF t

LEMMA UsedFirst ==
    ASSUME NEW u \in Seq(Keys), Distinct(u), NEW k \in Keys, k \notin RangeOf(u)
    PROVE  LET t == Append(RemoveFirst(u, k), k)
           IN  /\ t \in Seq(Keys) /\ Len(t) = Len(u) + 1 /\ t[Len(u) + 1] = k
               /\ \A j \in 1..Len(u) : t[j] = u[j]
               /\ Distinct(t) /\ RangeOf(t) = RangeOf(u) \cup {k}
<1> DEFINE t == Append(RemoveFirst(u, k), k)
<1>1. t = Append(u, k)
    BY DEF RemoveFirst, RangeOf
<1>2. /\ t \in Seq(Keys) /\ Len(t) = Len(u) + 1 /\ t[Len(u) + 1] = k
      /\ \A j \in 1..Len(u) : t[j] = u[j]
    BY <1>1, Appended
<1>3. Len(u) \in Nat
    BY LenProperties
<1> HIDE DEF t
<1>4. \A j \in 1..(Len(u) + 1) : j \in 1..Len(u) \/ j = Len(u) + 1
    BY <1>3
<1>5. Distinct(t)
    BY <1>2, <1>3, <1>4 DEF Distinct, RangeOf
<1>6. RangeOf(t) = RangeOf(u) \cup {k}
    <2>1. \A j \in 1..Len(u) : j \in 1..Len(t)
        BY <1>2, <1>3
    <2>2. Len(u) + 1 \in 1..Len(t)
        BY <1>2, <1>3
    <2> QED
        BY <1>2, <1>4, <2>1, <2>2 DEF RangeOf
<1> QED
    BY <1>2, <1>5, <1>6 DEF t

-----------------------------------------------------------------------------
(* The two lists side by side.                                             *)

LEMMA AlignedFacts ==
    ASSUME NEW c \in Seq(Entry), NEW u \in Seq(Keys), Aligned(c, u), Distinct(u)
    PROVE  /\ Len(c) \in Nat /\ Len(u) \in Nat /\ Capacity \in Nat \ {0}
           /\ Len(c) <= Len(u) /\ Len(c) <= Capacity
           /\ \A i, j \in 1..Len(c) : c[i].key = c[j].key => i = j
           /\ \A j \in 1..Len(c) : c[j] \in Entry
<1>1. /\ Len(c) \in Nat /\ Len(u) \in Nat /\ Capacity \in Nat \ {0}
      /\ \A j \in 1..Len(c) : c[j] \in Entry
    BY LenProperties, CacheAssumption
<1>2. Len(c) <= Len(u) /\ Len(c) <= Capacity
    BY <1>1 DEF Aligned, Smaller
<1>3. \A j \in 1..Len(c) : Len(u) - Len(c) + j \in 1..Len(u)
    BY <1>1, <1>2
<1>4. ASSUME NEW i \in 1..Len(c), NEW j \in 1..Len(c), c[i].key = c[j].key
      PROVE  i = j
    <2>1. u[Len(u) - Len(c) + i] = u[Len(u) - Len(c) + j]
        BY <1>4 DEF Aligned
    <2>2. Len(u) - Len(c) + i = Len(u) - Len(c) + j
        BY <1>3, <2>1 DEF Distinct
    <2> QED
        BY <1>1, <2>2
<1> QED
    BY <1>1, <1>2, <1>4

\* An entry is moved, or replaced by one of its key, and its key is used.
LEMMA AlignedMoved ==
    ASSUME NEW c \in Seq(Entry), NEW u \in Seq(Keys), Aligned(c, u), Distinct(u),
           NEW p \in 1..Len(c), NEW e \in Entry, e.key = c[p].key
    PROVE  /\ Append(RemoveAt(c, p), e) \in Seq(Entry)
           /\ Aligned(Append(RemoveAt(c, p), e), Append(RemoveFirst(u, e.key), e.key))
           /\ e.key \in RangeOf(u)
<1> DEFINE q == Len(u) - Len(c) + p
           d == Append(RemoveAt(c, p), e)
           t == Append(RemoveFirst(u, e.key), e.key)
<1>1. /\ Len(c) \in Nat /\ Len(u) \in Nat /\ Capacity \in Nat \ {0}
      /\ Len(c) <= Len(u) /\ Len(c) <= Capacity
    BY AlignedFacts
<1>2. q \in 1..Len(u) /\ u[q] = e.key
    BY <1>1 DEF Aligned
<1>3. /\ d \in Seq(Entry) /\ Len(d) = Len(c) /\ d[Len(c)] = e
      /\ \A j \in 1..(Len(c) - 1) : d[j] = IF j < p THEN c[j] ELSE c[j + 1]
    BY Moved
<1>4. /\ Len(t) = Len(u) /\ t[Len(u)] = e.key
      /\ \A j \in 1..(Len(u) - 1) : t[j] = IF j < q THEN u[j] ELSE u[j + 1]
    <2> HIDE DEF q
    <2> QED
        BY <1>2, UsedAgain
<1>5. e.key \in RangeOf(u)
    <2> HIDE DEF q
    <2> QED
        BY <1>2 DEF RangeOf
<1> HIDE DEF d, t
<1>6. ASSUME NEW j \in 1..Len(d) PROVE d[j].key = t[Len(t) - Len(d) + j]
    <2>1. CASE j = Len(c)
        <3>1. Len(t) - Len(d) + j = Len(u)
            BY <1>1, <1>3, <1>4, <2>1
        <3> QED
            BY <1>3, <1>4, <2>1, <3>1
    <2>2. CASE j # Len(c) /\ j < p
        <3> DEFINE i == Len(u) - Len(c) + j
        <3>1. i = Len(t) - Len(d) + j /\ i \in 1..(Len(u) - 1) /\ i < q
              /\ j \in 1..(Len(c) - 1) /\ j \in 1..Len(c)
            BY <1>1, <1>3, <1>4, <2>2
        <3>2. d[j] = c[j] /\ t[i] = u[i]
            BY <1>3, <1>4, <2>2, <3>1
        <3> QED
            BY <3>1, <3>2 DEF Aligned
    <2>3. CASE j # Len(c) /\ ~(j < p)
        <3> DEFINE i == Len(u) - Len(c) + j
        <3>1. i = Len(t) - Len(d) + j /\ i \in 1..(Len(u) - 1) /\ ~(i < q)
              /\ j \in 1..(Len(c) - 1) /\ j + 1 \in 1..Len(c)
              /\ i + 1 = Len(u) - Len(c) + (j + 1)
            BY <1>1, <1>3, <1>4, <2>3
        <3>2. d[j] = c[j + 1] /\ t[i] = u[i + 1]
            BY <1>3, <1>4, <2>3, <3>1
        <3> QED
            BY <3>1, <3>2 DEF Aligned
    <2> QED
        BY <2>1, <2>2, <2>3
<1>7. Aligned(d, t)
    BY <1>3, <1>4, <1>6 DEF Aligned
<1> QED
    BY <1>3, <1>5, <1>7 DEF d, t

\* A new entry is put behind the others, and the oldest may have to go.
LEMMA AlignedInserted ==
    ASSUME NEW c \in Seq(Entry), NEW u \in Seq(Keys), Aligned(c, u), Distinct(u),
           NEW e \in Entry, \A j \in 1..Len(c) : c[j].key # e.key
    PROVE  /\ Trim(Append(c, e)) \in Seq(Entry)
           /\ Aligned(Trim(Append(c, e)), Append(RemoveFirst(u, e.key), e.key))
<1> DEFINE a == Append(c, e)
           d == Trim(a)
           t == Append(RemoveFirst(u, e.key), e.key)
           n == Smaller(Len(c) + 1, Capacity)
<1>1. /\ Len(c) \in Nat /\ Len(u) \in Nat /\ Capacity \in Nat \ {0}
      /\ Len(c) <= Len(u) /\ Len(c) <= Capacity /\ e.key \in Keys
    BY AlignedFacts DEF Entry
<1>2. /\ a \in Seq(Entry) /\ Len(a) = Len(c) + 1 /\ a[Len(c) + 1] = e
      /\ \A k \in 1..Len(c) : a[k] = c[k]
    BY Appended
<1> HIDE DEF a
<1>3. /\ d \in Seq(Entry) /\ Len(d) = n
      /\ \A j \in 1..n : d[j] = a[Len(c) + 1 - n + j]
    <2>1. LET m == Smaller(Len(a), Capacity)
          IN  /\ d \in Seq(Entry) /\ Len(d) = m
              /\ \A j \in 1..m : d[j] = a[Len(a) - m + j]
        BY <1>2, Trimmed
    <2>2. Smaller(Len(a), Capacity) = n
        BY <1>2
    <2>5. n \in Nat
        BY <1>1 DEF Smaller
    <2> HIDE DEF n, d
    <2>3. /\ d \in Seq(Entry) /\ Len(d) = n
          /\ \A j \in 1..n : d[j] = a[Len(a) - n + j]
        BY <2>1, <2>2
    <2>4. ASSUME NEW j \in 1..n PROVE d[j] = a[Len(c) + 1 - n + j]
        <3>1. Len(a) = Len(c) + 1
            BY <1>2
        <3>2. d[j] = a[Len(a) - n + j]
            BY <2>3
        <3> QED
            BY <1>1, <2>5, <3>1, <3>2
    <2> QED
        BY <2>3, <2>4
<1> HIDE DEF d
<1>4. n \in Nat /\ n <= Len(c) + 1 /\ n <= Capacity /\ n >= 1
    BY <1>1 DEF Smaller
<1>8. n = Smaller(Len(c) + 1, Capacity)
    OBVIOUS
<1> HIDE DEF n
\* Counted from the end, the new list of keys is the old one behind its last.
<1>5. /\ Len(t) \in Nat /\ Smaller(Len(t), Capacity) = n /\ t[Len(t)] = e.key
      /\ \A j \in 1..(n - 1) : t[Len(t) - n + j] = u[Len(u) - n + j + 1]
    <2>1. CASE e.key \notin RangeOf(u)
        <3>1. /\ Len(t) = Len(u) + 1 /\ t[Len(u) + 1] = e.key
              /\ \A j \in 1..Len(u) : t[j] = u[j]
            BY <1>1, <2>1, UsedFirst
        <3> HIDE DEF t
        <3>2. Smaller(Len(t), Capacity) = n
            BY <1>1, <1>8, <3>1 DEF Aligned, Smaller
        <3>3. ASSUME NEW j \in 1..(n - 1)
              PROVE  t[Len(t) - n + j] = u[Len(u) - n + j + 1]
            <4>1. Len(t) - n + j \in 1..Len(u) /\ Len(t) - n + j = Len(u) - n + j + 1
                BY <1>1, <1>4, <3>1
            <4> QED
                BY <3>1, <4>1
        <3> QED
            BY <1>1, <3>1, <3>2, <3>3
    <2>2. CASE e.key \in RangeOf(u)
        <3>1. PICK q \in 1..Len(u) : u[q] = e.key
            BY <2>2 DEF RangeOf
        <3>2. /\ Len(t) = Len(u) /\ t[Len(u)] = e.key
              /\ \A j \in 1..(Len(u) - 1) : t[j] = IF j < q THEN u[j] ELSE u[j + 1]
            <4> DEFINE w == Append(RemoveFirst(u, u[q]), u[q])
            <4>1. /\ Len(w) = Len(u) /\ w[Len(u)] = u[q]
                  /\ \A j \in 1..(Len(u) - 1) : w[j] = IF j < q THEN u[j] ELSE u[j + 1]
                BY UsedAgain
            <4>2. t = w
                BY <3>1
            <4> HIDE DEF t, w
            <4> QED
                BY <3>1, <4>1, <4>2
        <3> HIDE DEF t
        <3>3. q <= Len(u) - Len(c)
            <4> SUFFICES ASSUME q > Len(u) - Len(c) PROVE FALSE
                BY <1>1
            <4> DEFINE j == q - (Len(u) - Len(c))
            <4>1. j \in 1..Len(c) /\ Len(u) - Len(c) + j = q
                BY <1>1
            <4> HIDE DEF j
            <4>2. c[j].key = u[q]
                BY <4>1 DEF Aligned
            <4> QED
                BY <3>1, <4>1, <4>2
        <3>4. Len(c) = Capacity /\ n = Capacity
            BY <1>1, <1>8, <3>3 DEF Aligned, Smaller
        <3>5. Smaller(Len(t), Capacity) = n
            BY <1>1, <3>2, <3>4 DEF Aligned, Smaller
        <3>6. ASSUME NEW j \in 1..(n - 1)
              PROVE  t[Len(t) - n + j] = u[Len(u) - n + j + 1]
            <4> DEFINE i == Len(u) - n + j
            <4>1. i \in 1..(Len(u) - 1) /\ ~(i < q) /\ i = Len(t) - n + j
                BY <1>1, <1>4, <3>2, <3>3, <3>4
            <4> QED
                BY <3>2, <4>1
        <3> QED
            BY <1>1, <3>2, <3>5, <3>6
    <2> QED
        BY <2>1, <2>2
<1> HIDE DEF t
<1>6. ASSUME NEW j \in 1..Len(d) PROVE d[j].key = t[Len(t) - Len(d) + j]
    <2>1. CASE j = n
        <3>1. Len(c) + 1 - n + j = Len(c) + 1 /\ Len(t) - Len(d) + j = Len(t)
            BY <1>1, <1>3, <1>4, <1>5, <2>1
        <3> QED
            BY <1>2, <1>3, <1>5, <2>1, <3>1
    <2>2. CASE j # n
        <3> DEFINE i == Len(c) + 1 - n + j
        <3>1. i \in 1..Len(c) /\ j \in 1..(n - 1) /\ j \in 1..n
              /\ Len(u) - Len(c) + i = Len(u) - n + j + 1
            BY <1>1, <1>3, <1>4, <2>2
        <3>2. d[j] = c[i]
            BY <1>2, <1>3, <3>1
        <3>3. c[i].key = u[Len(u) - n + j + 1]
            BY <3>1 DEF Aligned
        <3> QED
            BY <1>3, <1>5, <3>1, <3>2, <3>3
    <2> QED
        BY <2>1, <2>2
<1>7. Aligned(d, t)
    BY <1>3, <1>5, <1>6 DEF Aligned
<1> QED
    BY <1>3, <1>7 DEF a, d, t

-----------------------------------------------------------------------------
(* The steps.                                                              *)

LEMMA InitInv == Init => IInv
<1> SUFFICES ASSUME Init PROVE IInv
    OBVIOUS
<1>1. Len(store) = 0 /\ Len(used) = 0 /\ store \in Seq(Entry) /\ used \in Seq(Keys)
    BY DEF Init
<1>2. DOMAIN written = {} /\ {used[j] : j \in 1..Len(used)} = {}
    BY <1>1 DEF Init
<1>3. Aligned(store, used)
    BY <1>1, CacheAssumption DEF Aligned, Smaller
<1> QED
    BY <1>1, <1>2, <1>3 DEF Init, IInv, Types, Distinct, Current

LEMMA ResetInv == Reset => IInv'
<1> SUFFICES ASSUME Reset PROVE IInv'
    OBVIOUS
<1>1. /\ Len(store') = 0 /\ Len(used') = 0 /\ store' \in Seq(Entry)
      /\ used' \in Seq(Keys) /\ hits' \in Nat /\ misses' \in Nat
    BY DEF Reset
<1>2. DOMAIN written' = {} /\ {used'[j] : j \in 1..Len(used')} = {}
    BY <1>1 DEF Reset
<1>3. Aligned(store', used')
    BY <1>1, CacheAssumption DEF Aligned, Smaller
<1>4. Types' /\ Distinct(used') /\ Current'
    BY <1>1, <1>2 DEF Types, Distinct, Current
<1> QED
    BY <1>3, <1>4 DEF IInv

\* What a look-up of a key in the cache finds.
LEMMA Found ==
    ASSUME IInv, NEW k, Has(store, k)
    PROVE  /\ Pos(store, k) \in 1..Len(store) /\ store[Pos(store, k)].key = k
           /\ store[Pos(store, k)] \in Entry
<1>1. DOMAIN store = 1..Len(store) /\ \A j \in 1..Len(store) : store[j] \in Entry
    BY LenProperties DEF IInv, Types
<1>2. \E j \in DOMAIN store : store[j].key = k
    BY DEF Has
<1>3. Pos(store, k) \in DOMAIN store /\ store[Pos(store, k)].key = k
    BY <1>2 DEF Pos
<1> QED
    BY <1>1, <1>3

LEMMA GetHitInv == ASSUME IInv, NEW k \in Keys, GetHit(k) PROVE IInv'
<1> DEFINE p == Pos(store, k)
<1>1. /\ Has(store, k) /\ store' = Append(RemoveAt(store, p), store[p])
      /\ used' = Append(RemoveFirst(used, k), k)
      /\ hits' = hits + 1 /\ misses' = misses /\ written' = written
    BY DEF GetHit, Touch, Use
<1>2. p \in 1..Len(store) /\ store[p].key = k /\ store[p] \in Entry
    BY <1>1, Found
<1>3. /\ store \in Seq(Entry) /\ used \in Seq(Keys) /\ Aligned(store, used)
      /\ Distinct(used)
    BY DEF IInv, Types
<1> HIDE DEF p
<1>4. store' \in Seq(Entry) /\ Aligned(store', used') /\ k \in RangeOf(used)
    BY <1>1, <1>2, <1>3, AlignedMoved
<1>5. used' \in Seq(Keys) /\ Distinct(used') /\ RangeOf(used') = RangeOf(used)
    <2>1. PICK q \in 1..Len(used) : used[q] = k
        BY <1>4 DEF RangeOf
    <2> QED
        BY <1>1, <1>3, <2>1, UsedAgain
<1>6. Types'
    <2>1. {used'[j] : j \in 1..Len(used')} = DOMAIN written'
        BY <1>1, <1>5 DEF IInv, Types, RangeOf
    <2>2. hits' \in Nat /\ misses' \in Nat
        BY <1>1 DEF IInv, Types
    <2> QED
        BY <1>4, <1>5, <2>1, <2>2 DEF Types
<1>7. Current'
    <2>1. /\ Len(store') = Len(store) /\ store'[Len(store)] = store[p]
          /\ \A j \in 1..(Len(store) - 1) :
                 store'[j] = IF j < p THEN store[j] ELSE store[j + 1]
        BY <1>1, <1>2, <1>3, Moved
    <2>2. Len(store) \in Nat
        BY <1>3, LenProperties
    <2>3. ASSUME NEW j \in 1..Len(store)
          PROVE  \E i \in 1..Len(store) : store'[j] = store[i]
        <3>1. CASE j = Len(store)
            BY <1>2, <2>1, <3>1
        <3>2. CASE j # Len(store)
            <4>1. j \in 1..(Len(store) - 1) /\ j + 1 \in 1..Len(store)
                BY <2>2, <3>2
            <4> QED
                BY <2>1, <4>1
        <3> QED
            BY <3>1, <3>2
    <2>4. ASSUME NEW j \in 1..Len(store') PROVE store'[j].value = written'[store'[j].key]
        <3>1. PICK i \in 1..Len(store) : store'[j] = store[i]
            BY <2>1, <2>3
        <3>2. store[i].value = written[store[i].key]
            BY DEF IInv, Current
        <3> QED
            BY <1>1, <3>1, <3>2
    <2> QED
        BY <2>4 DEF Current
<1> QED
    BY <1>4, <1>5, <1>6, <1>7 DEF IInv

LEMMA GetMissInv == ASSUME IInv, NEW k \in Keys, GetMiss(k) PROVE IInv'
BY DEF IInv, GetMiss, Types, Current

\* What was put under the other keys stays.
LEMMA KeptCurrent ==
    ASSUME IInv, NEW k \in Keys, NEW v, NEW i \in 1..Len(store), store[i].key # k,
           written' = [j \in DOMAIN written \cup {k} |-> IF j = k THEN v ELSE written[j]]
    PROVE  store[i].value = written'[store[i].key]
<1>1. store[i].value = written[store[i].key]
    BY DEF IInv, Current
<1>2. store[i].key \in DOMAIN written
    <2>1. /\ Len(store) \in Nat /\ Len(used) \in Nat /\ Len(store) <= Len(used)
        BY AlignedFacts DEF IInv, Types
    <2>2. Len(used) - Len(store) + i \in 1..Len(used)
        BY <2>1
    <2>3. store[i].key = used[Len(used) - Len(store) + i]
        BY DEF IInv, Aligned
    <2> QED
        BY <2>2, <2>3 DEF IInv, Types
<1> QED
    BY <1>1, <1>2

LEMMA PutInv == ASSUME IInv, NEW k \in Keys, NEW v \in Values, Put(k, v) PROVE IInv'
<1> DEFINE e == [key |-> k, value |-> v]
           p == Pos(store, k)
<1>1. /\ store' = Trim(Append(IF Has(store, k) THEN RemoveAt(store, p) ELSE store, e))
      /\ used' = Append(RemoveFirst(used, k), k)
      /\ hits' = hits /\ misses' = misses
      /\ written' = [j \in DOMAIN written \cup {k} |-> IF j = k THEN v ELSE written[j]]
    BY DEF Put, Insert, Use
<1>2. /\ store \in Seq(Entry) /\ used \in Seq(Keys) /\ Aligned(store, used)
      /\ Distinct(used) /\ Len(store) \in Nat /\ Len(store) <= Capacity
      /\ Capacity \in Nat
      /\ \A i, j \in 1..Len(store) : store[i].key = store[j].key => i = j
    BY AlignedFacts DEF IInv, Types
<1>3. e \in Entry /\ e.key = k /\ e.value = v
    BY DEF Entry
<1> HIDE DEF e
<1>4. used' \in Seq(Keys) /\ Distinct(used') /\ RangeOf(used') = RangeOf(used) \cup {k}
    <2>1. CASE k \in RangeOf(used)
        <3>1. PICK q \in 1..Len(used) : used[q] = k
            BY <2>1 DEF RangeOf
        <3> DEFINE w == Append(RemoveFirst(used, used[q]), used[q])
        <3>2. w \in Seq(Keys) /\ Distinct(w) /\ RangeOf(w) = RangeOf(used)
            BY <1>2, UsedAgain
        <3>3. used' = w
            BY <1>1, <3>1
        <3> HIDE DEF w
        <3> QED
            BY <2>1, <3>2, <3>3
    <2>2. CASE k \notin RangeOf(used)
        BY <1>1, <1>2, <2>2, UsedFirst
    <2> QED
        BY <2>1, <2>2
\* Each entry is the new one or an old one of another key.
<1>5. /\ store' \in Seq(Entry) /\ Aligned(store', used')
      /\ \A j \in 1..Len(store') :
             \/ store'[j] = e
             \/ \E i \in 1..Len(store) : store'[j] = store[i] /\ store[i].key # k
    <2>1. CASE Has(store, k)
        <3> DEFINE d == Append(RemoveAt(store, p), e)
        <3>1. p \in 1..Len(store) /\ store[p].key = k
            BY <2>1, Found
        <3> HIDE DEF p
        <3>2. d \in Seq(Entry) /\ Aligned(d, used')
            BY <1>1, <1>2, <1>3, <3>1, AlignedMoved
        <3>3. /\ Len(d) = Len(store) /\ d[Len(store)] = e
              /\ \A j \in 1..(Len(store) - 1) :
                     d[j] = IF j < p THEN store[j] ELSE store[j + 1]
            BY <1>2, <1>3, <3>1, Moved
        <3> HIDE DEF d
        <3>4. store' = d
            <4>1. store' = Trim(d)
                BY <1>1, <2>1 DEF d
            <4>2. Smaller(Len(d), Capacity) = Len(d)
                BY <1>2, <3>3 DEF Smaller
            <4>3. /\ Trim(d) \in Seq(Entry) /\ Len(Trim(d)) = Len(d)
                  /\ \A j \in 1..Len(d) : Trim(d)[j] = d[Len(d) - Len(d) + j]
                BY <3>2, <4>2, Trimmed
            <4>4. \A j \in 1..Len(d) : Len(d) - Len(d) + j = j
                BY <1>2, <3>3
            <4> QED
                BY <3>2, <4>1, <4>3, <4>4, SeqEqual
        <3>5. ASSUME NEW j \in 1..Len(store), j # Len(store)
              PROVE  \E i \in 1..Len(store) : d[j] = store[i] /\ store[i].key # k
            <4>1. j \in 1..(Len(store) - 1) /\ j + 1 \in 1..Len(store)
                BY <1>2, <3>5
            <4>2. CASE j < p
                <5>1. d[j] = store[j] /\ j # p
                    BY <1>2, <3>1, <3>3, <4>1, <4>2
                <5> QED
                    BY <1>2, <3>1, <5>1
            <4>3. CASE ~(j < p)
                <5>1. d[j] = store[j + 1] /\ j + 1 # p
                    BY <1>2, <3>1, <3>3, <4>1, <4>3
                <5> QED
                    BY <1>2, <3>1, <4>1, <5>1
            <4> QED
                BY <4>2, <4>3
        <3> QED
            BY <3>2, <3>3, <3>4, <3>5
    <2>2. CASE ~Has(store, k)
        <3> DEFINE a == Append(store, e)
                   n == Smaller(Len(a), Capacity)
        <3>1. store' = Trim(a)
            BY <1>1, <2>2
        <3>2. \A j \in 1..Len(store) : store[j].key # k
            BY <1>2, <2>2, LenProperties DEF Has
        <3>3. store' \in Seq(Entry) /\ Aligned(store', used')
            BY <1>1, <1>2, <1>3, <3>1, <3>2, AlignedInserted
        <3>4. /\ a \in Seq(Entry) /\ Len(a) = Len(store) + 1 /\ a[Len(store) + 1] = e
              /\ \A j \in 1..Len(store) : a[j] = store[j]
            BY <1>2, <1>3, Appended
        <3> HIDE DEF a
        <3>5. /\ Len(store') = n /\ n <= Len(a) /\ n \in Nat
              /\ \A j \in 1..n : store'[j] = a[Len(a) - n + j]
            BY <1>2, <3>1, <3>4, Trimmed DEF Smaller
        <3> HIDE DEF n
        <3>6. ASSUME NEW j \in 1..n
              PROVE  \/ store'[j] = e
                     \/ \E i \in 1..Len(store) : store'[j] = store[i] /\ store[i].key # k
            <4> DEFINE i == Len(a) - n + j
            <4>0. Len(a) = Len(store) + 1 /\ n \in Nat /\ n <= Len(a)
                BY <3>4, <3>5
            <4>1. i \in 1..Len(store) \/ i = Len(store) + 1
                BY <1>2, <4>0
            <4>2. store'[j] = a[i]
                BY <3>5
            <4> HIDE DEF i
            <4> QED
                BY <3>2, <3>4, <4>1, <4>2
        <3> QED
            BY <3>3, <3>5, <3>6
    <2> QED
        BY <2>1, <2>2
<1>6. Types'
    <2>1. DOMAIN written' = DOMAIN written \cup {k}
        BY <1>1
    <2> QED
        BY <1>1, <1>4, <1>5, <2>1 DEF IInv, Types, RangeOf
<1>7. Current'
    <2>1. /\ written' = [j \in DOMAIN written \cup {k} |-> IF j = k THEN v ELSE written[j]]
          /\ written'[k] = v
        BY <1>1
    <2>2. ASSUME NEW j \in 1..Len(store') PROVE store'[j].value = written'[store'[j].key]
        <3>0. PICK d : d = store'[j]
            OBVIOUS
        <3>1. \/ d.key = k /\ d.value = v
              \/ \E i \in 1..Len(store) : d = store[i] /\ d.key # k
            BY <1>3, <1>5, <3>0
        <3>2. CASE d.key = k /\ d.value = v
            BY <2>1, <3>0, <3>2
        <3>3. CASE \E i \in 1..Len(store) : d = store[i] /\ d.key # k
            <4>1. PICK i \in 1..Len(store) : d = store[i] /\ d.key # k
                BY <3>3
            <4>2. store[i].value = written'[store[i].key]
                <5>1. store[i].key # k
                    BY <4>1
                <5> QED
                    BY <2>1, <5>1, KeptCurrent
            <4> QED
                BY <3>0, <4>1, <4>2
        <3> QED
            BY <3>1, <3>2, <3>3, Zenon
    <2> QED
        BY <2>2 DEF Current
<1> QED
    BY <1>4, <1>5, <1>6, <1>7 DEF IInv

LEMMA NextInv == IInv /\ [Next]_vars => IInv'
<1>1. ASSUME IInv, UNCHANGED vars PROVE IInv'
    BY <1>1 DEF IInv, Types, Current, vars
<1> QED
    BY <1>1, GetHitInv, GetMissInv, PutInv, ResetInv DEF Next

THEOREM CacheInvariant == Spec => []IInv
BY InitInv, NextInv, PTL DEF Spec

-----------------------------------------------------------------------------
(* What follows.                                                           *)

LEMMA TypesFollow == IInv => TypeOK
<1> SUFFICES ASSUME IInv PROVE TypeOK
    OBVIOUS
<1>1. Len(store) <= Capacity
    BY AlignedFacts DEF IInv, Types
<1>2. DOMAIN used = 1..Len(used)
    BY LenProperties DEF IInv, Types
<1> QED
    BY <1>1, <1>2 DEF IInv, Types, TypeOK, Entry

\* The cache never holds more than its capacity, and knows what it holds.
THEOREM TypeCorrect == Spec => []TypeOK
BY TypesFollow, CacheInvariant, PTL

LEMMA RecentFollows == IInv => MostRecentlyUsed
<1> SUFFICES ASSUME IInv PROVE MostRecentlyUsed
    OBVIOUS
<1> DEFINE n == Min({Len(used), Capacity})
           m == Len(used) - n + 1
<1>1. /\ Len(store) \in Nat /\ Len(used) \in Nat /\ Capacity \in Nat
      /\ Len(store) <= Len(used)
    BY AlignedFacts DEF IInv, Types
<1>2. n = Len(store)
    BY <1>1, MinIsSmaller DEF IInv, Aligned
<1> HIDE DEF n
<1>3. /\ DOMAIN store = 1..n /\ store \in Seq(Entry) /\ used \in Seq(Keys)
      /\ \A i \in 1..Len(used) : used[i] \in Keys
    BY <1>2, LenProperties DEF IInv, Types
<1>4. /\ SubSeq(used, m, Len(used)) \in Seq(Keys)
      /\ Len(SubSeq(used, m, Len(used))) = n
      /\ \A j \in 1..n : SubSeq(used, m, Len(used))[j] = used[Len(used) - n + j]
    <2>1. m \in Int /\ Len(used) \in Int /\ \A i \in m..Len(used) : used[i] \in Keys
        BY <1>1, <1>2, <1>3
    <2>2. /\ SubSeq(used, m, Len(used)) \in Seq(Keys)
          /\ Len(SubSeq(used, m, Len(used))) =
                 IF m <= Len(used) THEN Len(used) - m + 1 ELSE 0
          /\ \A j \in 1..(Len(used) - m + 1) :
                 SubSeq(used, m, Len(used))[j] = used[m + j - 1]
        BY <2>1, SubSeqProperties
    <2>3. \A j \in 1..n : j \in 1..(Len(used) - m + 1) /\ m + j - 1 = Len(used) - n + j
        BY <1>1, <1>2
    <2> QED
        BY <1>1, <1>2, <2>2, <2>3
<1> DEFINE t == SubSeq(used, m, Len(used))
           keys == [j \in DOMAIN store |-> store[j].key]
<1>5. DOMAIN t = 1..n /\ t = [j \in 1..n |-> t[j]]
    BY <1>4, LenProperties
<1>6. \A j \in 1..n : store[j].key = t[j]
    BY <1>2, <1>4 DEF IInv, Aligned
<1> HIDE DEF t
<1>7. keys = t
    BY <1>3, <1>5, <1>6
<1> QED
    BY <1>7 DEF MostRecentlyUsed, n, t

\* Whatever was looked up, put and evicted before, the entries are those of
\* the keys used last, in the order of their use.
THEOREM HoldsTheMostRecent == Spec => []MostRecentlyUsed
BY RecentFollows, CacheInvariant, PTL

LEMMA WrittenFollows == IInv => HoldsLastWritten
<1> SUFFICES ASSUME IInv, NEW k \in Keys, Has(store, k)
             PROVE  k \in DOMAIN written /\ ValueOf(store, k) = written[k]
    BY DEF HoldsLastWritten
<1> DEFINE p == Pos(store, k)
<1>1. p \in 1..Len(store) /\ store[p].key = k
    BY Found
<1> HIDE DEF p
<1>2. store[p].value = written[k]
    BY <1>1 DEF IInv, Current
<1>3. Len(used) - Len(store) + p \in 1..Len(used)
    BY <1>1, AlignedFacts DEF IInv, Types
<1>4. k = used[Len(used) - Len(store) + p]
    BY <1>1 DEF IInv, Aligned
<1>5. k \in DOMAIN written
    BY <1>3, <1>4 DEF IInv, Types
<1> QED
    BY <1>2, <1>5 DEF ValueOf, p

\* A look-up finds what was last put under its key, in a cache of any size.
THEOREM FindsTheLastWritten == Spec => []HoldsLastWritten
BY WrittenFollows, CacheInvariant, PTL
=============================================================================
