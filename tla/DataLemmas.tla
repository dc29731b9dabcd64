----------------------------- MODULE DataLemmas -----------------------------
(***************************************************************************)
(* Lemmas on data that several proofs need.  The library states induction  *)
(* for a predicate, an operator parameter that no installed prover can     *)
(* instantiate.  Here a set takes its place: a set of naturals that holds  *)
(* 0 and is closed under successor holds them all.  From that follow the   *)
(* recursive functions of the models, which are loops over 1..N: a loop    *)
(* whose step stays in a set S has a run, and what each step keeps holds   *)
(* at its end.                                                             *)
(***************************************************************************)
EXTENDS SequencesExt, SequenceTheorems, FiniteSetTheorems, TLAPS

Smaller(m, n) == IF m <= n THEN m ELSE n

-----------------------------------------------------------------------------
(* Sequences.                                                              *)

\* An append adds its element at the end and leaves the others in place.
LEMMA Appended ==
    ASSUME NEW S, NEW s \in Seq(S), NEW e \in S
    PROVE  /\ Append(s, e) \in Seq(S) /\ Len(Append(s, e)) = Len(s) + 1
           /\ Append(s, e)[Len(s) + 1] = e
           /\ \A k \in 1..Len(s) : Append(s, e)[k] = s[k]
OBVIOUS

\* A removal keeps what is before the place, and what is behind it moves up
\* by one.
LEMMA Removed ==
    ASSUME NEW S, NEW s \in Seq(S), NEW p \in 1..Len(s)
    PROVE  /\ RemoveAt(s, p) \in Seq(S) /\ Len(RemoveAt(s, p)) = Len(s) - 1
           /\ \A j \in 1..(Len(s) - 1) :
                  RemoveAt(s, p)[j] = IF j < p THEN s[j] ELSE s[j + 1]
<1> DEFINE a == SubSeq(s, 1, p - 1)
           b == SubSeq(s, p + 1, Len(s))
<1>1. Len(s) \in Nat /\ \A i \in 1..Len(s) : s[i] \in S
    BY LenProperties
<1>2. /\ a \in Seq(S) /\ Len(a) = p - 1
      /\ \A j \in 1..(p - 1) : a[j] = s[j]
    BY <1>1, SubSeqProperties
<1>3. /\ b \in Seq(S) /\ Len(b) = Len(s) - p
      /\ \A j \in 1..(Len(s) - p) : b[j] = s[p + j]
    BY <1>1, SubSeqProperties
<1>4. RemoveAt(s, p) = a \o b
    BY DEF RemoveAt
<1> HIDE DEF a, b
<1>5. /\ a \o b \in Seq(S) /\ Len(a \o b) = Len(s) - 1
      /\ \A j \in 1..(Len(s) - 1) : (a \o b)[j] = IF j <= p - 1 THEN a[j] ELSE b[j - (p - 1)]
    BY <1>1, <1>2, <1>3, ConcatProperties
<1>6. ASSUME NEW j \in 1..(Len(s) - 1)
      PROVE  (a \o b)[j] = IF j < p THEN s[j] ELSE s[j + 1]
    <2>1. CASE j < p
        BY <1>1, <1>2, <1>5, <2>1
    <2>2. CASE ~(j < p)
        <3>1. j - (p - 1) \in 1..(Len(s) - p) /\ p + (j - (p - 1)) = j + 1
            BY <1>1, <2>2
        <3> QED
            BY <1>1, <1>3, <1>5, <2>2, <3>1
    <2> QED
        BY <2>1, <2>2
<1> QED
    BY <1>4, <1>5, <1>6

\* A move to the end: a removal, and the element last.
LEMMA Moved ==
    ASSUME NEW S, NEW s \in Seq(S), NEW p \in 1..Len(s), NEW e \in S
    PROVE  LET t == Append(RemoveAt(s, p), e)
           IN  /\ t \in Seq(S) /\ Len(t) = Len(s) /\ t[Len(s)] = e
               /\ \A j \in 1..(Len(s) - 1) : t[j] = IF j < p THEN s[j] ELSE s[j + 1]
<1> DEFINE r == RemoveAt(s, p)
<1>1. /\ r \in Seq(S) /\ Len(r) = Len(s) - 1 /\ Len(s) \in Nat
      /\ \A j \in 1..(Len(s) - 1) : r[j] = IF j < p THEN s[j] ELSE s[j + 1]
    BY Removed, LenProperties
<1> HIDE DEF r
<1>2. /\ Append(r, e) \in Seq(S) /\ Len(Append(r, e)) = Len(r) + 1
      /\ Append(r, e)[Len(r) + 1] = e
      /\ \A k \in 1..Len(r) : Append(r, e)[k] = r[k]
    BY <1>1, Appended
<1>3. Len(r) + 1 = Len(s)
    BY <1>1
<1>4. /\ Append(r, e) \in Seq(S) /\ Len(Append(r, e)) = Len(s) /\ Append(r, e)[Len(s)] = e
      /\ \A j \in 1..(Len(s) - 1) : Append(r, e)[j] = IF j < p THEN s[j] ELSE s[j + 1]
    BY <1>1, <1>2, <1>3
<1> QED
    BY <1>4 DEF r

\* The library's minimum, a choice, of two naturals.
LEMMA MinIsSmaller == ASSUME NEW m \in Nat, NEW n \in Nat PROVE Min({m, n}) = Smaller(m, n)
<1>1. Smaller(m, n) \in {m, n} /\ \A y \in {m, n} : Smaller(m, n) <= y
    BY DEF Smaller
<1>2. \A x \in {m, n} : (\A y \in {m, n} : x <= y) => x = Smaller(m, n)
    BY DEF Smaller
<1> QED
    BY <1>1, <1>2 DEF Min

\* The last n elements.
LEMMA Ending ==
    ASSUME NEW S, NEW s \in Seq(S), NEW n \in 0..Len(s)
    PROVE  LET t == SubSeq(s, Len(s) - n + 1, Len(s))
           IN  /\ t \in Seq(S) /\ Len(t) = n
               /\ \A j \in 1..n : t[j] = s[Len(s) - n + j]
<1> DEFINE m == Len(s) - n + 1
<1>1. Len(s) \in Nat /\ n \in Nat /\ \A i \in 1..Len(s) : s[i] \in S
    BY LenProperties
<1>2. m \in Int /\ Len(s) \in Int /\ \A i \in m..Len(s) : s[i] \in S
    BY <1>1
<1>3. /\ SubSeq(s, m, Len(s)) \in Seq(S)
      /\ Len(SubSeq(s, m, Len(s))) = IF m <= Len(s) THEN Len(s) - m + 1 ELSE 0
      /\ \A j \in 1..(Len(s) - m + 1) : SubSeq(s, m, Len(s))[j] = s[m + j - 1]
    BY <1>2, SubSeqProperties
<1>4. Len(SubSeq(s, m, Len(s))) = n
    BY <1>1, <1>3
<1>5. \A j \in 1..n : SubSeq(s, m, Len(s))[j] = s[Len(s) - n + j]
    <2>1. \A j \in 1..n : j \in 1..(Len(s) - m + 1) /\ m + j - 1 = Len(s) - n + j
        BY <1>1
    <2> QED
        BY <1>3, <2>1
<1> QED
    BY <1>3, <1>4, <1>5

-----------------------------------------------------------------------------
(* Induction.                                                              *)

\* Naturals, if there are any, have a least one.
LEMMA Smallest ==
    ASSUME NEW T, \A t \in T : t \in Nat, T # {}
    PROVE  \E n \in T : \A m \in T : n <= m
<1> DEFINE Downs == {{m \in T : m <= n} : n \in T}
<1>1. ASSUME NEW n \in T
      PROVE  IsFiniteSet({m \in T : m <= n}) /\ {m \in T : m <= n} \subseteq Nat
    <2>1. {m \in T : m <= n} \subseteq 0..n
        OBVIOUS
    <2>2. IsFiniteSet(0..n)
        BY FS_Interval
    <2> QED
        BY <2>1, <2>2, FS_Subset
<1>2. Downs \subseteq FiniteSubsetsOf(Nat) /\ Downs # {}
    BY <1>1 DEF FiniteSubsetsOf
<1> HIDE DEF Downs
<1>3. PICK X \in Downs : \A Y \in Downs : <<Y, X>> \notin StrictSubsetOrdering(Nat)
    BY <1>2, WFMin, FS_StrictSubsetOrderingWellFounded
<1>4. PICK n \in T : X = {m \in T : m <= n}
    BY DEF Downs
<1>5. ASSUME NEW k \in T, k < n PROVE FALSE
    <2> DEFINE Y == {m \in T : m <= k}
    <2>1. Y \subseteq X /\ n \notin Y /\ n \in X
        BY <1>5, <1>4
    <2>2. X \subseteq Nat
        BY <1>4
    <2>3. Y \in Downs
        BY DEF Downs
    <2> HIDE DEF Y
    <2>4. <<Y, X>> \in StrictSubsetOrdering(Nat)
        BY <2>1, <2>2 DEF StrictSubsetOrdering
    <2> QED
        BY <2>3, <2>4, <1>3
<1> QED
    BY <1>5

\* Induction, with a set of naturals in the place of the predicate.
LEMMA SetInduction ==
    ASSUME NEW T, 0 \in T, \A n \in Nat : n \in T => n + 1 \in T
    PROVE  \A n \in Nat : n \in T
<1> DEFINE Left == {n \in Nat : n \notin T}
<1> SUFFICES ASSUME Left # {} PROVE FALSE
    OBVIOUS
<1>1. PICK n \in Left : \A m \in Left : n <= m
    BY Smallest
<1>2. n # 0 /\ n - 1 \in Nat /\ n - 1 \notin Left
    BY <1>1
<1> QED
    BY <1>1, <1>2

\* The runs of the loop that starts with s and takes N steps.
Runs(S, s, N, step) ==
    {f \in [0..N -> S] : f[0] = s /\ \A n \in 1..N : f[n] = step[<<f[n - 1], n>>]}

\* A loop whose step stays in S has a run.
LEMMA LoopExists ==
    ASSUME NEW S, NEW s \in S, NEW N \in Nat, NEW step \in [S \X (1..N) -> S]
    PROVE  Runs(S, s, N, step) # {}
<1> DEFINE Good(f, n) == f[0] = s /\ \A k \in 1..n : f[k] = step[<<f[k - 1], k>>]
           T == {n \in Nat : n <= N => \E f \in [0..n -> S] : Good(f, n)}
<1>1. 0 \in T
    <2>1. [k \in 0..0 |-> s] \in [0..0 -> S] /\ Good([k \in 0..0 |-> s], 0)
        OBVIOUS
    <2> QED
        BY <2>1
<1>2. ASSUME NEW n \in Nat, n \in T PROVE n + 1 \in T
    <2> SUFFICES ASSUME n + 1 <= N
                 PROVE  \E f \in [0..(n + 1) -> S] : Good(f, n + 1)
        OBVIOUS
    <2>1. PICK f \in [0..n -> S] : Good(f, n)
        BY <1>2
    <2> DEFINE g == [k \in 0..(n + 1) |-> IF k <= n THEN f[k] ELSE step[<<f[n], n + 1>>]]
    <2>2. f[n] \in S /\ n + 1 \in 1..N
        OBVIOUS
    <2>3. step[<<f[n], n + 1>>] \in S
        BY <2>2
    <2>4. g \in [0..(n + 1) -> S]
        BY <2>3
    <2>5. g[0] = s
        BY <2>1
    <2>6. ASSUME NEW k \in 1..(n + 1) PROVE g[k] = step[<<g[k - 1], k>>]
        <3>1. CASE k <= n
            BY <2>1, <3>1
        <3>2. CASE k = n + 1
            <4>1. g[k] = step[<<f[n], n + 1>>] /\ g[k - 1] = f[n]
                BY <3>2
            <4> QED
                BY <4>1, <3>2
        <3> QED
            BY <3>1, <3>2
    <2> QED
        BY <2>4, <2>5, <2>6
<1> HIDE DEF T
<1>3. N \in T
    BY <1>1, <1>2, SetInduction
<1>4. PICK f \in [0..N -> S] : Good(f, N)
    BY <1>3 DEF T
<1>5. f \in Runs(S, s, N, step)
    BY <1>4 DEF Runs
<1> QED
    BY <1>5

\* What holds before a loop and is kept by each step holds after each.  I[n]
\* is the set of values allowed after n steps.
LEMMA LoopInvariant ==
    ASSUME NEW N \in Nat, NEW f, NEW I, f[0] \in I[0],
           \A n \in 1..N : f[n - 1] \in I[n - 1] => f[n] \in I[n]
    PROVE  \A n \in 0..N : f[n] \in I[n]
<1> DEFINE T == {n \in Nat : n <= N => f[n] \in I[n]}
<1>1. 0 \in T
    OBVIOUS
<1>2. ASSUME NEW n \in Nat, n \in T PROVE n + 1 \in T
    <2>1. CASE n + 1 <= N
        <3>1. n + 1 \in 1..N /\ (n + 1) - 1 = n
            BY <2>1
        <3> QED
            BY <1>2, <2>1, <3>1
    <2> QED
        BY <2>1
<1> HIDE DEF T
<1>3. \A n \in Nat : n \in T
    BY <1>1, <1>2, SetInduction
<1> QED
    BY <1>3 DEF T
=============================================================================
