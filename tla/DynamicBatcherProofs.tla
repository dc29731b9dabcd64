------------------------ MODULE DynamicBatcherProofs ------------------------
(***************************************************************************)
(* Proofs about DynamicBatcher for every value of its constants.  The line *)
(* batch \o handed \o queue carries the argument: a step of the task moves *)
(* items along it, a submit appends to it, and a finished or cancelled     *)
(* batch is its front falling off.                                         *)
(***************************************************************************)
EXTENDS DynamicBatcher, DataLemmas

-----------------------------------------------------------------------------
(* Sequences.                                                              *)

\* The elements of a concatenation are those of its parts.
LEMMA ElemsConcat ==
    ASSUME NEW S, NEW s \in Seq(S), NEW t \in Seq(S)
    PROVE  Elems(s \o t) = Elems(s) \cup Elems(t)
<1>1. /\ Len(s) \in Nat /\ Len(t) \in Nat
      /\ Len(s \o t) = Len(s) + Len(t)
      /\ \A i \in 1..Len(s) + Len(t) :
            (s \o t)[i] = IF i <= Len(s) THEN s[i] ELSE t[i - Len(s)]
    BY ConcatProperties, LenProperties
<1>2. ASSUME NEW x \in Elems(s) PROVE x \in Elems(s \o t)
    BY <1>1 DEF Elems
<1>3. ASSUME NEW x \in Elems(t) PROVE x \in Elems(s \o t)
  <2>1. PICK j \in 1..Len(t) : x = t[j]
      BY DEF Elems
  <2>2. /\ Len(s) + j \in 1..Len(s) + Len(t)
        /\ (s \o t)[Len(s) + j] = t[j]
      BY <1>1
  <2> QED
      BY <1>1, <2>1, <2>2 DEF Elems
<1>4. ASSUME NEW x \in Elems(s \o t) PROVE x \in Elems(s) \cup Elems(t)
  <2>1. PICK i \in 1..Len(s) + Len(t) : x = (s \o t)[i]
      BY <1>1 DEF Elems
  <2>2. CASE i <= Len(s)
      BY <1>1, <2>1, <2>2 DEF Elems
  <2>3. CASE i > Len(s)
    <3>1. i - Len(s) \in 1..Len(t) /\ x = t[i - Len(s)]
        BY <1>1, <2>1, <2>3
    <3> QED
        BY <3>1 DEF Elems
  <2> QED
      BY <1>1, <2>2, <2>3
<1> QED
    BY <1>2, <1>3, <1>4

\* Head and tail put together again.
LEMMA HeadTail ==
    ASSUME NEW S, NEW s \in Seq(S), s # <<>>
    PROVE  /\ Head(s) \in S
           /\ Tail(s) \in Seq(S)
           /\ Len(s) \in Nat \ {0}
           /\ Len(Tail(s)) = Len(s) - 1
           /\ <<Head(s)>> \in Seq(S)
           /\ <<Head(s)>> \o Tail(s) = s
<1>1. /\ Head(s) \in S
      /\ Tail(s) \in Seq(S)
      /\ Len(Tail(s)) = Len(s) - 1
      /\ Len(s) \in Nat \ {0}
    BY HeadTailProperties, EmptySeq
<1>2. <<Head(s)>> \in Seq(S)
    BY <1>1
<1>3. /\ SubSeq(s, 1, Len(s)) = s
      /\ SubSeq(s, 1, Len(s)) = <<s[1]>> \o SubSeq(s, 2, Len(s))
      /\ Tail(s) = SubSeq(s, 2, Len(s))
      /\ Head(s) = s[1]
  <2>1. 1 \in 1..Len(s) /\ Len(s) \in 1..Len(s)
      BY <1>1
  <2>2. SubSeq(s, 1, Len(s)) = <<s[1]>> \o SubSeq(s, 1 + 1, Len(s))
      BY <2>1, SubSeqRecursiveFirst
  <2> QED
      BY <2>2, SubSeqFull, TailIsSubSeq
<1> QED
    BY <1>1, <1>2, <1>3

\* A sequence cut after its first n elements.
LEMMA Cut ==
    ASSUME NEW S, NEW s \in Seq(S), NEW n \in 0..Len(s)
    PROVE  /\ SubSeq(s, 1, n) \in Seq(S)
           /\ SubSeq(s, n + 1, Len(s)) \in Seq(S)
           /\ Len(SubSeq(s, 1, n)) = n
           /\ Len(SubSeq(s, n + 1, Len(s))) = Len(s) - n
           /\ SubSeq(s, 1, n) \o SubSeq(s, n + 1, Len(s)) = s
<1>1. Len(s) \in Nat /\ n \in Nat /\ n <= Len(s)
    BY LenProperties
<1>2. \A i \in 1..Len(s) : s[i] \in S
    BY ElementOfSeq
<1>3. SubSeq(s, 1, n) \in Seq(S) /\ Len(SubSeq(s, 1, n)) = n
    BY <1>1, <1>2, SubSeqProperties
<1>4. /\ SubSeq(s, n + 1, Len(s)) \in Seq(S)
      /\ Len(SubSeq(s, n + 1, Len(s))) = Len(s) - n
    BY <1>1, <1>2, SubSeqProperties
<1>5. SubSeq(s, 1, n) \o SubSeq(s, n + 1, Len(s)) = SubSeq(s, 1, Len(s))
  <2>1. /\ 1 \in 1..Len(s) + 1
        /\ n \in 1 - 1..Len(s)
        /\ Len(s) \in n..Len(s)
      BY <1>1
  <2> QED
      BY <2>1, ConcatAdjacentSubSeq
<1> QED
    BY <1>3, <1>4, <1>5, SubSeqFull

-----------------------------------------------------------------------------
(* The inductive invariant.                                                *)

\* What each await of the task says of the items in hand.
Shape ==
    /\ pc \in {"off", "get", "ended"} => batch = <<>>
    /\ pc \in {"collect", "run"} => batch # <<>>
    /\ pc # "collect" => handed = <<>>
    /\ pc = "collect" => Len(batch) + 1 <= BatchBound
    /\ Len(batch) <= BatchBound
    /\ maxBatch <= BatchBound
    /\ cancel => stopping /\ pc \in {"get", "collect", "run"}

\* A caller that has not called yet has no item anywhere.
Fresh == \A i \in Items : client[i] = "idle" => fate[i] = "none"

IInv == TypeOK /\ Shape /\ Fresh /\ WaiterReachable /\ ServedOnce /\ WithinLimits

LEMMA BoundFacts == BatchBound \in Nat /\ BatchBound >= 1
                    /\ InitBatch <= BatchBound /\ CtlMaxBatch <= BatchBound
BY BatcherAssumption DEF BatchBound, Greatest

\* Extending a batch moves items from the queue to it and loses none.
LEMMA ExtendMoves ==
    ASSUME NEW b \in Seq(Items), NEW q \in Seq(Items), b # <<>>,
           maxBatch \in Nat, maxBatch <= BatchBound, Len(b) <= BatchBound,
           Extend(b, q)
    PROVE  /\ batch' \in Seq(Items) /\ queue' \in Seq(Items)
           /\ batch' \o queue' = b \o q
           /\ batch' # <<>>
           /\ Len(batch') <= BatchBound
           /\ Len(queue') <= Len(q)
           /\ pc' \in {"collect", "run"}
           /\ pc' = "collect" => Len(batch') + 1 <= BatchBound
           /\ pc' = "run" => Len(batch') >= maxBatch \/ queue' = <<>>
<1>1. Len(b) \in Nat \ {0} /\ Len(q) \in Nat /\ BatchBound \in Nat
    BY EmptySeq, LenProperties, BoundFacts
<1>2. CASE Len(b) >= maxBatch /\ Flush(b, q)
    BY <1>1, <1>2 DEF Flush
<1>3. CASE Len(b) < maxBatch /\ Await(b, q)
    BY <1>1, <1>3 DEF Await
<1>4. CASE /\ Len(b) < maxBatch
           /\ LET n == Room(b, q)
              IN  Flush(b \o SubSeq(q, 1, n), SubSeq(q, n + 1, Len(q)))
  <2> DEFINE n == Room(b, q)
             front == SubSeq(q, 1, n)
             rest == SubSeq(q, n + 1, Len(q))
  <2>1. /\ n \in 0..Len(q)
        /\ Len(b) + n <= maxBatch
        /\ n < Len(q) => Len(b) + n = maxBatch
      BY <1>1, <1>4 DEF Room, Least
  <2>2. /\ front \in Seq(Items) /\ rest \in Seq(Items)
        /\ Len(front) = n /\ Len(rest) = Len(q) - n
        /\ front \o rest = q
      BY <2>1, Cut
  <2>3. pc' = "run" /\ batch' = b \o front /\ queue' = rest
      BY <1>4 DEF Flush
  <2> HIDE DEF n, front, rest
  <2>4. b \o front \in Seq(Items) /\ Len(b \o front) = Len(b) + n
      BY <2>2, ConcatProperties
  <2>5. (b \o front) \o rest = b \o q
    <3>1. b \in Seq(Items) /\ front \in Seq(Items) /\ rest \in Seq(Items)
        BY <2>2
    <3>2. (b \o front) \o rest = b \o (front \o rest)
        BY ONLY <3>1, SMT
    <3> QED
        BY ONLY <2>2, <3>2
  <2>6. b \o front # <<>>
      BY <1>1, <2>1, <2>4, EmptySeq
  <2>7. Len(b \o front) >= maxBatch \/ rest = <<>>
      BY <1>1, <2>1, <2>2, <2>4, EmptySeq
  <2> QED
      BY <1>1, <2>1, <2>2, <2>3, <2>4, <2>5, <2>6, <2>7
<1> QED
    BY <1>2, <1>3, <1>4 DEF Extend

\* After a batch the loop starts the next one from the queue, or ends.
LEMMA LoopMoves ==
    ASSUME NEW q \in Seq(Items),
           maxBatch \in Nat, maxBatch <= BatchBound,
           Loop(q)
    PROVE  /\ batch' \in Seq(Items) /\ queue' \in Seq(Items)
           /\ batch' \o queue' = q
           /\ pc' \in {"get", "collect", "run", "ended"}
           /\ pc' \in {"get", "ended"} => batch' = <<>>
           /\ pc' \in {"collect", "run"} => batch' # <<>>
           /\ Len(batch') <= BatchBound
           /\ Len(queue') <= Len(q)
           /\ pc' = "collect" => Len(batch') + 1 <= BatchBound
           /\ pc' = "run" => Len(batch') >= maxBatch \/ queue' = <<>>
           /\ stopping => pc' = "ended"
<1>1. /\ Len(q) \in Nat /\ BatchBound \in Nat /\ BatchBound >= 1
      /\ <<>> \in Seq(Items) /\ Len(<<>>) = 0
      /\ <<>> \o q = q
    BY LenProperties, BoundFacts, EmptySeq, ConcatEmptySeq
<1>2. CASE stopping /\ Exit(q)
    BY <1>1, <1>2 DEF Exit
<1>3. CASE ~stopping /\ q = <<>> /\ pc' = "get" /\ batch' = <<>> /\ queue' = q
    BY <1>1, <1>3
<1>4. CASE ~stopping /\ q # <<>> /\ Extend(<<Head(q)>>, Tail(q))
  <2> DEFINE b == <<Head(q)>>
             r == Tail(q)
  <2>1. /\ b \in Seq(Items) /\ r \in Seq(Items)
        /\ b \o r = q
        /\ Len(r) <= Len(q) /\ Len(r) \in Nat
        /\ Len(b) <= BatchBound
        /\ b # <<>>
      BY <1>1, <1>4, HeadTail
  <2>2. Extend(b, r)
      BY <1>4
  <2> HIDE DEF b, r
  <2>3. /\ batch' \in Seq(Items) /\ queue' \in Seq(Items)
        /\ batch' \o queue' = b \o r
        /\ batch' # <<>>
        /\ Len(batch') <= BatchBound
        /\ Len(queue') <= Len(r)
        /\ pc' \in {"collect", "run"}
        /\ pc' = "collect" => Len(batch') + 1 <= BatchBound
        /\ pc' = "run" => Len(batch') >= maxBatch \/ queue' = <<>>
      BY <2>1, <2>2, ExtendMoves
  <2>4. Len(queue') \in Nat
      BY <2>3, LenProperties
  <2> QED
      BY <1>1, <1>4, <2>1, <2>3, <2>4
<1> QED
    BY <1>2, <1>3, <1>4 DEF Loop

-----------------------------------------------------------------------------
(* The line under each kind of step.                                       *)

\* What the invariant says of the line.
Ordered(L, ft, fu) ==
    /\ \A j, k \in 1..Len(L) : L[j] = L[k] => j = k
    /\ \A i \in Items : i \in Elems(L) <=> ft[i] = "queued"
    /\ \A i \in Elems(L) : fu[i] \in {"pending", "cancelled"}

LEMMA LineType ==
    ASSUME NEW b \in Seq(Items), NEW h \in Seq(Items), NEW q \in Seq(Items)
    PROVE  /\ b \o h \o q \in Seq(Items)
           /\ b \o h \o q = b \o (h \o q)
           /\ h \o q \in Seq(Items)
           /\ Len(b \o h) = Len(b) + Len(h)
           /\ Elems(b \o h \o q) = Elems(b) \cup Elems(h \o q)
<1> DEFINE r == h \o q
<1>1. b \o h \in Seq(Items) /\ r \in Seq(Items) /\ Len(b \o h) = Len(b) + Len(h)
    BY ConcatProperties
<1>2. b \o h \o q \in Seq(Items)
    BY <1>1, ConcatProperties
<1>3. b \o h \o q = b \o r
    OBVIOUS
<1>4. Elems(b \o r) = Elems(b) \cup Elems(r)
  <2> HIDE DEF r
  <2> QED
      BY <1>1, ElemsConcat
<1>5. Elems(b \o h \o q) = Elems(b \o r)
    BY ONLY <1>3, Zenon
<1> QED
    BY ONLY <1>1, <1>2, <1>3, <1>4, <1>5, Zenon

\* An item at the back of the line.
LEMMA AppendOrdered ==
    ASSUME NEW L \in Seq(Items), NEW ft, NEW fu, NEW i \in Items,
           ft \in [Items -> {"none", "queued", "ran", "failed", "stranded"}],
           fu \in [Items -> {"none", "pending", "result", "error", "cancelled"}],
           Ordered(L, ft, fu), ft[i] # "queued"
    PROVE  Ordered(Append(L, i), [ft EXCEPT ![i] = "queued"],
                                 [fu EXCEPT ![i] = "pending"])
<1> DEFINE M == Append(L, i)
<1>1. /\ Len(L) \in Nat /\ Len(M) = Len(L) + 1
      /\ \A j \in 1..Len(L) : M[j] = L[j]
      /\ M[Len(L) + 1] = i
    BY LenProperties, AppendProperties
<1>2. i \notin Elems(L)
    BY DEF Ordered
<1>3. \A j \in 1..Len(L) : L[j] \in Elems(L)
    BY DEF Elems
<1>4. Elems(M) = Elems(L) \cup {i}
    BY <1>1 DEF Elems
<1> HIDE DEF M
<1>5. ASSUME NEW j \in 1..Len(M), NEW k \in 1..Len(M), M[j] = M[k]
      PROVE  j = k
    BY <1>1, <1>2, <1>3, <1>5 DEF Ordered
<1>6. Ordered(M, [ft EXCEPT ![i] = "queued"], [fu EXCEPT ![i] = "pending"])
    BY <1>4, <1>5 DEF Ordered
<1> QED
    BY <1>6 DEF M

\* The front of the line falls off; what is left is as it was.
LEMMA PopOrdered ==
    ASSUME NEW b \in Seq(Items), NEW r \in Seq(Items), NEW ft, NEW fu, NEW f,
           f # "queued",
           Ordered(b \o r, ft, fu)
    PROVE  /\ \A j, k \in 1..Len(r) : r[j] = r[k] => j = k
           /\ \A i \in Items : i \in Elems(r) <=>
                (IF i \in Elems(b) THEN f ELSE ft[i]) = "queued"
           /\ \A i \in Elems(r) : i \notin Elems(b) /\ fu[i] \in {"pending", "cancelled"}
<1>1. /\ Len(b) \in Nat /\ Len(r) \in Nat
      /\ Len(b \o r) = Len(b) + Len(r)
      /\ \A i \in 1..Len(b) + Len(r) :
            (b \o r)[i] = IF i <= Len(b) THEN b[i] ELSE r[i - Len(b)]
    BY LenProperties, ConcatProperties
<1>2. \A j \in 1..Len(r) : /\ Len(b) + j \in 1..Len(b \o r)
                           /\ (b \o r)[Len(b) + j] = r[j]
    BY <1>1
<1>3. \A j, k \in 1..Len(r) : r[j] = r[k] => j = k
  <2> TAKE j, k \in 1..Len(r)
  <2> HAVE r[j] = r[k]
  <2>0. /\ Len(b) + j \in 1..Len(b \o r) /\ Len(b) + k \in 1..Len(b \o r)
        /\ (b \o r)[Len(b) + j] = (b \o r)[Len(b) + k]
      BY <1>2
  <2>1. Len(b) + j = Len(b) + k
      BY <2>0 DEF Ordered
  <2> QED
      BY <1>1, <2>1
<1>4. \A i \in Elems(r) : i \notin Elems(b)
  <2> SUFFICES ASSUME NEW j \in 1..Len(r), NEW k \in 1..Len(b), r[j] = b[k]
               PROVE  FALSE
      BY DEF Elems
  <2>1. k \in 1..Len(b \o r) /\ (b \o r)[k] = b[k]
      BY <1>1
  <2>2. k = Len(b) + j
      BY <1>2, <2>1 DEF Ordered
  <2> QED
      BY <1>1, <2>2
<1>5. Elems(b \o r) = Elems(b) \cup Elems(r)
    BY ElemsConcat
<1> QED
    BY <1>3, <1>4, <1>5 DEF Ordered

\* A step that moves items along the line and touches nothing else.
LEMMA MoveKeeps ==
    ASSUME WaiterReachable, ServedOnce, Fresh,
           Line' = Line, UNCHANGED <<fut, client, fate>>
    PROVE  WaiterReachable' /\ ServedOnce' /\ Fresh'
BY DEF WaiterReachable, ServedOnce, Fresh, Elems

\* A step that takes the batch off the line: its items get the fate f, and a
\* future either keeps its value or, in the batch, stops being pending.
LEMMA PopKeeps ==
    ASSUME IInv, handed = <<>>, handed' = <<>>,
           batch' \in Seq(Items), queue' \in Seq(Items),
           batch' \o queue' = queue,
           NEW f \in {"ran", "failed", "stranded"}, Mark(f),
           client' = client,
           NEW v \in {"result", "error"},
           (f = "stranded" /\ fut' = fut) \/ Settle(v)
    PROVE  WaiterReachable' /\ ServedOnce' /\ Fresh'
<1>0. /\ queue \in Seq(Items) /\ batch \in Seq(Items)
      /\ fut \in [Items -> {"none", "pending", "result", "error", "cancelled"}]
      /\ fate \in [Items -> {"none", "queued", "ran", "failed", "stranded"}]
      /\ f # "queued"
      /\ ServedOnce /\ WaiterReachable /\ Fresh
    BY DEF IInv, TypeOK
<1>1. /\ Line = batch \o queue
      /\ Line' = queue
      /\ Elems(Line) = Elems(batch) \cup Elems(queue)
  <2>1. batch \o handed = batch /\ batch' \o handed' = batch'
      BY <1>0, ConcatEmptySeq
  <2>2. Elems(batch \o queue) = Elems(batch) \cup Elems(queue)
      BY ONLY <1>0, ElemsConcat
  <2> QED
      BY <2>1, <2>2 DEF Line
<1>2. Ordered(batch \o queue, fate, fut)
    BY <1>0, <1>1 DEF Ordered, ServedOnce
<1>3. /\ \A j, k \in 1..Len(queue) : queue[j] = queue[k] => j = k
      /\ \A i \in Items : i \in Elems(queue) <=>
           (IF i \in Elems(batch) THEN f ELSE fate[i]) = "queued"
      /\ \A i \in Elems(queue) : /\ i \notin Elems(batch)
                                 /\ fut[i] \in {"pending", "cancelled"}
    BY ONLY <1>0, <1>2, PopOrdered
<1>4. Elems(queue) \subseteq Items
    BY <1>0, ElementOfSeq DEF Elems
<1>5. \A i \in Items : fate'[i] = IF i \in Elems(batch) THEN f ELSE fate[i]
    BY <1>0 DEF Mark
<1>6. \A i \in Items : i \notin Elems(batch) => fut'[i] = fut[i]
    BY <1>0 DEF Settle
<1>7. ServedOnce'
  <2>1. \A i \in Elems(queue) : fut'[i] \in {"pending", "cancelled"}
      BY <1>3, <1>4, <1>6
  <2>2. (Elems(Line))' = Elems(queue)
      BY <1>1 DEF Elems
  <2> QED
      BY <1>1, <1>3, <1>5, <2>1, <2>2 DEF ServedOnce
<1>8. WaiterReachable'
  <2>1. (Elems(Line))' = Elems(queue)
      BY <1>1 DEF Elems
  <2> SUFFICES ASSUME NEW i \in Items, client[i] = "waiting", fut'[i] = "pending",
                      fate'[i] # "stranded"
               PROVE  i \in Elems(queue)
      BY <2>1 DEF WaiterReachable
  <2>2. i \notin Elems(batch)
      BY <1>0, <1>5 DEF Settle
  <2>3. fut[i] = "pending" /\ fate[i] # "stranded"
      BY <1>5, <1>6, <2>2
  <2> QED
      BY <1>0, <1>1, <2>2, <2>3 DEF WaiterReachable
<1>9. Fresh'
  <2> SUFFICES ASSUME NEW i \in Items, client[i] = "idle"
               PROVE  fate'[i] = "none"
      BY DEF Fresh
  <2>1. fate[i] = "none"
      BY <1>0 DEF Fresh
  <2>2. i \notin Elems(Line)
      BY <1>0, <2>1 DEF ServedOnce
  <2> QED
      BY <1>1, <1>5, <2>1, <2>2
<1> QED
    BY <1>7, <1>8, <1>9

-----------------------------------------------------------------------------
(* The invariant holds initially and every step keeps it.                  *)

LEMMA InitInv == Init => IInv
<1> SUFFICES ASSUME Init PROVE IInv
    OBVIOUS
<1>1. Line = <<>> /\ Len(<<>>) = 0 /\ Elems(<<>>) = {}
  <2>1. <<>> \in Seq(Items) /\ Len(<<>>) = 0
      BY EmptySeq
  <2>2. <<>> \o <<>> = <<>>
      BY <2>1, ConcatEmptySeq
  <2>3. Elems(<<>>) = {}
      BY <2>1 DEF Elems
  <2> QED
      BY <2>1, <2>2, <2>3 DEF Init, Line
<1>2. TypeOK
  <2>1. <<>> \in Seq(Items) /\ Len(<<>>) = 0
      BY EmptySeq
  <2>2. InitBatch \in Nat
      BY BatcherAssumption
  <2>3. hist \in [1..BatchBound -> Nat]
      BY DEF Init
  <2>4. /\ fut \in [Items -> {"none", "pending", "result", "error", "cancelled"}]
        /\ client \in [Items -> {"idle", "waiting", "ok", "error", "timeout", "overflow"}]
        /\ fate \in [Items -> {"none", "queued", "ran", "failed", "stranded"}]
      BY DEF Init
  <2>5. /\ queue \in Seq(Items) /\ batch \in Seq(Items) /\ handed \in Seq(Items)
        /\ Len(handed) <= 1
      BY <2>1 DEF Init
  <2>6. /\ pc \in {"off", "get", "collect", "run", "ended"}
        /\ stopping \in BOOLEAN /\ cancel \in BOOLEAN
        /\ maxBatch \in Nat
      BY <2>2 DEF Init
  <2> QED
      BY <2>3, <2>4, <2>5, <2>6 DEF TypeOK
<1>3. Shape /\ Fresh
    BY BoundFacts DEF Init, Shape, Fresh
<1>4. WaiterReachable /\ ServedOnce
    BY <1>1 DEF Init, WaiterReachable, ServedOnce
<1>5. WithinLimits
    BY BatcherAssumption, BoundFacts DEF Init, WithinLimits
<1> QED
    BY <1>2, <1>3, <1>4, <1>5 DEF IInv

LEMMA SubmitInv ==
    ASSUME IInv, NEW i \in Items, Submit(i)
    PROVE  /\ IInv'
           /\ \/ /\ QueueFull(queue)
                 /\ client' = [client EXCEPT ![i] = "overflow"]
                 /\ UNCHANGED <<Line, fut>>
              \/ /\ ~QueueFull(queue)
                 /\ client' = [client EXCEPT ![i] = "waiting"]
                 /\ fut' = [fut EXCEPT ![i] = "pending"]
                 /\ Line' = Append(Line, i)
<1> USE DEF IInv
<1>1. CASE QueueFull(queue)
  <2>1. UNCHANGED <<queue, fut, fate, pc, batch, handed, stopping, cancel, maxBatch, hist>>
        /\ client' = [client EXCEPT ![i] = "overflow"]
      BY <1>1 DEF Submit, ctlVars
  <2>2. TypeOK'
      BY <2>1 DEF TypeOK
  <2>3. Shape' /\ WithinLimits'
      BY <2>1 DEF Shape, WithinLimits
  <2>4. Line' = Line /\ (Elems(Line))' = Elems(Line)
      BY <2>1 DEF Line, Elems
  <2>5. Fresh' /\ WaiterReachable'
      BY <2>1, <2>4 DEF TypeOK, Fresh, WaiterReachable
  <2>6. ServedOnce'
      BY <2>1, <2>4 DEF ServedOnce
  <2> QED
      BY <1>1, <2>1, <2>2, <2>3, <2>4, <2>5, <2>6
<1>2. CASE ~QueueFull(queue)
  <2>1. /\ queue' = Append(queue, i)
        /\ fut' = [fut EXCEPT ![i] = "pending"]
        /\ client' = [client EXCEPT ![i] = "waiting"]
        /\ fate' = [fate EXCEPT ![i] = "queued"]
        /\ client[i] = "idle"
        /\ UNCHANGED <<pc, batch, handed, stopping, cancel, maxBatch, hist>>
      BY <1>2 DEF Submit, ctlVars
  <2>2. /\ queue \in Seq(Items) /\ batch \in Seq(Items) /\ handed \in Seq(Items)
        /\ Append(queue, i) \in Seq(Items)
        /\ Len(queue) \in Nat /\ Len(Append(queue, i)) = Len(queue) + 1
      BY AppendProperties, LenProperties DEF TypeOK
  <2>3. TypeOK'
      BY <2>1, <2>2 DEF TypeOK
  <2>4. Shape'
      BY <2>1 DEF Shape
  <2>5. WithinLimits'
      BY <1>2, <2>1, <2>2, BatcherAssumption DEF WithinLimits, QueueFull
  <2>6. Line \in Seq(Items) /\ Line' = Append(Line, i)
    <3>1. /\ batch \o handed \in Seq(Items)
          /\ batch \o handed \o queue \in Seq(Items)
        BY <2>2, ConcatProperties
    <3>2. batch \o handed \o Append(queue, i) = Append(batch \o handed \o queue, i)
        BY <2>2, <3>1
    <3> QED
        BY <2>1, <3>1, <3>2 DEF Line
  <2>7. fate[i] # "queued" /\ Ordered(Line, fate, fut)
      BY <2>1 DEF Fresh, ServedOnce, Ordered
  <2>8. Ordered(Append(Line, i), fate', fut')
      BY <2>1, <2>6, <2>7, AppendOrdered DEF TypeOK
  <2>9. ServedOnce'
      BY <2>6, <2>8 DEF ServedOnce, Ordered, Elems
  <2>10. Fresh'
      BY <2>1 DEF Fresh, TypeOK
  <2>11. WaiterReachable'
    <3> SUFFICES ASSUME NEW c \in Items, client'[c] = "waiting", fut'[c] = "pending",
                        fate'[c] # "stranded"
                 PROVE  (c \in Elems(Line))'
        BY DEF WaiterReachable
    <3>1. fate'[c] = "queued"
      <4>1. CASE c = i
          BY <2>1, <4>1 DEF TypeOK
      <4>2. CASE c # i
          BY <2>1, <4>2 DEF TypeOK, WaiterReachable, ServedOnce
      <4> QED
          BY <4>1, <4>2
    <3> QED
        BY <2>9, <3>1 DEF ServedOnce
  <2> QED
      BY <1>2, <2>1, <2>3, <2>4, <2>5, <2>6, <2>9, <2>10, <2>11
<1> QED
    BY <1>1, <1>2

\* Deliver and Timeout touch the caller, and Timeout its future.
LEMMA CallerInv ==
    ASSUME IInv, NEW i \in Items, Deliver(i) \/ Timeout(i)
    PROVE  IInv' /\ Line' = Line
<1> USE DEF IInv
<1>1. /\ UNCHANGED <<queue, pc, batch, handed, stopping, cancel, maxBatch, hist, fate>>
      /\ client[i] = "waiting"
      /\ \E c \in {"ok", "error", "timeout"} : client' = [client EXCEPT ![i] = c]
      /\ \/ fut' = fut
         \/ fut' = [fut EXCEPT ![i] = IF @ = "pending" THEN "cancelled" ELSE @]
    BY DEF Deliver, Timeout, ctlVars
<1>2. TypeOK'
    BY <1>1 DEF TypeOK
<1>3. Shape' /\ WithinLimits'
    BY <1>1 DEF Shape, WithinLimits
<1>4. Line' = Line /\ (Elems(Line))' = Elems(Line)
    BY <1>1 DEF Line, Elems
<1>5. Fresh' /\ WaiterReachable'
    BY <1>1, <1>4 DEF TypeOK, Fresh, WaiterReachable
<1>6. ServedOnce'
  <2>1. \A c \in Items : fut'[c] = fut[c] \/ fut'[c] = "cancelled"
      BY <1>1 DEF TypeOK
  <2>2. Elems(Line) \subseteq Items
    <3>1. batch \o handed \o queue \in Seq(Items)
        BY LineType DEF TypeOK
    <3> QED
        BY <3>1, ElementOfSeq DEF Elems, Line
  <2> QED
      BY <1>1, <1>4, <2>1, <2>2 DEF ServedOnce
<1> QED
    BY <1>2, <1>3, <1>4, <1>5, <1>6

\* The first item of a batch is taken, or one more is added to it.
LEMMA CollectInv ==
    ASSUME IInv, TakeFirst \/ CollectResume
    PROVE  /\ IInv'
           /\ Line' = Line
           /\ pc' = "run" => Len(batch') >= maxBatch \/ queue' = <<>>
<1> USE DEF IInv
<1> DEFINE b == IF pc = "get" THEN <<Head(queue)>> ELSE batch \o handed
           q == IF pc = "get" THEN Tail(queue) ELSE queue
<1>0. /\ queue \in Seq(Items) /\ batch \in Seq(Items) /\ handed \in Seq(Items)
      /\ Len(handed) \in Nat /\ Len(queue) \in Nat /\ Len(batch) \in Nat
      /\ maxBatch \in Nat /\ maxBatch <= BatchBound
      /\ BatchBound \in Nat /\ BatchBound >= 1
    BY LenProperties, BoundFacts DEF TypeOK, Shape
<1>1. /\ b \in Seq(Items) /\ q \in Seq(Items)
      /\ b # <<>> /\ Len(b) <= BatchBound /\ Len(q) <= Len(queue)
      /\ b \o q = Line
      /\ Extend(b, q)
      /\ handed' = <<>>
      /\ cancel' => stopping
      /\ cancel' \in BOOLEAN
      /\ UNCHANGED <<fut, client, stopping, maxBatch, hist, fate>>
  <2>1. CASE TakeFirst
    <3>1. /\ pc = "get" /\ queue # <<>> /\ handed = <<>> /\ batch = <<>>
          /\ Extend(<<Head(queue)>>, Tail(queue))
          /\ UNCHANGED <<fut, client, handed, stopping, cancel, maxBatch, hist, fate>>
        BY <2>1 DEF TakeFirst, Shape, callVars, ctlVars
    <3>2. /\ <<Head(queue)>> \in Seq(Items) /\ Tail(queue) \in Seq(Items)
          /\ Len(Tail(queue)) <= Len(queue)
          /\ <<Head(queue)>> \o Tail(queue) = queue
        BY <1>0, <3>1, HeadTail
    <3>3. Line = queue
        BY <1>0, <3>1, ConcatEmptySeq DEF Line
    <3>4. Len(<<Head(queue)>>) = 1 /\ <<Head(queue)>> # <<>>
        OBVIOUS
    <3> QED
        BY <1>0, <3>1, <3>2, <3>3, <3>4 DEF TypeOK, Shape
  <2>2. CASE CollectResume
    <3>1. /\ pc = "collect" /\ handed # <<>> /\ batch # <<>>
          /\ Len(handed) <= 1 /\ Len(batch) + 1 <= BatchBound
          /\ Extend(batch \o handed, queue)
          /\ handed' = <<>> /\ cancel' = FALSE
          /\ UNCHANGED <<fut, client, stopping, maxBatch, hist, fate>>
        BY <2>2 DEF CollectResume, Shape, TypeOK, callVars
    <3>2. /\ batch \o handed \in Seq(Items)
          /\ Len(batch \o handed) = Len(batch) + Len(handed)
          /\ batch \o handed # <<>>
        BY <1>0, <3>1, ConcatProperties, EmptySeq
    <3>3. b = batch \o handed /\ q = queue
        BY <3>1
    <3>4. Line = b \o q
        BY <3>3 DEF Line
    <3>5. Extend(b, q)
        BY <3>1, <3>3
    <3>6. /\ b \in Seq(Items) /\ q \in Seq(Items) /\ b # <<>>
          /\ Len(b) <= BatchBound /\ Len(q) <= Len(queue)
        BY <1>0, <3>1, <3>2, <3>3
    <3> HIDE DEF b, q
    <3> QED
        BY <3>1, <3>4, <3>5, <3>6
  <2> QED
      BY <2>1, <2>2
<1> HIDE DEF b, q
<1>2. /\ batch' \in Seq(Items) /\ queue' \in Seq(Items)
      /\ batch' \o queue' = b \o q
      /\ batch' # <<>>
      /\ Len(batch') <= BatchBound
      /\ Len(queue') <= Len(q)
      /\ pc' \in {"collect", "run"}
      /\ pc' = "collect" => Len(batch') + 1 <= BatchBound
      /\ pc' = "run" => Len(batch') >= maxBatch \/ queue' = <<>>
    BY <1>0, <1>1, ExtendMoves
<1>3. batch' \o handed' = batch' /\ Line' = Line
    BY <1>1, <1>2, ConcatEmptySeq DEF Line
<1>4. TypeOK'
    BY <1>1, <1>2 DEF TypeOK
<1>5. Shape'
    BY <1>0, <1>1, <1>2 DEF Shape
<1>6. WithinLimits'
  <2>1. Len(queue') \in Nat /\ Len(q) \in Nat
      BY <1>1, <1>2, LenProperties
  <2> QED
      BY <1>0, <1>1, <1>2, <1>3, <2>1, BatcherAssumption DEF WithinLimits
<1>7. WaiterReachable' /\ ServedOnce' /\ Fresh'
    BY <1>1, <1>3, MoveKeeps
<1> QED
    BY <1>2, <1>3, <1>4, <1>5, <1>6, <1>7

\* The inner getter takes an item, or the timer sends the batch.
LEMMA WaitInv ==
    ASSUME IInv, GetterTake \/ CollectTimeout
    PROVE  IInv' /\ Line' = Line
<1> USE DEF IInv
<1>0. /\ queue \in Seq(Items) /\ batch \in Seq(Items) /\ handed \in Seq(Items)
      /\ Len(queue) \in Nat /\ Len(batch) \in Nat /\ BatchBound \in Nat
    BY LenProperties, BoundFacts DEF TypeOK
<1>1. CASE GetterTake
  <2>1. /\ pc = "collect" /\ handed = <<>> /\ queue # <<>>
        /\ handed' = <<Head(queue)>> /\ queue' = Tail(queue)
        /\ UNCHANGED <<fut, client, pc, batch, stopping, cancel, maxBatch, hist, fate>>
      BY <1>1 DEF GetterTake, callVars, ctlVars
  <2>2. /\ <<Head(queue)>> \in Seq(Items) /\ Tail(queue) \in Seq(Items)
        /\ Len(<<Head(queue)>>) = 1 /\ Len(Tail(queue)) = Len(queue) - 1
        /\ <<Head(queue)>> \o Tail(queue) = queue
      BY <1>0, <2>1, HeadTail
  <2>3. Line' = Line
    <3> DEFINE h == <<Head(queue)>>
               t == Tail(queue)
    <3>1. Line = batch \o (h \o t)
        BY <1>0, <2>1, <2>2, ConcatEmptySeq DEF Line
    <3>2. Line' = (batch \o h) \o t
        BY <2>1 DEF Line
    <3>3. batch \in Seq(Items) /\ h \in Seq(Items) /\ t \in Seq(Items)
        BY <1>0, <2>2
    <3> HIDE DEF h, t
    <3>4. (batch \o h) \o t = batch \o (h \o t)
        BY ONLY <3>3, SMT
    <3> QED
        BY <3>1, <3>2, <3>4
  <2>4. TypeOK'
      BY <2>1, <2>2 DEF TypeOK
  <2>5. Shape'
      BY <2>1 DEF Shape
  <2>6. WithinLimits'
    <3>1. Len(batch \o <<Head(queue)>>) = Len(batch) + 1
        BY <1>0, <2>2, ConcatProperties
    <3> QED
        BY <1>0, <2>1, <2>2, <3>1, BatcherAssumption DEF WithinLimits, Shape
  <2> QED
      BY <2>1, <2>3, <2>4, <2>5, <2>6, MoveKeeps
<1>2. CASE CollectTimeout
  <2>1. /\ pc = "collect" /\ handed = <<>> /\ pc' = "run"
        /\ UNCHANGED <<queue, batch, fut, client, handed, stopping, cancel, maxBatch, hist, fate>>
      BY <1>2 DEF CollectTimeout, Flush, callVars, ctlVars
  <2>2. TypeOK' /\ Shape' /\ WithinLimits' /\ Line' = Line
      BY <2>1 DEF TypeOK, Shape, WithinLimits, Line
  <2> QED
      BY <2>1, <2>2, MoveKeeps
<1> QED
    BY <1>1, <1>2

\* The runner returns or raises: the batch is settled and the loop goes on.
LEMMA RunInv ==
    ASSUME IInv, RunOk \/ RunFail
    PROVE  /\ IInv'
           /\ Line' = queue
           /\ pc' = "run" => Len(batch') >= maxBatch \/ queue' = <<>>
           /\ stopping => pc' = "ended"
<1>0. /\ queue \in Seq(Items) /\ batch \in Seq(Items)
      /\ Len(queue) \in Nat /\ Len(batch) \in Nat \ {0}
      /\ maxBatch \in Nat /\ maxBatch <= BatchBound
      /\ BatchBound \in Nat
      /\ handed = <<>> /\ pc = "run"
    BY LenProperties, EmptySeq, BoundFacts DEF IInv, TypeOK, Shape, RunOk, RunFail
<1>1. /\ Loop(queue)
      /\ UNCHANGED <<client, handed, stopping, cancel, maxBatch>>
      /\ ~cancel
      /\ hist' = hist \/ hist' = [hist EXCEPT ![Len(batch)] = @ + 1]
    BY DEF RunOk, RunFail, ctlVars
<1>2. /\ batch' \in Seq(Items) /\ queue' \in Seq(Items)
      /\ batch' \o queue' = queue
      /\ pc' \in {"get", "collect", "run", "ended"}
      /\ pc' \in {"get", "ended"} => batch' = <<>>
      /\ pc' \in {"collect", "run"} => batch' # <<>>
      /\ Len(batch') <= BatchBound
      /\ Len(queue') <= Len(queue)
      /\ pc' = "collect" => Len(batch') + 1 <= BatchBound
      /\ pc' = "run" => Len(batch') >= maxBatch \/ queue' = <<>>
      /\ stopping => pc' = "ended"
    BY <1>0, <1>1, LoopMoves
<1>3. batch' \o handed' = batch' /\ Line' = queue
    BY <1>0, <1>1, <1>2, ConcatEmptySeq DEF Line
<1>4. TypeOK'
  <2>1. hist' \in [1..BatchBound -> Nat]
      BY <1>1 DEF IInv, TypeOK
  <2>2. \E v \in {"result", "error"} : Settle(v)
      BY DEF RunOk, RunFail
  <2>3. fut' \in [Items -> {"none", "pending", "result", "error", "cancelled"}]
      BY <2>2 DEF Settle, IInv, TypeOK
  <2>4. \E f \in {"ran", "failed"} : Mark(f)
      BY DEF RunOk, RunFail
  <2>5. fate' \in [Items -> {"none", "queued", "ran", "failed", "stranded"}]
      BY <2>4 DEF Mark, IInv, TypeOK
  <2> QED
      BY <1>0, <1>1, <1>2, <2>1, <2>3, <2>5 DEF IInv, TypeOK
<1>5. Shape'
    BY <1>0, <1>1, <1>2 DEF Shape
<1>6. WithinLimits'
  <2>1. Len(queue') \in Nat
      BY <1>2, LenProperties
  <2> QED
      BY <1>0, <1>2, <1>3, <2>1, BatcherAssumption DEF IInv, WithinLimits
<1>7. WaiterReachable' /\ ServedOnce' /\ Fresh'
  <2>1. CASE RunOk
    <3>1. Mark("ran") /\ Settle("result")
        BY <2>1 DEF RunOk
    <3> QED
        BY <1>0, <1>1, <1>2, <3>1, PopKeeps
  <2>2. CASE RunFail
    <3>1. Mark("failed") /\ Settle("error")
        BY <2>2 DEF RunFail
    <3> QED
        BY <1>0, <1>1, <1>2, <3>1, PopKeeps
  <2> QED
      BY <2>1, <2>2
<1> QED
    BY <1>2, <1>3, <1>4, <1>5, <1>6, <1>7 DEF IInv

\* A delivered cancel drops the batch.
LEMMA CancelInv ==
    ASSUME IInv, CancelDelivered
    PROVE  IInv' /\ Line' = queue /\ pc' = "ended"
<1>0. /\ queue \in Seq(Items) /\ batch \in Seq(Items) /\ Len(queue) \in Nat
      /\ BatchBound \in Nat
    BY LenProperties, BoundFacts DEF IInv, TypeOK
<1>1. /\ handed = <<>> /\ handed' = <<>>
      /\ pc' = "ended" /\ batch' = <<>> /\ queue' = queue
      /\ cancel' = FALSE
      /\ Mark("stranded")
      /\ UNCHANGED <<fut, client, stopping, maxBatch, hist>>
    BY DEF CancelDelivered, Exit, callVars
<1>2. /\ <<>> \in Seq(Items) /\ Len(<<>>) = 0
      /\ <<>> \o <<>> = <<>> /\ <<>> \o queue = queue
  <2>1. <<>> \in Seq(Items) /\ Len(<<>>) = 0
      BY EmptySeq
  <2> QED
      BY <1>0, <2>1, ConcatEmptySeq
<1>3. batch' \o handed' = <<>> /\ batch' \o queue' = queue /\ Line' = queue
    BY <1>1, <1>2 DEF Line
<1>4. TypeOK'
  <2>1. fate' \in [Items -> {"none", "queued", "ran", "failed", "stranded"}]
      BY <1>1 DEF Mark, IInv, TypeOK
  <2> QED
      BY <1>0, <1>1, <1>2, <2>1 DEF IInv, TypeOK
<1>5. Shape' /\ WithinLimits'
    BY <1>0, <1>1, <1>2, <1>3 DEF IInv, Shape, WithinLimits
<1>6. WaiterReachable' /\ ServedOnce' /\ Fresh'
  <2>1. /\ batch' \in Seq(Items) /\ queue' \in Seq(Items)
        /\ batch' \o queue' = queue
      BY <1>0, <1>1, <1>2, <1>3
  <2>2. "stranded" \in {"ran", "failed", "stranded"} /\ "error" \in {"result", "error"}
      OBVIOUS
  <2> QED
      BY <1>1, <2>1, <2>2, PopKeeps
<1> QED
    BY <1>1, <1>3, <1>4, <1>5, <1>6 DEF IInv

\* start(), stop(), its return, and the controller's write.
LEMMA ControlInv ==
    ASSUME IInv, Start \/ Stop \/ StopReturn \/ Retune
    PROVE  IInv' /\ Line' = Line
<1> USE DEF IInv
<1>1. /\ UNCHANGED <<queue, fut, client, batch, handed, hist, fate>>
      /\ \/ maxBatch' = maxBatch
         \/ maxBatch' = Least(CtlMaxBatch, maxBatch + BatchStep)
    BY DEF Start, Stop, StopReturn, Retune, callVars, ctlVars
<1>2. Line' = Line
    BY <1>1 DEF Line
<1>3. maxBatch' \in Nat /\ maxBatch' <= BatchBound
  <2>1. maxBatch \in Nat /\ maxBatch <= BatchBound
      BY DEF TypeOK, Shape, WithinLimits
  <2>2. CASE maxBatch' = maxBatch
      BY <2>1, <2>2
  <2>3. CASE maxBatch' = Least(CtlMaxBatch, maxBatch + BatchStep)
      BY <2>1, <2>3, BoundFacts, BatcherAssumption DEF Least
  <2> QED
      BY <1>1, <2>2, <2>3
<1>4. TypeOK'
  <2>1. /\ pc' \in {"off", "get", "collect", "run", "ended"}
        /\ stopping' \in BOOLEAN /\ cancel' \in BOOLEAN
    <3>1. CASE Start
        BY <3>1 DEF TypeOK, Start
    <3>2. CASE Stop
        <4>1. pc' = pc /\ stopping' = TRUE /\ cancel' = TRUE
            BY <3>2, Zenon DEF Stop
        <4> QED
            BY <4>1 DEF TypeOK
    <3>3. CASE StopReturn
        <4>1. pc' = "off" /\ stopping' = stopping /\ cancel' = cancel
            BY <3>3, Zenon DEF StopReturn, ctlVars
        <4> QED
            BY <4>1, Zenon DEF TypeOK
    <3>4. CASE Retune
        <4>1. pc' = pc /\ stopping' = stopping /\ cancel' = cancel
            BY <3>4, Zenon DEF Retune
        <4> QED
            BY <4>1, Zenon DEF TypeOK
    <3> QED
        BY <3>1, <3>2, <3>3, <3>4
  <2> QED
      BY <1>1, <1>3, <2>1 DEF TypeOK
<1>5. Shape'
  <2>1. CASE Start
    <3>1. cancel = FALSE
        BY <2>1 DEF Start, Shape, TypeOK
    <3> QED
        BY <1>1, <1>3, <2>1, <3>1 DEF Shape, Start, ctlVars
  <2>2. CASE Stop \/ StopReturn \/ Retune
      BY <1>1, <1>3, <2>2 DEF Shape, Stop, StopReturn, Retune, ctlVars
  <2> QED
      BY <2>1, <2>2
<1>6. WithinLimits'
    BY <1>1 DEF WithinLimits
<1> QED
    BY <1>1, <1>2, <1>4, <1>5, <1>6, MoveKeeps

LEMMA NextInv == IInv /\ [Next]_vars => IInv'
<1> SUFFICES ASSUME IInv, [Next]_vars PROVE IInv'
    OBVIOUS
<1>1. ASSUME NEW i \in Items, Submit(i) PROVE IInv'
    BY <1>1, SubmitInv
<1>2. ASSUME NEW i \in Items, Deliver(i) \/ Timeout(i) PROVE IInv'
    BY <1>2, CallerInv
<1>3. CASE TakeFirst \/ CollectResume
    BY <1>3, CollectInv
<1>4. CASE GetterTake \/ CollectTimeout
    BY <1>4, WaitInv
<1>5. CASE RunOk \/ RunFail
    BY <1>5, RunInv
<1>6. CASE CancelDelivered
    BY <1>6, CancelInv
<1>7. CASE Start \/ Stop \/ StopReturn \/ Retune
    BY <1>7, ControlInv
<1>8. CASE UNCHANGED vars
  <2>1. UNCHANGED <<queue, fut, client, pc, batch, handed, stopping, cancel,
                    maxBatch, hist, fate>>
      BY <1>8 DEF vars
  <2>2. TypeOK' /\ Shape' /\ WithinLimits' /\ Line' = Line
      BY <2>1 DEF IInv, TypeOK, Shape, WithinLimits, Line
  <2> QED
      BY <2>1, <2>2, MoveKeeps DEF IInv
<1> QED
    BY <1>1, <1>2, <1>3, <1>4, <1>5, <1>6, <1>7, <1>8 DEF Next

\* The inductive invariant holds in every behaviour.
THEOREM Invariance == Spec => []IInv
BY InitInv, NextInv, PTL DEF Spec

-----------------------------------------------------------------------------
(* What follows.                                                           *)

\* Every variable keeps its type, for any number of calls and any limits.
THEOREM TypeCorrect == Spec => []TypeOK
<1>1. IInv => TypeOK
    BY DEF IInv
<1> QED
    BY <1>1, Invariance, PTL

\* No caller is left waiting on an item the batcher has lost sight of, but
\* for those a stop() dropped with the batch in hand (batcher.py:112-163).
THEOREM NoLostWaiter == Spec => []WaiterReachable
<1>1. IInv => WaiterReachable
    BY DEF IInv
<1> QED
    BY <1>1, Invariance, PTL

\* No item is in the line twice, or after it was run, or settled before.
THEOREM ServedAtMostOnce == Spec => []ServedOnce
<1>1. IInv => ServedOnce
    BY DEF IInv
<1> QED
    BY <1>1, Invariance, PTL

\* Queue and batch keep to their limits while the controller moves them.
THEOREM LimitsKept == Spec => []WithinLimits
<1>1. IInv => WithinLimits
    BY DEF IInv
<1> QED
    BY <1>1, Invariance, PTL

\* Only the collector's timer sends a short batch past a non-empty queue.
THEOREM BacklogIsDrained == Spec => BacklogDrained
<1> DEFINE A == pc' = "run" /\ batch' # batch /\ Len(batch') < maxBatch => queue' = <<>>
<1>1. IInv /\ [Next]_vars => [A]_vars
  <2> SUFFICES ASSUME IInv, Next, pc' = "run", batch' # batch, Len(batch') < maxBatch
               PROVE  queue' = <<>>
      OBVIOUS
  <2>0. maxBatch \in Nat /\ Len(batch') \in Nat
    <3>1. IInv'
        BY NextInv
    <3>2. batch' \in Seq(Items) /\ maxBatch \in Nat
        BY <3>1 DEF IInv, TypeOK
    <3> QED
        BY <3>2, LenProperties
  <2>1. ASSUME NEW i \in Items, Submit(i) \/ Deliver(i) \/ Timeout(i) PROVE FALSE
      BY <2>1 DEF Submit, Deliver, Timeout
  <2>2. CASE TakeFirst \/ CollectResume
      BY <2>0, <2>2, CollectInv
  <2>3. CASE GetterTake \/ CollectTimeout
      BY <2>3 DEF GetterTake, CollectTimeout, Flush
  <2>4. CASE RunOk \/ RunFail
      BY <2>0, <2>4, RunInv
  <2>5. CASE CancelDelivered
      BY <2>5, CancelInv
  <2>6. CASE Start \/ Stop \/ StopReturn \/ Retune
      BY <2>6 DEF Start, Stop, StopReturn, Retune
  <2> QED
      BY <2>1, <2>2, <2>3, <2>4, <2>5, <2>6 DEF Next
<1> QED
    BY <1>1, Invariance, PTL DEF Spec, BacklogDrained

\* Once the stop flag is up, a finished batch ends the task: also when the
\* cancel was swallowed (batcher.py:104).
THEOREM StopEndsTheLoop == Spec => NoBatchAfterStop
<1> DEFINE A == stopping /\ pc = "run" /\ batch' # batch => pc' = "ended"
<1>1. IInv /\ [Next]_vars => [A]_vars
  <2> SUFFICES ASSUME IInv, Next, stopping, pc = "run", batch' # batch
               PROVE  pc' = "ended"
      OBVIOUS
  <2>1. ASSUME NEW i \in Items, Submit(i) \/ Deliver(i) \/ Timeout(i) PROVE FALSE
      BY <2>1 DEF Submit, Deliver, Timeout
  <2>2. CASE RunOk \/ RunFail
      BY <2>2, RunInv
  <2>3. CASE CancelDelivered
      BY <2>3, CancelInv
  <2>4. CASE TakeFirst \/ CollectResume \/ GetterTake \/ CollectTimeout
      BY <2>4 DEF TakeFirst, CollectResume, GetterTake, CollectTimeout
  <2>5. CASE Start \/ Stop \/ StopReturn \/ Retune
      BY <2>5 DEF Start, Stop, StopReturn, Retune
  <2> QED
      BY <2>1, <2>2, <2>3, <2>4, <2>5 DEF Next
<1> QED
    BY <1>1, Invariance, PTL DEF Spec, NoBatchAfterStop

-----------------------------------------------------------------------------
(* The histogram.  A loop over the sizes adds up what it counts; one count *)
(* more at a size adds that size from there on.                            *)

Histograms == [1..BatchBound -> Nat]

\* The sum as the loop's values at each size.
LEMMA CountedByLoop ==
    ASSUME NEW h \in Histograms
    PROVE  \E f \in [0..BatchBound -> Nat] :
               /\ f[0] = 0 /\ \A n \in 1..BatchBound : f[n] = f[n - 1] + n * h[n]
               /\ Counted(h) = f[BatchBound]
<1> DEFINE N == BatchBound
           step == [x \in Nat \X (1..N) |-> x[1] + x[2] * h[x[2]]]
<1>1. N \in Nat
    BY BoundFacts
<1>2. step \in [Nat \X (1..N) -> Nat]
    <2>1. ASSUME NEW n \in 1..N, NEW u \in Nat PROVE u + n * h[n] \in Nat
        <3>1. h[n] \in Nat /\ n \in Nat
            BY <1>1 DEF Histograms
        <3> QED
            BY <3>1
    <2>2. \A x \in Nat \X (1..N) : x[1] \in Nat /\ x[2] \in 1..N
        OBVIOUS
    <2> QED
        BY <2>1, <2>2
<1>3. \A u \in Nat, n \in 1..N : step[<<u, n>>] = u + n * h[n]
    OBVIOUS
<1> HIDE DEF step, N
<1>4. Runs(Nat, 0, N, step) # {}
    BY <1>1, <1>2, LoopExists
<1>5. PICK f \in [0..N -> Nat] : f[0] = 0 /\ \A n \in 1..N : f[n] = step[<<f[n - 1], n>>]
    BY <1>4 DEF Runs
<1>6. \A n \in 1..N : f[n] = f[n - 1] + n * h[n]
    <2>1. \A n \in 1..N : f[n - 1] \in Nat
        BY <1>1, <1>5
    <2> QED
        BY <1>3, <1>5, <2>1
<1>7. f = [n \in 0..N |-> IF n = 0 THEN 0 ELSE f[n - 1] + n * h[n]]
    <2>1. \A n \in 0..N : f[n] = IF n = 0 THEN 0 ELSE f[n - 1] + n * h[n]
        BY <1>1, <1>5, <1>6
    <2> QED
        BY <1>5, <2>1
<1> DEFINE upTo[n \in 0..N] == IF n = 0 THEN 0 ELSE upTo[n - 1] + n * h[n]
<1>8. upTo = [n \in 0..N |-> IF n = 0 THEN 0 ELSE upTo[n - 1] + n * h[n]]
    BY <1>7, Zenon
<1>9. Counted(h) = upTo[N]
    BY DEF Counted, N
<1> HIDE DEF upTo
<1>10. \A n \in 0..N : upTo[n] = f[n]
    <2> DEFINE I == [n \in 0..N |-> {f[n]}]
    <2>1. upTo[0] \in I[0]
        BY <1>1, <1>5, <1>8
    <2>2. ASSUME NEW n \in 1..N, upTo[n - 1] \in I[n - 1] PROVE upTo[n] \in I[n]
        <3>1. n \in 0..N /\ n # 0 /\ n - 1 \in 0..N
            BY <1>1
        <3>2. upTo[n] = upTo[n - 1] + n * h[n] /\ upTo[n - 1] = f[n - 1]
            BY <1>8, <2>2, <3>1
        <3> QED
            BY <1>6, <3>1, <3>2
    <2>3. \A n \in 0..N : I[n] = {f[n]}
        OBVIOUS
    <2> HIDE DEF I
    <2>4. \A n \in 0..N : upTo[n] \in I[n]
        BY <1>1, <2>1, <2>2, LoopInvariant, Zenon
    <2> QED
        BY <2>3, <2>4
<1>11. N \in 0..N
    BY <1>1
<1> QED
    BY <1>5, <1>6, <1>9, <1>10, <1>11 DEF N

\* Two histograms that agree but for one more batch of m items.
LEMMA OneBatchMore ==
    ASSUME NEW h \in Histograms, NEW m \in 1..BatchBound
    PROVE  /\ Counted(h) \in Nat
           /\ Counted([h EXCEPT ![m] = @ + 1]) = Counted(h) + m
<1> DEFINE N == BatchBound
           g == [h EXCEPT ![m] = @ + 1]
<1>1. N \in Nat /\ m \in 1..N
    BY BoundFacts
<1>2. /\ g \in Histograms /\ g[m] = h[m] + 1 /\ h[m] \in Nat
      /\ \A n \in 1..N : n # m => g[n] = h[n]
    BY DEF Histograms
<1> HIDE DEF g, N
<1>3. PICK a \in [0..N -> Nat] :
          /\ a[0] = 0 /\ \A n \in 1..N : a[n] = a[n - 1] + n * h[n]
          /\ Counted(h) = a[N]
    BY CountedByLoop DEF N
<1>4. PICK b \in [0..N -> Nat] :
          /\ b[0] = 0 /\ \A n \in 1..N : b[n] = b[n - 1] + n * g[n]
          /\ Counted(g) = b[N]
    BY <1>2, CountedByLoop DEF N
<1> DEFINE I == [n \in 0..N |-> {IF n < m THEN a[n] ELSE a[n] + m}]
<1>5. b[0] \in I[0]
    BY <1>1, <1>3, <1>4
<1>6. ASSUME NEW n \in 1..N, b[n - 1] \in I[n - 1] PROVE b[n] \in I[n]
    <2>1. n \in 0..N /\ n - 1 \in 0..N /\ n \in Nat /\ m \in Nat
        BY <1>1
    <2>2. b[n - 1] = IF n - 1 < m THEN a[n - 1] ELSE a[n - 1] + m
        BY <1>6, <2>1
    <2>3. a[n - 1] \in Nat /\ a[n] \in Nat /\ h[n] \in Nat
        BY <1>1, <1>3, <2>1 DEF Histograms, N
    <2>4. a[n] = a[n - 1] + n * h[n] /\ b[n] = b[n - 1] + n * g[n]
        BY <1>3, <1>4
    <2>5. b[n] = IF n < m THEN a[n] ELSE a[n] + m
        <3>1. CASE n = m
            <4>1. b[n] = a[n - 1] + n * (h[n] + 1)
                BY <1>2, <2>1, <2>2, <2>4, <3>1
            <4>2. n * (h[n] + 1) = n * h[n] + n
                BY <2>1, <2>3
            <4>3. n * h[n] \in Nat
                BY <2>1, <2>3
            <4> QED
                BY <2>1, <2>3, <2>4, <3>1, <4>1, <4>2, <4>3
        <3>2. CASE n # m
            <4>1. b[n] = b[n - 1] + n * h[n] /\ n * h[n] \in Nat
                BY <1>2, <2>1, <2>3, <2>4, <3>2
            <4> DEFINE p == n * h[n]
            <4> HIDE DEF p
            <4>2. b[n] = b[n - 1] + p /\ a[n] = a[n - 1] + p /\ p \in Nat
                BY <2>4, <4>1 DEF p
            <4> QED
                BY <2>1, <2>2, <2>3, <3>2, <4>2
        <3> QED
            BY <3>1, <3>2
    <2> QED
        BY <2>1, <2>5
<1>7. \A n \in 0..N : I[n] = {IF n < m THEN a[n] ELSE a[n] + m}
    OBVIOUS
<1> HIDE DEF I
<1>8. \A n \in 0..N : b[n] \in I[n]
    BY <1>1, <1>5, <1>6, LoopInvariant, Zenon
<1>9. N \in 0..N /\ ~(N < m)
    BY <1>1
<1>10. b[N] = a[N] + m /\ a[N] \in Nat
    BY <1>3, <1>7, <1>8, <1>9
<1> QED
    BY <1>3, <1>4, <1>10 DEF g

LEMMA NothingCounted == Counted([n \in 1..BatchBound |-> 0]) = 0
<1> DEFINE N == BatchBound
           h == [n \in 1..N |-> 0]
<1>1. N \in Nat /\ h \in Histograms /\ \A n \in 1..N : n * h[n] = 0
    BY BoundFacts DEF Histograms
<1> HIDE DEF h, N
<1>2. PICK a \in [0..N -> Nat] :
          /\ a[0] = 0 /\ \A n \in 1..N : a[n] = a[n - 1] + n * h[n]
          /\ Counted(h) = a[N]
    BY <1>1, CountedByLoop DEF N
<1> DEFINE I == [n \in 0..N |-> {0}]
<1>3. a[0] \in I[0]
    BY <1>1, <1>2
<1>4. ASSUME NEW n \in 1..N, a[n - 1] \in I[n - 1] PROVE a[n] \in I[n]
    <2>1. n \in 0..N /\ n - 1 \in 0..N
        BY <1>1
    <2>2. a[n - 1] = 0 /\ a[n] = a[n - 1] + n * h[n] /\ n * h[n] = 0
        BY <1>1, <1>2, <1>4, <2>1
    <2> QED
        BY <2>1, <2>2
<1>5. \A n \in 0..N : I[n] = {0}
    OBVIOUS
<1> HIDE DEF I
<1>6. \A n \in 0..N : a[n] \in I[n]
    BY <1>1, <1>3, <1>4, LoopInvariant, Zenon
<1>7. N \in 0..N
    BY <1>1
<1> QED
    BY <1>2, <1>5, <1>6, <1>7 DEF h, N

\* A batch holds each of its items once.
LEMMA BatchSize ==
    ASSUME NEW s \in Seq(Items), \A j, k \in 1..Len(s) : s[j] = s[k] => j = k
    PROVE  IsFiniteSet(Elems(s)) /\ Cardinality(Elems(s)) = Len(s)
<1>1. Len(s) \in Nat
    BY LenProperties
<1>2. s \in Bijection(1..Len(s), Elems(s))
    <2>1. s \in [1..Len(s) -> Elems(s)]
        BY DEF Elems
    <2>2. \A e \in Elems(s) : \E j \in 1..Len(s) : s[j] = e
        BY DEF Elems
    <2> QED
        BY <2>1, <2>2 DEF Bijection, Injection, Surjection, IsInjective
<1>3. ExistsBijection(1..Len(s), Elems(s))
    BY <1>2 DEF ExistsBijection
<1>4. IsFiniteSet(1..Len(s)) /\ Cardinality(1..Len(s)) = Len(s)
    <2>1. 1 \in Int /\ Len(s) \in Int
        BY <1>1
    <2>2. /\ IsFiniteSet(1..Len(s))
          /\ Cardinality(1..Len(s)) = IF 1 > Len(s) THEN 0 ELSE Len(s) - 1 + 1
        BY <2>1, FS_Interval, Zenon
    <2> QED
        BY <1>1, <2>2
<1> QED
    BY <1>3, <1>4, FS_Bijection

Account == IsFiniteSet(Ran) /\ HistogramAccounts

LEMMA InitAccount == Init => Account
<1> SUFFICES ASSUME Init PROVE Account
    OBVIOUS
<1>1. Ran = {}
    BY DEF Init, Ran
<1>2. Counted(hist) = 0
    BY NothingCounted DEF Init
<1> QED
    BY <1>1, <1>2, FS_EmptySet DEF Account, HistogramAccounts

LEMMA LineParts ==
    ASSUME IInv
    PROVE  /\ batch \in Seq(Items) /\ handed \o queue \in Seq(Items)
           /\ Line = batch \o (handed \o queue)
<1>1. batch \in Seq(Items) /\ handed \in Seq(Items) /\ queue \in Seq(Items)
    BY DEF IInv, TypeOK
<1>2. handed \o queue \in Seq(Items)
    BY <1>1, ConcatProperties
<1>3. (batch \o handed) \o queue = batch \o (handed \o queue)
    BY <1>1, ConcatAssociative
<1> QED
    BY <1>1, <1>2, <1>3 DEF Line

\* The batch in hand has not run yet.
LEMMA BatchNotRun ==
    ASSUME IInv
    PROVE  \A i \in Elems(batch) : i \in Items /\ fate[i] = "queued"
<1> DEFINE rest == handed \o queue
<1>1. batch \in Seq(Items) /\ rest \in Seq(Items) /\ Line = batch \o rest
    BY LineParts
<1> HIDE DEF rest
<1>2. Elems(batch) \subseteq Elems(Line)
    BY <1>1, ElemsConcat
<1>3. Elems(batch) \subseteq Items
    BY <1>1 DEF Elems
<1> QED
    BY <1>2, <1>3 DEF IInv, ServedOnce

LEMMA RunOkAccount == ASSUME IInv, Account, RunOk PROVE Account'
<1>1. /\ pc = "run" /\ hist' = [hist EXCEPT ![Len(batch)] = @ + 1] /\ Mark("ran")
      /\ hist \in Histograms /\ batch \in Seq(Items) /\ batch # <<>>
    BY DEF RunOk, IInv, TypeOK, Shape, Histograms
<1>2. Len(batch) \in 1..BatchBound
    <2>1. Len(batch) \in Nat \ {0} /\ BatchBound \in Nat
        BY <1>1, EmptySeq, LenProperties, BoundFacts
    <2>2. Len(batch) <= BatchBound
        BY DEF IInv, Shape
    <2> QED
        BY <2>1, <2>2
<1>3. Ran' = Ran \cup Elems(batch)
    <2>1. \A i \in Items : fate'[i] = IF i \in Elems(batch) THEN "ran" ELSE fate[i]
        BY <1>1 DEF Mark
    <2>2. Elems(batch) \subseteq Items
        BY BatchNotRun
    <2> QED
        BY <2>1, <2>2 DEF Ran
<1>4. Ran \cap Elems(batch) = {}
    BY BatchNotRun DEF Ran
<1>5. \A j, k \in 1..Len(batch) : batch[j] = batch[k] => j = k
    <2> DEFINE rest == handed \o queue
    <2>1. rest \in Seq(Items) /\ Line = batch \o rest
        BY LineParts
    <2> HIDE DEF rest
    <2>2. /\ Len(Line) = Len(batch) + Len(rest) /\ Len(batch) \in Nat /\ Len(rest) \in Nat
          /\ \A j \in 1..Len(batch) : Line[j] = batch[j] /\ j \in 1..Len(Line)
        BY <1>1, <2>1, ConcatProperties, LenProperties
    <2> QED
        BY <2>2 DEF IInv, ServedOnce
<1>6. IsFiniteSet(Elems(batch)) /\ Cardinality(Elems(batch)) = Len(batch)
    BY <1>1, <1>5, BatchSize
<1>7. /\ IsFiniteSet(Ran')
      /\ Cardinality(Ran') = Cardinality(Ran) + Len(batch)
    <2>1. /\ IsFiniteSet(Ran \cup Elems(batch))
          /\ Cardinality(Ran \cup Elems(batch))
                 = Cardinality(Ran) + Cardinality(Elems(batch))
                       - Cardinality(Ran \cap Elems(batch))
        BY <1>6, FS_Union DEF Account
    <2>2. Cardinality(Ran \cap Elems(batch)) = 0
        BY <1>4, FS_EmptySet
    <2>3. Cardinality(Ran) \in Nat /\ Len(batch) \in Nat
        BY <1>1, FS_CardinalityType, LenProperties DEF Account
    <2> QED
        BY <1>3, <1>6, <2>1, <2>2, <2>3
<1>8. Counted(hist') = Counted(hist) + Len(batch)
    BY <1>1, <1>2, OneBatchMore
<1> QED
    BY <1>7, <1>8 DEF Account, HistogramAccounts

\* No other step counts a batch, or makes an item one that ran.
LEMMA OtherAccount ==
    ASSUME IInv, Account, [Next]_vars, ~RunOk
    PROVE  Account'
<1>1. hist' = hist
    BY DEF Next, vars, Submit, Deliver, Timeout, TakeFirst, GetterTake, CollectResume,
           CollectTimeout, RunFail, CancelDelivered, Start, Stop, StopReturn, Retune
<1>2. Ran' = Ran
    <2>1. CASE \E i \in Items : Submit(i)
        <3>1. PICK i \in Items : Submit(i)
            BY <2>1
        <3>2. fate' = fate \/ (fate' = [fate EXCEPT ![i] = "queued"] /\ fate[i] = "none")
            BY <3>1 DEF Submit, IInv, Fresh
        <3> QED
            BY <3>2 DEF Ran, IInv, TypeOK
    <2>2. CASE \E f \in {"failed", "stranded"} : Mark(f)
        BY <2>2, BatchNotRun DEF Mark, Ran
    <2>3. CASE fate' = fate
        BY <2>3 DEF Ran
    <2>4. \/ \E i \in Items : Submit(i)
          \/ \E f \in {"failed", "stranded"} : Mark(f)
          \/ fate' = fate
        BY DEF Next, vars, Deliver, Timeout, TakeFirst, GetterTake, CollectResume,
               CollectTimeout, RunFail, CancelDelivered, Start, Stop, StopReturn, Retune
    <2> QED
        BY <2>1, <2>2, <2>3, <2>4
<1>3. Counted(hist)' = Counted(hist')
    BY DEF Counted
<1> QED
    BY <1>1, <1>2, <1>3 DEF Account, HistogramAccounts

\* /metrics: the batches counted in the histogram, each by its size, are the
\* items that ran, and no failed or cancelled batch is among them, whatever
\* the controller does to the limit meanwhile.
THEOREM HistogramIsExact == Spec => []HistogramAccounts
<1>1. IInv /\ Account /\ [Next]_vars => Account'
    BY RunOkAccount, OtherAccount
<1>2. Account => HistogramAccounts
    BY DEF Account
<1> QED
    BY <1>1, <1>2, Invariance, InitAccount, PTL DEF Spec

-----------------------------------------------------------------------------
(* Refinement.                                                             *)

\* What is left of a concatenation when its first part falls off.
LEMMA FrontAndRest ==
    ASSUME NEW S, NEW b \in Seq(S), NEW r \in Seq(S)
    PROVE  /\ Len(b \o r) = Len(b) + Len(r)
           /\ SubSeq(b \o r, Len(b) + 1, Len(b \o r)) = r
           /\ {(b \o r)[j] : j \in 1..Len(b)} = Elems(b)
<1> DEFINE L == b \o r
           d == SubSeq(L, Len(b) + 1, Len(L))
<1>1. /\ Len(b) \in Nat /\ Len(r) \in Nat
      /\ L \in Seq(S) /\ Len(L) = Len(b) + Len(r)
      /\ \A i \in 1..Len(b) + Len(r) :
            L[i] = IF i <= Len(b) THEN b[i] ELSE r[i - Len(b)]
    BY LenProperties, ConcatProperties
<1>2. \A i \in Len(b) + 1..Len(L) : L[i] \in S
    BY <1>1, ElementOfSeq
<1>3. {L[j] : j \in 1..Len(b)} = Elems(b)
  <2>1. \A j \in 1..Len(b) : L[j] = b[j]
      BY <1>1
  <2> QED
      BY <2>1 DEF Elems
<1> HIDE DEF L
<1>4. /\ d \in Seq(S) /\ Len(d) = Len(r)
      /\ \A i \in 1..Len(r) : d[i] = L[Len(b) + 1 + i - 1]
  <2>1. Len(b) + 1 \in Int /\ Len(L) \in Int
      BY <1>1
  <2>2. /\ d \in Seq(S)
        /\ Len(d) = IF Len(b) + 1 <= Len(L) THEN Len(L) - (Len(b) + 1) + 1 ELSE 0
        /\ \A i \in 1..Len(L) - (Len(b) + 1) + 1 : d[i] = L[Len(b) + 1 + i - 1]
      BY <1>2, <2>1, SubSeqProperties
  <2> QED
      BY <1>1, <2>2
<1>5. \A i \in 1..Len(r) : d[i] = r[i]
    BY <1>1, <1>4
<1>6. d = r
  <2> HIDE DEF d
  <2> QED
      BY <1>4, <1>5, SeqEqual
<1> QED
    BY <1>1, <1>3, <1>6 DEF L

\* The batch leaves the front of the line with the verdict v, or with none.
LEMMA PopIsServe ==
    ASSUME IInv, handed = <<>>, batch # <<>>, Line' = queue, client' = client,
           \/ fut' = fut
           \/ \E v \in {"result", "error"} : Settle(v)
    PROVE  Service!Next
<1> DEFINE k == Len(batch)
<1>1. /\ batch \in Seq(Items) /\ queue \in Seq(Items)
      /\ k \in Nat \ {0} /\ k <= BatchBound /\ BatchBound \in Nat
      /\ Len(queue) \in Nat
    BY BoundFacts, LenProperties, EmptySeq DEF IInv, TypeOK, Shape
<1>2. Line = batch \o queue
    BY <1>1, ConcatEmptySeq DEF Line
<1>3. /\ Len(Line) = k + Len(queue)
      /\ SubSeq(Line, k + 1, Len(Line)) = queue
      /\ {Line[j] : j \in 1..k} = Elems(batch)
  <2>1. /\ Len(batch \o queue) = Len(batch) + Len(queue)
        /\ SubSeq(batch \o queue, Len(batch) + 1, Len(batch \o queue)) = queue
        /\ {(batch \o queue)[j] : j \in 1..Len(batch)} = Elems(batch)
      BY <1>1, FrontAndRest
  <2> QED
      BY ONLY <1>2, <2>1 DEF k
<1>4. k \in Service!Sizes
    BY <1>1, <1>3 DEF Service!Sizes
<1>5. Line' = Service!DropFront(k) /\ Service!Front(k) = Elems(batch)
    BY <1>3 DEF Service!DropFront, Service!Front
<1>6. CASE fut' = fut
  <2>1. Service!Abandon(k)
      BY <1>5, <1>6 DEF Service!Abandon
  <2> QED
      BY <1>4, <2>1 DEF Service!Next
<1>7. CASE \E v \in {"result", "error"} : Settle(v)
  <2>1. PICK v \in {"result", "error"} : Settle(v)
      BY <1>7
  <2>2. Service!Serve(k, v)
      BY <1>5, <2>1 DEF Service!Serve, Settle
  <2> QED
      BY <1>4, <2>1, <2>2 DEF Service!Next, Service!Verdicts
<1> QED
    BY <1>6, <1>7

\* Every step of the batcher is a step of the abstract line or leaves it alone.
LEMMA StepRefines == IInv /\ [Next]_vars => [Service!Next]_(Service!vars)
<1> SUFFICES ASSUME IInv, [Next]_vars
             PROVE  Service!Next \/ UNCHANGED <<Line, fut, client>>
    BY DEF Service!vars
<1>1. ASSUME NEW i \in Items, Submit(i) PROVE Service!Next
  <2>0. /\ Len(Line) = Len(batch \o handed) + Len(queue)
        /\ Len(queue) \in Nat /\ Len(batch \o handed) \in Nat
        /\ Len(batch \o handed) <= BatchBound
        /\ BatchBound \in Nat /\ QueueMax \in Nat
    <3>1. batch \o handed \in Seq(Items) /\ queue \in Seq(Items)
        BY ConcatProperties DEF IInv, TypeOK
    <3> QED
        BY <3>1, ConcatProperties, LenProperties, BoundFacts, BatcherAssumption
           DEF Line, IInv, WithinLimits
  <2>1. client[i] = "idle"
      BY <1>1 DEF Submit
  <2>2. CASE /\ QueueFull(queue)
             /\ client' = [client EXCEPT ![i] = "overflow"]
             /\ UNCHANGED <<Line, fut>>
    <3>1. Service!MayReject
        BY <2>0, <2>2 DEF QueueFull, Service!MayReject
    <3>2. Service!Reject(i)
        BY <2>1, <2>2, <3>1 DEF Service!Reject
    <3> QED
        BY <3>2 DEF Service!Next
  <2>3. CASE /\ ~QueueFull(queue)
             /\ client' = [client EXCEPT ![i] = "waiting"]
             /\ fut' = [fut EXCEPT ![i] = "pending"]
             /\ Line' = Append(Line, i)
    <3>1. Service!MayAccept
        BY <2>0, <2>3 DEF QueueFull, Service!MayAccept
    <3>2. Service!Accept(i)
        BY <2>1, <2>3, <3>1 DEF Service!Accept
    <3> QED
        BY <3>2 DEF Service!Next
  <2> QED
      BY <1>1, <2>2, <2>3, SubmitInv
<1>2. ASSUME NEW i \in Items, Deliver(i) \/ Timeout(i) PROVE Service!Next
  <2>1. Line' = Line
      BY <1>2, CallerInv
  <2>2. CASE Deliver(i)
    <3>1. Service!Answer(i)
        BY <2>1, <2>2 DEF Deliver, Service!Answer, Service!Verdicts
    <3> QED
        BY <3>1 DEF Service!Next
  <2>3. CASE Timeout(i)
    <3>1. Service!GiveUp(i)
        BY <2>1, <2>3 DEF Timeout, Service!GiveUp
    <3> QED
        BY <3>1 DEF Service!Next
  <2> QED
      BY <1>2, <2>2, <2>3
<1>3. CASE TakeFirst \/ CollectResume
    BY <1>3, CollectInv DEF TakeFirst, CollectResume, callVars
<1>4. CASE GetterTake \/ CollectTimeout
    BY <1>4, WaitInv DEF GetterTake, CollectTimeout, callVars
<1>5. CASE RunOk \/ RunFail
  <2>1. Line' = queue
      BY <1>5, RunInv
  <2>2. /\ handed = <<>> /\ batch # <<>> /\ client' = client
        /\ \E v \in {"result", "error"} : Settle(v)
      BY <1>5 DEF RunOk, RunFail, IInv, Shape
  <2> QED
      BY <2>1, <2>2, PopIsServe
<1>6. CASE CancelDelivered
  <2>1. Line' = queue /\ handed = <<>> /\ UNCHANGED <<fut, client>>
      BY <1>6, CancelInv DEF CancelDelivered, callVars
  <2>2. CASE batch # <<>>
      BY <2>1, <2>2, PopIsServe
  <2>3. CASE batch = <<>>
    <3>1. queue \in Seq(Items) /\ <<>> \in Seq(Items)
        BY EmptySeq DEF IInv, TypeOK
    <3>2. <<>> \o <<>> = <<>> /\ <<>> \o queue = queue
        BY <3>1, ConcatEmptySeq
    <3>3. Line = queue
        BY <2>1, <2>3, <3>2 DEF Line
    <3> QED
        BY <2>1, <3>3
  <2> QED
      BY <2>2, <2>3
<1>7. CASE Start \/ Stop \/ StopReturn \/ Retune
    BY <1>7, ControlInv DEF Start, Stop, StopReturn, Retune, callVars
<1>8. CASE UNCHANGED vars
    BY <1>8 DEF vars, Line
<1> QED
    BY <1>1, <1>2, <1>3, <1>4, <1>5, <1>6, <1>7, <1>8 DEF Next

\* The batcher implements the abstract service: first come first served, each
\* item once, a verdict only for a caller still waiting.
THEOREM ImplementsService == Spec => ServiceSpec
<1>1. Init => Service!Init
  <2> SUFFICES ASSUME Init PROVE Service!Init
      OBVIOUS
  <2>1. <<>> \o <<>> = <<>>
    <3>1. <<>> \in Seq(Items)
        BY EmptySeq
    <3> QED
        BY <3>1, ConcatEmptySeq
  <2>2. Line = <<>>
      BY <2>1 DEF Init, Line
  <2> QED
      BY <2>2 DEF Init, Service!Init
<1> QED
    BY <1>1, StepRefines, Invariance, PTL DEF Spec, ServiceSpec, Service!Spec
=============================================================================
