-------------------------- MODULE BenchmarkProofs --------------------------
(***************************************************************************)
(* Proofs about Benchmark for any pool, any number of sub-runs and any     *)
(* bounds: its types, that what a workload returns accounts for what it    *)
(* sent, and between what bounds the difference of two reads of /metrics   *)
(* lies.                                                                   *)
(***************************************************************************)
EXTENDS Benchmark, FiniteSetTheorems, TLAPS

Mains   == {"reset", "pre", "warm", "run", "post", "summary", "report", "raw",
            "charts", "done", "failed", "crashed"}
States  == {"idle", "flight", "served", "answer", "error", "load", "store", "dead"}
               \cup Fields
Holding == {"load", "store"} \cup Fields

Types ==
    /\ scenario \in Scenarios /\ main \in Mains /\ subrun \in 1..SubRuns
    /\ over \in BOOLEAN /\ sent \in 0..MaxSent /\ pending \in Nat
    /\ thread \in [Workers -> States]
    /\ lock \in Workers \cup {NoOne}
    /\ lists \in [Fields -> Seq(Workers)]
    /\ errors \in Nat /\ loaded \in [Workers -> Nat] /\ raised \in Nat
    /\ server \in [hits : Nat, misses : Nat, known : BOOLEAN, late : Nat]
    /\ \A c \in {pre, post} : c = <<>> \/ c \in Nat \X Nat
    /\ own \in [warm : Nat, late : Nat]

\* The lock belongs to the thread that is about to write.
Locking == \A w \in Workers : thread[w] \in Holding <=> lock = w

\* What the holder has read of errors is still what they are.
Loading == \A w \in Workers : thread[w] = "store" => loaded[w] = errors

Latencies == lists["latencies_ms"]
Inference == lists["inference_ms"]
QueueWait == lists["queue_wait_ms"]

\* Only the holder's own sample may be in some of the lists and not in all.
Rows ==
    /\ \A w \in Workers : thread[w] = "inference_ms" =>
           Latencies = Append(QueueWait, w) /\ Inference = QueueWait
    /\ \A w \in Workers : thread[w] = "queue_wait_ms" =>
           Latencies = Append(QueueWait, w) /\ Inference = Latencies
    /\ (\A w \in Workers : thread[w] \notin {"inference_ms", "queue_wait_ms"}) =>
           Latencies = QueueWait /\ Inference = QueueWait

\* The threads in one of some states.
Count(S) == Cardinality({w \in Workers : thread[w] \in S})

\* With a request that is not counted yet, with one that is to be looked up,
\* with one that was and may become a sample.
Busy   == {"flight", "served", "answer", "error", "latencies_ms", "load", "store"}
Coming == {"flight"}
Served == {"served", "answer", "latencies_ms"}

\* The requests that have an outcome; the look-ups of the server, and the
\* requests that it may yet look up.
Ended  == Len(Latencies) + errors + raised
Looked == server.hits + server.misses
ToCome == server.late + pending + Count(Coming)

\* Outside a window the threads are at rest.
Resting(at) == IF at = "crashed" THEN {"idle", "dead"} ELSE {"idle"}

\* A request sent is in the pool's queue, on a thread, or counted; one that
\* ended in an exception has ended the worker of a closed loop.
Counting ==
    /\ pending + Count(Busy) + Ended = sent
    /\ main # "run" => pending = 0 /\ \A w \in Workers : thread[w] \in Resting(main)
    /\ Closed /\ raised > 0 => \E w \in Workers : thread[w] = "dead"

\* What the sub-run has asked of the server since the first read, or found
\* there; and what it has been answered.
Asked    == own.warm + own.late + IF main = "warm" THEN 0 ELSE sent
Answered == IF main = "warm" THEN 0 ELSE Count(Served) + Len(Latencies)

\* The counters of the server are ahead of the first read by at least what
\* was answered, and by at most what was asked and is not still to come.
Reading ==
    Reads =>
        /\ main = "pre" => own.warm = 0
        /\ main \in {"warm", "run", "post"} /\ pre # <<>> =>
               /\ server.hits >= pre[1]
               /\ pre[1] + pre[2] + Answered <= Looked
               /\ Looked + ToCome <= pre[1] + pre[2] + Asked
        /\ main = "summary" /\ Known =>
               /\ post[1] >= pre[1]
               /\ pre[1] + pre[2] + Answered <= post[1] + post[2]
               /\ post[1] + post[2] <= pre[1] + pre[2] + Asked

IInv == Types /\ Locking /\ Loading /\ Rows /\ Counting /\ Reading

-----------------------------------------------------------------------------
(* The number of requests on a thread.                                     *)

LEMMA CountNat == ASSUME NEW S PROVE Count(S) \in Nat /\ Count(S)' \in Nat
<1>1. /\ {w \in Workers : thread[w] \in S} \subseteq Workers
      /\ {w \in Workers : thread'[w] \in S} \subseteq Workers
    OBVIOUS
<1> QED
    BY <1>1, HarnessAssumption, FS_Subset, FS_CardinalityType DEF Count

In(x, S) == IF x \in S THEN 1 ELSE 0

\* One thread moves: the count of a set of states follows.
LEMMA CountSteps ==
    ASSUME NEW S, NEW w \in Workers, NEW at, thread'[w] = at,
           \A v \in Workers \ {w} : thread'[v] = thread[v]
    PROVE  Count(S)' = Count(S) + In(at, S) - In(thread[w], S)
<1> DEFINE before == {v \in Workers : thread[v] \in S}
           after  == {v \in Workers : thread'[v] \in S}
<1>1. IsFiniteSet(before) /\ Cardinality(before) \in Nat
    <2>1. before \subseteq Workers
        OBVIOUS
    <2> QED
        BY <2>1, HarnessAssumption, FS_Subset, FS_CardinalityType
<1>2. Count(S) = Cardinality(before) /\ Count(S)' = Cardinality(after)
    BY DEF Count
<1>3. CASE at \in S /\ thread[w] \in S
    <2>1. after = before
        BY <1>3
    <2>2. Count(S)' = Count(S) /\ Count(S) \in Nat
        BY <1>1, <1>2, <2>1
    <2> QED
        BY <1>3, <2>2 DEF In
<1>4. CASE at \notin S /\ thread[w] \notin S
    <2>1. after = before
        BY <1>4
    <2>2. Count(S)' = Count(S) /\ Count(S) \in Nat
        BY <1>1, <1>2, <2>1
    <2> QED
        BY <1>4, <2>2 DEF In
<1>5. CASE at \in S /\ thread[w] \notin S
    <2>1. after = before \cup {w} /\ w \notin before
        BY <1>5
    <2>2. Cardinality(after) = Cardinality(before) + 1
        BY <1>1, <2>1, FS_AddElement
    <2> QED
        BY <1>1, <1>2, <1>5, <2>2 DEF In
<1>6. CASE at \notin S /\ thread[w] \in S
    <2>1. after = before \ {w} /\ w \in before
        BY <1>6
    <2>2. Cardinality(after) = Cardinality(before) - 1
        BY <1>1, <2>1, FS_RemoveElement
    <2> QED
        BY <1>1, <1>2, <1>6, <2>2 DEF In
<1> QED
    BY <1>3, <1>4, <1>5, <1>6

LEMMA ThreadSteps ==
    ASSUME Types, NEW w \in Workers, NEW at \in States, thread' = [thread EXCEPT ![w] = at]
    PROVE  /\ thread' \in [Workers -> States]
           /\ thread'[w] = at /\ \A v \in Workers \ {w} : thread'[v] = thread[v]
           /\ Count(Busy)' = Count(Busy) + In(at, Busy) - In(thread[w], Busy)
           /\ Count(Coming)' = Count(Coming) + In(at, Coming) - In(thread[w], Coming)
           /\ Count(Served)' = Count(Served) + In(at, Served) - In(thread[w], Served)
<1>1. /\ thread' \in [Workers -> States]
      /\ thread'[w] = at /\ \A v \in Workers \ {w} : thread'[v] = thread[v]
    BY DEF Types
<1> QED
    BY <1>1, CountSteps

\* The numbers that the account is made of.
LEMMA Numbers ==
    ASSUME Types
    PROVE  /\ pending \in Nat /\ sent \in Nat /\ errors \in Nat /\ raised \in Nat
           /\ Len(Latencies) \in Nat
           /\ Count(Busy) \in Nat /\ Count(Coming) \in Nat /\ Count(Served) \in Nat
           /\ server.hits \in Nat /\ server.misses \in Nat /\ server.late \in Nat
           /\ own.warm \in Nat /\ own.late \in Nat
           /\ Asked \in Nat /\ Answered \in Nat /\ Ended \in Nat /\ Looked \in Nat
           /\ ToCome \in Nat
           /\ pre # <<>> => pre[1] \in Nat /\ pre[2] \in Nat
           /\ post # <<>> => post[1] \in Nat /\ post[2] \in Nat
<1>1. Count(Busy) \in Nat /\ Count(Coming) \in Nat /\ Count(Served) \in Nat
    BY CountNat
<1>2. Len(Latencies) \in Nat
    BY DEF Types, Latencies, Fields
<1>3. own.warm \in Nat /\ own.late \in Nat /\ sent \in Nat
    BY DEF Types
<1>4. Asked \in Nat
    BY <1>3 DEF Asked
<1>5. Answered \in Nat
    BY <1>1, <1>2 DEF Answered
<1>6. Ended \in Nat /\ Looked \in Nat /\ ToCome \in Nat
    <2>1. /\ errors \in Nat /\ raised \in Nat /\ pending \in Nat
          /\ server.hits \in Nat /\ server.misses \in Nat /\ server.late \in Nat
        BY DEF Types
    <2>2. Ended \in Nat
        BY <1>2, <2>1 DEF Ended
    <2>3. Looked \in Nat
        BY <1>1, <1>2, <2>1 DEF Looked
    <2>4. ToCome \in Nat
        BY <1>1, <2>1 DEF ToCome
    <2> QED
        BY <2>2, <2>3, <2>4
<1> QED
    BY <1>1, <1>2, <1>3, <1>4, <1>5, <1>6 DEF Types

\* And those of the next state.
LEMMA NumbersNext ==
    ASSUME Types'
    PROVE  /\ pending' \in Nat /\ sent' \in Nat /\ Len(Latencies)' \in Nat
           /\ Count(Coming)' \in Nat /\ Count(Served)' \in Nat
           /\ server'.hits \in Nat /\ server'.late \in Nat
           /\ own'.warm \in Nat /\ own'.late \in Nat
           /\ Asked' \in Nat /\ Answered' \in Nat /\ Ended' \in Nat /\ Looked' \in Nat
           /\ ToCome' \in Nat
<1>1. Count(Coming)' \in Nat /\ Count(Served)' \in Nat
    BY CountNat
<1>2. Len(Latencies)' \in Nat
    BY DEF Types, Latencies, Fields
<1>3. own'.warm \in Nat /\ own'.late \in Nat /\ sent' \in Nat
    BY DEF Types
<1>4. Asked' \in Nat
    BY <1>3 DEF Asked
<1>5. Answered' \in Nat
    BY <1>1, <1>2 DEF Answered
<1>6. Ended' \in Nat /\ Looked' \in Nat
    <2>1. /\ errors' \in Nat /\ raised' \in Nat
          /\ server'.hits \in Nat /\ server'.misses \in Nat
        BY DEF Types
    <2> QED
        BY <1>2, <2>1 DEF Ended, Looked
<1>7. ToCome' \in Nat
    <2>1. server'.late \in Nat /\ pending' \in Nat
        BY DEF Types
    <2> QED
        BY <1>1, <2>1 DEF ToCome
<1> QED
    BY <1>1, <1>2, <1>3, <1>4, <1>5, <1>6, <1>7 DEF Types

-----------------------------------------------------------------------------
(* Sums of components of the state.  Each is stated as an operator of the   *)
(* numbers, which a step instantiates.                                      *)

AnswersSum(b, a, a1, l, l1) ==
    /\ {b, a, a1, l, l1} \subseteq Int
    /\ b + a <= l /\ a1 + l <= a + l1
    => b + a1 <= l1

LEMMA AnswersSumHolds ==
    ASSUME NEW b, NEW a, NEW a1, NEW l, NEW l1
    PROVE  AnswersSum(b, a, a1, l, l1)
<1> SUFFICES ASSUME {b, a, a1, l, l1} \subseteq Int,
                    b + a <= l, a1 + l <= a + l1
             PROVE  b + a1 <= l1
    BY DEF AnswersSum
<1>1. /\ b \in Int /\ a \in Int /\ a1 \in Int /\ l \in Int /\ l1 \in Int
    OBVIOUS
<1> QED
    BY <1>1

LookupsSum(b, d, d1, l, l1, t, t1) ==
    /\ {b, d, d1, l, l1, t, t1} \subseteq Int
    /\ l + t <= b + d /\ l1 + t1 + d <= l + t + d1
    => l1 + t1 <= b + d1

LEMMA LookupsSumHolds ==
    ASSUME NEW b, NEW d, NEW d1, NEW l, NEW l1, NEW t, NEW t1
    PROVE  LookupsSum(b, d, d1, l, l1, t, t1)
<1> SUFFICES ASSUME {b, d, d1, l, l1, t, t1} \subseteq Int,
                    l + t <= b + d, l1 + t1 + d <= l + t + d1
             PROVE  l1 + t1 <= b + d1
    BY DEF LookupsSum
<1>1. /\ b \in Int /\ d \in Int /\ d1 \in Int /\ l \in Int /\ l1 \in Int /\ t \in Int
      /\ t1 \in Int
    OBVIOUS
<1> QED
    BY <1>1

ReadSum(l, t, b) ==
    /\ {l, b} \subseteq Int /\ {t} \subseteq Nat
    /\ l + t <= b
    => l <= b

LEMMA ReadSumHolds ==
    ASSUME NEW l, NEW t, NEW b
    PROVE  ReadSum(l, t, b)
<1> SUFFICES ASSUME {l, b} \subseteq Int, {t} \subseteq Nat,
                    l + t <= b
             PROVE  l <= b
    BY DEF ReadSum
<1>1. /\ l \in Int /\ t \in Nat /\ b \in Int
    OBVIOUS
<1> QED
    BY <1>1

\* With the place that one request leaves, j, and the one it takes, i.
EndedSum(p, c, e, s, p1, c1, e1, s1, i, j) ==
    /\ {p, c, e, s, p1, c1, e1, s1, i, j} \subseteq Int
    /\ p + c + e = s /\ c1 = c + i - j /\ p1 + i + e1 + s = p + j + e + s1
    => p1 + c1 + e1 = s1

LEMMA EndedSumHolds ==
    ASSUME NEW p, NEW c, NEW e, NEW s, NEW p1, NEW c1, NEW e1, NEW s1, NEW i, NEW j
    PROVE  EndedSum(p, c, e, s, p1, c1, e1, s1, i, j)
<1> SUFFICES ASSUME {p, c, e, s, p1, c1, e1, s1, i, j} \subseteq Int,
                    p + c + e = s, c1 = c + i - j, p1 + i + e1 + s = p + j + e + s1
             PROVE  p1 + c1 + e1 = s1
    BY DEF EndedSum
<1>1. /\ p \in Int /\ c \in Int /\ e \in Int /\ s \in Int /\ p1 \in Int /\ c1 \in Int
      /\ e1 \in Int /\ s1 \in Int /\ i \in Int /\ j \in Int
    OBVIOUS
<1> QED
    BY <1>1

AnsweredSum(c, n, l, c1, n1, l1, i, j) ==
    /\ {c, n, l, c1, n1, l1, i, j} \subseteq Int
    /\ c1 = c + i - j /\ i + n1 + l <= j + n + l1
    => c1 + n1 + l <= c + n + l1

LEMMA AnsweredSumHolds ==
    ASSUME NEW c, NEW n, NEW l, NEW c1, NEW n1, NEW l1, NEW i, NEW j
    PROVE  AnsweredSum(c, n, l, c1, n1, l1, i, j)
<1> SUFFICES ASSUME {c, n, l, c1, n1, l1, i, j} \subseteq Int,
                    c1 = c + i - j, i + n1 + l <= j + n + l1
             PROVE  c1 + n1 + l <= c + n + l1
    BY DEF AnsweredSum
<1>1. /\ c \in Int /\ n \in Int /\ l \in Int /\ c1 \in Int /\ n1 \in Int /\ l1 \in Int
      /\ i \in Int /\ j \in Int
    OBVIOUS
<1> QED
    BY <1>1

AskedSum(b, l, k, p, c, s, l1, k1, p1, c1, s1, i, j) ==
    /\ {b, l, k, p, c, s, l1, k1, p1, c1, s1, i, j} \subseteq Int
    /\ c1 = c + i - j /\ l1 + k1 + p1 + i + s <= l + k + p + j + s1
    => l1 + (k1 + p1 + c1) + (b + s) <= l + (k + p + c) + (b + s1)

LEMMA AskedSumHolds ==
    ASSUME NEW b, NEW l, NEW k, NEW p, NEW c, NEW s, NEW l1, NEW k1, NEW p1, NEW c1,
           NEW s1, NEW i, NEW j
    PROVE  AskedSum(b, l, k, p, c, s, l1, k1, p1, c1, s1, i, j)
<1> SUFFICES ASSUME {b, l, k, p, c, s, l1, k1, p1, c1, s1, i, j} \subseteq Int,
                    c1 = c + i - j, l1 + k1 + p1 + i + s <= l + k + p + j + s1
             PROVE  l1 + (k1 + p1 + c1) + (b + s) <= l + (k + p + c) + (b + s1)
    BY DEF AskedSum
<1>1. /\ b \in Int /\ l \in Int /\ k \in Int /\ p \in Int /\ c \in Int /\ s \in Int
      /\ l1 \in Int /\ k1 \in Int /\ p1 \in Int /\ c1 \in Int /\ s1 \in Int /\ i \in Int
      /\ j \in Int
    OBVIOUS
<1> QED
    BY <1>1

MoreSum(a, l, l1) ==
    /\ {a, l, l1} \subseteq Int
    /\ l <= l1
    => a + l <= a + l1

LEMMA MoreSumHolds ==
    ASSUME NEW a, NEW l, NEW l1
    PROVE  MoreSum(a, l, l1)
<1> SUFFICES ASSUME {a, l, l1} \subseteq Int,
                    l <= l1
             PROVE  a + l <= a + l1
    BY DEF MoreSum
<1>1. /\ a \in Int /\ l \in Int /\ l1 \in Int
    OBVIOUS
<1> QED
    BY <1>1

WarmSum(a, l, k, p, c, l1, k1) ==
    /\ {a, l, k, p, c, l1, k1} \subseteq Int
    /\ l1 + k1 <= l + k + 1
    => l1 + (k1 + p + c) + a <= l + (k + p + c) + (a + 1)

LEMMA WarmSumHolds ==
    ASSUME NEW a, NEW l, NEW k, NEW p, NEW c, NEW l1, NEW k1
    PROVE  WarmSum(a, l, k, p, c, l1, k1)
<1> SUFFICES ASSUME {a, l, k, p, c, l1, k1} \subseteq Int,
                    l1 + k1 <= l + k + 1
             PROVE  l1 + (k1 + p + c) + a <= l + (k + p + c) + (a + 1)
    BY DEF WarmSum
<1>1. /\ a \in Int /\ l \in Int /\ k \in Int /\ p \in Int /\ c \in Int /\ l1 \in Int
      /\ k1 \in Int
    OBVIOUS
<1> QED
    BY <1>1

LateSum(l, k, k1, p, i, s) ==
    /\ {l, k, k1, p, i, s} \subseteq Int
    /\ k1 <= k + i
    => l + k1 + p + 0 + s <= l + k + p + i + s

LEMMA LateSumHolds ==
    ASSUME NEW l, NEW k, NEW k1, NEW p, NEW i, NEW s
    PROVE  LateSum(l, k, k1, p, i, s)
<1> SUFFICES ASSUME {l, k, k1, p, i, s} \subseteq Int,
                    k1 <= k + i
             PROVE  l + k1 + p + 0 + s <= l + k + p + i + s
    BY DEF LateSum
<1>1. /\ l \in Int /\ k \in Int /\ k1 \in Int /\ p \in Int /\ i \in Int /\ s \in Int
    OBVIOUS
<1> QED
    BY <1>1

\* A step answers no more than it has looked up, and looks up no more than
\* was to come or is asked for.
AnswersBacked == Answered' + Looked <= Answered + Looked'
LookupsBacked == Looked' + ToCome' + Asked <= Looked + ToCome + Asked'

\* Then the bounds on the counters stay.
LEMMA ReadingStep ==
    ASSUME IInv, Types', UNCHANGED <<scenario, main, pre, post>>,
           main = "pre" => own'.warm = own.warm,
           main = "summary" => Asked <= Asked' /\ Answered' <= Answered,
           server'.hits >= server.hits, AnswersBacked, LookupsBacked
    PROVE  Reading'
<1>1. Reads' <=> Reads
    BY DEF Reads
<1>2. /\ ToCome \in Nat /\ Asked \in Nat /\ Answered \in Nat /\ Looked \in Nat
      /\ server.hits \in Nat
    BY Numbers DEF IInv
<1>3. /\ ToCome' \in Nat /\ Asked' \in Nat /\ Answered' \in Nat /\ Looked' \in Nat
      /\ server'.hits \in Nat
    BY NumbersNext
<1>4. CASE Reads /\ main \in {"warm", "run", "post"} /\ pre # <<>>
    <2>1. /\ server.hits >= pre[1]
          /\ pre[1] + pre[2] + Answered <= Looked
          /\ Looked + ToCome <= pre[1] + pre[2] + Asked
        BY <1>4 DEF IInv, Reading
    <2>2. pre[1] \in Nat /\ pre[2] \in Nat
        BY <1>4, Numbers DEF IInv
    <2>3. server'.hits >= pre[1]
        BY <1>2, <1>3, <2>1, <2>2
    <2>4. /\ pre[1] + pre[2] \in Int /\ Answered \in Int /\ Answered' \in Int
          /\ Looked \in Int /\ Looked' \in Int /\ Asked \in Int /\ Asked' \in Int
          /\ ToCome \in Int /\ ToCome' \in Int
        BY <1>2, <1>3, <2>2
    <2>5. pre[1] + pre[2] + Answered' <= Looked'
        <3>1. AnswersSum(pre[1] + pre[2], Answered, Answered', Looked, Looked')
            BY AnswersSumHolds
        <3> QED
            BY <2>1, <2>4, <3>1, Zenon DEF AnswersBacked, AnswersSum
    <2>6. Looked' + ToCome' <= pre[1] + pre[2] + Asked'
        <3>1. LookupsSum(pre[1] + pre[2], Asked, Asked', Looked, Looked', ToCome, ToCome')
            BY LookupsSumHolds
        <3> QED
            BY <2>1, <2>4, <3>1, Zenon DEF LookupsBacked, LookupsSum
    <2> QED
        BY <1>4, <2>3, <2>5, <2>6 DEF Reading
<1>5. CASE Reads /\ main = "summary" /\ Known
    <2>1. /\ post[1] >= pre[1]
          /\ pre[1] + pre[2] + Answered <= post[1] + post[2]
          /\ post[1] + post[2] <= pre[1] + pre[2] + Asked
        BY <1>5 DEF IInv, Reading
    <2>2. pre[1] \in Nat /\ pre[2] \in Nat /\ post[1] \in Nat /\ post[2] \in Nat
        BY <1>5, Numbers DEF IInv, Known
    <2>3. /\ pre[1] + pre[2] + Answered' <= post[1] + post[2]
          /\ post[1] + post[2] <= pre[1] + pre[2] + Asked'
        BY <1>2, <1>3, <1>5, <2>1, <2>2
    <2> QED
        BY <1>5, <2>1, <2>3 DEF Reading
<1>6. CASE Reads /\ main = "pre"
    BY <1>6 DEF IInv, Reading
<1> QED
    BY <1>1, <1>4, <1>5, <1>6 DEF Reading, Known

LEMMA InitInv == Init => IInv
<1> SUFFICES ASSUME Init PROVE IInv
    OBVIOUS
<1>1. Types
    <2>1. lists \in [Fields -> Seq(Workers)]
        BY DEF Init, NoSamples
    <2>2. thread \in [Workers -> States] /\ loaded \in [Workers -> Nat]
        BY DEF Init, States
    <2>3. subrun \in 1..SubRuns /\ sent \in 0..MaxSent
        BY HarnessAssumption DEF Init
    <2>4. /\ server \in [hits : Nat, misses : Nat, known : BOOLEAN, late : Nat]
          /\ own \in [warm : Nat, late : Nat]
        BY DEF Init
    <2> QED
        BY <2>1, <2>2, <2>3, <2>4 DEF Init, Types, Mains
<1>2. Rows
    BY DEF Init, Rows, Latencies, Inference, QueueWait, NoSamples, Fields
<1>3. Locking /\ Loading
    BY HarnessAssumption DEF Init, Locking, Loading, Holding, Fields
<1>4. Counting
    <2>1. {w \in Workers : thread[w] \in Busy} = {} /\ Ended = 0
        BY DEF Init, Busy, Latencies, NoSamples, Fields, Ended
    <2>2. Count(Busy) = 0
        BY <2>1, FS_EmptySet DEF Count
    <2> QED
        BY <2>1, <2>2 DEF Init, Counting, Resting
<1>5. Reading
    BY DEF Init, Reading
<1> QED
    BY <1>1, <1>2, <1>3, <1>4, <1>5 DEF IInv

-----------------------------------------------------------------------------
(* Steps of the main thread.                                               *)

\* A step that touches neither the pool nor the result keeps their account.
LEMMA AccountKept ==
    ASSUME IInv, UNCHANGED <<scenario, pool, result>>,
           \/ UNCHANGED main
           \/ pending = 0 /\ \A w \in Workers : thread[w] \in Resting(main')
    PROVE  Locking' /\ Loading' /\ Rows' /\ Counting'
<1>1. Locking' /\ Loading' /\ Rows'
    BY DEF IInv, Locking, Loading, Rows, pool, result, Latencies, Inference, QueueWait
<1>2. Counting'
    <2>1. /\ Count(Busy)' = Count(Busy) /\ Ended' = Ended
          /\ UNCHANGED <<scenario, sent, pending, thread, lists, errors, raised>>
        BY DEF Count, pool, result, Ended, Latencies
    <2> QED
        BY <2>1 DEF IInv, Counting, Closed, Resting
<1> QED
    BY <1>1, <1>2

\* The counts of threads, where none moves.
LEMMA CountKept == ASSUME NEW S, UNCHANGED thread PROVE Count(S)' = Count(S)
BY DEF Count

\* Where every thread is idle, none is counted, and the lock is free.
LEMMA Idle ==
    ASSUME IInv, \A w \in Workers : thread[w] = "idle"
    PROVE  /\ Count(Busy) = 0 /\ Count(Coming) = 0 /\ Count(Served) = 0
           /\ lock = NoOne
<1>1. \A S : "idle" \notin S => Count(S) = 0
    <2> SUFFICES ASSUME NEW S, "idle" \notin S PROVE Count(S) = 0
        OBVIOUS
    <2>1. {w \in Workers : thread[w] \in S} = {}
        OBVIOUS
    <2> QED
        BY <2>1, FS_EmptySet DEF Count
<1>2. "idle" \notin Busy /\ "idle" \notin Coming /\ "idle" \notin Served
    BY DEF Busy, Coming, Served
<1>3. \A w \in Workers : lock # w
    BY DEF IInv, Locking, Holding, Fields
<1> QED
    BY <1>1, <1>2, <1>3 DEF IInv, Types

LEMMA AtRest ==
    ASSUME IInv, main \notin {"run", "crashed"}
    PROVE  /\ pending = 0 /\ \A w \in Workers : thread[w] = "idle"
           /\ main' # "run" => \A w \in Workers : thread[w] \in Resting(main')
BY DEF IInv, Counting, Resting

LEMMA ResetInv == ASSUME IInv, Reset PROVE IInv'
<1>1. /\ main = "reset" /\ main' = IF Reads THEN "pre" ELSE "warm"
      /\ own' = [warm |-> 0, late |-> 0]
      /\ UNCHANGED <<scenario, subrun, pool, result, server, report>>
    BY DEF Reset
<1>2. own' \in [warm : Nat, late : Nat] /\ own'.warm = 0
    BY <1>1 DEF IInv, Types
<1>3. Types'
    BY <1>1, <1>2 DEF IInv, Types, Mains, pool, result, report
<1>4. Locking' /\ Loading' /\ Rows' /\ Counting'
    BY <1>1, AccountKept, AtRest
<1>5. Reading'
    BY <1>1, <1>2 DEF Reading, Reads
<1> QED
    BY <1>3, <1>4, <1>5 DEF IInv

LEMMA ReadPreInv == ASSUME IInv, ReadPre PROVE IInv'
<1>1. /\ main = "pre" /\ main' = "warm"
      /\ pre' \in {<<server.hits, server.misses>>, <<>>}
      /\ own' = [own EXCEPT !.late = server.late]
      /\ post' = <<>>
      /\ UNCHANGED <<scenario, subrun, pool, result, server, sweep, files>>
    BY DEF ReadPre
<1>2. server.hits \in Nat /\ server.misses \in Nat /\ server.late \in Nat
    BY Numbers DEF IInv
<1>3. /\ own' \in [warm : Nat, late : Nat]
      /\ own'.late = server.late /\ own'.warm = own.warm
    BY <1>1, <1>2 DEF IInv, Types
<1>4. Types'
    BY <1>1, <1>2, <1>3 DEF IInv, Types, Mains, pool, result
<1>5. Locking' /\ Loading' /\ Rows' /\ Counting'
    BY <1>1, AccountKept, AtRest
<1>6. Reading'
    <2>1. pre' = <<>> \/ (pre'[1] = server.hits /\ pre'[2] = server.misses)
        BY <1>1
    <2>2. Reads => own.warm = 0
        BY <1>1 DEF IInv, Reading
    <2>3. pending' = 0 /\ Count(Coming)' = 0
        BY <1>1, AtRest, Idle, CountKept DEF pool
    <2>4. /\ Answered' = 0 /\ Looked' = server.hits + server.misses
          /\ Reads => Asked' = server.late /\ ToCome' = server.late
        BY <1>1, <1>2, <1>3, <2>2, <2>3 DEF Answered, Asked, Looked, ToCome
    <2> QED
        BY <1>1, <1>2, <1>3, <2>1, <2>4 DEF Reading, Reads
<1> QED
    BY <1>4, <1>5, <1>6 DEF IInv

LEMMA ReadPostInv == ASSUME IInv, ReadPost PROVE IInv'
<1>1. /\ main = "post" /\ main' = "summary"
      /\ post' \in {<<server.hits, server.misses>>, <<>>}
      /\ UNCHANGED <<scenario, subrun, pool, result, server, pre, sweep, files, own>>
    BY DEF ReadPost
<1>2. server.hits \in Nat /\ server.misses \in Nat
    BY Numbers DEF IInv
<1>3. Types'
    BY <1>1, <1>2 DEF IInv, Types, Mains, pool, result
<1>4. Locking' /\ Loading' /\ Rows' /\ Counting'
    BY <1>1, AccountKept, AtRest
<1>5. Reading'
    <2>1. post' = <<>> \/ (post'[1] = server.hits /\ post'[2] = server.misses)
        BY <1>1
    <2>2. Answered' = Answered /\ Asked' = Asked
        BY <1>1, CountKept DEF Answered, Asked, pool, result, Latencies
    <2>3. ASSUME Reads, pre # <<>>
          PROVE  /\ server.hits >= pre[1]
                 /\ pre[1] + pre[2] + Answered <= Looked
                 /\ Looked <= pre[1] + pre[2] + Asked
        <3>1. /\ server.hits >= pre[1]
              /\ pre[1] + pre[2] + Answered <= Looked
              /\ Looked + ToCome <= pre[1] + pre[2] + Asked
            BY <1>1, <2>3 DEF IInv, Reading
        <3>2. pre[1] + pre[2] + Asked \in Int /\ Looked \in Int /\ ToCome \in Nat
            <4>1. /\ pre[1] \in Nat /\ pre[2] \in Nat /\ Asked \in Nat /\ Looked \in Nat
                  /\ ToCome \in Nat
                BY <2>3, Numbers DEF IInv
            <4> QED
                BY <4>1
        <3>3. ReadSum(Looked, ToCome, pre[1] + pre[2] + Asked)
            BY ReadSumHolds
        <3>4. Looked <= pre[1] + pre[2] + Asked
            BY <3>1, <3>2, <3>3, Zenon DEF ReadSum
        <3> QED
            BY <3>1, <3>4
    <2> QED
        BY <1>1, <2>1, <2>2, <2>3 DEF Reading, Reads, Known, Looked
<1> QED
    BY <1>3, <1>4, <1>5 DEF IInv

\* What one look-up does to the counters.
LEMMA LookupCounts ==
    ASSUME Types, NEW text, NEW hit \in BOOLEAN, NEW late \in Nat, Lookup(text, hit, late)
    PROVE  /\ server' \in [hits : Nat, misses : Nat, known : BOOLEAN, late : Nat]
           /\ server'.hits >= server.hits /\ server'.late = late
           /\ Looked' = Looked + 1
<1> DEFINE h == server.hits + (IF hit THEN 1 ELSE 0)
           m == server.misses + (IF hit THEN 0 ELSE 1)
           k == server.known \/ text = "repeated"
<1>1. server.hits \in Nat /\ server.misses \in Nat /\ server.known \in BOOLEAN
    BY DEF Types
<1>2. h \in Nat /\ m \in Nat /\ h >= server.hits
      /\ h + m = Looked + 1
    BY <1>1 DEF Looked
<1>3. k \in BOOLEAN
    BY <1>1, Zenon
<1>4. server' = [hits |-> h, misses |-> m, known |-> k, late |-> late]
    BY DEF Lookup
<1> HIDE DEF h, m, k
<1> QED
    BY <1>2, <1>3, <1>4 DEF Looked

LEMMA PostponeCounts ==
    ASSUME Types, Postpone
    PROVE  /\ server' \in [hits : Nat, misses : Nat, known : BOOLEAN, late : Nat]
           /\ server'.hits = server.hits /\ server'.misses = server.misses
           /\ server'.late = server.late + 1
<1>1. /\ server \in [hits : Nat, misses : Nat, known : BOOLEAN, late : Nat]
      /\ server' = [server EXCEPT !.late = server.late + 1]
    BY DEF Types, Postpone
<1> QED
    BY <1>1

LEMMA WarmInv == ASSUME IInv, Warm PROVE IInv'
<1>1. /\ main = "warm" /\ own' = [own EXCEPT !.warm = @ + 1]
      /\ UNCHANGED <<scenario, main, subrun, pool, result, report>>
    BY DEF Warm
<1>2. /\ own' \in [warm : Nat, late : Nat]
      /\ own'.warm = own.warm + 1 /\ own'.late = own.late
    <2>1. own \in [warm : Nat, late : Nat] /\ own' = [own EXCEPT !.warm = own.warm + 1]
        BY <1>1 DEF IInv, Types
    <2> QED
        BY <2>1
<1>3. /\ server' \in [hits : Nat, misses : Nat, known : BOOLEAN, late : Nat]
      /\ server'.hits >= server.hits
      /\ Looked <= Looked'
      /\ Looked' + server'.late
             <= Looked + server.late + 1
    <2>1. /\ server.hits \in Nat /\ server.late \in Nat /\ Looked \in Nat
          /\ server \in [hits : Nat, misses : Nat, known : BOOLEAN, late : Nat]
        BY Numbers DEF IInv, Types
    <2>2. CASE \E hit \in BOOLEAN : Lookup("repeated", hit, server.late)
        <3>1. PICK hit \in BOOLEAN : Lookup("repeated", hit, server.late)
            BY <2>2
        <3>2. /\ server' \in [hits : Nat, misses : Nat, known : BOOLEAN, late : Nat]
              /\ server'.hits >= server.hits /\ server'.late = server.late
              /\ Looked' = Looked + 1
            BY <2>1, <3>1, LookupCounts DEF IInv
        <3>3. server'.hits \in Nat /\ server'.misses \in Nat
            BY <3>2
        <3> QED
            BY <2>1, <3>2, <3>3
    <2>3. CASE Postpone
        <3>1. /\ server' \in [hits : Nat, misses : Nat, known : BOOLEAN, late : Nat]
              /\ server'.hits = server.hits /\ server'.misses = server.misses
              /\ server'.late = server.late + 1
            BY <2>3, PostponeCounts DEF IInv
        <3>2. Looked' = Looked
            BY <3>1 DEF Looked
        <3> QED
            BY <2>1, <3>1, <3>2
    <2>4. CASE UNCHANGED server
        BY <2>1, <2>4 DEF Looked
    <2> QED
        BY <2>2, <2>3, <2>4 DEF Warm
<1>4. Types'
    BY <1>1, <1>2, <1>3 DEF IInv, Types, pool, result, report
<1>5. Locking' /\ Loading' /\ Rows' /\ Counting'
    BY <1>1, AccountKept, AtRest
<1>6. Reading'
    <2>1. Answered' = 0 /\ Answered = 0 /\ Asked' = Asked + 1
        <3>1. own.warm \in Nat /\ own.late \in Nat
            BY Numbers DEF IInv
        <3> QED
            BY <1>1, <1>2, <3>1 DEF Answered, Asked
    <2>2. /\ ToCome = server.late + pending + Count(Coming)
          /\ ToCome' = server'.late + pending + Count(Coming)
        BY <1>1, CountKept DEF pool, ToCome
    <2>3. UNCHANGED <<scenario, main, pre, post>>
        BY <1>1 DEF report
    <2>4. /\ Asked \in Nat /\ Answered \in Nat /\ pending \in Nat /\ Count(Coming) \in Nat
          /\ server.hits \in Nat /\ server.late \in Nat /\ Looked \in Nat
          /\ server'.hits \in Nat /\ server'.late \in Nat /\ Looked' \in Nat
        BY <1>4, Numbers, NumbersNext DEF IInv
    <2>5. AnswersBacked
        <3>1. Looked <= Looked'
            BY <1>3, <2>4 DEF Looked
        <3>2. MoreSum(0, Looked, Looked')
            BY MoreSumHolds
        <3>3. 0 \in Int /\ Looked \in Int /\ Looked' \in Int
            BY <2>4
        <3>4. 0 + Looked <= 0 + Looked'
            BY <3>1, <3>2, <3>3, Zenon DEF MoreSum
        <3> QED
            BY <2>1, <3>4 DEF AnswersBacked
    <2>6. LookupsBacked
        <3>1. WarmSum(Asked, Looked, server.late, pending, Count(Coming), Looked', server'.late)
            BY WarmSumHolds
        <3>2. Looked' + (server'.late + pending + Count(Coming)) + Asked
                  <= Looked + (server.late + pending + Count(Coming)) + (Asked + 1)
            BY <1>3, <2>4, <3>1 DEF WarmSum
        <3> QED
            BY <2>1, <2>2, <3>2 DEF LookupsBacked
    <2> QED
        BY <1>1, <1>3, <1>4, <2>3, <2>5, <2>6, ReadingStep
<1> QED
    BY <1>4, <1>5, <1>6 DEF IInv

LEMMA LateLookupInv == ASSUME IInv, LateLookup PROVE IInv'
<1>1. PICK text \in Texts \cup {"repeated"}, hit \in BOOLEAN :
          Lookup(text, hit, server.late - 1)
    BY DEF LateLookup
<1>2. /\ server.late - 1 \in Nat
      /\ UNCHANGED <<scenario, main, subrun, pool, result, report, own>>
    <2>1. server.late \in Nat
        BY Numbers DEF IInv
    <2> QED
        BY <2>1 DEF LateLookup
<1>3. /\ server' \in [hits : Nat, misses : Nat, known : BOOLEAN, late : Nat]
      /\ server'.hits >= server.hits /\ server'.late = server.late - 1
      /\ Looked' = Looked + 1
    BY <1>1, <1>2, LookupCounts DEF IInv
<1>4. own' = own
    BY <1>2
<1>5. Types'
    BY <1>2, <1>3, <1>4 DEF IInv, Types, pool, result, report
<1>6. Locking' /\ Loading' /\ Rows' /\ Counting'
    BY <1>2, AccountKept DEF IInv, Counting
<1>7. Reading'
    <2>1. Answered' = Answered /\ Asked' = Asked
        BY <1>2, <1>4, CountKept DEF Answered, Asked, pool, result, Latencies
    <2>2. /\ ToCome = server.late + pending + Count(Coming)
          /\ ToCome' = server.late - 1 + pending + Count(Coming)
        BY <1>2, <1>3, CountKept DEF pool, ToCome
    <2>3. UNCHANGED <<scenario, main, pre, post>>
        BY <1>2 DEF report
    <2>4. /\ Asked \in Nat /\ Answered \in Nat /\ pending \in Nat /\ Count(Coming) \in Nat
          /\ server.hits \in Nat /\ server.late \in Nat /\ Looked \in Nat
          /\ server'.hits \in Nat /\ Looked' \in Nat
        BY <1>5, Numbers, NumbersNext DEF IInv
    <2>5. /\ Asked <= Asked' /\ Answered' <= Answered /\ Looked <= Looked'
        BY <1>3, <2>1, <2>4
    <2>6. AnswersBacked
        <3>1. MoreSum(Answered, Looked, Looked')
            BY MoreSumHolds
        <3>2. Answered \in Int /\ Looked \in Int /\ Looked' \in Int
            BY <2>4
        <3>3. Answered + Looked <= Answered + Looked'
            BY <2>5, <3>1, <3>2, Zenon DEF MoreSum
        <3> QED
            BY <2>1, <3>3 DEF AnswersBacked
    <2>7. LookupsBacked
        <3>1. Looked' + ToCome' = Looked + ToCome
            BY <1>3, <2>2, <2>4
        <3>2. Looked + ToCome + Asked <= Looked + ToCome + Asked
            <4>1. ToCome \in Nat
                BY Numbers DEF IInv
            <4> QED
                BY <2>4, <4>1
        <3> QED
            BY <2>1, <3>1, <3>2 DEF LookupsBacked
    <2> QED
        BY <1>3, <1>4, <1>5, <2>3, <2>5, <2>6, <2>7, ReadingStep
<1> QED
    BY <1>5, <1>6, <1>7 DEF IInv

LEMMA OpenInv == ASSUME IInv, Open PROVE IInv'
<1>1. /\ main = "warm" /\ main' = "run" /\ over' = FALSE /\ sent' = 0
      /\ lists' = NoSamples /\ errors' = 0 /\ raised' = 0
      /\ UNCHANGED <<scenario, subrun, pending, thread, lock, loaded, server, report, own>>
    BY DEF Open
<1>2. pending = 0 /\ \A w \in Workers : thread[w] = "idle"
    BY <1>1, AtRest
<1>3. lists' \in [Fields -> Seq(Workers)] /\ \A f \in Fields : lists'[f] = <<>>
    BY <1>1 DEF NoSamples
<1>4. own' = own
    BY <1>1
<1>5. Types'
    <2>1. sent' \in 0..MaxSent /\ errors' \in Nat /\ raised' \in Nat
        BY <1>1, HarnessAssumption
    <2> QED
        BY <1>1, <1>3, <1>4, <2>1 DEF IInv, Types, Mains, report
<1>6. Locking' /\ Loading' /\ Rows'
    BY <1>1, <1>2, <1>3 DEF IInv, Locking, Loading, Rows, Latencies, Inference,
                            QueueWait, Fields
<1>7. /\ Count(Busy)' = 0 /\ Count(Coming)' = Count(Coming) /\ Count(Served)' = 0
      /\ Len(Latencies)' = 0 /\ Ended' = 0
    BY <1>1, <1>2, <1>3, Idle, CountKept DEF Latencies, Fields, Ended
<1>8. Counting'
    BY <1>1, <1>2, <1>7 DEF Counting
<1>9. Reading'
    <2>1. Answered' = 0 /\ Answered = 0 /\ Asked' = Asked
        BY <1>1, <1>4, <1>7, Numbers DEF IInv, Answered, Asked
    <2>2. /\ UNCHANGED <<scenario, pre, server, pending>>
          /\ pending = 0 /\ server.hits \in Nat /\ server.misses \in Nat
        BY <1>1, <1>2, Numbers DEF IInv, report
    <2>3. Looked' = Looked /\ ToCome' = ToCome
        BY <1>1, <1>7, <2>2 DEF Looked, ToCome
    <2> QED
        BY <1>1, <1>7, <2>1, <2>2, <2>3 DEF IInv, Reading, Reads
<1> QED
    BY <1>5, <1>6, <1>8, <1>9 DEF IInv

LEMMA DispatchInv == ASSUME IInv, Dispatch PROVE IInv'
<1>1. /\ main = "run" /\ sent < MaxSent /\ sent' = sent + 1 /\ pending' = pending + 1
      /\ UNCHANGED <<scenario, main, subrun, over, thread, lock, result, server,
                     report, own>>
    BY DEF Dispatch
<1>2. Types'
    BY <1>1, HarnessAssumption DEF IInv, Types, result, report
<1>3. Locking' /\ Loading' /\ Rows'
    BY <1>1 DEF IInv, Locking, Loading, Rows, Latencies, Inference, QueueWait, result
<1>4. /\ Count(Busy)' = Count(Busy) /\ Count(Coming)' = Count(Coming)
      /\ Count(Served)' = Count(Served) /\ Latencies' = Latencies
      /\ Ended' = Ended /\ Looked' = Looked
      /\ UNCHANGED <<raised, pre, post>>
    BY <1>1, CountKept DEF Latencies, Ended, Looked, result, report
<1>5. /\ Asked \in Nat /\ Answered \in Nat /\ pending \in Nat /\ Count(Coming) \in Nat
      /\ Count(Busy) \in Nat /\ Ended \in Nat /\ sent \in Nat
      /\ own.warm \in Nat /\ own.late \in Nat
      /\ server.hits \in Nat /\ server.late \in Nat /\ Looked \in Nat
    BY Numbers DEF IInv
<1>6. Counting'
    <2>1. pending + Count(Busy) + Ended = sent
        BY DEF IInv, Counting
    <2>2. EndedSum(pending, Count(Busy), Ended, sent, pending + 1, Count(Busy), Ended,
                   sent + 1, 0, 0)
        BY EndedSumHolds
    <2>3. pending + 1 + Count(Busy) + Ended = sent + 1
        BY <1>5, <2>1, <2>2 DEF EndedSum
    <2> QED
        BY <1>1, <1>4, <2>3 DEF IInv, Counting, Closed
<1>7. Reading'
    <2>1. Asked = own.warm + own.late + sent /\ Asked' = own.warm + own.late + sent'
        BY <1>1 DEF Asked
    <2>2. Answered' = Answered /\ Asked' = Asked + 1 /\ Looked' = Looked
        <3>1. Asked' = Asked + 1
            BY <1>1, <1>5, <2>1
        <3>2. Answered' = Answered
            BY <1>1, <1>4 DEF Answered
        <3> QED
            BY <1>4, <3>1, <3>2
    <2>3. /\ ToCome = server.late + pending + Count(Coming)
          /\ ToCome' = server.late + (pending + 1) + Count(Coming)
        BY <1>1, <1>4 DEF ToCome
    <2>4. server' = server /\ own' = own /\ server'.hits >= server.hits
        BY <1>1, <1>5
    <2>5. AnswersBacked
        BY <1>5, <2>2 DEF AnswersBacked
    <2>6. LookupsBacked
        <3>1. ToCome' = ToCome + 1 /\ ToCome \in Nat
            BY <1>5, <2>3
        <3> QED
            BY <1>5, <2>2, <3>1 DEF LookupsBacked
    <2> QED
        BY <1>1, <1>2, <1>4, <2>4, <2>5, <2>6, ReadingStep
<1> QED
    BY <1>2, <1>3, <1>6, <1>7 DEF IInv

LEMMA DeadlineInv == ASSUME IInv, Deadline PROVE IInv'
<1>1. /\ main = "run" /\ over' = TRUE
      /\ UNCHANGED <<scenario, main, subrun, sent, pending, thread, lock, result,
                     server, report, own>>
    BY DEF Deadline
<1>2. Types'
    BY <1>1 DEF IInv, Types, result, report
<1>3. Locking' /\ Loading' /\ Rows'
    BY <1>1 DEF IInv, Locking, Loading, Rows, Latencies, Inference, QueueWait, result
<1>4. /\ Count(Busy)' = Count(Busy) /\ Count(Coming)' = Count(Coming)
      /\ Count(Served)' = Count(Served) /\ Latencies' = Latencies
      /\ Ended' = Ended /\ Looked' = Looked /\ ToCome' = ToCome
      /\ UNCHANGED <<raised, pre, post>>
    BY <1>1, CountKept DEF Latencies, Ended, Looked, ToCome, result, report
<1>5. Counting'
    BY <1>1, <1>4 DEF IInv, Counting, Closed
<1>6. Reading'
    <2>1. Answered' = Answered /\ Asked' = Asked
        BY <1>1, <1>4 DEF Answered, Asked
    <2> QED
        BY <1>1, <1>4, <2>1 DEF IInv, Reading, Reads, Known
<1> QED
    BY <1>2, <1>3, <1>5, <1>6 DEF IInv

LEMMA JoinInv == ASSUME IInv, Join PROVE IInv'
<1>1. /\ main = "run" /\ pending = 0
      /\ \A w \in Workers : thread[w] \in {"idle", "dead"}
      /\ main' = IF \E w \in Workers : thread[w] = "dead" THEN "crashed"
                 ELSE IF Reads THEN "post" ELSE "summary"
      /\ UNCHANGED <<scenario, subrun, pool, result, server, report, own>>
    BY DEF Join
<1>2. Types'
    BY <1>1 DEF IInv, Types, Mains, pool, result, report
<1>3. \A w \in Workers : thread[w] \in Resting(main')
    BY <1>1 DEF Resting
<1>4. Locking' /\ Loading' /\ Rows' /\ Counting'
    BY <1>1, <1>3, AccountKept
<1>5. Reading'
    <2>1. Answered' = Answered /\ Asked' = Asked /\ Looked' = Looked
          /\ ToCome' = ToCome
        BY <1>1, CountKept DEF Answered, Asked, Looked, ToCome, pool, result, Latencies
    <2> QED
        BY <1>1, <2>1 DEF IInv, Reading, Reads, pool, report
<1> QED
    BY <1>2, <1>4, <1>5 DEF IInv

LEMMA SummarizeInv == ASSUME IInv, Summarize PROVE IInv'
<1>1. /\ main = "summary" /\ main' \in {"reset", "report"}
      /\ subrun' = subrun \/ (subrun' = subrun + 1 /\ subrun < SubRuns)
      /\ UNCHANGED <<scenario, pool, result, server, pre, post, files, own>>
    BY DEF Summarize
<1>2. Types'
    BY <1>1, HarnessAssumption DEF IInv, Types, Mains, pool, result
<1>3. Locking' /\ Loading' /\ Rows' /\ Counting'
    BY <1>1, AccountKept, AtRest
<1>4. Reading'
    BY <1>1 DEF Reading
<1> QED
    BY <1>2, <1>3, <1>4 DEF IInv

LEMMA ReportInv ==
    ASSUME IInv, WriteReport \/ SaveRawSamples \/ WriteCharts PROVE IInv'
<1>1. /\ main \in {"report", "raw", "charts"}
      /\ main' \in {"raw", "charts", "done", "failed"}
      /\ UNCHANGED <<scenario, subrun, pool, result, server, pre, post, sweep, own>>
    BY DEF WriteReport, SaveRawSamples, WriteCharts, Write
<1>2. Types'
    BY <1>1 DEF IInv, Types, Mains, pool, result
<1>3. Locking' /\ Loading' /\ Rows' /\ Counting'
    BY <1>1, AccountKept, AtRest
<1>4. Reading'
    BY <1>1 DEF Reading
<1> QED
    BY <1>2, <1>3, <1>4 DEF IInv

-----------------------------------------------------------------------------
(* Steps of a thread.                                                      *)

\* Only in a window does a thread do anything, or a task wait for one.
LEMMA ThreadRuns ==
    ASSUME IInv, NEW w \in Workers, thread[w] \notin {"idle", "dead"} \/ pending > 0
    PROVE  main = "run"
BY DEF IInv, Counting, Resting

\* A thread's step leaves each request in one place.
Accounted(w, at) ==
    pending' + In(at, Busy) + Ended' + sent = pending + In(thread[w], Busy) + Ended + sent'

\* It answers what was looked up, and looks up what was asked.
Backed(w, at) ==
    /\ server'.hits >= server.hits
    /\ In(at, Served) + Len(Latencies)' + Looked <= In(thread[w], Served) + Len(Latencies) + Looked'
    /\ Looked' + server'.late + pending' + In(at, Coming) + sent
           <= Looked + server.late + pending + In(thread[w], Coming) + sent'

LEMMA StepKeeps ==
    ASSUME IInv, Types', NEW w \in Workers, NEW at \in States,
           thread' = [thread EXCEPT ![w] = at], thread[w] # "dead",
           main = "run", UNCHANGED <<scenario, main, pre, post>>,
           own'.warm = own.warm, own'.late = own.late,
           Closed => raised' = raised \/ at = "dead",
           Accounted(w, at), Backed(w, at)
    PROVE  Counting' /\ Reading'
<1>1. /\ thread'[w] = at /\ \A v \in Workers \ {w} : thread'[v] = thread[v]
      /\ Count(Busy)' = Count(Busy) + In(at, Busy) - In(thread[w], Busy)
      /\ Count(Coming)' = Count(Coming) + In(at, Coming) - In(thread[w], Coming)
      /\ Count(Served)' = Count(Served) + In(at, Served) - In(thread[w], Served)
    BY ThreadSteps DEF IInv
<1>2. /\ In(at, Busy) \in Int /\ In(at, Coming) \in Int /\ In(at, Served) \in Int
      /\ In(thread[w], Busy) \in Int /\ In(thread[w], Coming) \in Int
      /\ In(thread[w], Served) \in Int
    BY DEF In
<1>3. Counting'
    <2>1. pending + Count(Busy) + Ended = sent
        BY DEF IInv, Counting
    <2>2. /\ pending \in Int /\ sent \in Int /\ Ended \in Int /\ Count(Busy) \in Int
          /\ pending' \in Int /\ sent' \in Int /\ Ended' \in Int /\ Count(Busy)' \in Int
        BY Numbers, NumbersNext, CountNat DEF IInv
    <2>3. pending' + Count(Busy)' + Ended' = sent'
        <3>1. EndedSum(pending, Count(Busy), Ended, sent, pending', Count(Busy)', Ended', sent',
                       In(at, Busy), In(thread[w], Busy))
            BY EndedSumHolds
        <3> QED
            BY <1>1, <1>2, <2>1, <2>2, <3>1, Zenon DEF Accounted, EndedSum
    <2>4. Closed' /\ raised' > 0 => \E v \in Workers : thread'[v] = "dead"
        BY <1>1 DEF IInv, Counting, Closed
    <2> QED
        BY <2>3, <2>4 DEF Counting
<1>4. /\ Looked \in Int /\ Looked' \in Int
      /\ Count(Served) \in Int /\ Count(Served)' \in Int
      /\ Len(Latencies) \in Int /\ Len(Latencies)' \in Int
      /\ Count(Coming) \in Int /\ Count(Coming)' \in Int
      /\ server.late \in Int /\ server'.late \in Int
      /\ pending \in Int /\ pending' \in Int /\ sent \in Int /\ sent' \in Int
      /\ own.warm + own.late \in Int
    <2>1. own.warm \in Nat /\ own.late \in Nat
        BY Numbers DEF IInv
    <2>2. own.warm + own.late \in Int
        BY <2>1
    <2>3. /\ Looked \in Nat /\ Count(Served) \in Nat /\ Len(Latencies) \in Nat
          /\ Count(Coming) \in Nat /\ server.late \in Nat /\ pending \in Nat
          /\ sent \in Nat
        BY Numbers DEF IInv
    <2>4. /\ Looked' \in Nat /\ Count(Served)' \in Nat /\ Len(Latencies)' \in Nat
          /\ Count(Coming)' \in Nat /\ server'.late \in Nat /\ pending' \in Nat
          /\ sent' \in Nat
        BY NumbersNext
    <2> QED
        BY <2>2, <2>3, <2>4
<1>5. AnswersBacked
    <2>1. /\ Answered = Count(Served) + Len(Latencies)
          /\ Answered' = Count(Served)' + Len(Latencies)'
        BY DEF Answered
    <2>2. Count(Served)' + Len(Latencies)' + Looked <= Count(Served) + Len(Latencies) + Looked'
        <3>1. AnsweredSum(Count(Served), Len(Latencies), Looked, Count(Served)',
                          Len(Latencies)', Looked', In(at, Served), In(thread[w], Served))
            BY AnsweredSumHolds
        <3> QED
            BY <1>1, <1>2, <1>4, <3>1, Zenon DEF Backed, AnsweredSum
    <2> QED
        BY <2>1, <2>2 DEF AnswersBacked
<1>6. LookupsBacked
    <2>1. /\ Asked = own.warm + own.late + sent /\ Asked' = own.warm + own.late + sent'
          /\ ToCome = server.late + pending + Count(Coming)
          /\ ToCome' = server'.late + pending' + Count(Coming)'
        BY DEF Asked, ToCome
    <2>2. Looked' + (server'.late + pending' + Count(Coming)') + (own.warm + own.late + sent)
              <= Looked + (server.late + pending + Count(Coming))
                     + (own.warm + own.late + sent')
        <3>1. AskedSum(own.warm + own.late, Looked, server.late, pending, Count(Coming), sent,
                       Looked', server'.late, pending', Count(Coming)', sent',
                       In(at, Coming), In(thread[w], Coming))
            BY AskedSumHolds
        <3> QED
            BY <1>1, <1>2, <1>4, <3>1, Zenon DEF Backed, AskedSum
    <2> QED
        BY <2>1, <2>2 DEF LookupsBacked
<1> QED
    BY <1>3, <1>5, <1>6, ReadingStep DEF Backed

\* A thread that neither had nor gets the lock leaves the result's part alone.
LEMMA OutsideKept ==
    ASSUME IInv, NEW w \in Workers, NEW at \in States \ Holding, thread[w] \notin Holding,
           thread' = [thread EXCEPT ![w] = at], UNCHANGED <<lock, lists, errors, loaded>>
    PROVE  Locking' /\ Loading' /\ Rows'
<1>1. thread'[w] = at /\ \A v \in Workers \ {w} : thread'[v] = thread[v]
    BY ThreadSteps DEF IInv
<1>2. \A v \in Workers, x \in Holding : thread'[v] = x <=> thread[v] = x
    BY <1>1
<1>3. Locking' /\ Loading'
    BY <1>2 DEF IInv, Locking, Loading, Holding
<1>4. Rows'
    BY <1>2 DEF IInv, Rows, Latencies, Inference, QueueWait, Holding, Fields
<1> QED
    BY <1>3, <1>4

LEMMA SendInv == ASSUME IInv, NEW w \in Workers, Send(w) PROVE IInv'
<1>1. /\ main = "run" /\ thread[w] = "idle" /\ sent < MaxSent /\ sent' = sent + 1
      /\ thread' = [thread EXCEPT ![w] = "flight"]
      /\ UNCHANGED <<scenario, main, subrun, over, pending, lock, lists, errors, loaded,
                     raised, server, pre, post, own>>
    BY DEF Send, Go, result, report
<1>2. "flight" \in States \ Holding /\ "idle" \notin Holding
    BY DEF States, Holding, Fields
<1>3. thread' \in [Workers -> States]
    BY <1>1, <1>2, ThreadSteps DEF IInv
<1>4. Types'
    BY <1>1, <1>3, HarnessAssumption DEF IInv, Types
<1>5. Locking' /\ Loading' /\ Rows'
    BY <1>1, <1>2, OutsideKept
<1>6. Counting' /\ Reading'
    <2>1. /\ In("idle", Busy) = 0 /\ In("idle", Served) = 0 /\ In("idle", Coming) = 0
          /\ In("flight", Busy) = 1 /\ In("flight", Served) = 0 /\ In("flight", Coming) = 1
        BY DEF In, Busy, Served, Coming
    <2>2. Latencies' = Latencies
        BY <1>1 DEF Latencies
    <2>3. /\ pending \in Nat /\ sent \in Nat /\ Len(Latencies) \in Nat /\ Ended \in Nat
          /\ server.hits \in Nat /\ server.late \in Nat /\ Looked \in Nat
          /\ server' = server
        BY <1>1, Numbers DEF IInv
    <2>4. Ended' = Ended /\ Looked' = Looked
        BY <1>1, <2>2, <2>3 DEF Ended, Looked
    <2>5. Accounted(w, "flight")
        BY <1>1, <2>1, <2>2, <2>3, <2>4 DEF Accounted
    <2>6. Backed(w, "flight")
        BY <1>1, <2>1, <2>2, <2>3, <2>4 DEF Backed
    <2> QED
        BY <1>1, <1>2, <1>4, <2>2, <2>5, <2>6, StepKeeps
<1> QED
    BY <1>4, <1>5, <1>6 DEF IInv

LEMMA TakeInv == ASSUME IInv, NEW w \in Workers, Take(w) PROVE IInv'
<1>1. /\ thread[w] = "idle" /\ pending > 0 /\ pending' = pending - 1
      /\ thread' = [thread EXCEPT ![w] = "flight"]
      /\ UNCHANGED <<scenario, main, subrun, over, sent, lock, lists, errors, loaded,
                     raised, server, pre, post, own>>
    BY DEF Take, Go, result, report
<1>2. "flight" \in States \ Holding /\ "idle" \notin Holding
    BY DEF States, Holding, Fields
<1>3. thread' \in [Workers -> States]
    BY <1>1, <1>2, ThreadSteps DEF IInv
<1>4. Types'
    BY <1>1, <1>3 DEF IInv, Types
<1>5. Locking' /\ Loading' /\ Rows'
    BY <1>1, <1>2, OutsideKept
<1>6. Counting' /\ Reading'
    <2>1. /\ In("idle", Busy) = 0 /\ In("idle", Served) = 0 /\ In("idle", Coming) = 0
          /\ In("flight", Busy) = 1 /\ In("flight", Served) = 0 /\ In("flight", Coming) = 1
        BY DEF In, Busy, Served, Coming
    <2>2. Latencies' = Latencies /\ main = "run"
        BY <1>1, ThreadRuns DEF Latencies
    <2>3. /\ pending \in Nat /\ sent \in Nat /\ Len(Latencies) \in Nat /\ Ended \in Nat
          /\ server.hits \in Nat /\ server.late \in Nat /\ Looked \in Nat
          /\ server' = server
        BY <1>1, Numbers DEF IInv
    <2>4. Ended' = Ended /\ Looked' = Looked
        BY <1>1, <2>2, <2>3 DEF Ended, Looked
    <2>5. Accounted(w, "flight")
        BY <1>1, <2>1, <2>2, <2>3, <2>4 DEF Accounted
    <2>6. Backed(w, "flight")
        BY <1>1, <2>1, <2>2, <2>3, <2>4 DEF Backed
    <2> QED
        BY <1>1, <1>2, <1>4, <2>2, <2>5, <2>6, StepKeeps
<1> QED
    BY <1>4, <1>5, <1>6 DEF IInv

LEMMA ArriveInv == ASSUME IInv, NEW w \in Workers, Arrive(w) PROVE IInv'
<1>1. PICK text \in Texts, hit \in BOOLEAN :
          Lookup(text, hit, server.late)
    BY DEF Arrive
<1>2. /\ thread[w] = "flight" /\ thread' = [thread EXCEPT ![w] = "served"]
      /\ UNCHANGED <<scenario, main, subrun, over, sent, pending, lock, lists, errors,
                     loaded, raised, pre, post, own>>
    BY DEF Arrive, Go, result, report
<1>3. /\ server' \in [hits : Nat, misses : Nat, known : BOOLEAN, late : Nat]
      /\ server'.hits >= server.hits /\ server'.late = server.late
      /\ Looked' = Looked + 1
    BY <1>1, LookupCounts, Numbers DEF IInv
<1>4. own' = own
    BY <1>2
<1>5. "served" \in States \ Holding /\ "flight" \notin Holding
    BY DEF States, Holding, Fields
<1>6. thread' \in [Workers -> States]
    BY <1>2, <1>5, ThreadSteps DEF IInv
<1>7. Types'
    BY <1>2, <1>3, <1>4, <1>6 DEF IInv, Types
<1>8. Locking' /\ Loading' /\ Rows'
    BY <1>2, <1>5, OutsideKept
<1>9. Counting' /\ Reading'
    <2>1. /\ In("flight", Busy) = 1 /\ In("flight", Served) = 0 /\ In("flight", Coming) = 1
          /\ In("served", Busy) = 1 /\ In("served", Served) = 1 /\ In("served", Coming) = 0
        BY DEF In, Busy, Served, Coming
    <2>2. Latencies' = Latencies /\ main = "run"
        BY <1>2, ThreadRuns DEF Latencies
    <2>3. /\ pending \in Nat /\ sent \in Nat /\ Len(Latencies) \in Nat /\ Ended \in Nat
          /\ server.hits \in Nat /\ server.late \in Nat /\ Looked \in Nat
          /\ server'.hits \in Nat /\ server'.late \in Nat /\ Looked' \in Nat
        BY <1>7, Numbers, NumbersNext DEF IInv
    <2>4. Ended' = Ended
        BY <1>2, <1>3, <2>2, Numbers DEF IInv, Ended
    <2>5. Accounted(w, "served")
        <3>1. pending' = pending /\ sent' = sent /\ thread[w] = "flight"
            BY <1>2
        <3> QED
            BY <2>1, <2>3, <2>4, <3>1 DEF Accounted
    <2>6. Backed(w, "served")
        <3>1. /\ pending' = pending /\ sent' = sent /\ thread[w] = "flight"
              /\ server'.hits >= server.hits
              /\ Looked' = Looked + 1 /\ server'.late = server.late
            BY <1>2, <1>3
        <3> QED
            BY <2>1, <2>2, <2>3, <3>1 DEF Backed
    <2> QED
        BY <1>2, <1>3, <1>4, <1>5, <1>7, <2>2, <2>5, <2>6, StepKeeps
<1> QED
    BY <1>7, <1>8, <1>9 DEF IInv

LEMMA ReceiveInv == ASSUME IInv, NEW w \in Workers, Receive(w) PROVE IInv'
<1>1. /\ thread[w] = "served" /\ thread' = [thread EXCEPT ![w] = "answer"]
      /\ UNCHANGED <<scenario, main, subrun, over, sent, pending, lock, lists, errors,
                     loaded, raised, server, pre, post, own>>
    BY DEF Receive, Go, result, report
<1>2. "answer" \in States \ Holding /\ "served" \notin Holding
    BY DEF States, Holding, Fields
<1>3. thread' \in [Workers -> States]
    BY <1>1, <1>2, ThreadSteps DEF IInv
<1>4. Types'
    BY <1>1, <1>3 DEF IInv, Types
<1>5. Locking' /\ Loading' /\ Rows'
    BY <1>1, <1>2, OutsideKept
<1>6. Counting' /\ Reading'
    <2>1. /\ In("served", Busy) = 1 /\ In("served", Served) = 1 /\ In("served", Coming) = 0
          /\ In("answer", Busy) = 1 /\ In("answer", Served) = 1 /\ In("answer", Coming) = 0
        BY DEF In, Busy, Served, Coming
    <2>2. Latencies' = Latencies /\ main = "run"
        BY <1>1, ThreadRuns DEF Latencies
    <2>3. /\ pending \in Nat /\ sent \in Nat /\ Len(Latencies) \in Nat /\ Ended \in Nat
          /\ server.hits \in Nat /\ server.late \in Nat /\ Looked \in Nat
          /\ server' = server
        BY <1>1, Numbers DEF IInv
    <2>4. Ended' = Ended /\ Looked' = Looked
        BY <1>1, <2>2, <2>3 DEF Ended, Looked
    <2>5. Accounted(w, "answer")
        BY <1>1, <2>1, <2>2, <2>3, <2>4 DEF Accounted
    <2>6. Backed(w, "answer")
        BY <1>1, <2>1, <2>2, <2>3, <2>4 DEF Backed
    <2> QED
        BY <1>1, <1>2, <1>4, <2>2, <2>5, <2>6, StepKeeps
<1> QED
    BY <1>4, <1>5, <1>6 DEF IInv

LEMMA FailInv == ASSUME IInv, NEW w \in Workers, Fail(w) PROVE IInv'
<1>1. /\ thread[w] \in {"flight", "served"} /\ thread' = [thread EXCEPT ![w] = "error"]
      /\ UNCHANGED <<scenario, main, subrun, over, sent, pending, lock, lists, errors,
                     loaded, raised, pre, post, own>>
    BY DEF Fail, Go, result, report
<1>2. /\ server' \in [hits : Nat, misses : Nat, known : BOOLEAN, late : Nat]
      /\ server'.hits = server.hits /\ server'.misses = server.misses
      /\ server'.late <= server.late + In(thread[w], Coming)
    <2>1. In("flight", Coming) = 1 /\ In(thread[w], Coming) \in Nat
        BY DEF In, Coming
    <2>2. CASE UNCHANGED server
        BY <2>1, <2>2, Numbers DEF IInv, Types
    <2>3. CASE thread[w] = "flight" /\ Postpone
        <3>1. server.late \in Nat
            BY Numbers DEF IInv
        <3> QED
            BY <2>1, <2>3, <3>1, PostponeCounts DEF IInv
    <2> QED
        BY <2>2, <2>3 DEF Fail
<1>3. "error" \in States \ Holding /\ thread[w] \notin Holding
    BY <1>1 DEF States, Holding, Fields
<1>4. thread' \in [Workers -> States]
    BY <1>1, <1>3, ThreadSteps DEF IInv
<1>5. Types'
    BY <1>1, <1>2, <1>4 DEF IInv, Types
<1>6. Locking' /\ Loading' /\ Rows'
    BY <1>1, <1>3, OutsideKept
<1>7. Counting' /\ Reading'
    <2>1. /\ In("error", Busy) = 1 /\ In("error", Served) = 0 /\ In("error", Coming) = 0
          /\ In(thread[w], Busy) = 1 /\ In(thread[w], Served) \in Nat
          /\ In(thread[w], Coming) \in Nat
        BY <1>1 DEF In, Busy, Served, Coming
    <2>2. Latencies' = Latencies /\ main = "run" /\ thread[w] # "dead"
        BY <1>1, ThreadRuns DEF Latencies
    <2>3. /\ pending \in Nat /\ sent \in Nat /\ Len(Latencies) \in Nat /\ Ended \in Nat
          /\ server.hits \in Nat /\ server.late \in Nat /\ Looked \in Nat
          /\ server'.hits \in Nat /\ server'.late \in Nat /\ Looked' \in Nat
        BY <1>5, Numbers, NumbersNext DEF IInv
    <2>4. Ended' = Ended /\ Looked' = Looked
        BY <1>1, <1>2, <2>2, Numbers DEF IInv, Ended, Looked
    <2>5. Accounted(w, "error")
        BY <1>1, <1>2, <2>1, <2>2, <2>3, <2>4 DEF Accounted
    <2>6. Backed(w, "error")
        <3>1. LateSum(Looked, server.late, server'.late, pending, In(thread[w], Coming), sent)
            BY LateSumHolds
        <3>2. Looked + server'.late + pending + 0 + sent
                  <= Looked + server.late + pending + In(thread[w], Coming) + sent
            BY <1>2, <2>1, <2>3, <3>1 DEF LateSum
        <3>3. 0 + Len(Latencies) + Looked <= In(thread[w], Served) + Len(Latencies) + Looked
            BY <2>1, <2>3
        <3>4. server'.hits >= server.hits
            BY <1>2, <2>3
        <3>5. /\ Len(Latencies)' = Len(Latencies) /\ pending' = pending /\ sent' = sent
              /\ Looked' = Looked /\ In("error", Served) = 0 /\ In("error", Coming) = 0
            BY <1>1, <2>1, <2>2, <2>4
        <3> QED
            BY <3>2, <3>3, <3>4, <3>5, Zenon DEF Backed
    <2> QED
        BY <1>1, <1>2, <1>3, <1>5, <2>2, <2>5, <2>6, StepKeeps
<1> QED
    BY <1>5, <1>6, <1>7 DEF IInv

LEMMA RaiseInv == ASSUME IInv, NEW w \in Workers, Raise(w) PROVE IInv'
<1>1. PICK at \in {"idle", "dead"} :
          thread' = [thread EXCEPT ![w] = at] /\ (Closed => at = "dead")
    BY DEF Raise, Go
<1>2. /\ thread[w] \in {"flight", "served"} /\ raised' = raised + 1
      /\ UNCHANGED <<scenario, main, subrun, over, sent, pending, lock, lists, errors,
                     loaded, server, pre, post, own>>
    BY DEF Raise, report
<1>3. at \in States /\ at \in States \ Holding /\ thread[w] \notin Holding
    BY <1>2 DEF States, Holding, Fields
<1>4. thread' \in [Workers -> States]
    BY <1>1, <1>3, ThreadSteps DEF IInv
<1>5. Types'
    BY <1>2, <1>4 DEF IInv, Types
<1>6. Locking' /\ Loading' /\ Rows'
    BY <1>1, <1>2, <1>3, OutsideKept
<1>7. Counting' /\ Reading'
    <2>1. /\ In(at, Busy) = 0 /\ In(at, Served) = 0 /\ In(at, Coming) = 0
          /\ In(thread[w], Busy) = 1 /\ In(thread[w], Served) \in Nat
          /\ In(thread[w], Coming) \in Nat
        BY <1>2 DEF In, Busy, Served, Coming
    <2>2. Latencies' = Latencies /\ main = "run" /\ thread[w] # "dead"
        BY <1>2, ThreadRuns DEF Latencies
    <2>3. /\ pending \in Nat /\ sent \in Nat /\ Len(Latencies) \in Nat /\ Ended \in Nat
          /\ server.hits \in Nat /\ server.late \in Nat /\ Looked \in Nat
          /\ server' = server
        BY <1>2, Numbers DEF IInv
    <2>4. Ended' = Ended + 1 /\ Looked' = Looked
        <3>1. raised' = raised + 1 /\ errors' = errors
            BY <1>2
        <3>2. errors \in Nat /\ raised \in Nat
            BY Numbers DEF IInv
        <3>3. Looked' = Looked /\ Len(Latencies)' = Len(Latencies)
            BY <2>2, <2>3 DEF Looked
        <3>4. Ended' = Len(Latencies) + errors + (raised + 1)
            BY <3>1, <3>3 DEF Ended
        <3> QED
            BY <2>3, <3>2, <3>3, <3>4 DEF Ended
    <2>5. Accounted(w, at)
        <3>1. pending' = pending /\ sent' = sent
            BY <1>2
        <3> QED
            BY <2>1, <2>3, <2>4, <3>1 DEF Accounted
    <2>6. Backed(w, at)
        <3>1. /\ pending' = pending /\ sent' = sent
              /\ server'.hits >= server.hits /\ server'.late = server.late
            BY <1>2, <2>3
        <3>2. Len(Latencies)' = Len(Latencies) /\ Looked' = Looked
            BY <2>2, <2>4
        <3> QED
            BY <2>1, <2>3, <3>1, <3>2 DEF Backed
    <2> QED
        BY <1>1, <1>2, <1>3, <1>5, <2>2, <2>5, <2>6, StepKeeps
<1> QED
    BY <1>5, <1>6, <1>7 DEF IInv

LEMMA AcquireInv == ASSUME IInv, NEW w \in Workers, Acquire(w) PROVE IInv'
<1> DEFINE at == IF thread[w] = "answer" THEN "latencies_ms" ELSE "load"
<1>1. /\ thread[w] \in {"answer", "error"} /\ lock = NoOne /\ lock' = w
      /\ thread' = [thread EXCEPT ![w] = at]
      /\ UNCHANGED <<scenario, main, subrun, over, sent, pending, lists, errors, loaded,
                     raised, server, pre, post, own>>
    BY DEF Acquire, Go, result, report
<1>2. \/ thread[w] = "answer" /\ at = "latencies_ms"
      \/ thread[w] = "error" /\ at = "load"
    BY <1>1
<1> HIDE DEF at
<1>3. at \in States /\ at \in Holding
    BY <1>2 DEF States, Holding, Fields
<1>4. /\ thread' \in [Workers -> States] /\ thread'[w] = at
      /\ \A v \in Workers \ {w} : thread'[v] = thread[v]
    BY <1>1, <1>3, ThreadSteps DEF IInv
<1>5. \A v \in Workers : thread[v] \notin Holding
    BY <1>1, HarnessAssumption DEF IInv, Locking
<1>6. Types'
    BY <1>1, <1>4 DEF IInv, Types
<1>7. Locking'
    BY <1>1, <1>3, <1>4, <1>5 DEF Locking
<1>8. Loading'
    BY <1>2, <1>4, <1>5 DEF Loading, Holding
<1>9. Rows'
    BY <1>1, <1>2, <1>4, <1>5 DEF IInv, Rows, Latencies, Inference, QueueWait,
                                  Holding, Fields
<1>10. Counting' /\ Reading'
    <2>1. /\ In(at, Busy) = In(thread[w], Busy) /\ In(at, Served) = In(thread[w], Served)
          /\ In(at, Coming) = In(thread[w], Coming)
          /\ In(at, Busy) \in Nat /\ In(at, Served) \in Nat /\ In(at, Coming) \in Nat
        BY <1>2 DEF In, Busy, Served, Coming
    <2>2. Latencies' = Latencies /\ main = "run" /\ thread[w] # "dead"
        BY <1>1, ThreadRuns DEF Latencies
    <2>3. /\ pending \in Nat /\ sent \in Nat /\ Len(Latencies) \in Nat /\ Ended \in Nat
          /\ server.hits \in Nat /\ server.late \in Nat /\ Looked \in Nat
          /\ server' = server
        BY <1>1, Numbers DEF IInv
    <2>4. Ended' = Ended /\ Looked' = Looked
        BY <1>1, <2>2, <2>3 DEF Ended, Looked
    <2>5. Accounted(w, at)
        <3>1. pending' = pending /\ sent' = sent
            BY <1>1
        <3> QED
            BY <2>1, <2>3, <2>4, <3>1 DEF Accounted
    <2>6. Backed(w, at)
        <3>1. /\ pending' = pending /\ sent' = sent
              /\ server'.hits >= server.hits /\ server'.late = server.late
            BY <1>1, <2>3
        <3>2. Len(Latencies)' = Len(Latencies) /\ Looked' = Looked
            BY <2>2, <2>4
        <3> QED
            BY <2>1, <2>3, <3>1, <3>2 DEF Backed
    <2> QED
        BY <1>1, <1>3, <1>6, <2>2, <2>5, <2>6, StepKeeps
<1> QED
    BY <1>6, <1>7, <1>8, <1>9, <1>10 DEF IInv

LEMMA RecordInv == ASSUME IInv, NEW w \in Workers, Record(w) PROVE IInv'
<1> DEFINE f == thread[w]
           next == After(f)
<1>1. /\ f \in Fields
      /\ lists' = [lists EXCEPT ![f] = Append(lists[f], w)]
      /\ thread' = [thread EXCEPT ![w] = next]
      /\ lock' = IF thread'[w] = "idle" THEN NoOne ELSE lock
      /\ UNCHANGED <<scenario, main, subrun, over, sent, pending, errors, loaded,
                     raised, server, pre, post, own>>
    BY DEF Record, Go, report
<1>2. \/ f = "latencies_ms" /\ next = "inference_ms"
      \/ f = "inference_ms" /\ next = "queue_wait_ms"
      \/ f = "queue_wait_ms" /\ next = "idle"
    BY <1>1 DEF Fields, After
<1> HIDE DEF next
<1>3. lock = w /\ f \in Holding /\ next \in States
    BY <1>1, <1>2 DEF IInv, Locking, Holding, States, Fields
<1>4. /\ thread' \in [Workers -> States] /\ thread'[w] = next
      /\ \A v \in Workers \ {w} : thread'[v] = thread[v]
    BY <1>1, <1>3, ThreadSteps DEF IInv
<1>5. \A v \in Workers \ {w} : thread[v] \notin Holding
    BY <1>3 DEF IInv, Locking
<1>6. /\ lists' \in [Fields -> Seq(Workers)]
      /\ lists'[f] = Append(lists[f], w)
      /\ \A g \in Fields \ {f} : lists'[g] = lists[g]
    BY <1>1 DEF IInv, Types
<1>7. Types'
    BY <1>1, <1>4, <1>6 DEF IInv, Types
<1>8. Locking'
    BY <1>1, <1>2, <1>3, <1>4, <1>5, HarnessAssumption DEF Locking, Holding, Fields
<1>9. Loading'
    BY <1>1, <1>2, <1>4, <1>5 DEF Loading, Holding
<1>10. \A v \in Workers : v # w => thread'[v] \notin {"inference_ms", "queue_wait_ms"}
    BY <1>4, <1>5 DEF Holding, Fields
<1>11. Rows' /\ Len(Latencies)' = Len(Latencies) + IF f = "latencies_ms" THEN 1 ELSE 0
    <2>1. /\ Latencies \in Seq(Workers) /\ Inference \in Seq(Workers)
          /\ QueueWait \in Seq(Workers)
        BY DEF IInv, Types, Latencies, Inference, QueueWait, Fields
    <2>2. CASE f = "latencies_ms" /\ next = "inference_ms"
        <3>1. Latencies' = Append(Latencies, w) /\ Inference' = Inference
              /\ QueueWait' = QueueWait
            BY <1>6, <2>2 DEF Latencies, Inference, QueueWait, Fields
        <3>2. Latencies = QueueWait /\ Inference = QueueWait
            <4>1. \A v \in Workers : thread[v] \notin {"inference_ms", "queue_wait_ms"}
                BY <1>5, <2>2 DEF Holding, Fields
            <4> QED
                BY <4>1 DEF IInv, Rows
        <3> QED
            BY <1>4, <1>10, <2>1, <2>2, <3>1, <3>2 DEF Rows
    <2>3. CASE f = "inference_ms" /\ next = "queue_wait_ms"
        <3>1. Latencies' = Latencies /\ Inference' = Append(Inference, w)
              /\ QueueWait' = QueueWait
            BY <1>6, <2>3 DEF Latencies, Inference, QueueWait, Fields
        <3>2. Latencies = Append(QueueWait, w) /\ Inference = QueueWait
            BY <2>3 DEF IInv, Rows
        <3> QED
            BY <1>4, <1>10, <2>1, <2>3, <3>1, <3>2 DEF Rows
    <2>4. CASE f = "queue_wait_ms" /\ next = "idle"
        <3>1. Latencies' = Latencies /\ Inference' = Inference
              /\ QueueWait' = Append(QueueWait, w)
            BY <1>6, <2>4 DEF Latencies, Inference, QueueWait, Fields
        <3>2. Latencies = Append(QueueWait, w) /\ Inference = Latencies
            BY <2>4 DEF IInv, Rows
        <3> QED
            BY <1>4, <1>10, <2>1, <2>4, <3>1, <3>2 DEF Rows
    <2> QED
        BY <1>2, <2>2, <2>3, <2>4
<1>12. Counting' /\ Reading'
    <2>1. /\ In(f, Busy) = IF f = "latencies_ms" THEN 1 ELSE 0
          /\ In(f, Served) = IF f = "latencies_ms" THEN 1 ELSE 0
          /\ In(f, Coming) = 0
          /\ In(next, Busy) = 0 /\ In(next, Served) = 0 /\ In(next, Coming) = 0
        BY <1>2 DEF In, Busy, Served, Coming
    <2>2. main = "run" /\ thread[w] # "dead"
        BY <1>1, ThreadRuns DEF Fields
    <2>3. /\ pending \in Nat /\ sent \in Nat /\ Len(Latencies) \in Nat /\ Ended \in Nat
          /\ server.hits \in Nat /\ server.late \in Nat /\ Looked \in Nat
          /\ server' = server
        BY <1>1, Numbers DEF IInv
    <2>4. Ended' = Ended + (Len(Latencies)' - Len(Latencies)) /\ Looked' = Looked
        <3>1. errors \in Nat /\ raised \in Nat /\ Len(Latencies)' \in Nat
            BY <1>7, Numbers, NumbersNext DEF IInv
        <3> QED
            BY <1>1, <2>3, <3>1 DEF Ended, Looked
    <2>5. Accounted(w, next)
        BY <1>1, <1>11, <2>1, <2>2, <2>3, <2>4 DEF Accounted
    <2>6. Backed(w, next)
        BY <1>1, <1>11, <2>1, <2>2, <2>3, <2>4 DEF Backed
    <2> QED
        BY <1>1, <1>11, <1>3, <1>7, <2>2, <2>5, <2>6, StepKeeps
<1> QED
    BY <1>7, <1>8, <1>9, <1>11, <1>12 DEF IInv

LEMMA LoadErrorsInv == ASSUME IInv, NEW w \in Workers, LoadErrors(w) PROVE IInv'
<1>1. /\ thread[w] = "load" /\ thread' = [thread EXCEPT ![w] = "store"]
      /\ loaded' = [loaded EXCEPT ![w] = errors]
      /\ UNCHANGED <<scenario, main, subrun, over, sent, pending, lock, lists, errors,
                     raised, server, pre, post, own>>
    BY DEF LoadErrors, Go, report
<1>2. "store" \in States /\ "store" \in Holding /\ "load" \in Holding
    BY DEF States, Holding
<1>3. /\ thread' \in [Workers -> States] /\ thread'[w] = "store"
      /\ \A v \in Workers \ {w} : thread'[v] = thread[v]
    BY <1>1, <1>2, ThreadSteps DEF IInv
<1>4. /\ loaded' \in [Workers -> Nat] /\ loaded'[w] = errors
      /\ \A v \in Workers \ {w} : loaded'[v] = loaded[v]
    BY <1>1 DEF IInv, Types
<1>5. Types'
    BY <1>1, <1>3, <1>4 DEF IInv, Types
<1>6. Locking' /\ Loading'
    BY <1>1, <1>2, <1>3, <1>4 DEF IInv, Locking, Loading
<1>7. Rows'
    BY <1>1, <1>3 DEF IInv, Rows, Latencies, Inference, QueueWait
<1>8. Counting' /\ Reading'
    <2>1. /\ In("load", Busy) = 1 /\ In("load", Served) = 0 /\ In("load", Coming) = 0
          /\ In("store", Busy) = 1 /\ In("store", Served) = 0 /\ In("store", Coming) = 0
        BY DEF In, Busy, Served, Coming
    <2>2. Latencies' = Latencies /\ main = "run"
        BY <1>1, ThreadRuns DEF Latencies
    <2>3. /\ pending \in Nat /\ sent \in Nat /\ Len(Latencies) \in Nat /\ Ended \in Nat
          /\ server.hits \in Nat /\ server.late \in Nat /\ Looked \in Nat
          /\ server' = server
        BY <1>1, Numbers DEF IInv
    <2>4. Ended' = Ended /\ Looked' = Looked
        BY <1>1, <2>2, <2>3 DEF Ended, Looked
    <2>5. Accounted(w, "store")
        BY <1>1, <2>1, <2>2, <2>3, <2>4 DEF Accounted
    <2>6. Backed(w, "store")
        BY <1>1, <2>1, <2>2, <2>3, <2>4 DEF Backed
    <2> QED
        BY <1>1, <1>2, <1>5, <2>2, <2>5, <2>6, StepKeeps
<1> QED
    BY <1>5, <1>6, <1>7, <1>8 DEF IInv

LEMMA StoreErrorsInv == ASSUME IInv, NEW w \in Workers, StoreErrors(w) PROVE IInv'
<1>1. /\ thread[w] = "store" /\ thread' = [thread EXCEPT ![w] = "idle"]
      /\ errors' = loaded[w] + 1 /\ lock' = NoOne
      /\ loaded' = [loaded EXCEPT ![w] = 0]
      /\ UNCHANGED <<scenario, main, subrun, over, sent, pending, lists,
                     raised, server, pre, post, own>>
    BY DEF StoreErrors, Go, report
<1>2. "idle" \in States /\ "store" \in Holding /\ "idle" \notin Holding
    BY DEF States, Holding, Fields
<1>3. /\ thread' \in [Workers -> States] /\ thread'[w] = "idle"
      /\ \A v \in Workers \ {w} : thread'[v] = thread[v]
    BY <1>1, <1>2, ThreadSteps DEF IInv
<1>4. errors' = errors + 1
    BY <1>1 DEF IInv, Loading
<1>5. lock = w /\ \A v \in Workers \ {w} : thread[v] \notin Holding
    BY <1>1, <1>2 DEF IInv, Locking
<1>6. Types'
    BY <1>1, <1>3, <1>4 DEF IInv, Types
<1>7. Locking' /\ Loading'
    BY <1>1, <1>2, <1>3, <1>5, HarnessAssumption DEF Locking, Loading, Holding
<1>8. Rows'
    BY <1>1, <1>3 DEF IInv, Rows, Latencies, Inference, QueueWait
<1>9. Counting' /\ Reading'
    <2>1. /\ In("store", Busy) = 1 /\ In("store", Served) = 0 /\ In("store", Coming) = 0
          /\ In("idle", Busy) = 0 /\ In("idle", Served) = 0 /\ In("idle", Coming) = 0
        BY DEF In, Busy, Served, Coming
    <2>2. Latencies' = Latencies /\ main = "run"
        BY <1>1, ThreadRuns DEF Latencies
    <2>3. /\ pending \in Nat /\ sent \in Nat /\ Len(Latencies) \in Nat /\ Ended \in Nat
          /\ server.hits \in Nat /\ server.late \in Nat /\ Looked \in Nat
          /\ server' = server
        BY <1>1, Numbers DEF IInv
    <2>4. Ended' = Ended + 1 /\ Looked' = Looked
        <3>1. errors \in Nat /\ raised \in Nat
            BY Numbers DEF IInv
        <3> QED
            BY <1>1, <1>4, <2>2, <2>3, <3>1 DEF Ended, Looked
    <2>5. Accounted(w, "idle")
        BY <1>1, <1>4, <2>1, <2>2, <2>3, <2>4 DEF Accounted
    <2>6. Backed(w, "idle")
        BY <1>1, <1>4, <2>1, <2>2, <2>3, <2>4 DEF Backed
    <2> QED
        BY <1>1, <1>4, <1>2, <1>6, <2>2, <2>5, <2>6, StepKeeps
<1> QED
    BY <1>6, <1>7, <1>8, <1>9 DEF IInv

LEMMA StutterInv == ASSUME IInv, UNCHANGED vars PROVE IInv'
<1>1. Types'
    BY DEF IInv, Types, vars
<1>2. Locking' /\ Loading' /\ Rows' /\ Counting'
    BY AccountKept DEF vars, pool, result
<1>3. Reading'
    <2>1. Answered' = Answered /\ Asked' = Asked /\ Looked' = Looked
          /\ ToCome' = ToCome
        BY CountKept DEF Answered, Asked, Latencies, Looked, ToCome, vars
    <2> QED
        BY <2>1 DEF IInv, Reading, Reads, Known, vars
<1> QED
    BY <1>1, <1>2, <1>3 DEF IInv

LEMMA NextInv == IInv /\ [Next]_vars => IInv'
BY ResetInv, ReadPreInv, OpenInv, DeadlineInv, JoinInv, ReadPostInv, SummarizeInv,
   ReportInv, WarmInv, LateLookupInv, DispatchInv, SendInv, TakeInv, ArriveInv, ReceiveInv,
   FailInv, RaiseInv, AcquireInv, RecordInv, LoadErrorsInv, StoreErrorsInv, StutterInv
   DEF Next, Main, Work

THEOREM HarnessInvariant == Spec => []IInv
BY InitInv, NextInv, PTL DEF Spec

-----------------------------------------------------------------------------
(* What follows.                                                           *)

\* No outcome is counted twice: there are never more than requests sent.
LEMMA TypesFollow == IInv => TypeOK
<1> SUFFICES ASSUME IInv PROVE TypeOK
    OBVIOUS
<1>1. pending \in 0..sent /\ errors \in 0..sent /\ raised \in 0..sent
    <2>1. /\ pending \in Nat /\ sent \in Nat /\ errors \in Nat /\ raised \in Nat
          /\ Len(Latencies) \in Nat /\ Count(Busy) \in Nat
        BY Numbers DEF IInv
    <2>2. pending + Count(Busy) + (Len(Latencies) + errors + raised) = sent
        BY DEF IInv, Counting, Ended
    <2> QED
        BY <2>1, <2>2
<1> QED
    BY <1>1 DEF IInv, Types, TypeOK, Mains, States

\* The harness's variables keep their types, for any pool.
THEOREM TypeCorrect == Spec => []TypeOK
BY TypesFollow, HarnessInvariant, PTL

LEMMA OutcomesFollow == IInv => EachOutcomeOnce
<1> SUFFICES ASSUME IInv, main \in {"post", "summary"} PROVE EachOutcomeOnce
    BY DEF EachOutcomeOnce
<1>1. pending = 0 /\ \A w \in Workers : thread[w] = "idle"
    BY AtRest
<1>2. Len(Latencies) + errors + raised = sent
    <2>1. Len(Latencies) \in Nat /\ errors \in Nat /\ raised \in Nat
        BY Numbers DEF IInv
    <2>2. Count(Busy) = 0
        BY <1>1, Idle
    <2>3. pending + Count(Busy) + (Len(Latencies) + errors + raised) = sent
        BY DEF IInv, Counting, Ended
    <2>4. Len(Latencies) + errors + raised \in Nat /\ sent \in Nat /\ pending = 0
        BY <1>1, <2>1, Numbers DEF IInv
    <2> QED
        BY <2>2, <2>3, <2>4
<1>3. Closed => raised = 0
    BY <1>1, Numbers DEF IInv, Counting
<1>4. Latencies = QueueWait /\ Inference = QueueWait
    BY <1>1 DEF IInv, Rows
<1> QED
    BY <1>2, <1>3, <1>4 DEF EachOutcomeOnce, Latencies, Inference, QueueWait, Fields

\* Whatever the order in which the threads of any pool come by the lock, a
\* workload that returns has each request it sent in one place: among the
\* samples, among the errors, or, in an open loop, with an exception that
\* nobody reads; and the three lists are in step.
THEOREM OutcomesAddUp == Spec => []EachOutcomeOnce
BY OutcomesFollow, HarnessInvariant, PTL

LEMMA DeltaFollows == IInv => DeltaAccounts
<1> SUFFICES ASSUME IInv, main = "summary", Reads, Known PROVE DeltaAccounts
    BY DEF DeltaAccounts
<1>1. /\ post[1] >= pre[1]
      /\ pre[1] + pre[2] + Answered <= post[1] + post[2]
      /\ post[1] + post[2] <= pre[1] + pre[2] + Asked
    BY DEF IInv, Reading
<1>2. Count(Served) = 0
    BY AtRest, Idle
<1>3. Answered = Len(lists.latencies_ms) /\ Asked = own.warm + own.late + sent
    BY <1>2, Numbers DEF IInv, Answered, Asked, Latencies
<1>4. /\ pre[1] \in Nat /\ pre[2] \in Nat /\ post[1] \in Nat /\ post[2] \in Nat
      /\ Answered \in Nat /\ Asked \in Nat
    BY Numbers DEF IInv, Known
<1>5. DeltaHits >= 0 /\ Answered <= DeltaLookups /\ DeltaLookups <= Asked
    BY <1>1, <1>4 DEF DeltaHits, DeltaLookups
<1> QED
    BY <1>3, <1>5 DEF DeltaAccounts

\* However many sub-runs there are, and however late a request that nobody
\* awaits is looked up, the difference of the two reads has a look-up for each
\* sample of its window and none that an earlier sub-run was answered for.
THEOREM DeltaCounts == Spec => []DeltaAccounts
BY DeltaFollows, HarnessInvariant, PTL
=============================================================================
