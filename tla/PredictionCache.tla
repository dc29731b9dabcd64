--------------------------- MODULE PredictionCache ---------------------------
(***************************************************************************)
(* engine/cache.py: the in-process LRU cache of predictions.  Every method *)
(* runs under the lock, so each is one step.  The OrderedDict is a         *)
(* sequence of entries, least recently used first.  The operators on a     *)
(* cache value c are used by InferServer too.                              *)
(***************************************************************************)
EXTENDS SequencesExt

CONSTANTS
    Keys,         \* cache_key() of model, precision and text
    Values,       \* predictions
    Capacity,     \* cache.max_entries
    MaxLookups    \* bound: lookups counted between two resets

ASSUME CacheAssumption == Capacity \in Nat \ {0} /\ MaxLookups \in Nat

VARIABLES
    store,     \* self._store
    hits,      \* self._hits
    misses,    \* self._misses
    used,      \* history: keys by last use since the reset, latest last
    written    \* history: what was last put under each used key

vars == <<store, hits, misses, used, written>>

-----------------------------------------------------------------------------
(* The OrderedDict.                                                        *)

Has(c, k)     == \E j \in DOMAIN c : c[j].key = k
Pos(c, k)     == CHOOSE j \in DOMAIN c : c[j].key = k
ValueOf(c, k) == c[Pos(c, k)].value

\* Mutant: a hit is not a use, the cache is first in first out.
TouchNot(c, k) == c

\* move_to_end
Touch(c, k) == Append(RemoveAt(c, Pos(c, k)), c[Pos(c, k)])

\* popitem(last=False) while there are too many
Trim(c) == SubSeq(c, Len(c) - Min({Len(c), Capacity}) + 1, Len(c))

\* Mutant: one entry too many is kept.
InsertLate(c, k, v) ==
    LET d == Append(IF Has(c, k) THEN RemoveAt(c, Pos(c, k)) ELSE c,
                    [key |-> k, value |-> v])
    IN  IF Len(d) > Capacity + 1 THEN Tail(d) ELSE d

\* Mutant: an entry that is there is moved and keeps its value.
InsertKeep(c, k, v) ==
    IF Has(c, k) THEN Touch(c, k) ELSE Trim(Append(c, [key |-> k, value |-> v]))

Insert(c, k, v) ==
    Trim(Append(IF Has(c, k) THEN RemoveAt(c, Pos(c, k)) ELSE c,
                [key |-> k, value |-> v]))

-----------------------------------------------------------------------------
Init ==
    /\ store = <<>> /\ hits = 0 /\ misses = 0
    /\ used = <<>> /\ written = [k \in {} |-> 0]

Use(k) == used' = Append(RemoveFirst(used, k), k)

GetHit(k) ==
    /\ hits + misses < MaxLookups
    /\ Has(store, k)
    /\ store' = Touch(store, k)
    /\ hits' = hits + 1
    /\ Use(k)
    /\ UNCHANGED <<misses, written>>

GetMiss(k) ==
    /\ hits + misses < MaxLookups
    /\ ~Has(store, k)
    /\ misses' = misses + 1
    /\ UNCHANGED <<store, hits, used, written>>

Put(k, v) ==
    /\ store' = Insert(store, k, v)
    /\ Use(k)
    /\ written' = [j \in DOMAIN written \cup {k} |-> IF j = k THEN v ELSE written[j]]
    /\ UNCHANGED <<hits, misses>>

Reset ==
    /\ store' = <<>> /\ hits' = 0 /\ misses' = 0
    /\ used' = <<>> /\ written' = [k \in {} |-> 0]

Next ==
    \/ \E k \in Keys : GetHit(k) \/ GetMiss(k) \/ \E v \in Values : Put(k, v)
    \/ Reset

Spec == Init /\ [][Next]_vars

-----------------------------------------------------------------------------
(* What must hold.                                                         *)

\* Type invariant.
TypeOK ==
    /\ store \in Seq([key : Keys, value : Values])
    /\ Len(store) <= Capacity
    /\ hits \in Nat /\ misses \in Nat
    /\ used \in Seq(Keys)
    /\ DOMAIN written = {used[j] : j \in DOMAIN used}

\* The cache holds exactly the Capacity keys used last since the reset, in the
\* order of their use, each once: nothing is evicted before its turn, nothing
\* outlives its turn, and a hit counts as a use (cache.py:62, 68-72).
MostRecentlyUsed ==
    LET n == Min({Len(used), Capacity})
    IN  [j \in DOMAIN store |-> store[j].key] = SubSeq(used, Len(used) - n + 1, Len(used))

\* A lookup after any history of moves and evictions finds the value last put
\* under its key since the reset, never an older or another key's.
HoldsLastWritten ==
    \A k \in Keys : Has(store, k) =>
        k \in DOMAIN written /\ ValueOf(store, k) = written[k]
=============================================================================
