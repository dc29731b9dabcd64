-------------------------- MODULE MetricsEndpoint --------------------------
(***************************************************************************)
(* GET /metrics (server/routes.py) reads from a thread of the server's     *)
(* pool what the event loop is writing: one batcher's counters, the knobs  *)
(* the controller moves, its last decision, and the cache's statistics.    *)
(* Only the cache has a lock.  A step is one access to a shared attribute. *)
(* POST /admin/cache/reset runs in another thread of the pool.             *)
(*                                                                         *)
(* What is read and no property tells apart is left out: queue_size, and   *)
(* what a decision says besides the knobs.                                 *)
(***************************************************************************)
EXTENDS Naturals, Sequences

CONSTANTS
    MaxBatch,       \* the largest batch
    Capacity,       \* cache.max_entries
    MaxBatches, MaxTicks, MaxLookups    \* bounds of the counters

ASSUME MetricsAssumption ==
    {MaxBatch, Capacity, MaxBatches, MaxTicks, MaxLookups} \subseteq Nat \ {0}

VARIABLES
    loop,           \* what the event loop is in the middle of
    size,           \* of the batch being counted
    batches, sum,   \* _batches_processed, _batch_size_sum
    hist,           \* the batches _batch_size_histogram accounts for
    batch, wait,    \* bcfg's knobs: the number of the tick that wrote them
    decided,        \* number of the last decision recorded
    entries,        \* len(cache._store)
    hits, misses,
    lock,           \* cache._lock: "free" or who holds it
    admin,          \* the thread of /admin/cache/reset
    reader, seen,   \* the thread of /metrics: its place in Order, what it read
    counted         \* history: the batches counted when it read the sum

vars == <<loop, size, batches, sum, hist, batch, wait, decided, entries, hits,
          misses, lock, admin, reader, seen, counted>>
counters == <<size, batches, sum, hist>>
knobs    == <<batch, wait, decided>>
cache    == <<entries, hits, misses, lock, admin>>
reading  == <<reader, seen, counted>>

\* The numbers an answer is made of.
Shown == {"hits", "misses", "entries", "empty", "sum", "count", "batch", "wait",
          "hist", "decided"}

Init ==
    /\ loop = "idle" /\ size = 0
    /\ batches = 0 /\ sum = 0 /\ hist = 0
    /\ batch = 0 /\ wait = 0 /\ decided = 0
    /\ entries = 0 /\ hits = 0 /\ misses = 0
    /\ lock = "free" /\ admin = "idle"
    /\ reader = 0 /\ seen = [what \in Shown |-> 0] /\ counted = 0

-----------------------------------------------------------------------------
(* The event loop: one task's stretch at a time.                           *)

\* _process_batch, once the runner has returned.
CountBatch(k) ==
    /\ loop = "idle" /\ batches < MaxBatches
    /\ batches' = batches + 1 /\ size' = k
    /\ loop' = "sum"
    /\ UNCHANGED <<sum, hist, knobs, cache, reading>>

AddSize ==
    /\ loop = "sum"
    /\ sum' = sum + size
    /\ loop' = "hist"
    /\ UNCHANGED <<size, batches, hist, knobs, cache, reading>>

AddToHistogram ==
    /\ loop = "hist"
    /\ hist' = hist + 1
    /\ loop' = "idle"
    /\ UNCHANGED <<size, batches, sum, knobs, cache, reading>>

\* step_once with enough samples; without, it writes no knob.
SetBatch ==
    /\ loop = "idle" /\ decided < MaxTicks
    /\ batch' = decided + 1
    /\ loop' = "wait"
    /\ UNCHANGED <<counters, wait, decided, cache, reading>>

SetWait ==
    /\ loop = "wait"
    /\ wait' = decided + 1
    /\ loop' = "record"
    /\ UNCHANGED <<counters, batch, decided, cache, reading>>

Record ==
    /\ loop = "record"
    /\ decided' = decided + 1
    /\ loop' = "idle"
    /\ UNCHANGED <<counters, batch, wait, cache, reading>>

\* cache.get: under the lock one counter changes.
Get ==
    /\ loop = "idle" /\ lock = "free"
    /\ hits + misses < MaxLookups
    /\ \/ entries > 0 /\ hits' = hits + 1 /\ UNCHANGED misses
       \/ misses' = misses + 1 /\ UNCHANGED hits
    /\ UNCHANGED <<loop, counters, knobs, entries, lock, admin, reading>>

\* cache.put of a new key: insert, then evict under the same lock.
Insert ==
    /\ loop = "idle" /\ lock = "free"
    /\ entries' = entries + 1
    /\ loop' = "evict" /\ lock' = "loop"
    /\ UNCHANGED <<counters, knobs, hits, misses, admin, reading>>

Evict ==
    /\ loop = "evict"
    /\ entries' = IF entries > Capacity THEN entries - 1 ELSE entries
    /\ loop' = "idle" /\ lock' = "free"
    /\ UNCHANGED <<counters, knobs, hits, misses, admin, reading>>

-----------------------------------------------------------------------------
(* cache.reset, in a pool thread: three stores under the lock.             *)

Clear ==
    /\ admin = "idle" /\ lock = "free"
    /\ entries' = 0
    /\ admin' = "hits" /\ lock' = "admin"
    /\ UNCHANGED <<loop, counters, knobs, hits, misses, reading>>

ZeroHits ==
    /\ admin = "hits"
    /\ hits' = 0
    /\ admin' = "misses"
    /\ UNCHANGED <<loop, counters, knobs, entries, misses, lock, reading>>

ZeroMisses ==
    /\ admin = "misses"
    /\ misses' = 0
    /\ admin' = "idle" /\ lock' = "free"
    /\ UNCHANGED <<loop, counters, knobs, entries, hits, reading>>

-----------------------------------------------------------------------------
(* The handler of /metrics.                                                *)

\* Mutant: avg_batch_size takes its count before the sum.
OrderCountFirst ==
    <<"hits", "misses", "entries", "empty", "count", "sum", "batch", "wait", "hist",
      "decided">>

\* Mutant: the controller's part comes before the batchers'.
OrderControllerFirst ==
    <<"hits", "misses", "entries", "decided", "empty", "sum", "count", "batch",
      "wait", "hist">>

\* The accesses in the order the handler makes them.  avg_batch_size tests
\* the count ("empty"), then divides: the sum is read before the count.
Order ==
    <<"hits", "misses", "entries", "empty", "sum", "count", "batch", "wait", "hist",
      "decided">>

Now ==
    [hits |-> hits, misses |-> misses, entries |-> entries, empty |-> batches,
     sum |-> sum, count |-> batches, batch |-> batch, wait |-> wait,
     hist |-> hist, decided |-> decided]

\* Mutant: stats() reads without the lock.
LockedNot(what) == UNCHANGED lock

\* stats() holds the lock from its first read to its last.
Locked(what) ==
    \/ what = "hits" /\ lock = "free" /\ lock' = "reader"
    \/ what = "entries" /\ lock' = "free"
    \/ what \notin {"hits", "entries"} /\ UNCHANGED lock

\* A batcher that has run nothing shows 0.0 and is not asked for its sum.
After(what) ==
    IF what = "empty" /\ batches = 0
    THEN CHOOSE p \in DOMAIN Order : Order[p] = "batch" ELSE reader + 1

Done == reader > Len(Order)

Request ==
    /\ reader = 0 \/ Done
    /\ reader' = 1
    /\ seen' = [what \in Shown |-> 0] /\ counted' = 0
    /\ UNCHANGED <<loop, counters, knobs, cache>>

Read ==
    /\ reader \in DOMAIN Order
    /\ LET what == Order[reader]
       IN  /\ Locked(what)
           /\ seen' = [seen EXCEPT ![what] = Now[what]]
           /\ reader' = After(what)
           /\ counted' = IF what = "sum" THEN batches ELSE counted
    /\ UNCHANGED <<loop, counters, knobs, entries, hits, misses, admin>>

Next ==
    \/ \E k \in 1..MaxBatch : CountBatch(k)
    \/ AddSize \/ AddToHistogram
    \/ SetBatch \/ SetWait \/ Record
    \/ Get \/ Insert \/ Evict
    \/ Clear \/ ZeroHits \/ ZeroMisses
    \/ Request \/ Read

Spec == Init /\ [][Next]_vars

-----------------------------------------------------------------------------
(* Properties.                                                             *)

\* avg_batch_size is torn only downwards (batcher.py:82-86, 148-151): never a
\* division by zero and never above the largest batch, though batches are
\* counted between any two of the reads; of the batches counted when the sum
\* was read it lacks the size of one at most, but it is divided by all that
\* were counted since.  It may be 0.0 beside a batch.  The histogram shown
\* with it (the harness takes differences of it) lacks one batch at most.
AverageInRange ==
    Done =>
        /\ seen["empty"] > 0 =>
              /\ seen["count"] > 0 /\ seen["sum"] <= MaxBatch * seen["count"]
              /\ seen["empty"] <= counted /\ counted <= seen["sum"] + 1
        /\ seen["hist"] + 1 >= seen["count"]

\* The cache's figures are of one moment: within the capacity, although an
\* insert overshoots it, and no hits of an empty cache, although a reset
\* clears the entries before it clears the counters.
CacheSnapshot ==
    Done =>
        /\ seen["entries"] <= Capacity
        /\ seen["hits"] > 0 => seen["entries"] > 0

\* The knobs shown are at most one tick ahead of the decisions shown beside
\* them, however many ticks the reader slept between two reads, and the batch
\* limit at most one write ahead of the wait.
KnobsExplained ==
    Done =>
        /\ seen["batch"] <= seen["decided"] + 1 /\ seen["wait"] <= seen["decided"] + 1
        /\ seen["batch"] <= seen["wait"] + 1
=============================================================================
