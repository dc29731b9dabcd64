# A verification project for InferBench

InferBench is a local inference server (FastAPI, one asyncio event loop) with
dynamic batching, a prediction cache and an adaptive batching controller, and a
benchmark harness that drives it. This directory holds TLA+ models of both, the
TLC configurations that check them on small instances, and TLAPS proofs of what
matters most about them. Source paths are relative to the repository.

## The system

| Component | Source | State | Operations |
|---|---|---|---|
| Dynamic batcher | `inferbench/engine/batcher.py`, `request_queue.py` | bounded queue, the task and its await, `_stopping`, live `BatcherConfig`, counters, a future per request | `submit`, `start`, `stop`, `_run`, `_collect_batch`, `_process_batch` |
| Adaptive controller | `inferbench/engine/controller.py` | task, decisions; writes the batcher's config | `start`, `stop`, `step_once` |
| Prediction cache | `inferbench/engine/cache.py` | ordered dictionary, hits, misses, a lock | `get`, `put`, `stats`, `reset` |
| Inference path | `inferbench/server/inference.py`, `routes.py` | one coroutine per request | `/infer`, `/infer/{model}`, `/admin/cache/reset` |
| Metrics endpoint | `inferbench/server/routes.py` | none, reads the others' from a pool thread | `/metrics` |
| Application | `inferbench/server/app.py`, `registry.py` | registry, started batchers, controller | start-up, shutdown |
| Model runner | `inferbench/engine/model_runner.py` | ONNX session, its providers | construction, `run`, `warmup` |
| Demo | `inferbench/server/demo.py` | thread pool of two, its queue | `compare` |
| Statistics | `inferbench/engine/metrics.py` | none | percentiles, throughput |
| Harness | `inferbench/benchmarks/` | run directory, sample lists under a lock | workloads, scenarios A to F |
| Reports | `inferbench/reports/` | files of the run directory | summary, raw samples, charts |
| Model scripts, tools | `inferbench/models/`, `tools/` | files | sequential scripts |

How they interact. A route handler runs `run_inference`: it looks every input
up in the cache, submits the misses to its model's batcher as one task per
input (`asyncio.gather` over `wait_for(batcher.submit(t))`), fills the cache
and answers. The batcher is one task on the same loop; it awaits the queue, the
queue with a timer, and the thread the model runs in. The controller is another
task: it reads the batcher's latencies and queue depth and writes its
configuration, which the batcher reads again at every turn of its collection.
The application loads the models, starts batchers and controller, and stops
them. `/metrics` reads all of them from a thread of the server's pool, with no
lock but the cache's, and the cache's reset runs in another. The demo runs the sessions of the first two models from
two threads of its own, past the batchers. The harness is another process: the
threads of its pool send requests and share one result under a lock, its main
thread reads `/metrics` around each sub-run and writes the report.

What is hard: cancellation meets an await in three places, one of which
(`wait_for` over `queue.get`) may lose an item or swallow the cancel; timers
race verdicts; the batch limit moves in mid-collection; one request is several
queue items that fail one by one; the cache is read before and written after a
long await, call by call, with a reset between any two of them, under keys that
two models may share; the controller closes a loop over stale readings; readers in other
threads see counters that belong together between two updates; a start-up may
fail half way, a shutdown meets batches in flight; a demo call that gives up
leaves its jobs before those of the next call; a report fails after half of its
files are written; a session may come up on another provider than it was
tagged with; a request of the harness may end in an exception that nobody
catches, or be looked up long after its client has gone.

What makes each part correct: *batcher*: first come first served, no waiter
lost, nothing run twice, limits kept, backlog drained, everyone answered,
`stop` returns. *Controller*: knobs within clamps, capacity never taken away,
right direction under lasting load, a p95 that is the harness's. *Cache*:
exactly the last used keys, with what was last written. *Inference path*: every
answer right at every position, nothing cached but for requests all whose
misses came back, `cache_hit` said of nothing else than answers from the cache,
every request answered. *Metrics*: the cache's figures are of one moment, the
knobs at most a tick ahead of the decisions beside them, an average never above
the batch limit and torn only downwards. *Application*: a server that
answers serves what is configured; the controller is down before its batcher;
the process ends. *Demo*: panels show the answer to their own text, every call
is answered before the process ends. *Harness*: each request counted once but
those whose task raised, look-ups attributed to their sub-run, the numbers on
disk in the end.

## Modules

- **`BatchService`** is the abstract batcher: a line of items, `Accept` and
  `Reject` at its end, `Serve` a batch at its front with one verdict, `Abandon`
  (the batch a stop drops), and the caller's `Answer` and `GiveUp`. It knows
  nothing of tasks, awaits, timers or the hand-over. While a batch is
  in the runner the queue is shorter than the line, so whether a call is refused
  is decided by the line only up to one batch.
- **`DynamicBatcher`** is `batcher.py` and `request_queue.py` at the granularity
  of the event loop: one action per stretch of code between two awaits. `pc`
  says at which await the task is (`get`: line 113; `collect`: line 130; `run`:
  line 141). `handed` is the item the inner getter of
  `wait_for(queue.get())` has taken off the queue and the collector does not
  have yet: `GetterTake`, then `CollectResume`, `CollectTimeout` or
  `CancelDelivered`. `cancel` is a cancel requested and not delivered,
  `stopping` the event. `Extend` does what line 117 to 134 do without
  awaiting, `Loop` the turn of `_run` after a batch. A deadline is a choice: it has passed
  or it has not. `Retune` is the controller's write to `max_batch_size`.
  `client` is the calling task with its timer (`inference.py:118`). `fate` is a
  history variable: what became of each accepted item. `HistogramAccounts` sums
  the histogram by a recursive function. `MCDynamicBatcher` adds its instance
  and symmetry.
- **`Statistics`** is the percentile of `metrics.py` and its copy in
  `controller.py`, exactly, on whole latencies (results are hundredths).
- **`AdaptiveController`**: the window of latencies, the decision rule on its
  p95, the clamps, the history and the task. `Tick` is the timer and
  `step_once`, which has no await. `Observe` is the batcher's append to the
  window; which latencies and queue depths come is the environment's.
- **`PredictionCache`**: the ordered dictionary as a sequence, oldest first; a
  method is a step, since all of it is under the lock. `used` and `written` are
  histories.
- **`InferServer`** composes the inference path, the cache (by the operators of
  `PredictionCache` through `INSTANCE`) and one abstract batcher per registry
  entry. A request is cut at its awaits and, since the reset of the cache runs
  in a thread and the lock is taken call by call, at every call of the cache as
  well: `GetHit` or `GetMiss` is one `cache.get` of lines 58 to 67, `Put` one
  turn of lines 88 to 93, and `running` the coroutine that is in such a loop
  (no other runs meanwhile, `ResetCache` may). In between are `AllCached`,
  `FanOut` or `RunDirect` (lines 72 to 82), `SubmitMisses` (all its tasks run up
  to their put, in order, back to back: a run of `Accept`s and possibly
  `Reject`s of `BatchService`), the task steps `TaskOk`, `TaskFail`, `Timeout`,
  and `Gathered` and `Finish`. The key is what `cache_key` makes it of, the
  entry's `model_id` and `precision`: `config.metadata` gives each entry its
  pair, and two entries may have the same (a directory registered on two
  backends). A prediction is the pair of the entry that made it and the text,
  which is all it depends on, so that an answer made by another entry shows.
  `RepliesAligned` therefore promises a prediction by an entry of the same
  metadata, not by the entry that was asked for. The cache's counters are left
  to `PredictionCache` and `MetricsEndpoint`. `MCInferServer` has bodies and
  configurations.
- **`MetricsEndpoint`**: one step is one access to a shared attribute. The
  event loop counts a batch (`CountBatch`, `AddSize`, `AddToHistogram`), ticks
  (`SetBatch`, `SetWait`, `Record`) and uses the cache under its lock; the
  reader goes through `Order`, the reads of the handler in the order of the
  code (a batcher that has run nothing is not asked for its sum); the reset of the cache is a third thread. A knob is the number of the
  tick that wrote it.
- **`Application`** is the process: the lifespan of `app.py` with
  `ModelRunner`'s constructor and `ModelRegistry.register`. `Resolve` is the tag
  of a model, the first of its chain of providers that the build lists;
  `OpenedOn` is the provider its session comes up on, the first of them that
  loads (`loads`), which the code does not ask for. One action is one
  turn of the loop over the models; nothing in it suspends. `LoadFails` is any
  exception of a turn, before the `try` whose `finally` stops what was started.
  `Shutdown`, `ControllerStopped`, `BatcherStopped` are the stretches between
  the awaits of that `finally`. A batcher has a task and a `busy` thread; a
  task that is cancelled while its thread runs goes to `last` or `down`
  (`RunBatch`, `RunEnds`). `Exit` is the end of the process.
- **`Demo`** extends `Application` by `compare()`: the pool's queue `jobs`, its
  two threads `running`, the future `result` of each job, `call`, the line of
  `compare` a call is at, and `panels`, what it has in hand to show: a title
  and a body each, built from one future after the other. The two `submit`s
  are two steps, since calls run in threads of gradio. `Expire` is
  `result(timeout=15)` raising: the job stays where it is. `Close` is the
  interpreter's shutdown, once the event loop is over: from then on
  `pool.submit` raises, and the call is answered by its except branch, also
  between its two submits. `LastExit` is `Exit` after the joins: the pool has
  emptied its queue and every call has returned. A call without a text, which
  returns at once, is left out. `MCDemo` lists configurations and builds.
- **`Benchmark`** is the harness, scenarios A to E. `main` is the main thread:
  `Reset` (of E; the server refuses it, since the harness sends no admin token),
  `ReadPre`, the warm-up, the window (`Open` to `Join`, which waits for the
  pool), `ReadPost`, `Summarize`, then `WriteReport`, `SaveRawSamples` and
  `WriteCharts`, of which the first and the last may fail on a sub-run without
  samples. `thread` says where each thread of the pool is: in flight, looked up
  by the server (`Arrive`), with an answer or an error, at one of the three
  appends, or between the read and the write of `errors += 1`. Closed loops
  `Send` by themselves, open loops `Take` what the main thread has dispatched.
  `_post_one` has three outcomes: `Receive`, `Fail` (httpx's errors) and
  `Raise`, any other exception, which ends the worker of a closed loop and,
  when the pool is joined, the scenario, and in an open loop only the task,
  whose future nobody reads. `raised` counts those. A request whose client gave
  up before its look-up stays with the server (`Postpone`) and is looked up in
  whatever sub-run it is by then (`LateLookup`). Of the server there is what the
  ratio depends on: its counters, whether the repeated text has been looked up,
  and such late requests. The client a closed-loop worker makes is counted with
  its first request; that the main thread's own clients (warm-up, metrics)
  cannot be made is left out.
- **`DynamicBatcherProofs`, `AdaptiveControllerProofs`,
  `PredictionCacheProofs`, `InferServerProofs`, `MetricsEndpointProofs`,
  `ApplicationProofs` (with the demo's), `BenchmarkProofs`**: the theorems of
  each. **`DataLemmas`** has what several of them need about sequences, and
  induction for loops.

## Runs

| Run | Shows |
|---|---|
| `batcher_safety` | five calls, queue of 3, limits 1 to 3; stops at every await, restarts. Some calls are refused, a queue holds more than a batch, the limit moves while a batch is collected; safety, and that `DynamicBatcher` implements `BatchService` |
| `batcher_live` | no accepted item starves, `stop` returns; unbounded queue, a limit that is lowered |
| `batcher_late_run` | finding: an item answered 504 is run all the same |
| `controller` | a window of three latencies of three kinds, depths around both thresholds; a wait that starts above its clamp: the clamps, the history, the copied percentile against the harness's, and where lasting load takes the knobs; steps that overshoot the clamps |
| `cache_lru` | four keys for three places, two values |
| `server_answers` | two requests of one or two texts, a text given twice too, on two registry entries of the same or of different metadata; one cache of two places, queues of one; all four settings of cache and batching, a reset between any two calls of the cache; that every request is answered, and the line drains |
| `metrics_read` | a reader between any two accesses of the event loop and of a reset; three batches, two ticks, two look-ups |
| `application` | every form of `server.yaml` (both forms, none, empty), up to three models, names given twice, models that cannot be read or run, an unknown backend, batching, controller and warm-up on and off, on a build with and without CUDA, which may not load; two calls of the demo; a shutdown at any point; that every call is answered, and a shutdown ends |
| `health_backend` | finding: `/health` shows a provider that did not load |
| `harness` | scenarios A to E, two threads, two sub-runs of up to two requests after a warm-up of up to one, one late request at a time, and the files of the run; that every scenario comes to its end |
| `harness_charts` | finding: the charts of a sweep fail on a sub-run the summary was made to survive |
| `harness_ratio` | finding: the warm-up counts into Scenario E's hit ratio |

Bounds. Each hazard needs few actors: the hand-over one getter and one
canceller; the limit a queue one longer than a batch; mixing of answers two
requests that share a model or a text; eviction one key more than places. The
instances have one more of each than that. An average that mixes two batches
needs two batches, knobs that are apart from their decision need two ticks
(`MaxBatches`, `MaxTicks`); a job in the way of another call needs two calls
for the two threads, four jobs in all; a start-up that fails half way a second
model. `CHECK_DEADLOCK FALSE` is used where the system may stop: every request
answered, the process ended, the scenario done. `MaxLookups` bounds
`PredictionCache`'s counters between two resets, `MaxWarm` and `MaxSent` bound
the requests of a warm-up and of a window (lost updates and lists out of step
need two threads with one request each), `MaxLate` those that the server has
and nobody awaits (one that is looked up in the next sub-run needs one), and
`QueueDepths` lists the depths
around both thresholds of the rule. Symmetry, of the batcher's calls, is used by
`batcher_safety` only; no run with a liveness property has any. On windows as
small as the instance's, that 95 of 100 latencies are at most the p95 says
little; the theorem says it of every window.

Fairness. The event loop runs every ready callback, so a task whose await
is over continues: weak fairness of the task's steps and of the callers'
resumption. A model run ends (weak fairness of the run steps). A timer of the
*collector* and of the *controller* fires, since nothing cancels it but stop().
In `InferServer` a coroutine that may go on does, a task with a verdict ends,
and each batcher serves its line. No fairness is assumed of callers, of their timeouts, of `start`, `stop` or of
the runner's success: liveness does not lean on the 504.
Of the application: tasks and threads run and a session's run ends; nobody has
to shut the server down. Of the demo: the pool's threads take and end their
jobs, a call whose future is done goes on, and after the lifespan the
interpreter shuts down and joins its threads; nobody has to call, and no call
has to give up.
Of the harness: time passes and threads run, and a request has an outcome,
since the client has a timeout of 10 s; that anything is sent is not assumed.

Findings, each a violation run; `PROJECT.json` quotes the lines.

- `batcher_late_run`: README.md says that a request answered 504 is dropped;
  it stays in the queue and is run.
- `harness_charts`: `generate_report.py:85` renders a row for a sub-run without
  a success "instead of crashing the report"; `plot_results.py:75`, called
  next, subscripts the missing latencies and the scenario ends with an error.
- `harness_ratio`: `run_benchmark.py:254` says that the hit ratio reflects only
  its own traffic; the warm-up's hits are in it, and the reset before it is
  refused.
- `health_backend`: `model_runner.py:82` says that the tag shows "the truth, not
  the wish"; it is the first provider the build lists, and a session whose
  provider does not load comes up on the next one, with the tag unchanged
  (`docs/HARDWARE.md:33`, `tools/gpu_smoke.py:54` know of it).
  `ServesTheConfig` states what holds: the tag is right where every provider of
  the build loads.

Two more divergences have no run of their own. `metrics.py:79` calls `errors` the
failures and `error_rate` the fraction of attempts that failed; an attempt of an
open loop that ends in an exception other than httpx's is in neither number
(`workloads.py:61`, 167, 226, 276). `EachOutcomeOnce` states what holds, with
`raised` for those. README.md:341 says that
`resolve_providers()` "fails loudly if none are available, so a misconfigured
CUDA box doesn't silently demote to CPU". `Resolve` follows the code: the CPU
provider ends every chain, so the failure cannot occur and the demotion does,
with a tag that says so.

## Proofs

Every safety invariant and every action property that a passing run checks,
`ServiceSpec` included, is the statement of a theorem. All theorems hold for every value
of the constants under the named assumption of their module: sets of calls,
items, requests, models, keys, texts and workers (finite for the harness, whose
account counts them), bodies of any length, queue limits (0, unbounded,
included), batch limits, capacities, configurations, builds and numbers of
calls. Each follows from an inductive invariant of its own, `IInv` unless
another name is given.

- **Batcher.** `IInv`: types, `WaiterReachable`,
  `ServedOnce`, `WithinLimits`, `Shape` (which variables are empty at which
  await: the hand is full only while collecting, the batch is
  non-empty while running) and `Fresh` (an idle caller has no future and no
  fate). The line `batch \o handed \o queue` carries the argument: every step of
  the collection leaves it as it is, and only `Submit` (at its end), the end of
  a run and a cancel (at its front) change it. `ExtendMoves` and `LoopMoves`
  prove that once for the parts the actions share. The safety properties and
  both action properties follow, and `ImplementsService` shows that each step
  is a step or a stutter of `BatchService`. `HistogramIsExact` adds `Account`:
  only `RunOk` touches either side, it adds one batch of new items
  (`ServedOnce`) and one count at its length, which a loop invariant carries
  through the sum (`OneBatchMore`).
- **Controller.** `IInv` is types, clamps and the last decision. The clamps
  are stated against the initial values because the code never checks that
  these lie within; `NeverShrinks` needs `InitBatch <= CtlMaxBatch` for that
  reason. `PercentilesAgree` is about the data, not the steps: of any sequence
  of naturals the order statistics that `Sorted` chooses by cardinality exist
  (`RankFound`) and are in order, a percentile lies between the two it
  interpolates (`PercentileBetween`), and so many latencies are on either side.
- **Cache.** `IInv`: types, `Distinct` (no key twice in `used`), `Aligned` (the
  cache is the end of `used`, as long as it may be) and `Current`. A hit moves
  a key to the end of both sequences, a put appends to both and may cut the
  front of one; that both still end alike is the work, done by lemmas on
  removing from and appending to sequences without repetition.
- **Inference path.** `IInv`: types; the cache is in `CacheOver(Sound)` (within its
  capacity, one entry per key, each made by an entry of that metadata of a text
  of a request all whose misses came back); and for each request `Local`, which
  speaks of every turn of its loops: the predictions it has are right for their
  positions (`Begun`), every position it has passed has one or is on the list of
  misses, and is there behind the ones filled already (`Covered`), what is
  missing has been submitted once the request gathers (`Submitted`), and an
  answer 200 has them all (`Complete`). `RepliesAligned` and `CacheSound` are not
  inductive without each other: an answer takes predictions from the cache, and
  a fill puts into it what the answer says. The cache may change between any two
  turns, which is why `Local` does not speak of it, and every `Touch` and
  `Insert` is shown to keep `CacheOver` for any cache.
- **Metrics.** `IInv` says how far each writer is ahead of the next
  (`Counting`, `Ticks`, `Locking`) and how far what was read lags behind
  (`Averages`, `KnobsSeen`, `CacheSeen`). `counted`, the batches there were when
  the sum was read, is what bounds an average from below. The order of the reads is what makes
  it inductive: the sum before the count, the count before the histogram.
- **Application.** `IInv`: types, `Registered` (until it fails, the loop has
  registered exactly the models gone through, each with its batcher) and
  `Lifecycle` (the shutdown has passed exactly the batchers before the one it
  waits for, and the controller before all of them).
- **Demo.** `DemoImplementsApplication`: every step of the application with its
  demo is one of the application or a stutter (`LastExit` is an `Exit`, all
  else of the demo leaves the application's variables alone), so that
  `ApplicationBesideDemo` has the application's invariants under any number of
  calls. `DemoInv`: no call before the server answers (`Quiet`), the registry of
  a call that was let in begins with the configuration's first two models
  (`Titled`, from the application's `Registered`), a future holds what its own
  job computed, or its error (`Futures`), and a call has in hand what it may
  have at its line (`Shows`): the left panel with the left model's prediction of
  its own text before it waits for the right one, and at the end either both or
  two errors. No such step is taken on a job's word: whatever jobs are in the
  pool, and whichever way a call ends, the futures it reads are its own.
- **Harness.** `IInv`: `Locking` (who is at an append or at `errors += 1` holds
  the lock), `Loading` (what was read of `errors` is still its value),
  `Rows` (how far the three lists are apart while one thread is among them),
  `Counting` (a request sent is in the pool's queue, on a thread, a row, an
  error or an exception, and one that raised has left a dead worker in a closed
  loop; a sum with a cardinality, hence the finite set of workers) and `Reading`
  (the server's counters are ahead of the first read by at least what was
  answered since, and by at most what was asked and is not still to come: late
  requests, dispatched tasks and requests in flight).

Recursive functions. The library states induction for a predicate, which is an
operator parameter and beyond the provers. `DataLemmas` proves it for a set of
naturals instead (`SetInduction`, from the least element of a finite set), and
from it what the sum over the batcher's histogram needs: a loop whose step stays
in a set has a run (`LoopExists`), and what each of its steps keeps holds at its
end (`LoopInvariant`, with a function to sets of values in the place of the
invariant).

Only model-checked: all liveness (`NoStarvation`, `StopCompletes`,
`SaturationReachesMax`, `ShallowReachesMinWait`, `EveryRequestAnswered`,
`LinesDrain`, `CompareAnswered`, `ShutdownCompletes`, `Finishes`), which is out
of the prover's reach, and the findings, each of which is a counterexample. That
`stop()` leaves the futures of a cancelled batch unset, so that their callers
wait for their own timers, is in the model as the code has it (`fate`
"stranded"); no property forbids it, and `StopCompletes` says only that `stop`
itself returns.
That a composition's abstract batchers are what `DynamicBatcher` implements is
by construction of `InferServer`'s `SubmitMisses` and `Serve`, and has no
theorem.

## Not modelled

- Real time, doubles (latencies are whole numbers), and collisions of the hash
  over the cache's key; that two entries have the same `model_id` and
  `precision`, and so the same keys, is modelled.
- The web framework: routes, the version, the admin token, the rate limit. The
  refusal for want of a token is modelled where it matters, in the harness.
- The shutdown of the server under requests in `InferServer`; a stop is in
  `DynamicBatcher` and, with batches in flight, in `Application`.
- The numbers a model computes, tokenization, the layout of the demo's page.
- Scenario F (cold starts in child processes), the numbering of run
  directories, `throughput_stats`, the k6 script.
- `quant_compare.py` and `headline_concurrency_sweep.py`, which format files
  that exist; the scripts for export, quantization, accuracy and the GPU smoke
  test, which are sequential and call libraries.

## What could come next

1. The scripts of `inferbench/models/`: a crash between the files of an export,
   and a server started on what it left.
2. `ColdStart`: Scenario F's child process, its port, its poll of `/health` and
   its end on every path.
3. `InferServer` as a refinement: that its requests, mapped to calls, take only
   steps of one `BatchService` per model, which the composition now repeats.
   `SubmitMisses`, which is many `Accept`s, has to be cut into its puts for that.
