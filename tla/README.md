# TLA+ models of the load-generation runner

These modules model the HTTP load generator under `src/experiments/runner/`:
its worker threads, its two kinds of scheduler, and the Elasticsearch sink
process they report to. They are checked with TLC.
Every definition is translated from the Python source. `PROJECT.json` maps
each one to the lines it stands for.

## The system

`__main__.py` does four things in order:

1. It starts the sink process (`elastic.start`).
2. It runs one *runner* inside `main.main`. Inside the runner's `with` block,
   `Reporter.print` prints the statistics and `Reporter.push` sends `FLUSH` to
   the sink.
3. It calls `elastic.stop()`, which sends `STOP` and joins the sink process.

The parts and how they interact:

| Part | Source | State it owns or shares |
|------|--------|-------------------------|
| Coordination state | `workers.py` globals, `setup`, `reset` | `_reqs_current`, `_stop_ev`, `_ready_ev`, `results` (a `QueueProxy`), `last_response` |
| Request worker | `workers.request_worker` | runs on executor threads: checks the cap and stop, increments the counter, makes one HTTP call, checks stop again, puts an observation, may set stop at the cap, sets `ready` when it leaves |
| Timeout daemon | `workers.timeout_worker` | sets stop after `-t` seconds |
| Concurrent runner | `ConcurrentQueueRunner.run` | `executor.map` of `-c` looping workers; Ctrl-C sets stop; the `finally` block shuts the pool down without waiting for it |
| Poisson runner | `PoissonQueueRunner.run`, `slow_start` | main thread: for each of `reqs_limit` jobs, take the in-flight estimate, apply backpressure on `ready`, pace against stop, submit; a daemon raises the budget `_max_workers` from 1 |
| Rate controllers | `sustain_throughput`, `linear_increase` | daemons that only rescale `mean_req_time` |
| Reporter | `report.Reporter`, `utils.percentile` | reads `last_response` and `results`, divides by their count and prints percentiles of the service times; `push` sends `FLUSH` |
| Sink | `elastic.py` | a child process whose single thread loops over an `mp.Queue` and writes one `ElasticBatch`; bulk writes get 3 attempts. `periodic_flush` is defined but never started. Ctrl-C reaches it too (same process group) |

The threads share the `workers` globals with no lock. CPython's interpreter
switches threads only between bytecodes, so `_reqs_current += 1` can be split
between its load and its store. This happens on CPython 3.9 and earlier and
on free-threaded builds.

## Modules

- **`WorkerPool`** models the shared state and `request_worker` / `timeout_worker`.
  - The state is `reqsCurrent`, `stop`, `ready`, `results` (the `req_no` of
    each observation, in put order) and `lastResponse`.
  - Per thread it keeps the program counter `wpc`, the local `reqNo`, and
    `tmp`, the value loaded by a split `+=`.
  - The ghost variables are `started` (passes of the while loop) and
    `dropped` (responses whose observation was never put).
  - There is one action per step of the worker: `Loop`, `Increment` (or,
    on a racy build, `IncLoad`, `IncStore` and `ReadReqNo`: `req_no =
    _reqs_current` is a fresh read of the global that another thread's
    store may already have changed), `Send`, `CheckStop`, `Put`, `Limit`
    and `Exit`, plus `TimeoutFires` for the daemon.
  - Locals that are dead (`tmp` after the store, `reqNo` after the cap test
    or the drop, `status` after the put) are cleared, so that states that
    differ only in them coincide.
  - The command line and the interpreter are chosen at `Init`, from the
    sets a run allows. `Terminations` gives `-n` (`timer = "off"`) or `-t`
    (the timeout daemon sleeping). `Builds` gives the atomic or the racy
    `+=` (`racy`, fixed for the run). `ReqsLimit` is `reqs_limit` as
    `QueueRunner.__init__` sets it: `Count` under `-n`, and `sys.maxsize`
    under `-t`, which is `SysMaxsize`, beyond `MaxRequests`.
  - `Send` models the whole HTTP try/except. A response sets `last_response`;
    a transport error does not. Either way the worker goes on to its stop
    check.
- **`ConcurrentRunner`** EXTENDS `WorkerPool` and adds the main thread
  (`mainPc`).
  - Its actions are `MapReturns`, `Interrupt` (Ctrl-C), `Shutdown` and
    `Report`.
  - `Report` leads to `"crashed"` when `Reporter.print` fails
    (`PrintFails`, in `WorkerPool`): it divides by `len(results) = 0`, or
    every recorded observation failed, so `percentile(reqs_t).get` returns
    `None` and `int(1000*None)` raises. `WorkerPool` tracks, per thread,
    whether the last call got a response (`status`) and the number of
    observations with a status code (`reqsT`).
- **`ReportHelpers`** is `utils.percentile` as operators: `Percentile` sorts
  (`SortSeq`) and `PercentileGet` interpolates between the closest ranks,
  computed times the percent's denominator so that it stays exact. For the
  eight percents `print` uses and up to 100000 samples, floor and ceil of
  Python's float `k` equal the exact ones, so the branches agree.
  `RefPercentile` is the reference, built on order statistics instead of a
  sort.
- **`PoissonRunner`** EXTENDS `WorkerPool`.
  - It adds the scheduler (`sched`), the executor's queue (`pending`), the
    count of submitted jobs, the budget `maxW` and the slow-start daemon (`ss`).
  - The scheduler's actions `SchedRead` … `SchedAfter` follow `run()`
    statement by statement. The estimate `_reqs_current - len(results)`
    is two reads: `SchedRead` loads `_reqs_current` into `curRead`, and
    `SchedCompare` calls `len`, where another thread may run first, and
    compares with the budget.
  - `StartJob` is an idle executor thread taking a queued job.
  - `Shutdown` drops the queue, as `cancel_futures=True` does.
  - The Poisson delay is a nondeterministic choice: the pacing wait either
    times out (submit) or sees stop.
- **`Sink`** models the child process.
  - Its one thread is `Receive`, dispatching on `STOP`, `FLUSH` or an
    observation, and, inside `_push`, `BulkOk` (index the batch, then
    `self._batch = []`) and `BulkFail` (retry, and raise after `MaxAttempts`
    attempts).
  - `SigInt` delivers Ctrl-C (when `UserInterrupts`). Raised in `q.get` it is
    `OnInterrupt`: the handler flushes and returns. Raised inside `_push` it
    is `KilledInPush`: `except Exception` does not catch a
    `KeyboardInterrupt`, so the process ends with its batch.
  - The parent is reduced to its messages and the join (`Send`, `SendFlush`,
    `SendStop`, `Join`).
  - A document is abstracted to the observation's number. `MaxBatch` counts
    documents, at two records each.
- **`LoadGen`** is the abstract specification: counts of requests issued,
  in flight, observed and dropped, and a stop flag that stays set. `Issue`
  is allowed only before stop, and `Drop` only after it. `Spec` adds weak
  fairness on resolving a request.
  - `WorkerPool` defines the refinement mapping `LG`:
    - `issued` is `started`;
    - `inFlight` is the number of threads between the increment and the put;
    - `observed` is `Len(results)`;
    - `stopped` is `stop`.
  - Both runners are checked against it. `ConcurrentRunner` is checked
    against `LG!Spec`. `PoissonRunner` is checked against `LG!SafetySpec`,
    because its runs assume no fairness.
- **`LinearIncrease`** EXTENDS `PoissonRunner` with the `linear_increase`
  daemon under `-n`.
  - `ParseTime` is `_parse_time`, with exact division standing for `int(float)`.
  - `LinearCheck` is the `while` test on stop. `LinearTick` is one pass after
    the sleep: before `t_start`, from `t_end` on (set the maximum and
    `break`), or on the line (`RampMean`).
  - Its clock is `reqsCurrent`, as in the code.
- **`ConcurrentHang`** EXTENDS `ConcurrentRunner` with `Hang`: a
  `session.send` that never returns (the call has no timeout). The thread
  stays in the call, and no fairness forces the hang.
- **`Pipeline`** composes `PoissonRunner` with `Sink` (`S == INSTANCE Sink`)
  the way `__main__.py` does.
  - A worker's `Put` also appends its `req_no` to the sink's queue: that is
    `QueueProxy.put`.
  - The parent is the main thread: after the report, `Push` (FLUSH), then
    `StopSink` (STOP), then the join.
  - The sink's own actions are unchanged. `CtrlC` is one step that
    interrupts the runner and delivers SIGINT to the sink: the terminal
    signals the whole process group.
  - `ExitAfterCrash`: after `Reporter.print` raised, `main()` leaves before
    `push` and `elastic.stop()`. Interpreter exit joins the executor's
    threads and then terminates the daemonic sink process.
- **`MC*`** modules define the thread model values, the sets of threads, and
  a symmetry set for the safety-only Poisson runs.

## Runs

| Run | Expect | Shows |
|-----|--------|-------|
| `concurrent` | pass | With `-c 2`, under `-n 2` or `-t`, on the atomic or the racy build, with Ctrl-C possible. On the atomic build, at most one extra request per other thread is started (`OvershootBounded`); on the racy one a lost update breaks the bound. Every run ends (`RunTerminates`). Every percentile the report prints is the closest-rank interpolation of the sorted times (`PrintedPercentilesExact`, over every list of up to four times in 0..3). The runner implements `LoadGen` with its fairness (`ImplementsLoadGen`). |
| `concurrent_hang` | violation | Under `-t`, one worker is stuck in a `session.send` that never returns. After the timeout sets stop, the other worker exits, but `list(executor.map(...))` still waits for the stuck one, so the report is never printed (`TimeoutReports`). spec.md 5 and 6 say a timeout works like Ctrl-C: running workers are not waited for and the partial report is printed. |
| `concurrent_every_observed` | violation | A request that finishes after another thread set stop at the cap is dropped. No Ctrl-C is needed. |
| `concurrent_reporter_crash` | violation | Under `-t`, the timeout can drop every observation after a response was seen, and `Reporter.print` then divides by zero. The same property also fails by the `percentile` path: with `-n 2 -c 2`, one answered request dropped at the stop check and one failed request recorded (17 states). |
| `linear_count` | pass | The linear-increase runner with three threads and `-n 3`. `range(reqs_limit)` keeps the observations within `-n` (`ResultsWithinCap`). While the scheduler waits for stop after its loop, a queued job, a running worker or the pacing wait can still end the wait (`StopReachable`). The ramp never lowers the request rate (`RateNeverDecreases`). |
| `poisson_time` | pass | Under `-t`, with three threads, Ctrl-C possible and an atomic increment, every step is a `LoadGen` step (`ImplementsLoadGenSafety`): no job issues a request after stop, and a response is dropped only after it. |
| `poisson_budget` | violation | More requests are in flight than `_max_workers`, because queued jobs are not counted and the budget starts at its maximum. |
| `poisson_lost_wakeup` | violation | The scheduler clears `ready` after the last worker set it, then waits forever. |
| `pipeline_late_put` | violation | `shutdown(wait=False)` leaves a worker running past `main()`. It puts its observation behind `elastic.stop()`'s `STOP`, after the sink has returned, so the observation is never indexed. |
| `pipeline_ctrl_c` | violation | Ctrl-C ends the sink at once while the runner is still draining. A worker that passed its stop check puts its observation into a queue nobody reads: it is in the report but never indexed. spec.md 7 says an interrupt drains and reports; spec.md 5 stops the sink after the report. |
| `sink` | pass | With Ctrl-C possible, every observation the sink takes is eventually indexed, unless a write failed for good or the interrupt hit a bulk call (`ReceivedIsIndexed`), and `elastic.stop()` returns (`StopReturns`). |
| `sink_failure_fatal` | violation | The parent ends normally after the sink died of a failed write, so the run exits 0. |

An earlier run showed three observations recorded under `-n 2 -c 2`, past
the cap. Its finding is now stated as the bound `OvershootBounded`.
`StopReachable` and `RateNeverDecreases` hold only with an atomic
increment. With `Builds = {"racy"}`, both are violated:
- a lost update leaves no worker at `req_no = reqs_limit`, so the wait of
  `queue.py:255` never returns;
- three threads' interleaved stores move the ramp's clock backwards.

Every property of a passing run has a mutant in `PROJECT.json`: a plausible
bug in a mapped definition that TLC shows breaks it. The mutants are:

- `req_no` read before the increment;
- a lost `+=`;
- `stop` ignored in the while test;
- one job too many from the range;
- one bulk attempt too many;
- the interrupt handler returning without its flush;
- `STOP` handled as `FLUSH`;
- the two interpolation weights of `percentile.get` swapped;
- stop at the cap tested with `>` instead of `>=`;
- the ramp measured from `t_end` instead of `t_start`;
- the loop ignoring stop, which breaks the refinement: an `Issue` after stop.

### Bounds

- **Threads.** Two threads are enough for every race on the counter, the
  events and the batch. Three are used where `-n 3` lets all three race.
- **`Count`.** 2 or 3 under `-n` puts the cap within reach of every
  thread. Under `-t`, `reqs_limit` is `SysMaxsize = MaxRequests + 1`: out
  of reach, so stop comes only from the timeout.
- **`MaxRequests`** (3–4) caps `started` and `submitted`. It is above the
  largest number the code can start under these caps (`Count + threads - 1`):
  in `concurrent` it is 4, one past the bound of 3, so that a counting bug
  can show. Under `-t` it is the only bound.
- **Linear ramp.** `-n 3` with `--t-start 1` and `--t-end 100%` (3), and
  throughputs 1 and 4, give two points on the line and the jump to the
  maximum. `ParseTime`'s exact division agrees with the float for these
  arguments.
- **Pipeline.** Two threads and `-n 2` give one thread setting stop at the
  cap while the other has passed its stop check.
- **Sink.** `NumObs = 3` and `MaxBatch = 2` give one push at the size limit,
  one left for `FLUSH`, and Ctrl-C landing before, between and inside both.
  `MaxAttempts = 3` is the code's `range(3)`.

### Fairness

- **Concurrent runner.**
  - Worker threads, the timeout daemon and the main thread's steps are
    weakly fair. They are runnable threads, and the HTTP call is assumed to
    return (the code sets no timeout). `concurrent_hang` drops that
    assumption for one call: `Hang` has no fairness.
  - Ctrl-C is never forced.
- **Sink.** The parent, the sink's `Receive` and its bulk steps are weakly
  fair: both are runnable processes, and the Elasticsearch client times a
  bulk call out. Ctrl-C is never forced.
- **Poisson runner.** The runs check safety only and assume no fairness.
  They set `CHECK_DEADLOCK FALSE` because the lost wakeup really does leave
  the main thread blocked.
- **Symmetry.** `SYMMETRY` is used only in the safety-only Poisson runs.

## Not modelled

- **`periodic_flush`.** It is defined inside `elastic_reporter` but no
  thread is ever started for it, so the sink has no timer: spec.md 4.9's
  flush every 10 s does not happen. Observations below 32 records wait for
  `FLUSH`, `STOP` or Ctrl-C. `ReceivedIsIndexed` holds because the parent
  always sends them; a parent hung in the lost wakeup (`poisson_lost_wakeup`)
  would leave them unwritten. That composition has no run of its own.
- **`sustain_throughput`.** It only rescales the float `mean_req_time`, the
  pacing delay. The Poisson model already treats the delay as a
  nondeterministic choice, so the controller adds no behaviour to the
  coordination state. `VariablePoissonQueueRunner.vary_throughput` is an
  empty TODO.
- **`graph`.** `Reporter.print` calls it only under `--graph`, and its first
  call site, `x[1]-x[0]` on the `WorkerResult` dataclass (`report.py:111`),
  always raises `TypeError` first. The module-level function `percentile`
  is shadowed by the class of the same name and is never called.
- **`LinearIncrease` under `-t`.** The wall clock and the float rounding of
  `_parse_time`. The division by the default `min_throughput = 0` is a crash
  at construction and is listed as a hazard.
- **`parallel.py`.** It launches one runner process per argument set,
  waits for each and prints their output. It shares no state with the
  runners beyond their pipes and exit, so there is no interleaving for a
  model to add.
- **The CLI parsing and the formatting in `Reporter.print`.** These are I/O
  with no concurrent state.
