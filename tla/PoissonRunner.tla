---------------------------- MODULE PoissonRunner ----------------------------
(***************************************************************************)
(* PoissonQueueRunner.run and slow_start (runner/queue.py): the main      *)
(* thread paces submissions of one-request jobs to a ThreadPoolExecutor    *)
(* whose threads run request_worker with next_delay = None; before each    *)
(* pacing wait it compares its in-flight estimate                          *)
(* `_reqs_current - len(results)` with the slow-start budget              *)
(* `_max_workers` and, when at the budget, clears the ready event and      *)
(* waits for a worker to set it.  The slow_start daemon raises the budget  *)
(* by one per second from 1 up to the pool size.  The Poisson delay is a  *)
(* nondeterministic wait against stop.  Sustained and linear-increase     *)
(* variants run this same loop; their controller daemons only change       *)
(* mean_req_time, which this model does not need.                          *)
(***************************************************************************)
EXTENDS WorkerPool, Integers

VARIABLES
  sched,      \* the main thread's point in run()
  submitted,  \* jobs handed to executor.submit (the `for _ in range` index)
  pending,    \* jobs in executor._work_queue not yet taken by a thread
  maxW,       \* self._max_workers, the slow-start budget
  ss,         \* slow_start daemon: "start", "loop", "waitready", "done"
  curRead     \* workers._reqs_current as read by the estimate, before len(results)

runnerVars == <<sched, submitted, pending, maxW, ss, curRead>>
vars == <<poolVars, runnerVars>>

(* self.max_workers: the executor's size and the slow-start ceiling.      *)
PoolCap == Cardinality(Threads)

SchedStates == {"read", "len", "clear", "waitready", "wait", "submit", "after",
                "final", "report", "reported", "crashed"}

Init ==
  /\ PoolInit("idle")
  /\ sched = "read"
  /\ submitted = 0
  /\ pending = 0
  /\ maxW = PoolCap
  /\ ss = "start"
  /\ curRead = 0

-----------------------------------------------------------------------------
(* Mutant of RangeExhausted: one job too many.                              *)
RangeExhaustedOffByOne == submitted > ReqsLimit

(* `for _ in range(self.reqs_limit)` has run out.                          *)
RangeExhausted == submitted >= ReqsLimit

(* Top of the loop: the range test, then the first read of the estimate  *)
(* `workers._reqs_current - len(workers.results)`.                        *)
SchedRead ==
  /\ sched = "read"
  /\ IF RangeExhausted
       THEN sched' = "after" /\ UNCHANGED curRead
       ELSE sched' = "len" /\ curRead' = reqsCurrent
  /\ UNCHANGED <<poolVars, submitted, pending, maxW, ss>>

(* The call len(workers.results), where another thread may run first, and *)
(* the comparison with the budget; the value read is dead after it.        *)
SchedCompare ==
  /\ sched = "len"
  /\ sched' = IF curRead - Len(results) >= maxW THEN "clear" ELSE "wait"
  /\ curRead' = 0
  /\ UNCHANGED <<poolVars, submitted, pending, maxW, ss>>

(* workers._ready_ev.clear()                                               *)
SchedClear ==
  /\ sched = "clear"
  /\ ready' = FALSE
  /\ sched' = "waitready"
  /\ UNCHANGED <<reqsCurrent, stop, results, lastResponse, wpc, tmp, reqNo,
                 timer, racy, started, dropped, status, reqsT, submitted, pending, maxW, ss, curRead>>

(* workers._ready_ev.wait(): no timeout, blind to stop.                    *)
SchedAwaitReady ==
  /\ sched = "waitready"
  /\ ready
  /\ sched' = "wait"
  /\ UNCHANGED <<poolVars, submitted, pending, maxW, ss, curRead>>

(* `if workers._stop_ev.wait(self.next_delay()): break`.  A delay that     *)
(* runs out leads to a submission; the model allows MaxRequests of them.   *)
SchedWait ==
  /\ sched = "wait"
  /\ \/ stop /\ sched' = "after"
     \/ ~stop /\ submitted < MaxRequests /\ sched' = "submit"
  /\ UNCHANGED <<poolVars, submitted, pending, maxW, ss, curRead>>

(* self.executor.submit(workers.request_worker, ...)                       *)
SchedSubmit ==
  /\ sched = "submit"
  /\ pending' = pending + 1
  /\ submitted' = submitted + 1
  /\ sched' = "read"
  /\ UNCHANGED <<poolVars, maxW, ss, curRead>>

(* After the loop: workers._stop_ev.wait().                                *)
SchedAfter ==
  /\ sched = "after"
  /\ stop
  /\ sched' = "final"
  /\ UNCHANGED <<poolVars, submitted, pending, maxW, ss, curRead>>

(* KeyboardInterrupt anywhere in the try block: `_stop_ev.set()`.          *)
Interrupt ==
  /\ UserInterrupts
  /\ sched \in {"read", "len", "clear", "waitready", "wait", "submit", "after"}
  /\ stop' = TRUE
  /\ sched' = "final"
  /\ UNCHANGED <<reqsCurrent, ready, results, lastResponse, wpc, tmp, reqNo,
                 timer, racy, started, dropped, status, reqsT, submitted, pending, maxW, ss, curRead>>

(* finally: executor.shutdown(wait=False, cancel_futures=True) drops the   *)
(* queued jobs; running ones go on.                                         *)
Shutdown ==
  /\ sched = "final"
  /\ pending' = 0
  /\ sched' = "report"
  /\ UNCHANGED <<poolVars, submitted, maxW, ss, curRead>>

(* Reporter.print, as in ConcurrentRunner.                                  *)
Report ==
  /\ sched = "report"
  /\ sched' = IF PrintFails THEN "crashed" ELSE "reported"
  /\ UNCHANGED <<poolVars, submitted, pending, maxW, ss, curRead>>

(* An idle executor thread takes the next queued job.                       *)
StartJob(t) ==
  /\ wpc[t] = "idle"
  /\ pending > 0
  /\ pending' = pending - 1
  /\ Move(t, "loop")
  /\ UNCHANGED <<reqsCurrent, stop, ready, results, lastResponse, tmp, reqNo,
                 timer, racy, started, dropped, status, reqsT, sched, submitted, maxW, ss, curRead>>

-----------------------------------------------------------------------------
(* slow_start: `self._max_workers = 1`, then once a second, while stop is *)
(* clear: leave at the ceiling, else wait for ready if it is clear, and    *)
(* raise the budget by one.                                                 *)
SlowStartBegin ==
  /\ ss = "start"
  /\ maxW' = 1
  /\ ss' = "loop"
  /\ UNCHANGED <<poolVars, sched, submitted, pending, curRead>>

SlowStartTick ==
  /\ ss = "loop"
  /\ ~stop
  /\ CASE maxW >= PoolCap -> ss' = "done" /\ UNCHANGED maxW
       [] ready           -> maxW' = maxW + 1 /\ UNCHANGED ss
       [] OTHER           -> ss' = "waitready" /\ UNCHANGED maxW
  /\ UNCHANGED <<poolVars, sched, submitted, pending, curRead>>

SlowStartAwaitReady ==
  /\ ss = "waitready"
  /\ ready
  /\ maxW' = maxW + 1
  /\ ss' = "loop"
  /\ UNCHANGED <<poolVars, sched, submitted, pending, curRead>>

SlowStartStop ==
  /\ ss = "loop"
  /\ stop
  /\ ss' = "done"
  /\ UNCHANGED <<poolVars, sched, submitted, pending, maxW, curRead>>

-----------------------------------------------------------------------------
Worker(t) == WorkerStep(t) /\ UNCHANGED runnerVars

Timeout == TimeoutFires /\ UNCHANGED runnerVars

Scheduler ==
  \/ SchedRead \/ SchedCompare \/ SchedClear \/ SchedAwaitReady \/ SchedWait \/ SchedSubmit
  \/ SchedAfter \/ Shutdown \/ Report

SlowStart == SlowStartBegin \/ SlowStartTick \/ SlowStartAwaitReady \/ SlowStartStop

Next ==
  \/ \E t \in Threads : Worker(t) \/ StartJob(t)
  \/ Timeout
  \/ Scheduler \/ Interrupt
  \/ SlowStart

Spec == Init /\ [][Next]_vars

-----------------------------------------------------------------------------
TypeOK ==
  /\ PoolTypeOK
  /\ sched \in SchedStates
  /\ submitted \in 0..MaxRequests
  /\ pending \in 0..MaxRequests
  /\ maxW \in 1..PoolCap
  /\ ss \in {"start", "loop", "waitready", "done"}
  /\ curRead \in 0..MaxRequests

(* spec.md 3: results_count <= request_cap under -n.  request_worker's own *)
(* check of _reqs_current races with the other threads; the cap rests on    *)
(* the scheduler's range(reqs_limit).                                       *)
ResultsWithinCap == Len(results) <= ReqsLimit

(* spec.md 4.5: backpressure keeps the HTTP requests in flight within the  *)
(* slow-start budget _max_workers.                                          *)
InFlightWithinBudget == Cardinality({t \in Threads : wpc[t] = "send"}) <= maxW

(* The Poisson runner implements the safety part of LoadGen: its one-shot  *)
(* jobs issue requests only before stop and drop responses only after it.  *)
ImplementsLoadGenSafety == LG!SafetySpec

(* When the scheduler blocks on the ready event, someone is left to set   *)
(* it: a thread inside request_worker or a queued job.                     *)
NoLostWakeup ==
  (sched = "waitready" /\ ~ready) =>
     (pending > 0 \/ \E t \in Threads : wpc[t] # "idle")

(* spec.md 4.6: under -n the scheduler waits on stop after its last        *)
(* submission, with no timeout.  Whenever it is waiting there, someone is  *)
(* left who will set stop: the timeout daemon, a queued job or a thread   *)
(* still inside request_worker.                                             *)
StopReachable ==
  (sched = "after" /\ ~stop) =>
     (timer = "sleeping" \/ pending > 0 \/ \E t \in Threads : wpc[t] # "idle")

=============================================================================
