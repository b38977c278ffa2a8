-------------------------- MODULE ConcurrentRunner --------------------------
(***************************************************************************)
(* ConcurrentQueueRunner.run (runner/queue.py): `concurrency` threads each *)
(* run the request_worker loop back to back while the main thread waits   *)
(* in executor.map; then the finally block shuts the executor down and    *)
(* yields the Result to Reporter.print (runner/report.py).                 *)
(***************************************************************************)
EXTENDS WorkerPool, ReportHelpers

VARIABLE
  mainPc   \* the main thread: "map", "final", "report", "reported", "crashed"

vars == <<poolVars, mainPc>>

(* QueueRunner.run has reset the shared state and started timeout_worker;  *)
(* executor.map has handed request_worker to every thread.                 *)
Init ==
  /\ PoolInit("loop")
  /\ mainPc = "map"

(* list(executor.map(...)) returns once every worker has returned.         *)
MapReturns ==
  /\ mainPc = "map"
  /\ \A t \in Threads : wpc[t] = "idle"
  /\ mainPc' = "final"
  /\ UNCHANGED poolVars

(* Ctrl-C raises KeyboardInterrupt in the main thread: `_stop_ev.set()`.   *)
Interrupt ==
  /\ UserInterrupts
  /\ mainPc = "map"
  /\ stop' = TRUE
  /\ mainPc' = "final"
  /\ UNCHANGED <<reqsCurrent, ready, results, lastResponse, wpc, tmp, reqNo,
                 timer, racy, started, dropped, status, reqsT>>

(* finally: executor.shutdown(wait=False, cancel_futures=True); yield.     *)
(* No job is queued: every thread received its job at map time.           *)
Shutdown ==
  /\ mainPc = "final"
  /\ mainPc' = "report"
  /\ UNCHANGED poolVars

(* Reporter.print (PrintFails).                                           *)
Report ==
  /\ mainPc = "report"
  /\ mainPc' = IF PrintFails THEN "crashed" ELSE "reported"
  /\ UNCHANGED poolVars

Worker(t) == WorkerStep(t) /\ UNCHANGED mainPc

Timeout == TimeoutFires /\ UNCHANGED mainPc

Finished == mainPc \in {"reported", "crashed"} /\ \A t \in Threads : wpc[t] = "idle"

(* The process exits after the report: stuttering, not a deadlock.          *)
Terminating == Finished /\ UNCHANGED vars

Next ==
  \/ \E t \in Threads : Worker(t)
  \/ Timeout
  \/ MapReturns \/ Interrupt \/ Shutdown \/ Report
  \/ Terminating

(* Threads, the sleeping timeout daemon and the main thread all progress; *)
(* the HTTP call is assumed to return.  Ctrl-C is the user's, never forced. *)
Fairness ==
  /\ \A t \in Threads : WF_vars(Worker(t))
  /\ WF_vars(Timeout)
  /\ WF_vars(MapReturns) /\ WF_vars(Shutdown) /\ WF_vars(Report)

Spec == Init /\ [][Next]_vars /\ Fairness

-----------------------------------------------------------------------------
TypeOK ==
  /\ PoolTypeOK
  /\ mainPc \in {"map", "final", "report", "reported", "crashed"}

(* The while condition and the increment are separate steps, so every     *)
(* thread can pass the check at _reqs_current = reqs_limit - 1.  On a      *)
(* build where the increment is atomic, the overshoot past reqs_limit is   *)
(* at most one request per other thread.  (On a racy build a lost update  *)
(* lets _reqs_current fall behind the requests sent, and the bound fails.) *)
OvershootBounded == ~racy => started <= ReqsLimit + Cardinality(Threads) - 1

(* spec.md 3: every request that was started produces exactly one          *)
(* observation, so when the run is over the results hold one per request. *)
EveryRequestObserved == Finished => Len(results) = started

(* Reporter.print never fails: when a response was received there is some *)
(* observation to average over and some service time to take percentiles  *)
(* of.                                                                      *)
ReporterNeverCrashes == mainPc # "crashed"

(* Reporter.print's percentile table is right whenever it is printed:     *)
(* percentile(reqs_t).get(p) for each of its eight percents is the linear  *)
(* interpolation between the closest ranks of the sorted service times     *)
(* (ReportHelpers, over every list of up to four times).                    *)
PrintedPercentilesExact == mainPc = "reported" => PercentileMatchesReference

(* The concurrent runner implements the abstract kernel LoadGen: no loop   *)
(* issues a request once stop is set, a response is dropped only after     *)
(* stop, stop is never cleared, and every request in flight is resolved.   *)
ImplementsLoadGen == LG!Spec

(* The run ends: the report is printed and every worker thread returned.  *)
RunTerminates == <>Finished

=============================================================================
