--------------------------- MODULE ConcurrentHang ---------------------------
(***************************************************************************)
(* ConcurrentRunner when a server never answers.  request_worker calls     *)
(* session.send(req) with no timeout argument, and requests sets none by  *)
(* default, so a connection the server accepts and then leaves silent      *)
(* blocks the executor thread in the call for good: the stop event is not *)
(* looked at until the call returns.  Everything else is ConcurrentRunner, *)
(* with its fairness: every thread that can step does.                     *)
(***************************************************************************)
EXTENDS ConcurrentRunner

(* session.send(req) never returns: the thread stays in the HTTP call.      *)
Hang(t) ==
  /\ wpc[t] = "send"
  /\ Move(t, "hung")
  /\ UNCHANGED <<reqsCurrent, stop, ready, results, lastResponse, tmp, reqNo,
                 timer, racy, started, dropped, status, reqsT, mainPc>>

HangNext == Next \/ \E t \in Threads : Hang(t)

(* A hang is possible, never forced: no fairness on Hang.                    *)
HangSpec == Init /\ [][HangNext]_vars /\ Fairness

-----------------------------------------------------------------------------
(* spec.md 5 and 6: when the -t budget runs out the run is stopped as on   *)
(* Ctrl-C, the running workers are not waited for, and the scheduler still *)
(* yields the Result so that Reporter.print prints the partial report.     *)
(* ConcurrentQueueRunner.run instead waits in list(executor.map(...)) for  *)
(* every request_worker to return before its finally block runs.           *)
TimeoutReports == timer = "fired" ~> mainPc \in {"reported", "crashed"}

=============================================================================
