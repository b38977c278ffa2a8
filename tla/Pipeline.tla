------------------------------ MODULE Pipeline ------------------------------
(***************************************************************************)
(* The whole run of __main__.py with the Poisson runner: elastic.start,  *)
(* main() (the runner's `with` block, Reporter.print, Reporter.push), then *)
(* elastic.stop().  The runner is PoissonRunner, the child process is Sink *)
(* with its parent replaced by the main thread; the two meet in           *)
(* QueueProxy.put, which writes each observation both to workers.results  *)
(* and to the sink's mp.Queue, and in Ctrl-C, which both processes get.    *)
(***************************************************************************)
EXTENDS PoissonRunner

CONSTANTS MaxBatch, MaxAttempts, FLUSH, STOP

VARIABLES inbox, batch, indexed, spc, cont, attempts, sigint, received, prod

sinkVars == <<inbox, batch, indexed, spc, cont, attempts, sigint, received, prod>>
pvars == <<vars, sinkVars>>

(* The sink process; observations are req_no values up to MaxRequests and  *)
(* the parent sends no observation of its own (nextObs is unused).         *)
S == INSTANCE Sink WITH NumObs <- MaxRequests, nextObs <- 1

PipelineInit == Init /\ S!Init

(* A worker step; results.put is QueueProxy.put: `_queue.put(item)` and   *)
(* `_data.append(item[1])`.                                                 *)
PipeWorker(t) ==
  \/ /\ Put(t)
     /\ inbox' = Append(inbox, reqNo[t])
     /\ UNCHANGED <<runnerVars, batch, indexed, spc, cont, attempts, sigint, received, prod>>
  \/ /\ wpc[t] # "put"
     /\ WorkerStep(t)
     /\ UNCHANGED <<runnerVars, sinkVars>>

(* Reporter.push after a report that did not raise: elastic.flush().  A  *)
(* ZeroDivisionError in Reporter.print leaves main() before push and stop. *)
Push ==
  /\ sched = "reported"
  /\ prod = "run"
  /\ inbox' = Append(inbox, FLUSH)
  /\ prod' = "stop"
  /\ UNCHANGED <<vars, batch, indexed, spc, cont, attempts, sigint, received>>

(* elastic.stop(): `_q.put('STOP')`, then `_p.join()` (Sink's Join).       *)
StopSink ==
  /\ prod = "stop"
  /\ inbox' = Append(inbox, STOP)
  /\ prod' = "join"
  /\ UNCHANGED <<vars, batch, indexed, spc, cont, attempts, sigint, received>>

(* Reporter.print raised inside the `with` block, so main() leaves before *)
(* push and __main__ never reaches elastic.stop().  Interpreter exit first *)
(* joins the executor's threads, then multiprocessing's exit handler      *)
(* terminates the daemonic sink process (Process(daemon=True)): it dies   *)
(* where it is, with its batch and the rest of its queue.                  *)
ExitAfterCrash ==
  /\ sched = "crashed"
  /\ prod = "run"
  /\ \A t \in Threads : wpc[t] = "idle"
  /\ ~S!Ended
  /\ spc' = "terminated"
  /\ prod' = "exited"
  /\ UNCHANGED <<vars, inbox, batch, indexed, cont, attempts, sigint, received>>

Parent == Push \/ StopSink \/ ExitAfterCrash \/ (S!Join /\ UNCHANGED vars)

SinkProcess == (S!Receive \/ S!SinkStep) /\ UNCHANGED vars

(* Ctrl-C: SIGINT goes to the whole foreground process group, so the      *)
(* runner's KeyboardInterrupt and the sink's are one event.               *)
CtrlC == Interrupt /\ S!SigInt

PipelineNext ==
  \/ \E t \in Threads : PipeWorker(t) \/ (StartJob(t) /\ UNCHANGED sinkVars)
  \/ (Timeout \/ Scheduler \/ SlowStart) /\ UNCHANGED sinkVars
  \/ CtrlC
  \/ Parent
  \/ SinkProcess

PipelineSpec == PipelineInit /\ [][PipelineNext]_pvars

-----------------------------------------------------------------------------
(* An observation is deliverable while it waits in the queue ahead of any *)
(* 'STOP' and the sink is still reading: the loop returns at the first    *)
(* 'STOP' it reads, and at a KeyboardInterrupt.                            *)
Deliverable(n) ==
  /\ spc \in {"get", "push"} /\ sigint = "none"
  /\ \E i \in DOMAIN inbox : inbox[i] = n /\ \A j \in 1..i-1 : inbox[j] # STOP

(* spec.md 1 and 4.9: every observation is streamed to the document store *)
(* unless a bulk write failed for good: each one put is indexed, or held   *)
(* by a sink process that is still alive (it flushes its batch on STOP),  *)
(* or still ahead of 'STOP' in its queue.                                  *)
ObservationsReachSink ==
  spc # "crashed" =>
     \A i \in DOMAIN results :
        \/ results[i] \in indexed
        \/ results[i] \in received /\ spc \notin {"killed", "terminated"}
        \/ Deliverable(results[i])

=============================================================================
