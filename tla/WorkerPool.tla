----------------------------- MODULE WorkerPool -----------------------------
(***************************************************************************)
(* The shared coordination state of runner/workers.py and the two threads *)
(* that module runs: request_worker, executed by every executor thread,    *)
(* and timeout_worker, the daemon that asserts the stop event after -t     *)
(* seconds.  The schedulers of runner/queue.py EXTEND this module and add  *)
(* the thread that hands request_worker to the executor.                   *)
(*                                                                         *)
(* An observation is abstracted to the req_no of the request it reports;  *)
(* headers, bodies, gzip and timings are left out: no property tells them *)
(* apart.  The outcome of the HTTP call is kept only as far as it sets     *)
(* workers.last_response, which the reporter reads.                        *)
(***************************************************************************)
EXTENDS Naturals, Sequences, FiniteSets

CONSTANTS
  Threads,        \* the executor threads that run request_worker
  Count,          \* COUNT of -n
  Terminations,   \* the termination flags a run may be given: "n" (-n COUNT) and/or
                  \* "t" (-t SECONDS); the two are mutually exclusive on the command line
  Looping,        \* TRUE when next_delay is a function (concurrent runner),
                  \* FALSE when it is None (Poisson runners): one request per job
  Builds,         \* the interpreter builds a run may execute on: "atomic", where
                  \* `_reqs_current += 1` is never preempted, and/or "racy", where a
                  \* switch may fall between its load and its store (CPython <= 3.9,
                  \* free-threaded builds)
  MaxRequests,    \* model bound: at most MaxRequests passes of the while loop
  UserInterrupts  \* TRUE when the user may press Ctrl-C during the run

ASSUME
  /\ Threads # {}
  /\ Count \in Nat \ {0}
  /\ Terminations # {} /\ Terminations \subseteq {"n", "t"}
  /\ Builds # {} /\ Builds \subseteq {"atomic", "racy"}
  /\ Looping \in BOOLEAN
  /\ UserInterrupts \in BOOLEAN
  /\ MaxRequests \in Nat

VARIABLES
  reqsCurrent,   \* workers._reqs_current
  stop,          \* workers._stop_ev is set
  ready,         \* workers._ready_ev is set
  results,       \* workers.results (QueueProxy._data): req_no of each observation, in put order
  lastResponse,  \* workers.last_response # None
  wpc,           \* per thread: the point of request_worker it has reached, "idle" outside it
  tmp,           \* per thread: _reqs_current as loaded by `+=` (racy increment only)
  reqNo,         \* per thread: the local req_no
  timer,         \* timeout_worker: "sleeping", "fired", or "off" when there is no -t
  started,       \* ghost: passes of the while loop, i.e. HTTP requests begun
  dropped,       \* ghost: responses received whose observation was never put
  status,        \* per thread: the local status_code, "ok" for a response, "fail" for -1
  reqsT,         \* observations put with status_code # -1: len(reqs_t) in Reporter.print
  racy           \* the build the run executes on is "racy" (fixed for the run)

poolVars == <<reqsCurrent, stop, ready, results, lastResponse, wpc, tmp, reqNo,
              timer, started, dropped, status, reqsT, racy>>

WorkerStates == {"idle", "loop", "inc", "store", "reread", "send", "check", "put", "limit", "exit"}

Move(t, to) == wpc' = [wpc EXCEPT ![t] = to]

(* sys.maxsize, the reqs_limit of a -t run: beyond MaxRequests.             *)
SysMaxsize == MaxRequests + 1

(* workers.reqs_limit as QueueRunner.__init__ sets it: COUNT under -n,     *)
(* sys.maxsize under -t.  A -t run is the one whose timeout daemon sleeps. *)
ReqsLimit == IF timer = "off" THEN Count ELSE SysMaxsize

-----------------------------------------------------------------------------
(* workers.setup/reset followed by the daemons' start: counters at zero,   *)
(* both events clear, timeout_worker asleep exactly under -t.  The runner *)
(* chooses where its threads begin.                                        *)
PoolInit(threadStart) ==
  /\ reqsCurrent = 0
  /\ stop = FALSE
  /\ ready = FALSE
  /\ results = <<>>
  /\ lastResponse = FALSE
  /\ wpc = [t \in Threads |-> threadStart]
  /\ tmp = [t \in Threads |-> 0]
  /\ reqNo = [t \in Threads |-> 0]
  /\ timer \in {IF m = "t" THEN "sleeping" ELSE "off" : m \in Terminations}
  /\ started = 0
  /\ dropped = 0
  /\ status = [t \in Threads |-> "ok"]
  /\ reqsT = 0
  /\ racy \in {b = "racy" : b \in Builds}

(* Mutants of KeepLooping: `<=` for `<`, and the stop test dropped.         *)
KeepLoopingOffByOne == ~stop /\ reqsCurrent <= ReqsLimit
KeepLoopingIgnoresStop == reqsCurrent < ReqsLimit

(* `while not _stop_ev.is_set() and _reqs_current < reqs_limit`.          *)
KeepLooping == ~stop /\ reqsCurrent < ReqsLimit

Loop(t) ==
  /\ wpc[t] = "loop"
  /\ IF KeepLooping
       THEN /\ started < MaxRequests
            /\ Move(t, "inc")
            /\ started' = started + 1
       ELSE /\ Move(t, "exit")
            /\ UNCHANGED started
  /\ UNCHANGED <<reqsCurrent, stop, ready, results, lastResponse, tmp, reqNo, timer, racy, dropped, status, reqsT>>

(* Mutant of Increment: req_no is taken but `_reqs_current += 1` is lost.  *)
IncrementUncounted(t) ==
  /\ wpc[t] = "inc"
  /\ ~racy
  /\ reqNo' = [reqNo EXCEPT ![t] = reqsCurrent + 1]
  /\ Move(t, "send")
  /\ UNCHANGED <<reqsCurrent, stop, ready, results, lastResponse, tmp, timer, racy, started, dropped, status, reqsT>>

(* Mutant of Increment: req_no read before the increment.                  *)
IncrementSwapped(t) ==
  /\ wpc[t] = "inc"
  /\ ~racy
  /\ reqsCurrent' = reqsCurrent + 1
  /\ reqNo' = [reqNo EXCEPT ![t] = reqsCurrent]
  /\ Move(t, "send")
  /\ UNCHANGED <<stop, ready, results, lastResponse, tmp, timer, racy, started, dropped, status, reqsT>>

(* `_reqs_current += 1; req_no = _reqs_current` run without a thread       *)
(* switch (the interpreter only switches at calls and backward jumps).     *)
Increment(t) ==
  /\ wpc[t] = "inc"
  /\ ~racy
  /\ reqsCurrent' = reqsCurrent + 1
  /\ reqNo' = [reqNo EXCEPT ![t] = reqsCurrent + 1]
  /\ Move(t, "send")
  /\ UNCHANGED <<stop, ready, results, lastResponse, tmp, timer, racy, started, dropped, status, reqsT>>

(* The same statements when a switch may fall between the load of         *)
(* _reqs_current and the store of the incremented value.                   *)
IncLoad(t) ==
  /\ wpc[t] = "inc"
  /\ racy
  /\ tmp' = [tmp EXCEPT ![t] = reqsCurrent]
  /\ Move(t, "store")
  /\ UNCHANGED <<reqsCurrent, stop, ready, results, lastResponse, reqNo, timer, racy, started, dropped, status, reqsT>>

(* The store of the incremented value; the loaded value is dead after it   *)
(* and is cleared.                                                          *)
IncStore(t) ==
  /\ wpc[t] = "store"
  /\ reqsCurrent' = tmp[t] + 1
  /\ tmp' = [tmp EXCEPT ![t] = 0]
  /\ Move(t, "reread")
  /\ UNCHANGED <<stop, ready, results, lastResponse, reqNo, timer, racy, started, dropped, status, reqsT>>

(* `req_no = _reqs_current`: a fresh read of the global, which another    *)
(* thread's store may already have changed.                                *)
ReadReqNo(t) ==
  /\ wpc[t] = "reread"
  /\ reqNo' = [reqNo EXCEPT ![t] = reqsCurrent]
  /\ Move(t, "send")
  /\ UNCHANGED <<reqsCurrent, stop, ready, results, lastResponse, tmp, timer, racy, started, dropped, status, reqsT>>

(* Body choice, gzip, the HTTP call and its except branch, and the         *)
(* heartbeat print.  A response that comes back (any status) becomes       *)
(* last_response; a transport error leaves it as it was and sets          *)
(* status_code = -1.                                                        *)
Send(t) ==
  /\ wpc[t] = "send"
  /\ \E answered \in BOOLEAN :
        /\ lastResponse' = (lastResponse \/ answered)
        /\ status' = [status EXCEPT ![t] = IF answered THEN "ok" ELSE "fail"]
  /\ Move(t, "check")
  /\ UNCHANGED <<reqsCurrent, stop, ready, results, tmp, reqNo, timer, racy, started, dropped, reqsT>>

(* `if _stop_ev.is_set(): break` between the response and results.put.    *)
(* On the break, req_no and status_code are dead and are cleared (as after *)
(* put and the cap test), so that states differing only in them coincide. *)
CheckStop(t) ==
  /\ wpc[t] = "check"
  /\ IF stop
       THEN /\ Move(t, "exit") /\ dropped' = dropped + 1
            /\ reqNo' = [reqNo EXCEPT ![t] = 0] /\ status' = [status EXCEPT ![t] = "ok"]
       ELSE Move(t, "put") /\ UNCHANGED <<dropped, reqNo, status>>
  /\ UNCHANGED <<reqsCurrent, stop, ready, results, lastResponse, tmp, timer, racy, started, reqsT>>

(* results.put(uuid, WorkerResult(...)).                                    *)
Put(t) ==
  /\ wpc[t] = "put"
  /\ results' = Append(results, reqNo[t])
  /\ reqsT' = IF status[t] = "ok" THEN reqsT + 1 ELSE reqsT
  /\ status' = [status EXCEPT ![t] = "ok"]
  /\ Move(t, "limit")
  /\ UNCHANGED <<reqsCurrent, stop, ready, lastResponse, tmp, reqNo, timer, racy, started, dropped>>

(* Mutant of Limit: `>` for `>=` in the cap test.                           *)
LimitOffByOne(t) ==
  /\ wpc[t] = "limit"
  /\ stop' = (stop \/ reqNo[t] > ReqsLimit)
  /\ reqNo' = [reqNo EXCEPT ![t] = 0]
  /\ Move(t, IF Looping THEN "loop" ELSE "exit")
  /\ UNCHANGED <<reqsCurrent, ready, results, lastResponse, tmp, timer, racy, started, dropped, status, reqsT>>

(* `if req_no >= reqs_limit: _stop_ev.set()`, then next_delay: None ends  *)
(* the job, a delay is waited against stop and the loop goes on.           *)
Limit(t) ==
  /\ wpc[t] = "limit"
  /\ stop' = (stop \/ reqNo[t] >= ReqsLimit)
  /\ reqNo' = [reqNo EXCEPT ![t] = 0]
  /\ Move(t, IF Looping THEN "loop" ELSE "exit")
  /\ UNCHANGED <<reqsCurrent, ready, results, lastResponse, tmp, timer, racy, started, dropped, status, reqsT>>

(* `_ready_ev.set()` after the loop; the thread returns to the executor.   *)
Exit(t) ==
  /\ wpc[t] = "exit"
  /\ ready' = TRUE
  /\ Move(t, "idle")
  /\ UNCHANGED <<reqsCurrent, stop, results, lastResponse, tmp, reqNo, timer, racy, started, dropped, status, reqsT>>

(* timeout_worker: sleep(limit) then _stop_ev.set().                        *)
TimeoutFires ==
  /\ timer = "sleeping"
  /\ timer' = "fired"
  /\ stop' = TRUE
  /\ UNCHANGED <<reqsCurrent, ready, results, lastResponse, wpc, tmp, reqNo, started, dropped, status, reqsT, racy>>

WorkerStep(t) ==
  \/ Loop(t) \/ Increment(t) \/ IncLoad(t) \/ IncStore(t) \/ ReadReqNo(t) \/ Send(t)
  \/ CheckStop(t) \/ Put(t) \/ Limit(t) \/ Exit(t)

(* Reporter.print, after `No requests were made.` when last_response is   *)
(* None: t_reqs_t / len(workers.results) raises ZeroDivisionError when no  *)
(* observation was put, and int(1000*perc.get(0.5)) raises TypeError when  *)
(* none has status_code # -1, since percentile.get returns None for an    *)
(* empty reqs_t.                                                            *)
PrintFails == lastResponse /\ (results = <<>> \/ reqsT = 0)

-----------------------------------------------------------------------------
PoolTypeOK ==
  /\ reqsCurrent \in Nat
  /\ stop \in BOOLEAN /\ ready \in BOOLEAN /\ lastResponse \in BOOLEAN
  /\ results \in Seq(1..MaxRequests)
  /\ wpc \in [Threads -> WorkerStates]
  /\ tmp \in [Threads -> Nat] /\ reqNo \in [Threads -> Nat]
  /\ timer \in {"sleeping", "fired", "off"}
  /\ racy \in BOOLEAN
  /\ started \in 0..MaxRequests /\ dropped \in Nat
  /\ status \in [Threads -> {"ok", "fail"}] /\ reqsT \in 0..Len(results)

(* Threads that have begun an HTTP request and not yet put or dropped it. *)
InRequest == {t \in Threads : wpc[t] \in {"inc", "store", "reread", "send", "check", "put"}}

(* The refinement mapping to the abstract kernel: a pass of the while test *)
(* issues a request, results.put observes it, the stop check drops it.     *)
LG == INSTANCE LoadGen WITH
        issued <- started, inFlight <- Cardinality(InRequest),
        observed <- Len(results), dropped <- dropped, stopped <- stop

=============================================================================
