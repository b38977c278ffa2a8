-------------------------------- MODULE Sink --------------------------------
(***************************************************************************)
(* The Elasticsearch reporter of runner/elastic.py.  A child process runs *)
(* elastic_reporter: one thread takes messages from the mp.Queue (an       *)
(* observation, 'FLUSH' or 'STOP') and feeds one ElasticBatch, whose       *)
(* _push makes up to three bulk calls and resets the batch after the      *)
(* first that succeeds.  periodic_flush is defined but no thread is ever  *)
(* started for it, so the sink flushes only at _max_size, on 'FLUSH', on  *)
(* 'STOP', and on a KeyboardInterrupt raised in q.get.                     *)
(*                                                                         *)
(* Ctrl-C reaches the child process too (same process group).  Where the  *)
(* interrupt is raised decides what happens: in q.get it is caught,        *)
(* flushed and the loop returns; in _push it is not an Exception, so it    *)
(* escapes the retry loop and ends the process with its batch.             *)
(*                                                                         *)
(* The parent process is reduced to what it sends: observations (from     *)
(* request_worker), 'FLUSH' (Reporter.push), 'STOP' (elastic.stop), and    *)
(* then the join.  A document is abstracted to the observation's number.  *)
(***************************************************************************)
EXTENDS Naturals, Sequences, FiniteSets

CONSTANTS
  NumObs,         \* observations the parent sends in a run
  MaxBatch,       \* ElasticBatch._max_size (32 records, two per document), in documents
  MaxAttempts,    \* bulk attempts per _push: range(3)
  UserInterrupts, \* whether the user may press Ctrl-C
  FLUSH, STOP     \* the 'FLUSH' and 'STOP' control messages (model values)

ASSUME NumObs \in Nat /\ MaxBatch \in Nat \ {0} /\ MaxAttempts \in Nat \ {0}
ASSUME UserInterrupts \in BOOLEAN

VARIABLES
  inbox,     \* the mp.Queue, FIFO
  batch,     \* ElasticBatch._batch: the documents waiting for a bulk call
  indexed,   \* documents a bulk call has written to the index
  spc,       \* the sink thread: "get", "push" (inside _push), or how the process ended
  cont,      \* where it goes when _push returns ("get" or "exit")
  attempts,  \* failed bulk calls in the current _push
  sigint,    \* Ctrl-C in the sink: "none", "pending" (delivered), "raised"
  received,  \* ghost: observations the sink has taken from the inbox
  prod,      \* parent: "run", "flush", "stop", "join", "exited"
  nextObs    \* parent: the next observation to send

vars == <<inbox, batch, indexed, spc, cont, attempts, sigint, received, prod, nextObs>>

Msgs == (1..NumObs) \cup {FLUSH, STOP}

Ended == spc \in {"exited", "crashed", "killed"}

Init ==
  /\ inbox = <<>>
  /\ batch = <<>>
  /\ indexed = {}
  /\ spc = "get"
  /\ cont = "get"
  /\ attempts = 0
  /\ sigint = "none"
  /\ received = {}
  /\ prod = "run"
  /\ nextObs = 1

-----------------------------------------------------------------------------
(* Parent: QueueProxy.put of each observation, then Reporter.push's        *)
(* elastic.flush(), then elastic.stop(): put 'STOP' and _p.join().         *)
Send ==
  /\ prod = "run"
  /\ IF nextObs <= NumObs
       THEN inbox' = Append(inbox, nextObs) /\ nextObs' = nextObs + 1 /\ UNCHANGED prod
       ELSE prod' = "flush" /\ UNCHANGED <<inbox, nextObs>>
  /\ UNCHANGED <<batch, indexed, spc, cont, attempts, sigint, received>>

SendFlush ==
  /\ prod = "flush"
  /\ inbox' = Append(inbox, FLUSH)
  /\ prod' = "stop"
  /\ UNCHANGED <<batch, indexed, spc, cont, attempts, sigint, received, nextObs>>

SendStop ==
  /\ prod = "stop"
  /\ inbox' = Append(inbox, STOP)
  /\ prod' = "join"
  /\ UNCHANGED <<batch, indexed, spc, cont, attempts, sigint, received, nextObs>>

(* _p.join() returns once the child process has ended, whatever its exit   *)
(* status; nothing reads that status and __main__ ends normally.           *)
Join ==
  /\ prod = "join"
  /\ Ended
  /\ prod' = "exited"
  /\ UNCHANGED <<inbox, batch, indexed, spc, cont, attempts, sigint, received, nextObs>>

(* Ctrl-C: SIGINT is delivered to the sink process.                        *)
SigInt ==
  /\ UserInterrupts
  /\ sigint = "none"
  /\ sigint' = "pending"
  /\ UNCHANGED <<inbox, batch, indexed, spc, cont, attempts, received, prod, nextObs>>

-----------------------------------------------------------------------------
(* batch.flush(), then go on with `after`: _push only when the batch is    *)
(* not empty (or, from add, has reached _max_size).                        *)
PushOr(nonEmpty, after) ==
  IF nonEmpty
    THEN spc' = "push" /\ cont' = after /\ attempts' = 0
    ELSE spc' = (IF after = "exit" THEN "exited" ELSE "get") /\ UNCHANGED <<cont, attempts>>

(* Mutant of OnStop: STOP treated as FLUSH.                                 *)
OnStopAsFlush == PushOr(batch # <<>>, "get")

(* 'STOP': batch.flush(); return.                                          *)
OnStop == PushOr(batch # <<>>, "exit")

(* 'FLUSH': batch.flush().                                                 *)
OnFlush == PushOr(batch # <<>>, "get")

(* An observation: batch.add(doc) appends it and pushes at _max_size.     *)
OnObservation(doc) ==
  /\ batch' = Append(batch, doc)
  /\ received' = received \cup {doc}
  /\ PushOr(Len(batch) + 1 >= MaxBatch, "get")

(* elastic_reporter's loop: msg = q.get(True) and dispatch on msg[0].      *)
Receive ==
  /\ spc = "get"
  /\ sigint # "pending"
  /\ inbox # <<>>
  /\ inbox' = Tail(inbox)
  /\ LET msg == Head(inbox) IN
     CASE msg = STOP  -> OnStop /\ UNCHANGED <<batch, received>>
       [] msg = FLUSH -> OnFlush /\ UNCHANGED <<batch, received>>
       [] OTHER       -> OnObservation(msg)
  /\ UNCHANGED <<indexed, sigint, prod, nextObs>>

(* Mutant of OnInterrupt: the handler returns without its batch.flush().   *)
OnInterruptNoFlush ==
  /\ spc = "get"
  /\ sigint = "pending"
  /\ sigint' = "raised"
  /\ spc' = "exited"
  /\ UNCHANGED <<inbox, batch, indexed, cont, attempts, received, prod, nextObs>>

(* `except KeyboardInterrupt: batch.flush(); return` around q.get.         *)
OnInterrupt ==
  /\ spc = "get"
  /\ sigint = "pending"
  /\ sigint' = "raised"
  /\ PushOr(batch # <<>>, "exit")
  /\ UNCHANGED <<inbox, batch, indexed, received, prod, nextObs>>

(* The interrupt raised inside _push (the bulk call or sleep(random())):   *)
(* `except Exception` does not catch it, and it leaves elastic_reporter.  *)
KilledInPush ==
  /\ spc = "push"
  /\ sigint = "pending"
  /\ sigint' = "raised"
  /\ spc' = "killed"
  /\ UNCHANGED <<inbox, batch, indexed, cont, attempts, received, prod, nextObs>>

(* Where the thread goes when _push returns.                               *)
AfterPush == spc' = IF cont = "exit" THEN "exited" ELSE "get"

(* Mutant of BulkOk: the batch is not reset after a successful call.        *)
BulkOkNoReset ==
  /\ spc = "push" /\ sigint # "pending"
  /\ indexed' = indexed \cup {batch[i] : i \in DOMAIN batch}
  /\ AfterPush
  /\ UNCHANGED <<inbox, batch, cont, attempts, sigint, received, prod, nextObs>>

(* esclient.bulk(index=..., body=self._batch) succeeds: `self._batch = []`. *)
BulkOk ==
  /\ spc = "push" /\ sigint # "pending"
  /\ indexed' = indexed \cup {batch[i] : i \in DOMAIN batch}
  /\ batch' = <<>>
  /\ AfterPush
  /\ UNCHANGED <<inbox, cont, attempts, sigint, received, prod, nextObs>>

(* Mutant of BulkFail: one attempt more than range(3).                      *)
BulkFailOffByOne ==
  /\ spc = "push" /\ sigint # "pending"
  /\ attempts' = attempts + 1
  /\ spc' = IF attempts + 1 <= MaxAttempts THEN "push" ELSE "crashed"
  /\ UNCHANGED <<inbox, batch, indexed, cont, sigint, received, prod, nextObs>>

(* The bulk call raises: sleep(random()) and retry; after the last attempt *)
(* `raise exc` ends elastic_reporter and with it the process.              *)
BulkFail ==
  /\ spc = "push" /\ sigint # "pending"
  /\ attempts' = attempts + 1
  /\ spc' = IF attempts + 1 < MaxAttempts THEN "push" ELSE "crashed"
  /\ UNCHANGED <<inbox, batch, indexed, cont, sigint, received, prod, nextObs>>

Parent == Send \/ SendFlush \/ SendStop \/ Join

SinkStep == BulkOk \/ BulkFail \/ OnInterrupt \/ KilledInPush

(* The parent has exited: the run is over, stuttering is not a deadlock.  *)
Terminating == prod = "exited" /\ UNCHANGED vars

Next ==
  \/ Parent \/ SigInt \/ Terminating
  \/ Receive \/ SinkStep

(* Both processes progress; a bulk call returns because the Elasticsearch *)
(* client times requests out.  Ctrl-C is never forced.                     *)
Fairness == WF_vars(Parent) /\ WF_vars(Receive) /\ WF_vars(SinkStep)

Spec == Init /\ [][Next]_vars /\ Fairness

-----------------------------------------------------------------------------
TypeOK ==
  /\ inbox \in Seq(Msgs)
  /\ batch \in Seq(1..NumObs)
  /\ indexed \subseteq 1..NumObs /\ received \subseteq 1..NumObs
  /\ spc \in {"get", "push", "exited", "crashed", "killed"}
  /\ cont \in {"get", "exit"}
  /\ attempts \in 0..MaxAttempts
  /\ sigint \in {"none", "pending", "raised"}
  /\ prod \in {"run", "flush", "stop", "join", "exited"}
  /\ nextObs \in 1..NumObs + 1

(* spec.md 4.9 and 6: a bulk write that fails three times is fatal, and   *)
(* the run exits non-zero; so the parent never ends normally after the     *)
(* sink has failed.                                                         *)
SinkFailureIsFatal == prod = "exited" => spc # "crashed"

(* spec.md 4.9: every observation the sink takes from its queue is        *)
(* eventually written to the index, unless a bulk write failed for good   *)
(* or Ctrl-C hit the sink inside _push.  With no periodic flush this rests *)
(* on 'FLUSH', 'STOP' and the KeyboardInterrupt handler all flushing.      *)
ReceivedIsIndexed ==
  \A n \in 1..NumObs :
     n \in received ~> (n \in indexed \/ spc \in {"crashed", "killed"})

(* elastic.stop() returns: after STOP the child process ends.              *)
StopReturns == prod = "join" ~> prod = "exited"

=============================================================================
