--------------------------- MODULE LinearIncrease ---------------------------
(***************************************************************************)
(* LinearIncreasePoissonQueueRunner (runner/queue.py) under -n: the       *)
(* Poisson scheduler of PoissonRunner plus the linear_increase daemon,     *)
(* which once a second reads _reqs_current as its clock and sets           *)
(* mean_req_time on a line from min_throughput at t_start to               *)
(* max_throughput at t_end.  The scheduler's delays stay nondeterministic, *)
(* so the daemon only observes the pool; what is checked is the ramp it    *)
(* computes from what it reads.                                             *)
(***************************************************************************)
EXTENDS PoissonRunner

CONSTANTS
  MinThroughput,  \* --min-throughput, requests per second
  MaxThroughput,  \* --max-throughput
  TStartArg,      \* --t-start, as [kind |-> "empty" | "pct" | "abs", val |-> n]
  TEndArg         \* --t-end, likewise ("0%" and "100%" by default)

(* The -t branch of _parse_time and of the clock (wall time) is left out:  *)
(* this module models the -n runner, whose clock is _reqs_current.         *)
ASSUME
  /\ Terminations = {"n"}
  /\ MinThroughput \in Nat \ {0} /\ MaxThroughput \in Nat \ {0}

VARIABLES
  meanReqTime,  \* self.mean_req_time, in microseconds
  lin           \* the daemon: "check" (while test), "tick" (after sleep), "done"

linVars == <<meanReqTime, lin>>
allVars == <<vars, linVars>>

Micro == 1000000

(* _parse_time without a timeout: `int(float(t[:-1]) / 100.0 *            *)
(* reqs_limit)` for a percentage, `int(t)` otherwise, 0 for an empty       *)
(* string.  Exact division stands for the float one: the bounds below are *)
(* chosen where the two agree (they do not for every input, e.g. 57% of    *)
(* 100 is 56 in floating point).                                            *)
ParseTime(t) ==
  CASE t.kind = "empty" -> 0
    [] t.kind = "pct"   -> (t.val * Count) \div 100
    [] OTHER            -> t.val

TStart == ParseTime(TStartArg)
TEnd == ParseTime(TEndArg)

(* Mutant of RampMean: the distance to t_end taken for the distance from   *)
(* t_start.                                                                 *)
RampMeanSwapped(tc) ==
  LET tDiff == TEnd - tc
      tTotal == TEnd - TStart
  IN (Micro * tTotal) \div (MinThroughput * tTotal + (MaxThroughput - MinThroughput) * tDiff)

(* `int(1e6 / (min + th_diff * t_diff / t_total))` for t_start <= t < t_end, *)
(* as one exact division with the same floor.                               *)
RampMean(tc) ==
  LET tDiff == tc - TStart
      tTotal == TEnd - TStart
  IN (Micro * tTotal) \div (MinThroughput * tTotal + (MaxThroughput - MinThroughput) * tDiff)

LinearInit ==
  /\ Init
  /\ meanReqTime = Micro \div MinThroughput
  /\ lin = "check"

(* `while not workers._stop_ev.is_set(): sleep(1)`                         *)
LinearCheck ==
  /\ lin = "check"
  /\ lin' = IF stop THEN "done" ELSE "tick"
  /\ UNCHANGED <<vars, meanReqTime>>

(* After the sleep: before t_start keep the rate, from t_end on set the   *)
(* maximum and leave the loop, in between follow the line.                 *)
LinearTick ==
  /\ lin = "tick"
  /\ LET tc == reqsCurrent IN
     CASE tc < TStart  -> lin' = "check" /\ UNCHANGED meanReqTime
       [] tc >= TEnd   -> lin' = "done" /\ meanReqTime' = Micro \div MaxThroughput
       [] OTHER        -> lin' = "check" /\ meanReqTime' = RampMean(tc)
  /\ UNCHANGED vars

LinearNext ==
  \/ Next /\ UNCHANGED linVars
  \/ LinearCheck \/ LinearTick

LinearSpec == LinearInit /\ [][LinearNext]_allVars

-----------------------------------------------------------------------------
LinearTypeOK ==
  /\ TypeOK
  /\ meanReqTime \in Nat
  /\ lin \in {"check", "tick", "done"}

(* The daemon only ever raises the request rate: mean_req_time never goes *)
(* up, since its clock _reqs_current only grows and the line is monotone.  *)
RateNeverDecreases == [][meanReqTime' <= meanReqTime]_meanReqTime

=============================================================================
