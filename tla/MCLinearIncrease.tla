--------------------------- MODULE MCLinearIncrease ---------------------------
EXTENDS LinearIncrease, TLC

CONSTANTS t1, t2, t3

ThreeThreads == {t1, t2, t3}

ThreadSym == Permutations(ThreeThreads)

(* --t-start 1 and --t-end 100%: the daemon passes once before the ramp,  *)
(* follows the line, and reaches the maximum at the cap.                    *)
TStartOne == [kind |-> "abs", val |-> 1]
TEndFull == [kind |-> "pct", val |-> 100]

=============================================================================
