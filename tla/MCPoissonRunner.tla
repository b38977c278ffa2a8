--------------------------- MODULE MCPoissonRunner ---------------------------
(* Model-checking instance of PoissonRunner: an executor of two or three  *)
(* threads and -n of two or three jobs.                                    *)
EXTENDS PoissonRunner, TLC

CONSTANTS t1, t2, t3

ThreeThreads == {t1, t2, t3}
TwoThreads == {t1, t2}
ThreadSym == Permutations(ThreeThreads)
=============================================================================
