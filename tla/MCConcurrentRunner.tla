------------------------- MODULE MCConcurrentRunner -------------------------
(* Model-checking instance of ConcurrentRunner: two or three threads,     *)
(* -n of two or three requests, or a -t run bounded at MaxRequests.        *)
EXTENDS ConcurrentRunner

CONSTANTS t1, t2, t3

ThreeThreads == {t1, t2, t3}
TwoThreads == {t1, t2}
=============================================================================
