-------------------------- MODULE MCConcurrentHang --------------------------
(* Model-checking instance of ConcurrentHang: two threads, a -t run.       *)
EXTENDS ConcurrentHang

CONSTANTS t1, t2

TwoThreads == {t1, t2}
=============================================================================
