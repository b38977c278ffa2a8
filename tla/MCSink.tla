-------------------------------- MODULE MCSink --------------------------------
(* Model-checking instance of Sink: three observations, a batch of two    *)
(* documents, the code's three bulk attempts.                              *)
EXTENDS Sink
=============================================================================
