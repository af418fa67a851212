------------------------------ MODULE MCQueue ------------------------------
(* A small instance of Queue for TLC.                                       *)
EXTENDS Queue
=============================================================================
