---------------------------- MODULE MCListener ------------------------------
(* Instances of the listeners and their pool for model checking. *)
EXTENDS Listener
=============================================================================
