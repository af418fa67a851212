---------------------------- MODULE MCConnection ----------------------------
(* Instances of one connection for model checking. *)
EXTENDS Connection

AllConnects == {"good", "refused", "auth", "bad"}
=============================================================================
