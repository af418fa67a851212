---------------------------- MODULE MCSessions ----------------------------
(* Instances of Sessions: the kinds of CONNECT packets that take part.     *)
EXTENDS Sessions

Persistent == [v5 |-> FALSE, clean |-> FALSE, durable |-> TRUE,
               expire |-> "nil", will |-> "now"]
Clean == [Persistent EXCEPT !.clean = TRUE, !.durable = FALSE]
Expiring == [v5 |-> TRUE, clean |-> FALSE, durable |-> TRUE,
             expire |-> "some", will |-> "none"]
ExpiringWill == [Expiring EXCEPT !.will = "delayed"]
Ending == [Expiring EXCEPT !.durable = FALSE, !.expire = "zero"]
DelayedWill == [Expiring EXCEPT !.durable = FALSE, !.expire = "nil",
                                !.will = "delayed"]

PersistentOnly == {Persistent}
CleanOnly == {Clean}
CleanAndPersistent == {Clean, Persistent}
AllKinds == {Persistent, Clean, Expiring, ExpiringWill, Ending, DelayedWill}
ExpiringAndPersistent == {Expiring, Persistent}
DelayedWillOnly == {DelayedWill}
ExpiringOnly == {Expiring}
=============================================================================
