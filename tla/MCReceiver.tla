---------------------------- MODULE MCReceiver ----------------------------
(* Instances of Receiver: three or four messages on one or two topics.     *)
EXTENDS Receiver, TLC

CONSTANTS m1, m2, m3, t1, t2

Mixed == m1 :> 2 @@ m2 :> 1 @@ m3 :> 2
AllQoS2 == m1 :> 2 @@ m2 :> 2 @@ m3 :> 2
OneTopic == m1 :> t1 @@ m2 :> t1 @@ m3 :> t1
TwoTopics == m1 :> t1 @@ m2 :> t2 @@ m3 :> t1
=============================================================================
