------------------------------ MODULE MCWriter ------------------------------
(* Small instances of Writer for TLC. *)
EXTENDS Writer, TLC

CONSTANTS m1, m2, m3

\* One message of each kind with an acknowledgement, and one without.
MixMsgs == {m1, m2, m3}
MixClass == m1 :> "qos1" @@ m2 :> "qos2" @@ m3 :> "g"
\* The same with a QoS 0 message.
DropClass == m1 :> "qos1" @@ m2 :> "qos2" @@ m3 :> "qos0"

PairMsgs == {m1, m2}
PairClass == m1 :> "qos1" @@ m2 :> "qos2"
TwoMsgs == {m1, m2}
TwoClass == m1 :> "qos1" @@ m2 :> "qos1"
OneMsg == {m2}
OneQoS2 == m2 :> "qos2"
OneQoS1 == m2 :> "qos1"
OneQoS0 == m2 :> "qos0"
=============================================================================
