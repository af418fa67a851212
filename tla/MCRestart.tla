------------------------------ MODULE MCRestart ------------------------------
(* Constants of the model-checking runs of Restart.                         *)
EXTENDS Restart

\* Sessions that outlive the connection, that expire, that are wiped, and that
\* are continued but end with the connection.
Durable == [clean |-> FALSE, durable |-> TRUE, expires |-> FALSE]
Expiring == [clean |-> FALSE, durable |-> TRUE, expires |-> TRUE]
Clean == [clean |-> TRUE, durable |-> FALSE, expires |-> FALSE]
Ending == [clean |-> FALSE, durable |-> FALSE, expires |-> FALSE]

MCKinds == {Durable, Expiring, Ending, Clean}

Pub(topic, retain, version) == [topic |-> topic, retain |-> retain, version |-> version]

\* Retained messages of a client of 3.1.1, at a topic that begins with $, and at
\* the topic of the subscribers
MCPlan == << Pub("b", "keep", "3.1.1"), Pub("$s", "keep", "5.0"), Pub("a", "keep", "5.0") >>

\* A retained message and one that is not, at the topic of the subscribers
LivePlan == << Pub("a", "keep", "5.0"), Pub("a", "no", "5.0") >>

\* A retained message that is removed later
ClearPlan == << Pub("a", "keep", "5.0"), Pub("a", "clear", "5.0") >>
=============================================================================
