------------------------------ MODULE Receiver ------------------------------
(***************************************************************************)
(* The receiving half of a connection: onPublish and the PUBREL part of    *)
(* onAck in connection/connection.go, with the queue of incoming QoS 2     *)
(* messages (pubIn), the receive quota and the topic aliases, against a    *)
(* client that publishes and that reconnects after the network failed.     *)
(*                                                                         *)
(* The client is not part of the repository.  It follows the protocol: it  *)
(* keeps at most ReceiveMax unfinished QoS 1 and 2 messages and, after a   *)
(* reconnect, sends the PUBLISH or PUBREL of each of them again.  With     *)
(* MQTT 3.1.1 it may also repeat a PUBLISH on the same connection, which   *)
(* 5.0 forbids.                                                            *)
(***************************************************************************)
EXTENDS Integers, Sequences, FiniteSets

CONSTANTS
  Msgs,        \* the messages the client publishes
  QoS,         \* their quality of service, a function from Msgs to 0..2
  Topic,       \* their topics, a function from Msgs
  Writable,    \* the topics the client may publish to
  Ids,         \* the packet ids the client uses
  Aliases,     \* the topic aliases it uses
  MaxRxTopicAlias,
  ReceiveMax,  \* RxQuota of the connection
  Versions,    \* the protocol versions: 4 is MQTT 3.1.1, 5 is 5.0
  MaxDrops,    \* bound: how often the network fails
  MaxChannel,  \* bound: packets on the way in one direction
  None

Topics == {Topic[m] : m \in Msgs}

ASSUME ReceiverAssumption ==
  /\ QoS \in [Msgs -> 0..2]
  /\ None \notin Msgs \cup Ids \cup Aliases \cup Topics \cup (Msgs \X Topics)
  /\ Ids \subseteq Nat \ {0} /\ MaxRxTopicAlias \in Nat
  /\ Aliases \subseteq 1..MaxRxTopicAlias
  /\ ReceiveMax \in Nat \ {0}
  /\ Versions \subseteq {4, 5}
  /\ MaxDrops \in Nat /\ MaxChannel \in Nat \ {0}

VARIABLES
  up,          \* the network connection exists
  toServer, toClient,
  \* server
  pubIn,       \* ackQueue: the message stored for a packet id, or None
  rxQuota,
  topicAlias,  \* rx.topicAlias
  published,   \* ghost: how often SignalPublish was called, per message
  routed,      \* ghost: the messages and the topics it was called with
  closed,      \* ghost: why the server closed connections
  \* client (external)
  version, phase, id, aliased, drops

server == <<pubIn, rxQuota, topicAlias, published, routed, closed>>
client == <<version, phase, id, aliased>>
vars == <<up, toServer, toClient, server, client, drops>>

\* Topic aliases and reasons in acknowledgements
V5 == version = 5

Publish(m, t, a) == [type |-> "PUBLISH", m |-> m, id |-> id[m], topic |-> t,
                     alias |-> a]
Ack(type, i, reason) == [type |-> type, id |-> i, reason |-> reason]

\* A fresh connection object.
NoMessages == [i \in Ids |-> None]
NoAliases == [a \in Aliases |-> None]

Init ==
  /\ up = TRUE /\ toServer = <<>> /\ toClient = <<>>
  /\ pubIn = NoMessages /\ rxQuota = ReceiveMax /\ topicAlias = NoAliases
  /\ published = [m \in Msgs |-> 0] /\ routed = {} /\ closed = {}
  /\ version \in Versions
  /\ phase = [m \in Msgs |-> "new"]
  /\ id = [m \in Msgs |-> None]
  /\ aliased = NoAliases
  /\ drops = 0

-----------------------------------------------------------------------------
(* The client.                                                             *)

\* Unfinished messages of QoS 1 and 2: the PUBLISH (pub) or the PUBREL (rel)
\* is to be acknowledged.
InFlight == {m \in Msgs : phase[m] \in {"pub", "rel"}}

Room == up /\ Len(toServer) < MaxChannel

\* A new message, with its topic or, in 5.0, with the alias that it gave the
\* topic on this connection, or with both.
ClientPublish(m) ==
  /\ phase[m] = "new" /\ Room
  /\ \E t \in {Topic[m], None}, a \in Aliases \cup {None} :
       /\ t = None => a # None /\ aliased[a] = Topic[m]
       /\ V5 \/ a = None
       /\ aliased' = [b \in Aliases |-> IF b = a THEN Topic[m] ELSE aliased[b]]
       /\ \/ /\ QoS[m] = 0
             /\ toServer' = Append(toServer, Publish(m, t, a))
             /\ phase' = [phase EXCEPT ![m] = "done"]
             /\ UNCHANGED id
          \/ /\ QoS[m] > 0 /\ Cardinality(InFlight) < ReceiveMax
             /\ \E i \in Ids \ {id[n] : n \in InFlight} :
                  /\ id' = [id EXCEPT ![m] = i]
                  /\ toServer' = Append(toServer,
                                        [Publish(m, t, a) EXCEPT !.id = i])
             /\ phase' = [phase EXCEPT ![m] = "pub"]
  /\ UNCHANGED <<up, toClient, server, version, drops>>

ClientRepeats(m) ==
  /\ ~V5 /\ phase[m] = "pub" /\ Room
  /\ toServer' = Append(toServer, Publish(m, Topic[m], None))
  /\ UNCHANGED <<up, toClient, server, client, drops>>

\* The acknowledgements.  A PUBREC with an error ends the exchange.
ClientReceives ==
  /\ toClient # <<>>
  /\ toClient' = Tail(toClient)
  /\ LET p == Head(toClient)
         mine == {m \in InFlight : /\ id[m] = p.id
                                  /\ CASE p.type = "PUBACK"  -> QoS[m] = 1
                                       [] p.type = "PUBREC"  -> QoS[m] = 2
                                       [] p.type = "PUBCOMP" -> phase[m] = "rel"}
     IN
     \/ /\ p.type = "PUBREC" /\ p.reason = "ok"
        /\ phase' = [m \in Msgs |-> IF m \in mine THEN "rel" ELSE phase[m]]
        /\ toServer' = Append(toServer, Ack("PUBREL", p.id, "ok"))
     \/ /\ p.type = "PUBREC" /\ p.reason # "ok"
        /\ phase' = [m \in Msgs |-> IF m \in mine THEN "refused" ELSE phase[m]]
        /\ UNCHANGED toServer
     \/ /\ p.type \in {"PUBACK", "PUBCOMP"}
        /\ phase' = [m \in Msgs |->
                       IF m \notin mine THEN phase[m]
                       ELSE IF p.reason = "denied" THEN "refused" ELSE "done"]
        /\ UNCHANGED toServer
  /\ UNCHANGED <<up, server, version, id, aliased, drops>>

-----------------------------------------------------------------------------
(* The server.                                                             *)

\* The connection object is gone with everything that was on its way.
Close ==
  /\ up' = FALSE
  /\ toServer' = <<>> /\ toClient' = <<>>
  /\ pubIn' = NoMessages
  /\ topicAlias' = NoAliases
  /\ UNCHANGED rxQuota

\* The alias errors of onPublish: zero or too large, or unknown and no topic.
BadAlias(p) ==
  /\ V5 /\ p.alias # None
  /\ \/ p.alias = 0 \/ p.alias > MaxRxTopicAlias
     \/ p.topic = None /\ topicAlias[p.alias] = None

TopicOf(p) == IF p.topic = None THEN topicAlias[p.alias] ELSE p.topic

\* Mutant: an alias keeps its first topic.
LearnAlias_Once(p) ==
  IF V5 /\ p.alias # None /\ p.topic # None /\ topicAlias[p.alias] = None
  THEN [topicAlias EXCEPT ![p.alias] = p.topic] ELSE topicAlias

\* The ACL is asked for a topic in the packet; a topic that came by alias was
\* allowed when the alias was set.
Allowed(p) == p.topic = None \/ p.topic \in Writable

LearnAlias(p) ==
  IF V5 /\ p.alias # None /\ p.topic # None /\ Allowed(p)
  THEN [topicAlias EXCEPT ![p.alias] = p.topic] ELSE topicAlias

\* Mutant: QoS 1 does not fall through to the publication.
Deliver_NotQoS1(m, t) ==
  IF QoS[m] = 1 THEN UNCHANGED <<published, routed>>
  ELSE /\ published' = [published EXCEPT ![m] = @ + 1]
       /\ routed' = routed \cup {<<m, t>>}

\* SignalPublish
Deliver(m, t) == /\ published' = [published EXCEPT ![m] = @ + 1]
                 /\ routed' = routed \cup {<<m, t>>}

\* Only 5.0 acknowledgements carry a reason.
Answer(type, i, reason) ==
  toClient' = Append(toClient, Ack(type, i, IF V5 THEN reason ELSE "ok"))

TakeQuota == rxQuota - 1

\* pubIn.store(pkt, false)
Store(p) == IF pubIn[p.id] # None THEN pubIn
            ELSE [pubIn EXCEPT ![p.id] = <<p.m, TopicOf(p)>>]

OnPublish ==
  LET p == Head(toServer) IN
  /\ up /\ toServer # <<>> /\ p.type = "PUBLISH"
  /\ Len(toClient) < MaxChannel
  /\ \/ /\ BadAlias(p)
        /\ closed' = closed \cup {"alias"}
        /\ Close
        /\ UNCHANGED <<published, routed>>
     \/ /\ ~BadAlias(p) /\ Allowed(p) /\ QoS[p.m] > 0 /\ rxQuota = 0
        /\ closed' = closed \cup {"quota"}
        /\ Close
        /\ UNCHANGED <<published, routed>>
     \/ /\ ~BadAlias(p) /\ ~(Allowed(p) /\ QoS[p.m] > 0 /\ rxQuota = 0)
        /\ toServer' = Tail(toServer)
        /\ topicAlias' = LearnAlias(p)
        /\ \/ /\ QoS[p.m] = 2 /\ Allowed(p)
              /\ rxQuota' = TakeQuota
              /\ pubIn' = Store(p)
              /\ Answer("PUBREC", p.id,
                        IF pubIn[p.id] = None THEN "ok" ELSE "inuse")
              /\ UNCHANGED <<published, routed>>
           \/ /\ QoS[p.m] = 2 /\ ~Allowed(p)
              /\ Answer("PUBREC", p.id, "denied")
              /\ UNCHANGED <<rxQuota, pubIn, published, routed>>
           \/ /\ QoS[p.m] = 1
              /\ Answer("PUBACK", p.id, IF Allowed(p) THEN "ok" ELSE "denied")
              /\ IF Allowed(p) THEN Deliver(p.m, TopicOf(p)) ELSE UNCHANGED <<published, routed>>
              /\ UNCHANGED <<rxQuota, pubIn>>
           \/ /\ QoS[p.m] = 0
              /\ IF Allowed(p) THEN Deliver(p.m, TopicOf(p)) ELSE UNCHANGED <<published, routed>>
              /\ UNCHANGED <<rxQuota, pubIn, toClient>>
        /\ UNCHANGED <<closed, up>>
  /\ UNCHANGED <<client, drops>>

\* Mutant: the message stays in pubIn after its release.
Release_Keeps(p) == pubIn

\* pubIn.release(pkt) deletes the message
Release(p) == [pubIn EXCEPT ![p.id] = None]

\* Mutant: the quota is not given back.
GiveQuota_Not == rxQuota

GiveQuota == rxQuota + 1

\* PUBREL: the message is published, its quota given back and PUBCOMP sent.
OnPubrel ==
  LET p == Head(toServer) IN
  /\ up /\ toServer # <<>> /\ p.type = "PUBREL"
  /\ Len(toClient) < MaxChannel
  /\ toServer' = Tail(toServer)
  /\ \/ /\ pubIn[p.id] # None
        /\ Deliver(pubIn[p.id][1], pubIn[p.id][2])
        /\ pubIn' = Release(p)
        /\ rxQuota' = GiveQuota
        /\ Answer("PUBCOMP", p.id, "ok")
     \/ /\ pubIn[p.id] = None
        /\ Answer("PUBCOMP", p.id, "notfound")
        /\ UNCHANGED <<pubIn, rxQuota, published, routed>>
  /\ UNCHANGED <<up, topicAlias, closed, client, drops>>

-----------------------------------------------------------------------------
(* The network.                                                            *)

Drop ==
  /\ up /\ drops < MaxDrops
  /\ Close
  /\ drops' = drops + 1
  /\ UNCHANGED <<published, routed, closed, client>>

\* A new connection of the same session: the client sends the PUBREL or the
\* PUBLISH of every unfinished message again, in some order.
Resumed(m) == IF phase[m] = "rel" THEN Ack("PUBREL", id[m], "ok")
              ELSE Publish(m, Topic[m], None)

Reconnect ==
  /\ ~up
  /\ up' = TRUE
  /\ rxQuota' = ReceiveMax
  /\ \E order \in [1..Cardinality(InFlight) -> InFlight] :
       /\ {order[n] : n \in DOMAIN order} = InFlight
       /\ toServer' = [n \in DOMAIN order |-> Resumed(order[n])]
  /\ aliased' = NoAliases
  /\ UNCHANGED <<toClient, pubIn, topicAlias, published, routed, closed, version, phase,
                 id, drops>>

-----------------------------------------------------------------------------
Next ==
  \/ \E m \in Msgs : ClientPublish(m) \/ ClientRepeats(m)
  \/ ClientReceives
  \/ OnPublish \/ OnPubrel
  \/ Drop \/ Reconnect

Spec == Init /\ [][Next]_vars

\* The reader reads what has arrived, the client answers and reconnects.  The
\* network need not fail.
FairSpec ==
  /\ Spec
  /\ WF_vars(OnPublish) /\ WF_vars(OnPubrel)
  /\ WF_vars(ClientReceives) /\ WF_vars(Reconnect)

-----------------------------------------------------------------------------
(* Properties.                                                             *)

\* The shape of the state; the quota stays between zero and the maximum.
TypeOK ==
  /\ up \in BOOLEAN
  /\ pubIn \in [Ids -> (Msgs \X Topics) \cup {None}]
  /\ rxQuota \in 0..ReceiveMax
  /\ topicAlias \in [Aliases -> Topics \cup {None}]
  /\ published \in [Msgs -> Nat]
  /\ routed \subseteq Msgs \X Topics
  /\ closed \subseteq {"alias", "quota"}
  /\ phase \in [Msgs -> {"new", "pub", "rel", "done", "refused"}]
  /\ id \in [Msgs -> Ids \cup {None}]

\* A message of QoS 2 is published at most once, whatever is lost and sent
\* again: PUBLISH stores it, and only the first PUBREL publishes it.
AtMostOnce == \A m \in Msgs : QoS[m] = 2 => published[m] <= 1

\* A 5.0 client that has at most ReceiveMax unfinished messages, [MQTT-3.3.4-7], is
\* never disconnected for exceeding the maximum, over reconnections too.
NotExceeded == V5 => "quota" \notin closed

\* The same for every client: 3.1.1 has no such maximum.
NeverExceeded == "quota" \notin closed

\* An alias stands for the topic the client last gave it on this connection, as
\* long as the ACL refuses none of them (LearnAlias).
RightTopic == \A r \in routed : r[2] = Topic[r[1]]

\* A QoS 1 message that a 5.0 client sent is eventually published.
AtLeastOnce ==
  \A m \in Msgs :
    V5 /\ QoS[m] = 1 /\ phase[m] = "pub" /\ Topic[m] \in Writable
      ~> published[m] > 0

\* QoS 2: "message are assured to arrive exactly once".  What the client has
\* finished was published.
ExactlyOnce ==
  \A m \in Msgs :
    QoS[m] = 2 /\ phase[m] = "done" /\ Topic[m] \in Writable
      => published[m] = 1
=============================================================================
