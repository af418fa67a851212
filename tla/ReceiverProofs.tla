--------------------------- MODULE ReceiverProofs ---------------------------
(***************************************************************************)
(* Receiver, for any messages, packet ids, aliases, any receive maximum     *)
(* and any number of reconnections.                                         *)
(*                                                                         *)
(* The packets on their way, the ids and the stored messages fit together   *)
(* (Base), so a message of QoS 2 is published at most once (OnceInv).  What *)
(* 5.0 adds: an alias stands for the topic it was last given (AliasInv),    *)
(* and a client within its receive maximum is never disconnected for        *)
(* exceeding it (TokenInv, QuotaInv).                                       *)
(***************************************************************************)
EXTENDS Receiver, TLAPS

Pubs == [type : {"PUBLISH"}, m : Msgs, id : Ids \cup {None},
         topic : Topics \cup {None}, alias : Aliases \cup {None}]
Rels == [type : {"PUBREL"}, id : Ids, reason : {"ok"}]
Acks == [type : {"PUBACK", "PUBREC", "PUBCOMP"}, id : Ids,
         reason : {"ok", "inuse", "denied", "notfound"}]
Stores == Msgs \X (Topics \cup {None})

ChannelTypes == toServer \in Seq(Pubs \cup Rels) /\ toClient \in Seq(Acks)

StoreTypes == pubIn \in [Ids -> Stores \cup {None}]

AliasTypes == /\ topicAlias \in [Aliases -> Topics \cup {None}]
              /\ aliased \in [Aliases -> Topics \cup {None}]

MsgTypes == /\ phase \in [Msgs -> {"new", "pub", "rel", "done", "refused"}]
            /\ id \in [Msgs -> Ids \cup {None}]

CountTypes == published \in [Msgs -> Nat]

Types == ChannelTypes /\ StoreTypes /\ AliasTypes /\ MsgTypes /\ CountTypes

\* Nothing of a connection is left when it is gone.
DownInv == ~up => /\ toServer = <<>> /\ toClient = <<>>
                  /\ pubIn = NoMessages /\ topicAlias = NoAliases

\* Packet k on its way to the server is a PUBLISH of m.
Carries(k, m) == toServer[k].type = "PUBLISH" /\ toServer[k].m = m

\* Unfinished messages have different ids.
FlightIds ==
  /\ \A m \in InFlight : QoS[m] > 0 /\ id[m] \in Ids
  /\ \A m, n \in InFlight : id[m] = id[n] => m = n
  /\ \A m \in Msgs : phase[m] = "rel" => QoS[m] = 2

\* A packet has the id of its message, and so has a stored message.
PacketIds ==
  \A m \in Msgs, k \in 1..Len(toServer) : Carries(k, m) =>
    /\ phase[m] # "new" /\ toServer[k].id = id[m] /\ (QoS[m] > 0 => id[m] \in Ids)
    /\ toServer[k].topic = None => toServer[k].alias # None

StoredIds ==
  \A i \in Ids : pubIn[i] # None =>
    /\ QoS[pubIn[i][1]] = 2 /\ id[pubIn[i][1]] = i /\ phase[pubIn[i][1]] # "new"

IdInv == FlightIds /\ PacketIds /\ StoredIds

\* IsFiniteSet and Cardinality, spelled out: the theorems about them come at the end,
\* in an instance of their own.
Finite(S) == \E seq \in Seq(S) : \A s \in S : \E n \in 1..Len(seq) : seq[n] = s
Size(S) ==
  LET CS[T \in SUBSET S] == IF T = {} THEN 0 ELSE 1 + CS[T \ {CHOOSE x : x \in T}]
  IN  CS[S]

\* The client keeps its receive maximum.
FewInv == Finite(InFlight) /\ Size(InFlight) <= ReceiveMax

Base == Types /\ DownInv /\ IdInv /\ FewInv

\* The server has m, or will have it when it reads packet k.
Has(k, m) == \/ \E i \in Ids : pubIn[i] # None /\ pubIn[i][1] = m
             \/ \E j \in 1..k-1 : Carries(j, m)

\* What was published is not sent again, and the PUBREL of a message the server has
\* is the end of its PUBLISHes.
NotAgain(m) ==
  /\ published[m] \in {0, 1}
  /\ published[m] = 1 => /\ phase[m] \notin {"new", "pub"}
                         /\ \A k \in 1..Len(toServer) : ~Carries(k, m)
                         /\ \A i \in Ids : pubIn[i] # None => pubIn[i][1] # m

LastPubrel(m) ==
  \A k \in 1..Len(toServer) :
    /\ toServer[k].type = "PUBREL" /\ toServer[k].id = id[m]
    /\ Has(k, m)
    => /\ phase[m] \notin {"new", "pub"}
       /\ \A j \in k+1..Len(toServer) : ~Carries(j, m)

OnceInv == \A m \in Msgs : QoS[m] = 2 => NotAgain(m) /\ LastPubrel(m)

-----------------------------------------------------------------------------
(* Channels and packets.                                                   *)

\* A packet is sent.
LEMMA Sent ==
  ASSUME NEW S, NEW s \in Seq(S), NEW x \in S
  PROVE  /\ Append(s, x) \in Seq(S) /\ Len(s) \in Nat
         /\ Len(Append(s, x)) = Len(s) + 1
         /\ Append(s, x)[Len(s) + 1] = x
         /\ \A k \in 1..Len(s) : Append(s, x)[k] = s[k]
  OBVIOUS

\* The first packet is read.
LEMMA Read ==
  ASSUME NEW S, NEW s \in Seq(S), s # <<>>
  PROVE  /\ Head(s) = s[1] /\ Head(s) \in S /\ Tail(s) \in Seq(S)
         /\ Len(s) \in Nat /\ 1 <= Len(s) /\ Len(Tail(s)) = Len(s) - 1
         /\ \A k \in 1..Len(s)-1 : Tail(s)[k] = s[k + 1] /\ k + 1 \in 1..Len(s)
  OBVIOUS

\* What Receiver calls Cardinality.
LEMMA IsSize == ASSUME NEW S PROVE Cardinality(S) = Size(S)
  BY Zenon DEF Cardinality, Size

\* The packet p of the new message m is sent.
NewPacket(m, p) ==
  /\ phase[m] = "new" /\ up /\ up' = up /\ toServer' = Append(toServer, p)
  /\ p.m = m /\ p.id = id'[m] /\ p.topic \in {Topic[m], None}
  /\ p.topic = None => p.alias # None /\ aliased[p.alias] = Topic[m]
  /\ V5 \/ p.alias = None
  /\ aliased' = [b \in Aliases |-> IF b = p.alias THEN Topic[m] ELSE aliased[b]]
  /\ \/ /\ QoS[m] = 0 /\ id' = id
        /\ phase' = [phase EXCEPT ![m] = "done"]
     \/ /\ QoS[m] > 0 /\ Size(InFlight) < ReceiveMax
        /\ p.id \in Ids /\ p.id \notin {id[n] : n \in InFlight}
        /\ id' = [id EXCEPT ![m] = p.id]
        /\ phase' = [phase EXCEPT ![m] = "pub"]
  /\ UNCHANGED <<toClient, server, version, drops>>

\* What ClientPublish does, whichever QoS the message has and however its topic is sent.
LEMMA NewMessage ==
  ASSUME Types, NEW m \in Msgs, ClientPublish(m)
  PROVE  \E p \in Pubs : NewPacket(m, p)
  <1> DEFINE Once(t, a) == /\ QoS[m] = 0
                           /\ toServer' = Append(toServer, Publish(m, t, a))
                           /\ phase' = [phase EXCEPT ![m] = "done"]
                           /\ UNCHANGED id
             Kept(t, a) == /\ QoS[m] > 0 /\ Cardinality(InFlight) < ReceiveMax
                           /\ \E i \in Ids \ {id[n] : n \in InFlight} :
                                /\ id' = [id EXCEPT ![m] = i]
                                /\ toServer' = Append(toServer,
                                                 [Publish(m, t, a) EXCEPT !.id = i])
                           /\ phase' = [phase EXCEPT ![m] = "pub"]
  <1>0. /\ phase[m] = "new" /\ up /\ up' = up
        /\ UNCHANGED <<toClient, server, version, drops>>
    BY Zenon DEF ClientPublish, Room
  <1>1. PICK t \in {Topic[m], None}, a \in Aliases \cup {None} :
          /\ t = None => a # None /\ aliased[a] = Topic[m]
          /\ V5 \/ a = None
          /\ aliased' = [b \in Aliases |-> IF b = a THEN Topic[m] ELSE aliased[b]]
          /\ Once(t, a) \/ Kept(t, a)
    BY Zenon DEF ClientPublish
  <1>2. t \in Topics \cup {None}
    BY Zenon DEF Topics
  <1>3. CASE Once(t, a)
    <2>1. Publish(m, t, a) \in Pubs
      BY <1>2, Zenon DEF Publish, Pubs, Types, MsgTypes
    <2>2. Publish(m, t, a).m = m /\ Publish(m, t, a).id = id[m]
          /\ Publish(m, t, a).topic = t /\ Publish(m, t, a).alias = a
      BY Zenon DEF Publish
    <2> QED
      BY <1>0, <1>1, <1>3, <2>1, <2>2, ZenonT(60) DEF NewPacket
  <1>4. CASE Kept(t, a)
    <2>1. PICK i \in Ids \ {id[n] : n \in InFlight} :
            /\ id' = [id EXCEPT ![m] = i]
            /\ toServer' = Append(toServer, [Publish(m, t, a) EXCEPT !.id = i])
      BY <1>4, Zenon
    <2> DEFINE p == [Publish(m, t, a) EXCEPT !.id = i]
    <2>2. p = [type |-> "PUBLISH", m |-> m, id |-> i, topic |-> t, alias |-> a]
      BY DEF Publish
    <2>3. p \in Pubs /\ p.m = m /\ p.id = i /\ p.topic = t /\ p.alias = a
      BY <1>2, <2>2, Zenon DEF Pubs
    <2>4. id'[m] = i /\ i \in Ids /\ i \notin {id[n] : n \in InFlight}
      BY <2>1, Zenon DEF Types, MsgTypes
    <2>5. toServer' = Append(toServer, p)
      BY <2>1, Zenon
    <2>6. Size(InFlight) < ReceiveMax
      BY <1>4, IsSize, Zenon
    <2> HIDE DEF p
    <2> QED
      BY <1>0, <1>1, <1>4, <2>1, <2>3, <2>4, <2>5, <2>6, Zenon DEF NewPacket
  <1> QED
    BY <1>1, <1>3, <1>4, Zenon

\* What the client is told of an exchange.
Told(m) == /\ m \in InFlight /\ id[m] = Head(toClient).id
           /\ Head(toClient).type = "PUBACK" => QoS[m] = 1
           /\ Head(toClient).type = "PUBREC" => QoS[m] = 2
           /\ Head(toClient).type = "PUBCOMP" => phase[m] = "rel"

\* An acknowledgement moves the messages it is for, and a PUBREC is answered.
Heard ==
  /\ toClient # <<>> /\ toClient' = Tail(toClient)
  /\ UNCHANGED <<up, server, version, id, aliased, drops>>
  /\ phase' \in [Msgs -> {"new", "pub", "rel", "done", "refused"}]
  /\ \A m \in Msgs : ~Told(m) => phase'[m] = phase[m]
  /\ \/ /\ Head(toClient).type = "PUBREC" /\ Head(toClient).reason = "ok"
        /\ toServer' = Append(toServer, Ack("PUBREL", Head(toClient).id, "ok"))
        /\ \A m \in Msgs : Told(m) => phase'[m] = "rel"
     \/ /\ Head(toClient).type # "PUBREC" \/ Head(toClient).reason # "ok"
        /\ toServer' = toServer
        /\ \A m \in Msgs : Told(m) => phase'[m] \in {"done", "refused"}

\* ClientReceives ends the exchange of one message or goes on with it.
LEMMA Received == ASSUME Types, ClientReceives PROVE Heard
  <1> DEFINE p == Head(toClient)
             mine == {m \in InFlight : /\ id[m] = p.id
                                       /\ CASE p.type = "PUBACK"  -> QoS[m] = 1
                                            [] p.type = "PUBREC"  -> QoS[m] = 2
                                            [] p.type = "PUBCOMP" -> phase[m] = "rel"}
  <1>1. toClient # <<>> /\ p \in Acks
    BY Read, Zenon DEF ClientReceives, Types, ChannelTypes
  <1>2. \A m \in Msgs : m \in mine <=> Told(m)
    BY <1>1, Zenon DEF Told, Acks, InFlight
  <1>3. \/ /\ p.type = "PUBREC" /\ p.reason = "ok"
           /\ phase' = [m \in Msgs |-> IF m \in mine THEN "rel" ELSE phase[m]]
           /\ toServer' = Append(toServer, Ack("PUBREL", p.id, "ok"))
        \/ /\ p.type = "PUBREC" /\ p.reason # "ok"
           /\ phase' = [m \in Msgs |-> IF m \in mine THEN "refused" ELSE phase[m]]
           /\ UNCHANGED toServer
        \/ /\ p.type \in {"PUBACK", "PUBCOMP"}
           /\ phase' = [m \in Msgs |->
                          IF m \notin mine THEN phase[m]
                          ELSE IF p.reason = "denied" THEN "refused" ELSE "done"]
           /\ UNCHANGED toServer
    BY Zenon DEF ClientReceives
  <1> HIDE DEF mine, p
  <1>4. \A m \in Msgs : m \notin mine => phase'[m] = phase[m]
    BY <1>3, Zenon
  <1>5. phase' \in [Msgs -> {"new", "pub", "rel", "done", "refused"}]
    BY <1>3, Zenon DEF Types, MsgTypes
  <1>6. \/ /\ p.type = "PUBREC" /\ p.reason = "ok"
           /\ toServer' = Append(toServer, Ack("PUBREL", p.id, "ok"))
           /\ \A m \in Msgs : m \in mine => phase'[m] = "rel"
        \/ /\ p.type # "PUBREC" \/ p.reason # "ok"
           /\ toServer' = toServer
           /\ \A m \in Msgs : m \in mine => phase'[m] \in {"done", "refused"}
    BY <1>3, Zenon
  <1> QED
    BY <1>1, <1>2, <1>4, <1>5, <1>6, Zenon DEF ClientReceives, Heard, p

\* The answer to a PUBREC.
LEMMA HeardPubrel ==
  ASSUME Types, Heard, toServer' # toServer
  PROVE  \E r \in Rels : /\ toServer' = Append(toServer, r) /\ r.type = "PUBREL"
                         /\ r.id = Head(toClient).id
                         /\ Head(toClient).type = "PUBREC" /\ Head(toClient).reason = "ok"
                         /\ \A m \in Msgs : Told(m) => phase'[m] = "rel"
  <1>1. Head(toClient) \in Acks
    BY Read, Zenon DEF Heard, Types, ChannelTypes
  <1>2. /\ Ack("PUBREL", Head(toClient).id, "ok") \in Rels
        /\ Ack("PUBREL", Head(toClient).id, "ok").type = "PUBREL"
        /\ Ack("PUBREL", Head(toClient).id, "ok").id = Head(toClient).id
    BY <1>1, Zenon DEF Acks, Rels, Ack
  <1> QED
    BY <1>2, Zenon DEF Heard

\* The packet p repeats the PUBLISH of m.
Repeated(m, p) ==
  /\ ~V5 /\ phase[m] = "pub" /\ up /\ up' = up
  /\ toServer' = Append(toServer, p)
  /\ p.type = "PUBLISH" /\ p.m = m /\ p.id = id[m] /\ p.topic = Topic[m] /\ p.topic # None
  /\ p.alias = None
  /\ UNCHANGED <<toClient, server, client, drops>>

\* ClientRepeats sends the PUBLISH of an unfinished message with its topic in full.
LEMMA SameMessage ==
  ASSUME Types, NEW m \in Msgs, ClientRepeats(m)
  PROVE  \E p \in Pubs : Repeated(m, p)
  <1> DEFINE p == Publish(m, Topic[m], None)
  <1>1. p \in Pubs
    BY Zenon DEF Publish, Pubs, Types, MsgTypes, Topics
  <1>2. /\ p.type = "PUBLISH" /\ p.m = m /\ p.id = id[m] /\ p.topic = Topic[m]
        /\ p.alias = None
    BY Zenon DEF Publish
  <1>3. Topic[m] # None
    BY ReceiverAssumption, Zenon DEF Topics
  <1>4. toServer' = Append(toServer, p)
    BY Zenon DEF ClientRepeats
  <1>5. /\ ~V5 /\ phase[m] = "pub" /\ up /\ up' = up
        /\ UNCHANGED <<toClient, server, client, drops>>
    BY Zenon DEF ClientRepeats, Room
  <1> HIDE DEF p
  <1> QED
    BY <1>1, <1>2, <1>3, <1>4, <1>5, Zenon DEF Repeated

\* A connection that is gone.
LEMMA Gone ==
  ASSUME Close
  PROVE  /\ toServer' = <<>> /\ toClient' = <<>> /\ pubIn' = NoMessages
         /\ topicAlias' = NoAliases /\ ~up'
  BY Zenon DEF Close

\* The PUBLISH p is read and processed.
Taken(p) ==
  /\ up /\ up' = up /\ toServer # <<>> /\ p = Head(toServer) /\ p.type = "PUBLISH"
  /\ ~BadAlias(p) /\ ~(Allowed(p) /\ QoS[p.m] > 0 /\ rxQuota = 0)
  /\ toServer' = Tail(toServer)
  /\ topicAlias' = LearnAlias(p)
  /\ \/ /\ QoS[p.m] = 2 /\ Allowed(p)
        /\ rxQuota' = TakeQuota
        /\ pubIn' = Store(p)
        /\ Answer("PUBREC", p.id, IF pubIn[p.id] = None THEN "ok" ELSE "inuse")
        /\ UNCHANGED <<published, routed>>
     \/ /\ QoS[p.m] = 2 /\ ~Allowed(p)
        /\ Answer("PUBREC", p.id, "denied")
        /\ UNCHANGED <<rxQuota, pubIn, published, routed>>
     \/ /\ QoS[p.m] = 1
        /\ Answer("PUBACK", p.id, IF Allowed(p) THEN "ok" ELSE "denied")
        /\ IF Allowed(p) THEN Deliver(p.m, TopicOf(p)) ELSE UNCHANGED <<published, routed>>
        /\ UNCHANGED <<rxQuota, pubIn>>
     \/ /\ QoS[p.m] = 0
        /\ IF Allowed(p) THEN Deliver(p.m, TopicOf(p)) ELSE UNCHANGED <<published, routed>>
        /\ UNCHANGED <<rxQuota, pubIn, toClient>>
  /\ UNCHANGED <<closed, client, drops>>

\* A PUBLISH is processed, or ends the connection.
LEMMA OnPublishCases ==
  ASSUME OnPublish
  PROVE  \/ Taken(Head(toServer))
         \/ /\ Close /\ UNCHANGED <<published, routed, client, drops>>
            /\ \/ closed' = closed \cup {"alias"}
               \/ /\ closed' = closed \cup {"quota"}
                  /\ up /\ toServer # <<>> /\ Head(toServer).type = "PUBLISH"
                  /\ QoS[Head(toServer).m] > 0 /\ rxQuota = 0
  BY Zenon DEF OnPublish, Taken

-----------------------------------------------------------------------------
(* Packets and ids.                                                        *)

\* The empty connection.
LEMMA Empty ==
  /\ <<>> \in Seq(Pubs \cup Rels) /\ <<>> \in Seq(Acks) /\ Len(<<>>) = 0
  /\ NoMessages \in [Ids -> Stores \cup {None}]
  /\ NoAliases \in [Aliases -> Topics \cup {None}]
  /\ \A i \in Ids : NoMessages[i] = None
  BY DEF NoMessages, NoAliases

\* What an acknowledgement is, and where it goes.
LEMMA Answered ==
  ASSUME Types, NEW t \in {"PUBACK", "PUBREC", "PUBCOMP"}, NEW i \in Ids,
         NEW r \in {"ok", "inuse", "denied", "notfound"}, Answer(t, i, r)
  PROVE  \E q \in Acks : /\ toClient' = Append(toClient, q)
                         /\ q.type = t /\ q.id = i /\ (q.reason = r \/ (~V5 /\ q.reason = "ok"))
  <1>1. PICK w : w = IF V5 THEN r ELSE "ok"
    BY Zenon
  <1>2. /\ w \in {"ok", "inuse", "denied", "notfound"}
        /\ w = r \/ (~V5 /\ w = "ok")
    <2>1. CASE V5
      BY <1>1, <2>1, Zenon DEF V5
    <2>2. CASE ~V5
      BY <1>1, <2>2, Zenon DEF V5
    <2> QED
      BY <2>1, <2>2, Zenon
  <1>3. toClient' = Append(toClient, [type |-> t, id |-> i, reason |-> w])
    BY <1>1, Zenon DEF Answer, Ack
  <1> QED
    BY <1>2, <1>3 DEF Acks

\* What is read is the first packet, and it is whole.
LEMMA TakenPacket ==
  ASSUME Base, NEW p, Taken(p)
  PROVE  /\ p \in Pubs /\ p.m \in Msgs /\ p = toServer[1] /\ Carries(1, p.m)
         /\ 1 \in 1..Len(toServer) /\ toServer # <<>> /\ toServer' = Tail(toServer)
         /\ QoS[p.m] > 0 => p.id \in Ids
         /\ p.id = id[p.m]
         /\ p.topic = None => p.alias \in Aliases
         /\ TopicOf(p) \in Topics \cup {None}
  <1>1. p \in Pubs \cup Rels /\ p.type = "PUBLISH" /\ p = toServer[1] /\ 1 <= Len(toServer)
    BY Read, Zenon DEF Base, Types, ChannelTypes, Taken
  <1>2. p \in Pubs /\ p.m \in Msgs
    BY <1>1, Zenon DEF Pubs, Rels
  <1>3. Carries(1, p.m) /\ 1 \in 1..Len(toServer)
    BY <1>1 DEF Carries, Base, Types, ChannelTypes
  <1>4. /\ QoS[p.m] > 0 => p.id \in Ids
        /\ p.id = id[p.m]
        /\ p.topic = None => p.alias # None
    BY <1>1, <1>2, <1>3, Zenon DEF Base, IdInv, PacketIds
  <1>5. p.topic = None => p.alias \in Aliases
    BY <1>2, <1>4, Zenon DEF Pubs
  <1>6. TopicOf(p) \in Topics \cup {None}
    BY <1>2, <1>5, Zenon DEF Pubs, TopicOf, Base, Types, AliasTypes
  <1> QED
    BY <1>1, <1>2, <1>3, <1>4, <1>5, <1>6, Zenon DEF Taken

\* It is answered, unless it has QoS 0.
LEMMA TakenAnswer ==
  ASSUME Base, NEW p, Taken(p)
  PROVE  \/ QoS[p.m] = 0 /\ toClient' = toClient
         \/ QoS[p.m] > 0 /\ \E q \in Acks :
              /\ toClient' = Append(toClient, q) /\ q.id = p.id
              /\ \/ QoS[p.m] = 1 /\ q.type = "PUBACK"
                 \/ /\ QoS[p.m] = 2 /\ q.type = "PUBREC"
                    /\ V5 /\ q.reason # "ok" => ~Allowed(p) \/ pubIn[p.id] # None
  <1>1. \/ QoS[p.m] = 0 /\ toClient' = toClient
        \/ QoS[p.m] = 1 /\ \E r \in {"ok", "denied"} : Answer("PUBACK", p.id, r)
        \/ QoS[p.m] = 2 /\ pubIn[p.id] = None /\ Answer("PUBREC", p.id, "ok")
        \/ QoS[p.m] = 2 /\ pubIn[p.id] # None /\ Answer("PUBREC", p.id, "inuse")
        \/ QoS[p.m] = 2 /\ ~Allowed(p) /\ Answer("PUBREC", p.id, "denied")
    <2>1. /\ "ok" \in {"ok", "denied"} /\ "denied" \in {"ok", "denied"}
      BY Zenon
    <2>2. \/ QoS[p.m] = 0 /\ toClient' = toClient
          \/ QoS[p.m] = 1 /\ Answer("PUBACK", p.id, IF Allowed(p) THEN "ok" ELSE "denied")
          \/ /\ QoS[p.m] = 2
             /\ Answer("PUBREC", p.id, IF pubIn[p.id] = None THEN "ok" ELSE "inuse")
          \/ QoS[p.m] = 2 /\ ~Allowed(p) /\ Answer("PUBREC", p.id, "denied")
      BY Zenon DEF Taken
    <2>3. CASE pubIn[p.id] = None
      BY <2>1, <2>2, <2>3, Zenon
    <2>4. CASE pubIn[p.id] # None
      BY <2>1, <2>2, <2>4, Zenon
    <2> QED
      BY <2>3, <2>4, Zenon
  <1>2. p.m \in Msgs /\ (QoS[p.m] > 0 => p.id \in Ids)
    BY TakenPacket, Zenon
  <1>3. Types
    BY Zenon DEF Base
  <1>4. CASE QoS[p.m] = 0 /\ toClient' = toClient
    BY <1>4, Zenon
  <1>5. CASE QoS[p.m] = 1 /\ \E r \in {"ok", "denied"} : Answer("PUBACK", p.id, r)
    <2>1. PICK q \in Acks : toClient' = Append(toClient, q) /\ q.type = "PUBACK" /\ q.id = p.id
      BY <1>2, <1>3, <1>5, Answered
    <2> QED
      BY <1>5, <2>1
  <1>6. ASSUME QoS[p.m] = 2, NEW r \in {"ok", "inuse", "denied"}, Answer("PUBREC", p.id, r)
        PROVE  \E q \in Acks :
                 /\ toClient' = Append(toClient, q) /\ q.type = "PUBREC" /\ q.id = p.id
                 /\ (V5 => q.reason = r)
    BY <1>2, <1>3, <1>6, Answered
  <1> QED
    BY <1>1, <1>4, <1>5, <1>6

\* What it does to the queue and to the messages.
LEMMA TakenEffect ==
  ASSUME NEW p, Taken(p)
  PROVE  /\ \/ pubIn' = pubIn /\ rxQuota' = rxQuota
            \/ QoS[p.m] = 2 /\ Allowed(p) /\ pubIn' = Store(p) /\ rxQuota' = TakeQuota
         /\ \/ published' = published /\ routed' = routed
            \/ QoS[p.m] # 2 /\ Deliver(p.m, TopicOf(p))
  <1>1. \/ /\ QoS[p.m] = 2 /\ Allowed(p) /\ pubIn' = Store(p) /\ rxQuota' = TakeQuota
           /\ UNCHANGED <<published, routed>>
        \/ UNCHANGED <<rxQuota, pubIn, published, routed>>
        \/ /\ QoS[p.m] \in {0, 1} /\ UNCHANGED <<rxQuota, pubIn>>
           /\ Deliver(p.m, TopicOf(p)) \/ UNCHANGED <<published, routed>>
    <2>1. CASE Allowed(p)
      BY <2>1, Zenon DEF Taken
    <2>2. CASE ~Allowed(p)
      BY <2>2, Zenon DEF Taken
    <2> QED
      BY <2>1, <2>2, Zenon
  <1> QED
    BY <1>1

\* The PUBREL p is read and answered.
LEMMA ReleasedPacket ==
  ASSUME Base, OnPubrel, NEW p, p = Head(toServer)
  PROVE  /\ p \in Rels /\ p.id \in Ids /\ p = toServer[1] /\ 1 \in 1..Len(toServer)
         /\ p.type = "PUBREL" /\ toServer # <<>> /\ toServer' = Tail(toServer)
         /\ \E q \in Acks : toClient' = Append(toClient, q)
                            /\ q.type = "PUBCOMP" /\ q.id = p.id
         /\ \/ /\ pubIn[p.id] # None /\ pubIn[p.id] \in Stores
               /\ Deliver(pubIn[p.id][1], pubIn[p.id][2])
               /\ pubIn' = Release(p) /\ rxQuota' = GiveQuota
            \/ pubIn[p.id] = None /\ UNCHANGED <<pubIn, rxQuota, published, routed>>
  <1>1. p \in Pubs \cup Rels /\ p.type = "PUBREL" /\ p = toServer[1] /\ 1 <= Len(toServer)
    BY Read, Zenon DEF Base, Types, ChannelTypes, OnPubrel
  <1>2. p \in Rels /\ p.id \in Ids
    BY <1>1, Zenon DEF Pubs, Rels
  <1>3. Answer("PUBCOMP", p.id, "ok") \/ Answer("PUBCOMP", p.id, "notfound")
    BY Zenon DEF OnPubrel
  <1>4. \E q \in Acks : toClient' = Append(toClient, q) /\ q.type = "PUBCOMP" /\ q.id = p.id
    BY <1>2, <1>3, Answered DEF Base
  <1>5. \/ /\ pubIn[p.id] # None
           /\ Deliver(pubIn[p.id][1], pubIn[p.id][2])
           /\ pubIn' = Release(p) /\ rxQuota' = GiveQuota
        \/ pubIn[p.id] = None /\ UNCHANGED <<pubIn, rxQuota, published, routed>>
    BY Zenon DEF OnPubrel
  <1>6. pubIn[p.id] # None => pubIn[p.id] \in Stores
    BY <1>2, Zenon DEF Base, Types, StoreTypes
  <1>7. 1 \in 1..Len(toServer) /\ toServer # <<>> /\ toServer' = Tail(toServer)
    BY <1>1 DEF Base, Types, ChannelTypes, OnPubrel
  <1> QED
    BY <1>1, <1>2, <1>4, <1>5, <1>6, <1>7, Zenon

\* What the client sends again after a reconnect: one packet for every message.
Again(order) ==
  /\ order \in [1..Size(InFlight) -> InFlight] /\ Size(InFlight) \in Nat
  /\ toServer' \in Seq(Pubs \cup Rels)
  /\ Len(toServer') = Size(InFlight)
  /\ \A k \in 1..Len(toServer') :
       /\ order[k] \in InFlight
       /\ \/ /\ phase[order[k]] = "rel" /\ toServer'[k].type = "PUBREL"
          \/ /\ phase[order[k]] = "pub" /\ toServer'[k].type = "PUBLISH"
             /\ toServer'[k].m = order[k]
             /\ toServer'[k].topic = Topic[order[k]] /\ toServer'[k].alias = None
       /\ toServer'[k].id = id[order[k]]
  /\ \A j, k \in 1..Len(toServer') : order[j] = order[k] => j = k

\* A step, with what a reconnect makes the client send.
Step == [Next]_vars /\ (Reconnect => \E order : Again(order))

\* Every step keeps the types.
LEMMA TypesStep == Base /\ Step => Types'
  <1> SUFFICES ASSUME Base, [Next]_vars, Reconnect => \E order : Again(order)
               PROVE  Types'
    BY Zenon DEF Step
  <1>0. Types
    BY Zenon DEF Base
  <1>1. CASE UNCHANGED vars
    BY <1>0, <1>1, Zenon DEF Types, ChannelTypes, StoreTypes, AliasTypes, MsgTypes, CountTypes,
                       vars, server, client
  <1>2. ASSUME NEW m \in Msgs, ClientPublish(m) PROVE Types'
    <2>1. PICK p \in Pubs : NewPacket(m, p)
      BY <1>0, <1>2, NewMessage, Zenon
    <2>2. ChannelTypes'
      BY <1>0, <2>1, Sent, Zenon DEF Types, ChannelTypes, NewPacket
    <2>3. AliasTypes'
      BY <1>0, <2>1, Zenon DEF Types, AliasTypes, Topics, NewPacket, server
    <2>4. MsgTypes'
      BY <1>0, <2>1 DEF Types, MsgTypes, NewPacket
    <2>5. StoreTypes' /\ CountTypes'
      BY <1>0, <2>1, Zenon DEF Types, StoreTypes, CountTypes, NewPacket, server
    <2> QED
      BY <2>2, <2>3, <2>4, <2>5, Zenon DEF Types
  <1>3. ASSUME NEW m \in Msgs, ClientRepeats(m) PROVE Types'
    <2>1. PICK p \in Pubs : Repeated(m, p)
      BY <1>0, <1>3, SameMessage, Zenon
    <2>2. ChannelTypes'
      BY <1>0, <2>1, Sent, Zenon DEF Types, ChannelTypes, Repeated
    <2> QED
      BY <1>0, <2>1, <2>2, Zenon DEF Types, StoreTypes, AliasTypes, MsgTypes, CountTypes,
                              Repeated, server, client
  <1>4. CASE ClientReceives
    <2>0. Heard
      BY <1>0, <1>4, Received, Zenon
    <2>1. Head(toClient) \in Acks /\ toClient' \in Seq(Acks)
      BY <1>0, <2>0, Read, Zenon DEF Types, ChannelTypes, Heard
    <2>2. Ack("PUBREL", Head(toClient).id, "ok") \in Rels
      BY <2>1, Zenon DEF Ack, Acks, Rels
    <2>3. Append(toServer, Ack("PUBREL", Head(toClient).id, "ok")) \in Seq(Pubs \cup Rels)
      BY <1>0, <2>2, Sent, Zenon DEF Types, ChannelTypes
    <2>4. ChannelTypes'
      BY <1>0, <2>0, <2>1, <2>3, Zenon DEF Types, ChannelTypes, Heard
    <2> QED
      BY <1>0, <2>0, <2>4, Zenon DEF Types, StoreTypes, AliasTypes, MsgTypes, CountTypes,
                              server, Heard
  <1>5. ASSUME Close, UNCHANGED <<published, client>> PROVE Types'
    BY <1>0, <1>5, Gone, Empty, Zenon DEF Types, ChannelTypes, StoreTypes, AliasTypes, MsgTypes,
                                   CountTypes, client
  <1>6. ASSUME NEW p, Taken(p) PROVE Types'
    <2>1. toServer' \in Seq(Pubs \cup Rels)
      <3>1. toServer # <<>> /\ toServer' = Tail(toServer)
        BY <1>6, TakenPacket, Zenon
      <3> QED
        BY <1>0, <3>1, Read, Zenon DEF Types, ChannelTypes
    <2>2. AliasTypes'
      <3>1. p \in Pubs /\ topicAlias' = LearnAlias(p) /\ aliased' = aliased
        BY <1>6, TakenPacket, Zenon DEF Taken, client
      <3> QED
        BY <1>0, <3>1, Zenon DEF Types, AliasTypes, LearnAlias, Pubs
    <2>3. toClient' \in Seq(Acks)
      <3>1. toClient' = toClient \/ \E q \in Acks : toClient' = Append(toClient, q)
        BY <1>6, TakenAnswer, Zenon
      <3>2. ASSUME NEW q \in Acks PROVE Append(toClient, q) \in Seq(Acks)
        BY <1>0, Sent, Zenon DEF Types, ChannelTypes
      <3> QED
        BY <1>0, <3>1, <3>2, Zenon DEF Types, ChannelTypes
    <2>4. StoreTypes'
      <3>1. pubIn' = pubIn \/ (QoS[p.m] = 2 /\ pubIn' = Store(p))
        BY <1>6, TakenEffect, Zenon
      <3>2. <<p.m, TopicOf(p)>> \in Stores /\ (QoS[p.m] = 2 => p.id \in Ids)
        BY <1>6, TakenPacket DEF Stores
      <3> QED
        BY <1>0, <3>1, <3>2, Zenon DEF Types, StoreTypes, Store
    <2>5. CountTypes'
      <3>1. published' = published \/ published' = [published EXCEPT ![p.m] = @ + 1]
        BY <1>6, TakenEffect, Zenon DEF Deliver
      <3>2. p.m \in Msgs
        BY <1>6, TakenPacket, Zenon
      <3> QED
        BY <1>0, <3>1, <3>2 DEF Types, CountTypes
    <2> QED
      BY <1>0, <1>6, <2>1, <2>2, <2>3, <2>4, <2>5, Zenon DEF Taken, Types, ChannelTypes, MsgTypes,
                                                      client
  <1>7. CASE OnPubrel
    <2>0. PICK p : p = Head(toServer)
      BY Zenon
    <2>1. toServer' \in Seq(Pubs \cup Rels)
      <3>1. toServer # <<>> /\ toServer' = Tail(toServer)
        BY <1>7, <2>0, ReleasedPacket, Zenon
      <3> QED
        BY <1>0, <3>1, Read, Zenon DEF Types, ChannelTypes
    <2>2. PICK q \in Acks : toClient' = Append(toClient, q)
      BY <1>7, <2>0, ReleasedPacket, Zenon
    <2>3. toClient' \in Seq(Acks)
      BY <1>0, <2>2, Sent, Zenon DEF Types, ChannelTypes
    <2>4. \/ /\ pubIn[p.id] \in Stores /\ p.id \in Ids
             /\ published' = [published EXCEPT ![pubIn[p.id][1]] = @ + 1]
             /\ pubIn' = [pubIn EXCEPT ![p.id] = None]
          \/ UNCHANGED <<pubIn, published>>
      BY <1>7, <2>0, ReleasedPacket, Zenon DEF Deliver, Release
    <2>5. StoreTypes'
      BY <1>0, <2>4, Zenon DEF Types, StoreTypes
    <2>6. CountTypes'
      <3>1. pubIn[p.id] \in Stores => pubIn[p.id][1] \in Msgs
        BY Zenon DEF Stores
      <3> QED
        BY <1>0, <2>4, <3>1 DEF Types, CountTypes
    <2> QED
      BY <1>0, <1>7, <2>1, <2>3, <2>5, <2>6, Zenon DEF Types, ChannelTypes, AliasTypes, MsgTypes,
                                                OnPubrel, client
  <1>8. CASE Reconnect
    <2>4. toServer' \in Seq(Pubs \cup Rels)
      BY <1>8, Zenon DEF Again
    <2>5. AliasTypes'
      BY <1>0, <1>8, Empty, Zenon DEF Reconnect, AliasTypes, Types
    <2> QED
      BY <1>0, <1>8, <2>4, <2>5, Zenon DEF Types, ChannelTypes, StoreTypes, MsgTypes, CountTypes,
                                    Reconnect
  <1> QED
    BY <1>1, <1>2, <1>3, <1>4, <1>5, <1>6, <1>7, <1>8, OnPublishCases, Zenon DEF Next, Drop

\* Nothing but a connection is made out of nothing.
LEMMA DownStep == Base /\ [Next]_vars => DownInv'
  <1> SUFFICES ASSUME Base, [Next]_vars PROVE DownInv'
    BY Zenon
  <1>1. CASE UNCHANGED vars
    BY <1>1, Zenon DEF Base, DownInv, vars, server
  <1>2. ASSUME NEW m \in Msgs, ClientPublish(m) \/ ClientRepeats(m) PROVE DownInv'
    BY <1>2 DEF DownInv, ClientPublish, ClientRepeats, Room
  <1>3. CASE ClientReceives
    BY <1>3, Zenon DEF Base, DownInv, ClientReceives
  <1>4. ASSUME Close PROVE DownInv'
    BY <1>4, Gone, Zenon DEF DownInv, NoMessages, NoAliases
  <1>5. CASE Taken(Head(toServer)) \/ OnPubrel \/ Reconnect
    BY <1>5 DEF DownInv, Taken, OnPubrel, Reconnect
  <1> QED
    BY <1>1, <1>2, <1>3, <1>4, <1>5, OnPublishCases, Zenon DEF Next, Drop

\* The phases of the messages an acknowledgement is not for do not change.
LEMMA HeardPhase ==
  ASSUME Types, Heard
  PROVE  \A m \in Msgs : \/ phase'[m] = phase[m]
                         \/ /\ phase[m] \in {"pub", "rel"}
                            /\ \/ phase'[m] \in {"done", "refused"}
                               \/ phase'[m] = "rel" /\ QoS[m] = 2
  BY Zenon DEF Heard, Told, InFlight

\* A new message gets an id that no unfinished one has.
LEMMA FlightStep == Base /\ [Next]_vars => FlightIds'
  <1> SUFFICES ASSUME Base, [Next]_vars PROVE FlightIds'
    BY Zenon
  <1>0. Types /\ MsgTypes /\ FlightIds
    BY Zenon DEF Base, Types, IdInv
  <1>1. ASSUME UNCHANGED <<phase, id>> PROVE FlightIds'
    BY <1>0, <1>1, Zenon DEF FlightIds, InFlight
  <1>2. ASSUME NEW m \in Msgs, ClientPublish(m) PROVE FlightIds'
    <2>1. PICK p \in Pubs : NewPacket(m, p)
      BY <1>0, <1>2, NewMessage, Zenon
    <2> QED
      BY <1>0, <2>1 DEF FlightIds, InFlight, NewPacket, MsgTypes
  <1>3. CASE ClientReceives
    <2>1. Heard
      BY <1>0, <1>3, Received, Zenon
    <2>2. id' = id
      BY <2>1, Zenon DEF Heard
    <2> QED
      BY <1>0, <2>1, <2>2, HeardPhase, Zenon DEF FlightIds, InFlight
  <1> QED
    BY <1>1, <1>2, <1>3, OnPublishCases, Zenon DEF Next, Drop, ClientRepeats, OnPubrel, Taken,
                                            Reconnect, vars, client

\* Packets have the ids of their messages, those that are sent again included.
LEMMA PacketStep == Base /\ Step => PacketIds'
  <1> SUFFICES ASSUME Base, [Next]_vars, Reconnect => \E order : Again(order)
               PROVE  PacketIds'
    BY Zenon DEF Step
  <1>0. Types /\ ChannelTypes /\ MsgTypes /\ PacketIds
    BY Zenon DEF Base, Types, IdInv
  <1>1. ASSUME UNCHANGED <<phase, id, toServer>> PROVE PacketIds'
    BY <1>0, <1>1, Zenon DEF PacketIds, Carries
  <1>2. ASSUME NEW m \in Msgs, ClientPublish(m) PROVE PacketIds'
    <2>1. PICK p \in Pubs : NewPacket(m, p)
      BY <1>0, <1>2, NewMessage, Zenon
    <2> QED
      BY <1>0, <2>1 DEF PacketIds, Carries, NewPacket, MsgTypes
  <1>3. ASSUME NEW m \in Msgs, ClientRepeats(m) PROVE PacketIds'
    <2>1. PICK p \in Pubs : Repeated(m, p)
      BY <1>0, <1>3, SameMessage, Zenon
    <2>2. m \in InFlight /\ phase[m] # "new"
      BY <2>1, Zenon DEF Repeated, InFlight
    <2>3. QoS[m] > 0 => id[m] \in Ids
      BY <2>2, Zenon DEF Base, IdInv, FlightIds
    <2>4. /\ Len(toServer') = Len(toServer) + 1 /\ toServer'[Len(toServer) + 1] = p
          /\ \A k \in 1..Len(toServer) : toServer'[k] = toServer[k]
          /\ Len(toServer) \in Nat /\ UNCHANGED <<phase, id>>
      BY <1>0, <2>1, Sent DEF Repeated, ChannelTypes, client
    <2>5. \A n \in Msgs, k \in 1..Len(toServer') : Carries(k, n)' =>
            (k \in 1..Len(toServer) /\ Carries(k, n)) \/ (k = Len(toServer) + 1 /\ n = m)
      BY <2>1, <2>4 DEF Carries, Repeated
    <2>6. p.id = id[m] /\ p.topic # None
      BY <2>1, Zenon DEF Repeated
    <2> QED
      BY <1>0, <2>2, <2>3, <2>4, <2>5, <2>6 DEF PacketIds
  <1>4. CASE ClientReceives
    <2>1. Heard
      BY <1>0, <1>4, Received, Zenon
    <2>2. id' = id
      BY <2>1, Zenon DEF Heard
    <2>3. \A m \in Msgs : phase[m] # "new" => phase'[m] # "new"
      BY <1>0, <2>1, HeardPhase, Zenon
    <2>4. CASE toServer' = toServer
      BY <1>0, <2>2, <2>3, <2>4, Zenon DEF PacketIds, Carries
    <2>5. CASE toServer' # toServer
      <3>1. PICK r \in Rels : toServer' = Append(toServer, r) /\ r.type = "PUBREL"
        BY <1>0, <2>1, <2>5, HeardPubrel, Zenon
      <3> QED
        BY <1>0, <2>2, <2>3, <3>1, Sent DEF PacketIds, Carries, ChannelTypes
    <2> QED
      BY <2>4, <2>5, Zenon
  <1>5. ASSUME Close PROVE PacketIds'
    BY <1>5, Gone, Empty DEF PacketIds
  <1>6. ASSUME UNCHANGED <<phase, id>>, toServer # <<>>, toServer' = Tail(toServer)
        PROVE  PacketIds'
    BY <1>0, <1>6, Read DEF PacketIds, Carries, ChannelTypes
  <1>7. CASE Reconnect
    <2>1. PICK order : Again(order)
      BY <1>7, Zenon
    <2>2. UNCHANGED <<phase, id>>
      BY <1>7, Zenon DEF Reconnect
    <2>3. \A m \in InFlight : QoS[m] > 0 /\ id[m] \in Ids
      BY Zenon DEF Base, IdInv, FlightIds
    <2>4. \A k \in 1..Len(toServer') : \A m \in Msgs : Carries(k, m)' =>
            m = order[k] /\ phase[m] = "pub" /\ toServer'[k].id = id[m] /\ m \in InFlight
            /\ toServer'[k].topic = Topic[m]
      BY <2>1 DEF Again, Carries
    <2>5. \A m \in Msgs : Topic[m] # None
      BY ReceiverAssumption, Zenon DEF Topics
    <2> QED
      BY <2>2, <2>3, <2>4, <2>5, Zenon DEF PacketIds
  <1> QED
    BY <1>1, <1>2, <1>3, <1>4, <1>5, <1>6, <1>7, OnPublishCases, Zenon
    DEF Next, Drop, OnPubrel, Taken, vars, client

\* The server stores a message under its id.
LEMMA StoredStep == Base /\ [Next]_vars => StoredIds'
  <1> SUFFICES ASSUME Base, [Next]_vars PROVE StoredIds'
    BY Zenon
  <1>0. Types /\ StoreTypes /\ MsgTypes /\ StoredIds
    BY Zenon DEF Base, Types, IdInv
  <1>1. ASSUME UNCHANGED <<phase, id, pubIn>> PROVE StoredIds'
    BY <1>0, <1>1, Zenon DEF StoredIds
  <1>2. ASSUME NEW m \in Msgs, ClientPublish(m) PROVE StoredIds'
    <2>1. PICK p \in Pubs : NewPacket(m, p)
      BY <1>0, <1>2, NewMessage, Zenon
    <2> QED
      BY <1>0, <2>1 DEF StoredIds, StoreTypes, Stores, NewPacket, MsgTypes, server
  <1>3. CASE ClientReceives
    <2>1. Heard
      BY <1>0, <1>3, Received, Zenon
    <2>2. id' = id /\ pubIn' = pubIn
      BY <2>1, Zenon DEF Heard, server
    <2> QED
      BY <1>0, <2>1, <2>2, HeardPhase, Zenon DEF StoredIds, StoreTypes, Stores
  <1>4. ASSUME Close PROVE StoredIds'
    BY <1>4, Gone, Empty, Zenon DEF StoredIds
  <1>5. ASSUME NEW p, Taken(p) PROVE StoredIds'
    <2>1. UNCHANGED <<phase, id>>
      BY <1>5, Zenon DEF Taken, client
    <2>2. /\ p.m \in Msgs /\ Carries(1, p.m) /\ 1 \in 1..Len(toServer) /\ p.id = id[p.m]
          /\ QoS[p.m] > 0 => p.id \in Ids
      BY <1>5, TakenPacket, Zenon
    <2>3. phase[p.m] # "new"
      BY <2>2, Zenon DEF Base, IdInv, PacketIds
    <2>4. pubIn' = pubIn \/ (QoS[p.m] = 2 /\ pubIn' = Store(p))
      BY <1>5, TakenEffect, Zenon
    <2> QED
      BY <1>0, <2>1, <2>2, <2>3, <2>4 DEF StoredIds, StoreTypes, Store
  <1>6. CASE OnPubrel
    <2>1. UNCHANGED <<phase, id>>
      BY <1>6, Zenon DEF OnPubrel, client
    <2>2. \A i \in Ids : pubIn'[i] # None => pubIn'[i] = pubIn[i]
      BY <1>0, <1>6, Zenon DEF OnPubrel, Release, StoreTypes
    <2> QED
      BY <1>0, <2>1, <2>2, Zenon DEF StoredIds
  <1> QED
    BY <1>1, <1>2, <1>3, <1>4, <1>5, <1>6, OnPublishCases, Zenon
    DEF Next, Drop, ClientRepeats, Reconnect, vars, client, server

-----------------------------------------------------------------------------
(* At most once.                                                           *)

\* A sent packet is the last one, and the others stay.
Appended(p) ==
  /\ Len(toServer') = Len(toServer) + 1 /\ Len(toServer) \in Nat
  /\ toServer'[Len(toServer) + 1] = p
  /\ \A k \in 1..Len(toServer) : toServer'[k] = toServer[k]

\* A packet is appended to the channel of the server.
LEMMA SentServer ==
  ASSUME ChannelTypes, NEW p \in Pubs \cup Rels, toServer' = Append(toServer, p)
  PROVE  Appended(p)
  BY Sent DEF ChannelTypes, Appended

\* After the first packet is read the next one is the first.
Advanced ==
  /\ Len(toServer') = Len(toServer) - 1 /\ Len(toServer) \in Nat /\ 1 <= Len(toServer)
  /\ \A k \in 1..Len(toServer') : toServer'[k] = toServer[k + 1] /\ k + 1 \in 1..Len(toServer)

\* The server takes the first packet.
LEMMA ReadServer ==
  ASSUME ChannelTypes, toServer # <<>>, toServer' = Tail(toServer)
  PROVE  Advanced
  BY Read, Zenon DEF ChannelTypes, Advanced

\* At first nothing is published and nothing is under way.
LEMMA OnceInit == Init => OnceInv
  <1> SUFFICES ASSUME Init, NEW m \in Msgs PROVE NotAgain(m) /\ LastPubrel(m)
    BY Zenon DEF OnceInv
  <1> QED
    BY Empty DEF Init, NotAgain, LastPubrel

\* A packet that is not a PUBLISH of n, nor a PUBREL of n too early.
LEMMA OnceSent ==
  ASSUME NEW n, NotAgain(n), LastPubrel(n),
         NEW q, Appended(q),
         id'[n] = id[n], pubIn' = pubIn, published' = published,
         phase[n] \notin {"new", "pub"} => phase'[n] \notin {"new", "pub"},
         ~(q.type = "PUBLISH" /\ q.m = n),
         q.type = "PUBREL" /\ q.id = id[n] /\ Has(Len(toServer) + 1, n)
           => phase'[n] \notin {"new", "pub"}
  PROVE  NotAgain(n)' /\ LastPubrel(n)'
  <1>1. /\ Len(toServer') = Len(toServer) + 1 /\ Len(toServer) \in Nat
        /\ toServer'[Len(toServer) + 1] = q
        /\ \A k \in 1..Len(toServer) : toServer'[k] = toServer[k]
    BY Zenon DEF Appended
  <1>2. /\ \A k \in 1..Len(toServer) : Carries(k, n)' <=> Carries(k, n)
        /\ \A k \in 1..Len(toServer') : k = Len(toServer) + 1 => ~Carries(k, n)'
    BY <1>1, Zenon DEF Carries
  <1>3. NotAgain(n)'
    BY <1>1, <1>2 DEF NotAgain
  <1>4. \A k \in 1..Len(toServer) + 1 : Has(k, n)' => Has(k, n)
    BY <1>1, <1>2 DEF Has
  <1>5. LastPubrel(n)'
    <2> SUFFICES ASSUME NEW k \in 1..Len(toServer'), toServer'[k].type = "PUBREL",
                        toServer'[k].id = id[n], Has(k, n)
                 PROVE  /\ phase'[n] \notin {"new", "pub"}
                        /\ \A j \in k+1..Len(toServer') : ~Carries(j, n)'
      BY <1>1, <1>4, Zenon DEF LastPubrel
    <2>1. CASE k = Len(toServer) + 1
      BY <1>1, <2>1
    <2>2. CASE k \in 1..Len(toServer)
      <3>1. phase[n] \notin {"new", "pub"} /\ \A j \in k+1..Len(toServer) : ~Carries(j, n)
        BY <1>1, <2>2, Zenon DEF LastPubrel
      <3> QED
        BY <1>1, <1>2, <2>2, <3>1
    <2> QED
      BY <1>1, <2>1, <2>2
  <1> QED
    BY <1>3, <1>5, Zenon

\* The first packet is read and does not publish n.
LEMMA OnceRead ==
  ASSUME NEW n, NotAgain(n), LastPubrel(n), Advanced,
         id'[n] = id[n], published'[n] = published[n], phase'[n] = phase[n],
         \A i \in Ids : pubIn'[i] # None /\ pubIn'[i][1] = n =>
           (pubIn[i] # None /\ pubIn[i][1] = n) \/ Carries(1, n)
  PROVE  NotAgain(n)' /\ LastPubrel(n)'
  <1>1. /\ Len(toServer') = Len(toServer) - 1 /\ Len(toServer) \in Nat /\ 1 <= Len(toServer)
        /\ \A k \in 1..Len(toServer') :
             toServer'[k] = toServer[k + 1] /\ k + 1 \in 1..Len(toServer)
    BY Zenon DEF Advanced
  <1>2. \A k \in 1..Len(toServer') : Carries(k, n)' <=> Carries(k + 1, n)
    BY <1>1, Zenon DEF Carries
  <1>3. NotAgain(n)'
    BY <1>1, <1>2 DEF NotAgain
  <1>4. \A k \in 1..Len(toServer') : Has(k, n)' => Has(k + 1, n)
    BY <1>1, <1>2 DEF Has
  <1>5. LastPubrel(n)'
    <2> SUFFICES ASSUME NEW k \in 1..Len(toServer'), toServer[k + 1].type = "PUBREL",
                        toServer[k + 1].id = id[n], Has(k + 1, n)
                 PROVE  /\ phase'[n] \notin {"new", "pub"}
                        /\ \A j \in k+1..Len(toServer') : ~Carries(j, n)'
      BY <1>1, <1>4, Zenon DEF LastPubrel
    <2>1. /\ phase[n] \notin {"new", "pub"}
          /\ \A j \in k+1+1..Len(toServer) : ~Carries(j, n)
      BY <1>1, Zenon DEF LastPubrel
    <2>2. \A j \in k+1..Len(toServer') : j \in 1..Len(toServer') /\ j+1 \in k+1+1..Len(toServer)
      BY <1>1
    <2> QED
      BY <1>2, <2>1, <2>2, Zenon
  <1> QED
    BY <1>3, <1>5, Zenon

\* No step publishes a message of QoS 2 again, and none sends its PUBLISH behind its PUBREL.
LEMMA OnceStep == Base /\ OnceInv /\ Step => OnceInv'
  <1> SUFFICES ASSUME Base, OnceInv, [Next]_vars, Reconnect => \E order : Again(order),
                      NEW n \in Msgs, QoS[n] = 2
               PROVE  NotAgain(n)' /\ LastPubrel(n)'
    BY Zenon DEF OnceInv, Step
  <1>0. /\ Types /\ ChannelTypes /\ MsgTypes /\ StoreTypes /\ CountTypes
        /\ NotAgain(n) /\ LastPubrel(n)
    BY Zenon DEF Base, Types, OnceInv
  <1>a. \A k \in 1..Len(toServer) : Carries(k, n) => phase[n] # "new"
    BY Zenon DEF Base, IdInv, PacketIds
  <1>b. \A i \in Ids : pubIn[i] # None =>
          QoS[pubIn[i][1]] = 2 /\ id[pubIn[i][1]] = i /\ phase[pubIn[i][1]] # "new"
    BY Zenon DEF Base, IdInv, StoredIds
  <1>1. CASE UNCHANGED <<toServer, phase, id, pubIn, published>>
    BY <1>0, <1>1 DEF NotAgain, LastPubrel, Has, Carries
  <1>2. ASSUME NEW m \in Msgs, ClientPublish(m) PROVE NotAgain(n)' /\ LastPubrel(n)'
    <2>1. PICK p \in Pubs : NewPacket(m, p)
      BY <1>0, <1>2, NewMessage, Zenon
    <2>2. /\ toServer' = Append(toServer, p) /\ p.m = m /\ p.type = "PUBLISH"
          /\ phase[m] = "new" /\ UNCHANGED <<pubIn, published>>
      BY <2>1, Zenon DEF NewPacket, server, Pubs
    <2>3. Appended(p)
      BY <1>0, <2>2, SentServer, Zenon
    <2>4. CASE n = m
      <3>1. published[n] = 0
        BY <1>0, <2>2, <2>4, Zenon DEF NotAgain
      <3>2. NotAgain(n)'
        BY <2>2, <3>1 DEF NotAgain
      <3>3. \A k \in 1..Len(toServer) : ~Carries(k, n)'
        BY <1>a, <2>2, <2>3, <2>4, Zenon DEF Carries, Appended
      <3>4. \A i \in Ids : pubIn'[i] # None => pubIn'[i][1] # n
        BY <1>b, <2>2, <2>4, Zenon
      <3>6. LastPubrel(n)'
        BY <2>2, <2>3, <3>3, <3>4 DEF LastPubrel, Has, Appended
      <3> QED
        BY <3>2, <3>6, Zenon
    <2>5. CASE n # m
      <3>1. phase'[n] = phase[n] /\ id'[n] = id[n]
        BY <1>0, <2>1, <2>5, Zenon DEF NewPacket, MsgTypes
      <3> QED
        BY <1>0, <2>2, <2>3, <2>5, <3>1, OnceSent, Zenon
    <2> QED
      BY <2>4, <2>5, Zenon
  <1>3. ASSUME NEW m \in Msgs, ClientRepeats(m) PROVE NotAgain(n)' /\ LastPubrel(n)'
    <2>1. PICK p \in Pubs : Repeated(m, p)
      BY <1>0, <1>3, SameMessage, Zenon
    <2>2. /\ toServer' = Append(toServer, p) /\ p.m = m /\ p.type = "PUBLISH"
          /\ phase[m] = "pub" /\ UNCHANGED <<pubIn, published, phase, id>>
      BY <2>1, Zenon DEF Repeated, server, client
    <2>3. Appended(p)
      BY <1>0, <2>2, SentServer, Zenon
    <2>4. CASE n = m
      <3>1. published[n] = 0
        BY <1>0, <2>2, <2>4, Zenon DEF NotAgain
      <3>2. NotAgain(n)'
        BY <2>2, <3>1 DEF NotAgain
      <3>3. \A k \in 1..Len(toServer) : Has(k, n)' => Has(k, n)
        BY <2>2, <2>3 DEF Has, Carries, Appended
      <3>4. LastPubrel(n)'
        BY <1>0, <2>2, <2>3, <2>4, <3>3 DEF LastPubrel, Appended
      <3> QED
        BY <3>2, <3>4, Zenon
    <2>5. CASE n # m
      BY <1>0, <2>2, <2>3, <2>5, OnceSent, Zenon
    <2> QED
      BY <2>4, <2>5, Zenon
  <1>4. CASE ClientReceives
    <2>1. Heard
      BY <1>0, <1>4, Received, Zenon
    <2>2. UNCHANGED <<id, pubIn, published>>
      BY <2>1, Zenon DEF Heard, server
    <2>3. phase[n] \notin {"new", "pub"} => phase'[n] \notin {"new", "pub"}
      BY <1>0, <2>1, HeardPhase, Zenon
    <2>4. CASE toServer' = toServer
      BY <1>0, <2>2, <2>3, <2>4 DEF NotAgain, LastPubrel, Has, Carries
    <2>5. CASE toServer' # toServer
      <3>1. PICK r \in Rels :
              /\ toServer' = Append(toServer, r) /\ r.type = "PUBREL"
              /\ r.id = Head(toClient).id
              /\ Head(toClient).type = "PUBREC" /\ Head(toClient).reason = "ok"
              /\ \A m \in Msgs : Told(m) => phase'[m] = "rel"
        BY <1>0, <2>1, <2>5, HeardPubrel, Zenon
      <3>2. ASSUME r.id = id[n], Has(Len(toServer) + 1, n)
            PROVE  phase'[n] \notin {"new", "pub"}
        <4>1. phase[n] # "new"
          BY <1>0, <1>a, <1>b, <3>2 DEF Has, ChannelTypes, Rels
        <4>2. phase[n] = "pub" => Told(n)
          BY <3>1, <3>2, Zenon DEF Told, InFlight
        <4> QED
          BY <1>0, <2>3, <3>1, <4>1, <4>2, Zenon
      <3>3. Appended(r)
        BY <1>0, <3>1, SentServer, Zenon
      <3> QED
        BY <1>0, <2>2, <2>3, <3>1, <3>2, <3>3, OnceSent, Zenon
    <2> QED
      BY <2>4, <2>5, Zenon
  <1>5. ASSUME Close, UNCHANGED <<published, client>> PROVE NotAgain(n)' /\ LastPubrel(n)'
    BY <1>0, <1>5, Gone, Empty DEF NotAgain, LastPubrel, client
  <1>6. ASSUME NEW p, Taken(p) PROVE NotAgain(n)' /\ LastPubrel(n)'
    <2>1. /\ p.m \in Msgs /\ Carries(1, p.m) /\ 1 \in 1..Len(toServer) /\ p.id = id[p.m]
          /\ QoS[p.m] > 0 => p.id \in Ids
      BY <1>6, TakenPacket, Zenon
    <2>2. Advanced
      BY <1>0, <1>6, TakenPacket, ReadServer, Zenon
    <2>3. UNCHANGED <<phase, id>>
      BY <1>6, Zenon DEF Taken, client
    <2>4. published'[n] = published[n]
      BY <1>0, <1>6, <2>1, TakenEffect, Zenon DEF Deliver, CountTypes
    <2>5. \A i \in Ids : pubIn'[i] # None =>
            pubIn'[i] = pubIn[i] \/ pubIn'[i][1] = p.m
      BY <1>0, <1>6, <2>1, TakenEffect DEF StoreTypes, Store
    <2>6. \A i \in Ids : pubIn'[i] # None /\ pubIn'[i][1] = n =>
            (pubIn[i] # None /\ pubIn[i][1] = n) \/ Carries(1, n)
      BY <2>1, <2>5, Zenon
    <2> QED
      BY <1>0, <2>2, <2>3, <2>4, <2>6, OnceRead, Zenon
  <1>7. CASE OnPubrel
    <2>0. PICK p : p = Head(toServer)
      BY Zenon
    <2>1. /\ p \in Rels /\ p.id \in Ids /\ p = toServer[1] /\ 1 \in 1..Len(toServer)
          /\ p.type = "PUBREL" /\ Advanced
      BY <1>0, <1>7, <2>0, ReleasedPacket, ReadServer, Zenon
    <2>2. UNCHANGED <<phase, id>>
      BY <1>7, Zenon DEF OnPubrel, client
    <2>3. CASE UNCHANGED <<pubIn, published>>
      BY <1>0, <2>1, <2>2, <2>3, OnceRead, Zenon
    <2>4. CASE ~UNCHANGED <<pubIn, published>>
      <3>1. PICK x : x = pubIn[p.id][1]
        BY Zenon
      <3>2. /\ pubIn[p.id] # None /\ x \in Msgs
            /\ published' = [published EXCEPT ![x] = @ + 1]
            /\ pubIn' = [pubIn EXCEPT ![p.id] = None]
        BY <1>7, <2>0, <2>4, <3>1, ReleasedPacket, Zenon DEF Deliver, Release, Stores
      <3>3. \A i \in Ids : pubIn'[i] # None => pubIn'[i] = pubIn[i] /\ i # p.id
        BY <1>0, <2>1, <3>2, Zenon DEF StoreTypes
      <3>4. CASE n # x
        <4>1. published'[n] = published[n]
          BY <1>0, <3>2, <3>4, Zenon DEF CountTypes
        <4> QED
          BY <1>0, <2>1, <2>2, <3>3, <4>1, OnceRead, Zenon
      <3>5. CASE n = x
        <4>1. id[n] = p.id /\ Has(1, n)
          BY <1>b, <2>1, <3>1, <3>2, <3>5, Zenon DEF Has
        <4>2. /\ phase[n] \notin {"new", "pub"}
              /\ \A j \in 2..Len(toServer) : ~Carries(j, n)
          BY <1>0, <2>1, <4>1 DEF LastPubrel
        <4>3. published[n] = 0
          BY <1>0, <2>1, <3>1, <3>2, <3>5, Zenon DEF NotAgain
        <4>4. published'[n] = 1
          BY <1>0, <3>2, <3>5, <4>3 DEF CountTypes
        <4>5. \A k \in 1..Len(toServer') : ~Carries(k, n)'
          <5>1. \A k \in 1..Len(toServer') : /\ toServer'[k] = toServer[k + 1]
                                             /\ k + 1 \in 2..Len(toServer)
            BY <2>1 DEF Advanced
          <5> QED
            BY <4>2, <5>1, Zenon DEF Carries
        <4>6. \A i \in Ids : pubIn'[i] # None => pubIn'[i][1] # n
          BY <1>b, <3>3, <4>1
        <4>7. NotAgain(n)'
          BY <2>2, <4>2, <4>4, <4>5, <4>6, Zenon DEF NotAgain
        <4>8. LastPubrel(n)'
          BY <2>2, <4>2, <4>5, <2>1 DEF LastPubrel, Advanced
        <4> QED
          BY <4>7, <4>8, Zenon
      <3> QED
        BY <3>4, <3>5, Zenon
    <2> QED
      BY <2>3, <2>4, Zenon
  <1>8. CASE Reconnect
    <2>1. PICK order : Again(order)
      BY <1>8, Zenon
    <2>2. UNCHANGED <<phase, id, pubIn, published>>
      BY <1>8, Zenon DEF Reconnect
    <2>3. \A i \in Ids : pubIn'[i] = None
      BY <1>8, <2>2, Empty, Zenon DEF Base, DownInv, Reconnect
    <2>4. \A k \in 1..Len(toServer') : Carries(k, n)' =>
            order[k] = n /\ phase[n] = "pub" /\ n \in InFlight
      BY <2>1 DEF Again, Carries
    <2>5. \A k \in 1..Len(toServer') : toServer'[k].type = "PUBREL" =>
            order[k] \in InFlight /\ phase[order[k]] = "rel" /\ toServer'[k].id = id[order[k]]
      BY <2>1, Zenon DEF Again
    <2>6. NotAgain(n)'
      BY <1>0, <2>2, <2>3, <2>4, Zenon DEF NotAgain
    <2>7. ASSUME NEW k \in 1..Len(toServer'), toServer'[k].type = "PUBREL",
                 toServer'[k].id = id[n], Has(k, n)'
          PROVE  FALSE
      <3>1. PICK j \in 1..k-1 : Carries(j, n)'
        BY <2>3, <2>7, Zenon DEF Has
      <3>2. j \in 1..Len(toServer')
        BY <2>1, <2>7 DEF Again
      <3>3. n \in InFlight /\ phase[n] = "pub"
        BY <2>4, <3>1, <3>2, Zenon
      <3>4. order[k] = n
        BY <2>5, <2>7, <3>3 DEF Base, IdInv, FlightIds
      <3> QED
        BY <2>5, <2>7, <3>3, <3>4, Zenon
    <2>8. LastPubrel(n)'
      BY <2>2, <2>7, Zenon DEF LastPubrel
    <2> QED
      BY <2>6, <2>8, Zenon
  <1> QED
    BY <1>1, <1>2, <1>3, <1>4, <1>5, <1>6, <1>7, <1>8, OnPublishCases, Zenon
    DEF Next, Drop, vars, client, server

-----------------------------------------------------------------------------
(* What 5.0 adds.                                                          *)

\* Packet k on its way to the server gives the alias a a topic.
Gives(k, a) == /\ toServer[k].type = "PUBLISH"
               /\ toServer[k].alias = a /\ toServer[k].topic # None

\* When the server comes to packet k, the alias a stands for t.
Means(k, a, t) ==
  /\ (\A j \in 1..k-1 : ~Gives(j, a)) => topicAlias[a] = t
  /\ \A j \in 1..k-1 : Gives(j, a) /\ (\A l \in j+1..k-1 : ~Gives(l, a))
                          => toServer[j].topic = t

Known == \A a \in Aliases : up /\ aliased[a] # None
                             => Means(Len(toServer) + 1, a, aliased[a])

Named ==
  \A k \in 1..Len(toServer) : toServer[k].type = "PUBLISH" =>
    /\ toServer[k].topic \in {Topic[toServer[k].m], None}
    /\ toServer[k].alias # None => V5
    /\ toServer[k].topic = None => Means(k, toServer[k].alias, Topic[toServer[k].m])

StoredTopic == \A i \in Ids : pubIn[i] # None => pubIn[i][2] = Topic[pubIn[i][1]]

AliasInv == Known /\ Named /\ StoredTopic /\ RightTopic

\* A packet that is part of an exchange: all but a PUBLISH of QoS 0.
Token(p) == p.type # "PUBLISH" \/ QoS[p.m] > 0

\* 5.0: there is one packet of an exchange on its way, to the server or back.
OneToken ==
  /\ \A j, k \in 1..Len(toServer) :
       Token(toServer[j]) /\ Token(toServer[k]) /\ toServer[j].id = toServer[k].id => j = k
  /\ \A j, k \in 1..Len(toClient) : toClient[j].id = toClient[k].id => j = k
  /\ \A j \in 1..Len(toServer), k \in 1..Len(toClient) :
       Token(toServer[j]) => toServer[j].id # toClient[k].id

\* And it says how far the exchange is.
Pending ==
  \A k \in 1..Len(toServer) :
    /\ toServer[k].type = "PUBLISH" /\ QoS[toServer[k].m] > 0 =>
         phase[toServer[k].m] = "pub" /\ pubIn[toServer[k].id] = None
    /\ toServer[k].type = "PUBREL" =>
         \E m \in Msgs : phase[m] = "rel" /\ id[m] = toServer[k].id

\* The acknowledgement q is one that m waits for.
Awaits(m, q) ==
  /\ id[m] = q.id
  /\ q.type = "PUBACK" => QoS[m] = 1
  /\ q.type = "PUBREC" => /\ QoS[m] = 2 /\ phase[m] = "pub"
                          /\ q.reason # "ok" => pubIn[q.id] = None
  /\ q.type = "PUBCOMP" => phase[m] = "rel" /\ pubIn[q.id] = None

Awaited == \A k \in 1..Len(toClient) : \E m \in InFlight : Awaits(m, toClient[k])

StoredOpen == \A i \in Ids : pubIn[i] # None => pubIn[i][1] \in InFlight

TokenInv == V5 => OneToken /\ Pending /\ Awaited /\ StoredOpen

\* The stored messages take the quota.
Stored == {i \in Ids : pubIn[i] # None}

QuotaInv ==
  V5 => /\ Finite(Stored) /\ rxQuota \in Int
        /\ up => rxQuota + Size(Stored) = ReceiveMax
        /\ "quota" \notin closed

-----------------------------------------------------------------------------
(* Topic aliases.                                                          *)

\* A packet at the end changes nothing for the ones before it.
LEMMA MeansSent ==
  ASSUME NEW q, Appended(q), topicAlias' = topicAlias, NEW a, NEW t,
         NEW k \in 1..Len(toServer) + 1, Means(k, a, t)
  PROVE  Means(k, a, t)'
  <1>1. \A j \in 1..k-1 : Gives(j, a)' <=> Gives(j, a)
    BY DEF Gives, Appended
  <1>2. \A j \in 1..k-1 : toServer'[j] = toServer[j]
    BY DEF Appended
  <1>3. ASSUME NEW j \in 1..k-1, Gives(j, a)', \A l \in j+1..k-1 : ~Gives(l, a)'
        PROVE  toServer'[j].topic = t
    <2>1. \A l \in j+1..k-1 : l \in 1..k-1
      BY DEF Appended
    <2>2. Gives(j, a) /\ \A l \in j+1..k-1 : ~Gives(l, a)
      BY <1>1, <1>3, <2>1, Zenon
    <2> QED
      BY <1>2, <2>2, Zenon DEF Means
  <1> QED
    BY <1>1, <1>3, Zenon DEF Means

\* After a packet that does not give the alias a topic it stands for the same,
LEMMA MeansSame ==
  ASSUME NEW a, NEW t, NEW k \in Nat, k > 0, Means(k, a, t)', ~Gives(k, a)'
  PROVE  Means(k + 1, a, t)'
  BY DEF Means

\* and after one that does, for the topic of that packet.
LEMMA MeansNew ==
  ASSUME NEW a, NEW k \in Nat, k > 0, Gives(k, a)', NEW t, t = toServer'[k].topic
  PROVE  Means(k + 1, a, t)'
  BY DEF Means

\* Reading a packet is learning what it says.
LEMMA MeansRead ==
  ASSUME Advanced, NEW a, NEW t, NEW k \in 1..Len(toServer), Means(k + 1, a, t),
         Gives(1, a) => topicAlias'[a] = toServer[1].topic,
         ~Gives(1, a) => topicAlias'[a] = topicAlias[a]
  PROVE  Means(k, a, t)'
  <1>0. k \in Nat /\ k > 0
    BY DEF Advanced
  <1>1. \A i \in 2..k : Gives(i, a) <=> Gives(i - 1, a)'
    BY DEF Gives, Advanced
  <1>2. \A j \in 1..k-1 : toServer'[j] = toServer[j + 1]
    BY DEF Advanced
  <1>3. ASSUME \A j \in 1..k-1 : ~Gives(j, a)' PROVE topicAlias'[a] = t
    <2>1. \A i \in 2..k : ~Gives(i, a)
      BY <1>0, <1>1, <1>3
    <2>2. CASE Gives(1, a)
      BY <1>0, <2>1, <2>2 DEF Means
    <2>3. CASE ~Gives(1, a)
      BY <1>0, <2>1, <2>3 DEF Means
    <2> QED
      BY <2>2, <2>3, Zenon
  <1>4. ASSUME NEW j \in 1..k-1, Gives(j, a)', \A l \in j+1..k-1 : ~Gives(l, a)'
        PROVE  toServer'[j].topic = t
    <2>1. Gives(j + 1, a) /\ j + 1 \in 1..k
      BY <1>0, <1>1, <1>4
    <2>2. \A l \in j+2..k : ~Gives(l, a)
      BY <1>0, <1>1, <1>4
    <2>3. \A i \in 1..k : Gives(i, a) /\ (\A l \in i+1..k : ~Gives(l, a))
                             => toServer[i].topic = t
      BY <1>0 DEF Means
    <2>4. PICK i \in 1..k : i = j + 1 /\ i + 1 = j + 2
      BY <1>0, <2>1
    <2>5. toServer[i].topic = t
      BY <2>1, <2>2, <2>3, <2>4, Zenon
    <2> QED
      BY <1>2, <2>4, <2>5, Zenon
  <1> QED
    BY <1>3, <1>4, Zenon DEF Means

\* What the alias a stands for after the packet q is sent.
LEMMA KnownSent ==
  ASSUME NEW q, Appended(q), topicAlias' = topicAlias, NEW a, NEW t, NEW l, l = Len(toServer),
         \/ /\ Means(l + 1, a, t)
            /\ ~(q.type = "PUBLISH" /\ q.alias = a /\ q.topic # None)
         \/ q.type = "PUBLISH" /\ q.alias = a /\ q.topic = t /\ t # None
  PROVE  Means(l + 2, a, t)'
  <1>1. l \in Nat /\ toServer'[l + 1] = q /\ l + 1 \in 1..Len(toServer) + 1
    BY DEF Appended
  <1>2. CASE q.type = "PUBLISH" /\ q.alias = a /\ q.topic = t /\ t # None
    <2>1. Gives(l + 1, a)' /\ t = toServer'[l + 1].topic
      BY <1>1, <1>2, Zenon DEF Gives
    <2>2. Means((l + 1) + 1, a, t)'
      BY <1>1, <2>1, MeansNew
    <2> QED
      BY <1>1, <2>2
  <1>3. CASE /\ Means(l + 1, a, t)
             /\ ~(q.type = "PUBLISH" /\ q.alias = a /\ q.topic # None)
    <2>1. Means(l + 1, a, t)'
      BY <1>1, <1>3, MeansSent, Zenon
    <2>2. ~Gives(l + 1, a)'
      BY <1>1, <1>3, Zenon DEF Gives
    <2>3. Means((l + 1) + 1, a, t)'
      BY <1>1, <2>1, <2>2, MeansSame
    <2> QED
      BY <1>1, <2>3
  <1> QED
    BY <1>2, <1>3, Zenon

\* The packets after q is sent.
LEMMA NamedSent ==
  ASSUME Named, NEW q, Appended(q), topicAlias' = topicAlias, version' = version,
         q.type = "PUBLISH" =>
           /\ q.topic \in {Topic[q.m], None} /\ (q.alias # None => V5)
           /\ q.topic = None => Means(Len(toServer) + 1, q.alias, Topic[q.m])
  PROVE  Named'
  <1> SUFFICES ASSUME NEW k \in 1..Len(toServer'), toServer'[k].type = "PUBLISH"
               PROVE  /\ toServer'[k].topic \in {Topic[toServer'[k].m], None}
                      /\ toServer'[k].alias # None => V5
                      /\ toServer'[k].topic = None =>
                           \A a, t : a = toServer'[k].alias /\ t = Topic[toServer'[k].m]
                                       => Means(k, a, t)'
    BY Zenon DEF Named, V5
  <1>1. CASE k \in 1..Len(toServer)
    <2>1. toServer'[k] = toServer[k] /\ k \in 1..Len(toServer) + 1
      BY <1>1, Zenon DEF Appended
    <2>2. toServer[k].topic = None => Means(k, toServer[k].alias, Topic[toServer[k].m])
      BY <1>1, <2>1, Zenon DEF Named
    <2> QED
      BY <1>1, <2>1, <2>2, MeansSent, Zenon DEF Named
  <1>2. CASE k = Len(toServer) + 1
    <2>1. toServer'[k] = q /\ k \in 1..Len(toServer) + 1
      BY <1>2, Zenon DEF Appended
    <2> QED
      BY <1>2, <2>1, MeansSent, Zenon
  <1> QED
    BY <1>1, <1>2 DEF Appended

\* The packets after the first one is read.
LEMMA AliasRead ==
  ASSUME Known, Named, Advanced, UNCHANGED <<up, version, aliased>>,
         \A k \in 1..Len(toServer) :
           toServer[k].type = "PUBLISH" /\ toServer[k].topic = None => toServer[k].alias \in Aliases,
         \A a \in Aliases : /\ Gives(1, a) => topicAlias'[a] = toServer[1].topic
                            /\ ~Gives(1, a) => topicAlias'[a] = topicAlias[a]
  PROVE  Known' /\ Named'
  <1>1. ASSUME NEW a \in Aliases, NEW t, NEW k \in 1..Len(toServer), Means(k + 1, a, t)
        PROVE  Means(k, a, t)'
    BY <1>1, MeansRead, Zenon
  <1>2. PICK l \in Nat : l = Len(toServer) /\ l > 0
    BY DEF Advanced
  <1>3. Known'
    <2> SUFFICES ASSUME NEW a \in Aliases, up, aliased[a] # None, NEW t, t = aliased[a]
                 PROVE  Means(l, a, t)'
      BY <1>2 DEF Known, Advanced
    <2>1. Means(l + 1, a, t)
      BY <1>2, Zenon DEF Known
    <2> QED
      BY <1>1, <1>2, <2>1
  <1>4. Named'
    <2> SUFFICES ASSUME NEW k \in 1..Len(toServer'), toServer'[k].type = "PUBLISH"
                 PROVE  /\ toServer'[k].topic \in {Topic[toServer'[k].m], None}
                        /\ toServer'[k].alias # None => V5
                        /\ toServer'[k].topic = None =>
                             \A a, t : a = toServer'[k].alias /\ t = Topic[toServer'[k].m]
                                         => Means(k, a, t)'
      BY Zenon DEF Named, V5
    <2>1. /\ toServer'[k] = toServer[k + 1] /\ k + 1 \in 1..Len(toServer)
          /\ k \in 1..Len(toServer)
      BY DEF Advanced
    <2> QED
      BY <1>1, <2>1 DEF Named
  <1> QED
    BY <1>3, <1>4, Zenon

\* At first no alias has a topic on either side.
LEMMA AliasInit == Init => AliasInv
  BY Empty DEF Init, AliasInv, Known, Named, StoredTopic, RightTopic, NoAliases

\* The two sides of an alias agree when the server has read what is under way, provided
\* that the client may write to its topics: a refused PUBLISH does not set its alias.
LEMMA AliasStep ==
  ASSUME Topics \subseteq Writable
  PROVE  Base /\ AliasInv /\ Step => AliasInv'
  <1> SUFFICES ASSUME Base, AliasInv, [Next]_vars, Reconnect => \E order : Again(order)
               PROVE  AliasInv'
    BY Zenon DEF Step
  <1>0. /\ Types /\ ChannelTypes /\ AliasTypes /\ StoreTypes
        /\ Known /\ Named /\ StoredTopic /\ RightTopic
    BY Zenon DEF Base, Types, AliasInv
  <1>a. \A k \in 1..Len(toServer) :
          toServer[k].type = "PUBLISH" /\ toServer[k].topic = None => toServer[k].alias \in Aliases
    <2> SUFFICES ASSUME NEW k \in 1..Len(toServer), toServer[k].type = "PUBLISH",
                        toServer[k].topic = None
                 PROVE  toServer[k].alias \in Aliases
      BY Zenon
    <2>1. toServer[k] \in Pubs
      BY <1>0 DEF ChannelTypes, Rels
    <2>2. toServer[k].m \in Msgs /\ toServer[k].alias \in Aliases \cup {None}
      BY <2>1, Zenon DEF Pubs
    <2> QED
      BY <2>2, Zenon DEF Base, IdInv, PacketIds, Carries
  <1>1. CASE UNCHANGED <<up, toServer, pubIn, topicAlias, aliased, routed, version>>
    BY <1>0, <1>1, Zenon DEF AliasInv, Known, Named, StoredTopic, RightTopic, Means, Gives, V5
  <1>2. ASSUME NEW m \in Msgs, ClientPublish(m) PROVE AliasInv'
    <2>1. PICK p \in Pubs : NewPacket(m, p)
      BY <1>0, <1>2, NewMessage, Zenon
    <2>2. UNCHANGED <<pubIn, topicAlias, routed, version>> /\ up
      BY <2>1, Zenon DEF NewPacket, server
    <2>3. Appended(p) /\ p.type = "PUBLISH" /\ p.m = m
      BY <1>0, <2>1, SentServer, Zenon DEF NewPacket, Pubs
    <2>4. PICK l \in Nat : l = Len(toServer)
      BY <2>3, Zenon DEF Appended
    <2>5. ASSUME NEW a \in Aliases, NEW t, t = aliased'[a], t # None
          PROVE  Means(l + 2, a, t)'
      <3>1. CASE a # p.alias
        <4>1. t = aliased[a]
          BY <2>1, <2>5, <3>1, Zenon DEF NewPacket
        <4>2. Means(l + 1, a, t)
          BY <1>0, <2>2, <2>4, <2>5, <4>1, Zenon DEF Known
        <4> QED
          BY <2>2, <2>3, <2>4, <3>1, <4>2, KnownSent, Zenon
      <3>2. CASE a = p.alias
        <4>1. t = Topic[m] /\ p.topic \in {Topic[m], None}
          BY <2>1, <2>5, <3>2, Zenon DEF NewPacket
        <4>2. CASE p.topic = None
          <5>1. aliased[a] = t
            BY <2>1, <3>2, <4>1, <4>2, Zenon DEF NewPacket
          <5>2. Means(l + 1, a, t)
            BY <1>0, <2>2, <2>4, <2>5, <5>1, Zenon DEF Known
          <5> QED
            BY <2>2, <2>3, <2>4, <4>2, <5>2, KnownSent, Zenon
        <4>3. CASE p.topic # None
          <5>1. p.topic = t
            BY <4>1, <4>3, Zenon
          <5> QED
            BY <2>2, <2>3, <2>4, <2>5, <3>2, <5>1, KnownSent, Zenon
        <4> QED
          BY <4>2, <4>3, Zenon
      <3> QED
        BY <3>1, <3>2, Zenon
    <2>6. Known'
      BY <2>3, <2>4, <2>5 DEF Known, Appended
    <2>7. Named'
      <3>1. p.topic = None => Means(Len(toServer) + 1, p.alias, Topic[m])
        <4> SUFFICES ASSUME p.topic = None PROVE Means(Len(toServer) + 1, p.alias, Topic[m])
          BY Zenon
        <4>1. p.alias \in Aliases /\ aliased[p.alias] = Topic[m] /\ Topic[m] # None
          BY <2>1, ReceiverAssumption, Zenon DEF NewPacket, Pubs, Topics
        <4> QED
          BY <1>0, <2>2, <4>1, Zenon DEF Known
      <3>2. p.topic \in {Topic[m], None} /\ (p.alias # None => V5)
        BY <2>1, Zenon DEF NewPacket
      <3> QED
        BY <1>0, <2>2, <2>3, <3>1, <3>2, NamedSent, Zenon
    <2> QED
      BY <1>0, <2>2, <2>6, <2>7, Zenon DEF AliasInv, StoredTopic, RightTopic
  <1>3. ASSUME NEW q, Appended(q), UNCHANGED <<up, pubIn, topicAlias, aliased, routed, version>>,
               q.type = "PUBLISH" => q.topic = Topic[q.m] /\ q.topic # None /\ q.alias = None
        PROVE  AliasInv'
    <2>1. Named'
      BY <1>0, <1>3, NamedSent, Zenon
    <2>2. PICK l \in Nat : l = Len(toServer)
      BY <1>3, Zenon DEF Appended
    <2>3. ASSUME NEW a \in Aliases, up, NEW t, t = aliased'[a], t # None
          PROVE  Means(l + 2, a, t)'
      <3>1. Means(l + 1, a, t) /\ a # None
        BY <1>0, <1>3, <2>2, <2>3, ReceiverAssumption, Zenon DEF Known
      <3> QED
        BY <1>3, <2>2, <3>1, KnownSent, Zenon
    <2>4. Known'
      BY <1>3, <2>2, <2>3 DEF Known, Appended
    <2> QED
      BY <1>0, <1>3, <2>1, <2>4, Zenon DEF AliasInv, StoredTopic, RightTopic
  <1>4. ASSUME NEW m \in Msgs, ClientRepeats(m) PROVE AliasInv'
    <2>1. PICK p \in Pubs : Repeated(m, p)
      BY <1>0, <1>4, SameMessage, Zenon
    <2>2. Appended(p)
      BY <1>0, <2>1, SentServer, Zenon DEF Repeated
    <2> QED
      BY <1>3, <2>1, <2>2, Zenon DEF Repeated, server, client
  <1>5. CASE ClientReceives
    <2>1. Heard
      BY <1>0, <1>5, Received, Zenon
    <2>2. UNCHANGED <<up, pubIn, topicAlias, aliased, routed, version>>
      BY <2>1, Zenon DEF Heard, server
    <2>3. CASE toServer' = toServer
      BY <1>1, <2>2, <2>3, Zenon
    <2>4. CASE toServer' # toServer
      <3>1. PICK r \in Rels : toServer' = Append(toServer, r) /\ r.type = "PUBREL"
        BY <1>0, <2>1, <2>4, HeardPubrel, Zenon
      <3>2. Appended(r)
        BY <1>0, <3>1, SentServer, Zenon
      <3> QED
        BY <1>3, <2>2, <3>1, <3>2, Zenon
    <2> QED
      BY <2>3, <2>4, Zenon
  <1>6. ASSUME Close, UNCHANGED <<published, routed, client>> PROVE AliasInv'
    BY <1>0, <1>6, Gone, Empty DEF AliasInv, Known, Named, StoredTopic, RightTopic
  <1>7. ASSUME NEW p, Taken(p) PROVE AliasInv'
    <2>1. /\ p \in Pubs /\ p.m \in Msgs /\ p = toServer[1] /\ 1 \in 1..Len(toServer)
          /\ p.topic = None => p.alias \in Aliases
          /\ Advanced /\ p.type = "PUBLISH"
      BY <1>0, <1>7, TakenPacket, ReadServer DEF Pubs
    <2>2. UNCHANGED <<up, version, aliased>> /\ topicAlias' = LearnAlias(p)
      BY <1>7, Zenon DEF Taken, client
    <2>3. /\ p.topic \in {Topic[p.m], None} /\ (p.alias # None => V5)
          /\ p.topic = None => Means(1, p.alias, Topic[p.m])
      BY <1>0, <2>1, Zenon DEF Named
    <2>4. TopicOf(p) = Topic[p.m]
      BY <2>3 DEF TopicOf, Means
    <2>5. Allowed(p)
      BY <2>1, Zenon DEF Allowed, Pubs
    <2>6. ASSUME NEW a \in Aliases
          PROVE  /\ Gives(1, a) => topicAlias'[a] = toServer[1].topic
                 /\ ~Gives(1, a) => topicAlias'[a] = topicAlias[a]
      <3>1. CASE p.alias = None \/ p.topic = None
        <4>1. topicAlias' = topicAlias /\ ~Gives(1, a)
          BY <2>1, <2>2, <3>1, ReceiverAssumption, Zenon DEF LearnAlias, Gives
        <4> QED
          BY <4>1, Zenon
      <3>2. CASE p.alias # None /\ p.topic # None
        <4>1. topicAlias' = [topicAlias EXCEPT ![p.alias] = p.topic] /\ p.alias \in Aliases
          BY <2>1, <2>2, <2>3, <2>5, <3>2, Zenon DEF LearnAlias, Pubs
        <4> QED
          BY <1>0, <2>1, <3>2, <4>1, Zenon DEF Gives, AliasTypes
      <3> QED
        BY <3>1, <3>2, Zenon
    <2>7. Known' /\ Named'
      BY <1>0, <1>a, <2>1, <2>2, <2>6, AliasRead, Zenon
    <2>8. StoredTopic'
      <3>1. \A i \in Ids : pubIn'[i] # None => \/ pubIn'[i] = pubIn[i]
                                               \/ pubIn'[i] = <<p.m, TopicOf(p)>>
        BY <1>0, <1>7, <2>1, TakenPacket, TakenEffect, Zenon DEF Store, StoreTypes
      <3> QED
        BY <1>0, <2>4, <3>1 DEF StoredTopic
    <2>9. RightTopic'
      <3>1. routed' = routed \/ routed' = routed \cup {<<p.m, TopicOf(p)>>}
        BY <1>7, TakenEffect, Zenon DEF Deliver
      <3> QED
        BY <1>0, <2>4, <3>1 DEF RightTopic
    <2> QED
      BY <2>7, <2>8, <2>9, Zenon DEF AliasInv
  <1>8. CASE OnPubrel
    <2>0. PICK p : p = Head(toServer)
      BY Zenon
    <2>1. p.id \in Ids /\ p = toServer[1] /\ p.type = "PUBREL" /\ Advanced
      BY <1>0, <1>8, <2>0, ReleasedPacket, ReadServer, Zenon
    <2>2. UNCHANGED <<up, version, aliased, topicAlias>>
      BY <1>8, Zenon DEF OnPubrel, client
    <2>3. Known' /\ Named'
      BY <1>0, <1>a, <2>1, <2>2, AliasRead, Zenon DEF Gives
    <2>4. \A i \in Ids : pubIn'[i] # None => pubIn'[i] = pubIn[i]
      BY <1>0, <1>8, Zenon DEF OnPubrel, Release, StoreTypes
    <2>5. StoredTopic'
      BY <1>0, <2>4, Zenon DEF StoredTopic
    <2>6. RightTopic'
      <3>1. \/ routed' = routed
            \/ /\ pubIn[p.id] # None
               /\ routed' = routed \cup {<<pubIn[p.id][1], pubIn[p.id][2]>>}
        BY <1>8, <2>0, ReleasedPacket, Zenon DEF Deliver
      <3> QED
        BY <1>0, <2>1, <3>1 DEF StoredTopic, RightTopic
    <2> QED
      BY <2>3, <2>5, <2>6, Zenon DEF AliasInv
  <1>9. CASE Reconnect
    <2>1. PICK order : Again(order)
      BY <1>9, Zenon
    <2>2. UNCHANGED <<pubIn, routed>> /\ aliased' = NoAliases
      BY <1>9, Zenon DEF Reconnect
    <2>3. \A m \in Msgs : Topic[m] # None
      BY ReceiverAssumption, Zenon DEF Topics
    <2>4. Known'
      BY <2>2, Zenon DEF Known, NoAliases
    <2>5. Named'
      BY <2>1, <2>3 DEF Named, Again, InFlight
    <2> QED
      BY <1>0, <2>2, <2>4, <2>5, Zenon DEF AliasInv, StoredTopic, RightTopic
  <1> QED
    BY <1>1, <1>2, <1>4, <1>5, <1>6, <1>7, <1>8, <1>9, OnPublishCases, Zenon
    DEF Next, Drop, vars, client, server

-----------------------------------------------------------------------------
(* The receive maximum of 5.0.                                             *)

\* The acknowledgement q is sent.
Replied(q) ==
  /\ Len(toClient') = Len(toClient) + 1 /\ Len(toClient) \in Nat
  /\ toClient'[Len(toClient) + 1] = q
  /\ \A k \in 1..Len(toClient) : toClient'[k] = toClient[k]

\* An acknowledgement is appended to the channel of the client.
LEMMA SentClient ==
  ASSUME ChannelTypes, NEW q \in Acks, toClient' = Append(toClient, q)
  PROVE  Replied(q)
  BY Sent DEF ChannelTypes, Replied

\* A packet of an exchange has the id of an unfinished message.
LEMMA TokenOwner ==
  ASSUME Base, Pending, NEW k \in 1..Len(toServer), Token(toServer[k])
  PROVE  \E m \in InFlight : id[m] = toServer[k].id
  <1>0. toServer[k] \in Pubs \cup Rels
    BY DEF Base, Types, ChannelTypes
  <1>1. CASE toServer[k].type = "PUBREL"
    BY <1>1, Zenon DEF Pending, InFlight
  <1>2. CASE toServer[k].type # "PUBREL"
    <2>1. toServer[k] \in Pubs /\ toServer[k].type = "PUBLISH"
      BY <1>0, <1>2, Zenon DEF Pubs, Rels
    <2>2. PICK m \in Msgs : m = toServer[k].m
      BY <2>1, Zenon DEF Pubs
    <2>3. QoS[m] > 0
      BY <2>1, <2>2, Zenon DEF Token
    <2>4. phase[m] = "pub"
      BY <2>1, <2>2, <2>3, Zenon DEF Pending
    <2>5. toServer[k].id = id[m]
      BY <2>1, <2>2, Zenon DEF Base, IdInv, PacketIds, Carries
    <2> QED
      BY <2>4, <2>5, Zenon DEF InFlight
  <1> QED
    BY <1>1, <1>2, Zenon

\* A new message has a new id.
LEMMA TokenPublish ==
  ASSUME Base, OneToken, Pending, Awaited, StoredOpen,
         NEW m \in Msgs, NEW p \in Pubs, NewPacket(m, p)
  PROVE  (OneToken /\ Pending /\ Awaited /\ StoredOpen)'
  <1>0. ChannelTypes /\ MsgTypes /\ StoreTypes /\ Pending
    BY Zenon DEF Base, Types
  <1>1. /\ Appended(p) /\ p.type = "PUBLISH" /\ p.m = m /\ p.id = id'[m] /\ phase[m] = "new"
        /\ UNCHANGED <<toClient, pubIn>>
    BY <1>0, SentServer, Zenon DEF NewPacket, Pubs, server
  <1>2. /\ \A n \in Msgs : n # m => phase'[n] = phase[n] /\ id'[n] = id[n]
        /\ \A n \in InFlight : n # m /\ n \in InFlight' /\ phase'[n] = phase[n] /\ id'[n] = id[n]
    BY <1>0, <1>1, Zenon DEF NewPacket, MsgTypes, InFlight
  <1>3. QoS[m] > 0 => p.id \in Ids /\ (\A n \in InFlight : id[n] # p.id) /\ phase'[m] = "pub"
    BY <1>0 DEF NewPacket, MsgTypes
  <1>4. Token(p) <=> QoS[m] > 0
    BY <1>1, Zenon DEF Token
  <1>5. \A k \in 1..Len(toServer) : Token(toServer[k]) /\ Token(p) => toServer[k].id # p.id
    BY <1>3, <1>4, TokenOwner, Zenon
  <1>6. \A k \in 1..Len(toClient) : Token(p) => toClient[k].id # p.id
    BY <1>3, <1>4, Zenon DEF Awaited, Awaits
  <1>7. OneToken'
    <2>1. \A k \in 1..Len(toServer') :
            \/ k \in 1..Len(toServer) /\ toServer'[k] = toServer[k]
            \/ k = Len(toServer) + 1 /\ toServer'[k] = p
      BY <1>1 DEF Appended
    <2>2. \A j, k \in 1..Len(toServer') :
            Token(toServer'[j]) /\ Token(toServer'[k]) /\ toServer'[j].id = toServer'[k].id
              => j = k
      BY <1>5, <2>1, ZenonT(60) DEF OneToken
    <2>3. \A j \in 1..Len(toServer'), k \in 1..Len(toClient) :
            Token(toServer'[j]) => toServer'[j].id # toClient[k].id
      BY <1>6, <2>1, Zenon DEF OneToken
    <2> QED
      BY <1>1, <2>2, <2>3, Zenon DEF OneToken, Token
  <1>8. Pending'
    <2>1. Token(p) => pubIn[p.id] = None
      <3> SUFFICES ASSUME Token(p), pubIn[p.id] # None PROVE FALSE
        BY Zenon
      <3>1. pubIn[p.id][1] \in InFlight /\ id[pubIn[p.id][1]] = p.id
        BY <1>3, <1>4, Zenon DEF StoredOpen, Base, IdInv, StoredIds
      <3> QED
        BY <1>3, <1>4, <3>1, Zenon
    <2> SUFFICES ASSUME NEW k \in 1..Len(toServer')
                 PROVE  /\ toServer'[k].type = "PUBLISH" /\ QoS[toServer'[k].m] > 0 =>
                             phase'[toServer'[k].m] = "pub" /\ pubIn'[toServer'[k].id] = None
                        /\ toServer'[k].type = "PUBREL" =>
                             \E n \in Msgs : phase'[n] = "rel" /\ id'[n] = toServer'[k].id
      BY Zenon DEF Pending
    <2>2. CASE k = Len(toServer) + 1
      BY <1>1, <1>3, <1>4, <2>1, <2>2, Zenon DEF Appended
    <2>3. CASE k \in 1..Len(toServer)
      <3>1. toServer'[k] = toServer[k] /\ toServer[k] \in Pubs \cup Rels
        BY <1>0, <1>1, <2>3 DEF Appended, ChannelTypes
      <3>2. CASE toServer[k].type = "PUBLISH"
        <4>1. toServer[k].m \in Msgs
          BY <3>1, <3>2, Zenon DEF Pubs, Rels
        <4> QED
          BY <1>0, <1>1, <1>2, <2>3, <3>1, <3>2, <4>1, ZenonT(60) DEF Pending
      <3>3. CASE toServer[k].type = "PUBREL"
        <4>1. PICK n \in Msgs : phase[n] = "rel" /\ id[n] = toServer[k].id
          BY <1>0, <2>3, <3>3, Zenon DEF Pending
        <4>2. n # m
          BY <1>1, <4>1, Zenon
        <4> QED
          BY <1>2, <3>1, <3>3, <4>1, <4>2, Zenon
      <3> QED
        BY <3>1, <3>2, <3>3, Zenon DEF Pubs, Rels
    <2>4. k = Len(toServer) + 1 \/ k \in 1..Len(toServer)
      BY <1>1 DEF Appended
    <2> QED
      BY <2>2, <2>3, <2>4, Zenon
  <1>9. Awaited'
    <2> SUFFICES ASSUME NEW k \in 1..Len(toClient)
                 PROVE  \E n \in InFlight' : Awaits(n, toClient[k])'
      BY <1>1, Zenon DEF Awaited
    <2>1. PICK n \in InFlight : Awaits(n, toClient[k])
      BY Zenon DEF Awaited
    <2>2. n \in InFlight' /\ phase'[n] = phase[n] /\ id'[n] = id[n]
      BY <1>2, Zenon
    <2>3. Awaits(n, toClient[k])'
      BY <1>1, <2>1, <2>2, Zenon DEF Awaits
    <2> QED
      BY <2>2, <2>3, Zenon
  <1>10. StoredOpen'
    BY <1>1, <1>2, Zenon DEF StoredOpen
  <1> QED
    BY <1>7, <1>8, <1>9, <1>10, Zenon

\* An acknowledgement is for the message that waits for it, and takes it further.
LEMMA TokenHeard ==
  ASSUME Base, OneToken, Pending, Awaited, StoredOpen, Heard
  PROVE  (OneToken /\ Pending /\ Awaited /\ StoredOpen)'
  <1>0. Types /\ ChannelTypes /\ MsgTypes /\ StoreTypes /\ Pending /\ StoredOpen
    BY Zenon DEF Base, Types
  <1> DEFINE h == Head(toClient)
  <1>1. /\ h \in Acks /\ h = toClient[1] /\ 1 \in 1..Len(toClient) /\ Len(toClient) \in Nat
        /\ Len(toClient') = Len(toClient) - 1
        /\ \A k \in 1..Len(toClient') : /\ toClient'[k] = toClient[k + 1]
                                        /\ k + 1 \in 2..Len(toClient)
    BY <1>0, Read DEF Heard, ChannelTypes
  <1>2. UNCHANGED <<id, pubIn>>
    BY Zenon DEF Heard, server
  <1> HIDE DEF h
  <1>3. PICK m \in InFlight : Awaits(m, h)
    BY <1>1, Zenon DEF Awaited
  <1>4. m \in Msgs /\ phase[m] \in {"pub", "rel"} /\ id[m] = h.id
    BY <1>3, Zenon DEF InFlight, Awaits
  <1>5. \A n \in Msgs : Told(n) <=> n = m
    <2>1. \A n \in InFlight : id[n] = h.id => n = m
      BY <1>3, <1>4, Zenon DEF Base, IdInv, FlightIds
    <2>2. Told(m)
      BY <1>1, <1>3, <1>4, Zenon DEF Told, Awaits, h
    <2>3. \A n \in Msgs : Told(n) => n \in InFlight /\ id[n] = h.id
      BY Zenon DEF Told, h
    <2> QED
      BY <1>4, <2>1, <2>2, <2>3, Zenon
  <1>6. /\ \A n \in Msgs : n # m => phase'[n] = phase[n]
        /\ \A n \in InFlight : n # m => n \in InFlight'
    BY <1>5, Zenon DEF Heard, InFlight
  <1>7. \A k \in 1..Len(toServer) : Token(toServer[k]) => toServer[k].id # id[m]
    BY <1>1, <1>4 DEF OneToken
  <1>8. \A k \in 2..Len(toClient) : toClient[k].id # id[m]
    BY <1>1, <1>4 DEF OneToken
  <1>9. Awaited'
    <2> SUFFICES ASSUME NEW k \in 1..Len(toClient'), NEW q, q = toClient'[k]
                 PROVE  \E n \in InFlight' : Awaits(n, q)'
      BY Zenon DEF Awaited
    <2>1. q = toClient[k + 1] /\ k + 1 \in 2..Len(toClient) /\ k + 1 \in 1..Len(toClient)
      BY <1>1
    <2>2. PICK n \in InFlight : Awaits(n, q)
      BY <2>1, Zenon DEF Awaited
    <2>3. n # m /\ n \in Msgs
      BY <1>8, <2>1, <2>2, Zenon DEF Awaits, InFlight
    <2>4. Awaits(n, q)'
      BY <1>2, <1>6, <2>1, <2>2, <2>3, Zenon DEF Awaits
    <2> QED
      BY <1>6, <2>2, <2>3, <2>4, Zenon
  <1>10. \A k \in 1..Len(toServer) :
           /\ toServer[k].type = "PUBLISH" /\ QoS[toServer[k].m] > 0 =>
                phase'[toServer[k].m] = "pub" /\ pubIn'[toServer[k].id] = None
           /\ toServer[k].type = "PUBREL" =>
                \E n \in Msgs : phase'[n] = "rel" /\ id'[n] = toServer[k].id
    <2> SUFFICES ASSUME NEW k \in 1..Len(toServer)
                 PROVE  /\ toServer[k].type = "PUBLISH" /\ QoS[toServer[k].m] > 0 =>
                             phase'[toServer[k].m] = "pub" /\ pubIn'[toServer[k].id] = None
                        /\ toServer[k].type = "PUBREL" =>
                             \E n \in Msgs : phase'[n] = "rel" /\ id'[n] = toServer[k].id
      BY Zenon
    <2>1. ASSUME toServer[k].type = "PUBLISH", QoS[toServer[k].m] > 0
          PROVE  phase'[toServer[k].m] = "pub" /\ pubIn'[toServer[k].id] = None
      <3>1. toServer[k] \in Pubs /\ toServer[k].m \in Msgs
        BY <1>0, <2>1 DEF ChannelTypes, Pubs, Rels
      <3>2. id[toServer[k].m] = toServer[k].id
        BY <2>1, <3>1, Zenon DEF Base, IdInv, PacketIds, Carries
      <3>3. toServer[k].m # m
        BY <1>7, <2>1, <3>2, Zenon DEF Token
      <3> QED
        BY <1>0, <1>2, <1>6, <2>1, <3>1, <3>3, Zenon DEF Pending
    <2>2. ASSUME toServer[k].type = "PUBREL"
          PROVE  \E n \in Msgs : phase'[n] = "rel" /\ id'[n] = toServer[k].id
      <3>1. PICK n \in Msgs : phase[n] = "rel" /\ id[n] = toServer[k].id
        BY <1>0, <2>2, Zenon DEF Pending
      <3>2. n # m
        BY <1>7, <2>2, <3>1, Zenon DEF Token
      <3> QED
        BY <1>2, <1>6, <3>1, <3>2, Zenon
    <2> QED
      BY <2>1, <2>2, Zenon
  <1>11. CASE toServer' = toServer
    <2>1. phase'[m] \in {"done", "refused"} /\ (h.type # "PUBREC" \/ h.reason # "ok")
      <3>1. toServer # Append(toServer, Ack("PUBREL", h.id, "ok"))
        BY <1>0 DEF ChannelTypes
      <3> QED
        BY <1>4, <1>5, <1>11, <3>1, Zenon DEF Heard, h
    <2>2. OneToken'
      <3>1. \A j \in 1..Len(toServer), k \in 1..Len(toClient') :
              Token(toServer[j]) => toServer[j].id # toClient'[k].id
        BY <1>1 DEF OneToken
      <3>2. \A j, k \in 1..Len(toClient') : toClient'[j].id = toClient'[k].id => j = k
        BY <1>1 DEF OneToken
      <3> QED
        BY <1>11, <3>1, <3>2, Zenon DEF OneToken, Token
    <2>3. Pending'
      BY <1>10, <1>11, Zenon DEF Pending
    <2>4. StoredOpen'
      <3> SUFFICES ASSUME NEW i \in Ids, pubIn[i] # None PROVE pubIn[i][1] \in InFlight'
        BY <1>2, Zenon DEF StoredOpen
      <3>1. /\ pubIn[i][1] \in InFlight /\ id[pubIn[i][1]] = i /\ QoS[pubIn[i][1]] = 2
        BY <1>0, Zenon DEF StoredOpen, Base, IdInv, StoredIds
      <3>2. pubIn[i][1] # m
        BY <1>1, <1>3, <2>1, <3>1 DEF Awaits, Acks
      <3> QED
        BY <1>6, <3>1, <3>2, Zenon
    <2> QED
      BY <1>9, <2>2, <2>3, <2>4, Zenon
  <1>12. CASE toServer' # toServer
    <2>1. PICK r \in Rels :
            /\ toServer' = Append(toServer, r) /\ r.type = "PUBREL" /\ r.id = h.id
            /\ h.type = "PUBREC" /\ \A n \in Msgs : Told(n) => phase'[n] = "rel"
      BY <1>0, <1>12, HeardPubrel, Zenon DEF h
    <2>2. Appended(r)
      BY <1>0, <2>1, SentServer, Zenon
    <2>3. \A k \in 1..Len(toServer') :
            \/ k \in 1..Len(toServer) /\ toServer'[k] = toServer[k]
            \/ k = Len(toServer) + 1 /\ toServer'[k] = r
      BY <2>2 DEF Appended
    <2>4. OneToken'
      <3>1. \A j, k \in 1..Len(toServer') :
              Token(toServer'[j]) /\ Token(toServer'[k]) /\ toServer'[j].id = toServer'[k].id
                => j = k
        BY <1>4, <1>7, <2>1, <2>3 DEF OneToken
      <3>2. \A j \in 1..Len(toServer'), k \in 2..Len(toClient) :
              Token(toServer'[j]) => toServer'[j].id # toClient[k].id
        BY <1>4, <1>8, <2>1, <2>3 DEF OneToken
      <3>3. ASSUME NEW j \in 1..Len(toClient'), NEW k \in 1..Len(toClient'),
                   toClient'[j].id = toClient'[k].id
            PROVE  j = k
        <4>1. /\ toClient'[j] = toClient[j + 1] /\ j + 1 \in 1..Len(toClient)
              /\ toClient'[k] = toClient[k + 1] /\ k + 1 \in 1..Len(toClient)
          BY <1>1
        <4>2. j + 1 = k + 1
          BY <3>3, <4>1, Zenon DEF OneToken
        <4> QED
          BY <1>1, <4>2
      <3>4. \A j \in 1..Len(toServer'), k \in 1..Len(toClient') :
              Token(toServer'[j]) => toServer'[j].id # toClient'[k].id
        BY <1>1, <3>2
      <3> QED
        BY <3>1, <3>3, <3>4, Zenon DEF OneToken, Token
    <2>5. phase'[m] = "rel" /\ m \in InFlight'
      BY <1>4, <1>5, <2>1, Zenon DEF InFlight
    <2>6. Pending'
      BY <1>2, <1>4, <1>10, <2>1, <2>3, <2>5 DEF Pending
    <2>7. StoredOpen'
      BY <1>0, <1>2, <1>6, <2>5, Zenon DEF StoredOpen
    <2> QED
      BY <1>9, <2>4, <2>6, <2>7, Zenon
  <1> QED
    BY <1>11, <1>12, Zenon

\* What the channels are when the server has answered the first packet, or read it
\* only: there is still one packet of each exchange.
LEMMA TokenMoves ==
  ASSUME ChannelTypes, OneToken, Advanced,
         \/ toClient' = toClient
         \/ Token(toServer[1]) /\ \E q : Replied(q) /\ q.id = toServer[1].id
  PROVE  OneToken'
  <1>1. \A k \in 1..Len(toServer') : /\ toServer'[k] = toServer[k + 1]
                                     /\ k + 1 \in 2..Len(toServer) /\ k + 1 \in 1..Len(toServer)
    BY DEF Advanced
  <1>2. \A j, k \in 1..Len(toServer') :
          Token(toServer'[j]) /\ Token(toServer'[k]) /\ toServer'[j].id = toServer'[k].id => j = k
    <2> SUFFICES ASSUME NEW j \in 1..Len(toServer'), NEW k \in 1..Len(toServer'),
                        Token(toServer'[j]), Token(toServer'[k]),
                        toServer'[j].id = toServer'[k].id
                 PROVE  j = k
      BY Zenon
    <2>1. PICK i \in 1..Len(toServer), l \in 1..Len(toServer) :
            /\ i = j + 1 /\ toServer'[j] = toServer[i]
            /\ l = k + 1 /\ toServer'[k] = toServer[l]
      BY <1>1, Zenon
    <2>2. i = l
      BY <2>1, ZenonT(60) DEF OneToken
    <2> QED
      BY <2>1, <2>2
  <1>3. CASE toClient' = toClient
    <2>1. \A j \in 1..Len(toServer'), k \in 1..Len(toClient) :
            Token(toServer'[j]) => toServer'[j].id # toClient[k].id
      <3> SUFFICES ASSUME NEW j \in 1..Len(toServer'), NEW k \in 1..Len(toClient),
                          Token(toServer'[j])
                   PROVE  toServer'[j].id # toClient[k].id
        BY Zenon
      <3>1. PICK l \in 1..Len(toServer) : toServer'[j] = toServer[l]
        BY <1>1, Zenon
      <3> QED
        BY <3>1, Zenon DEF OneToken
    <2> QED
      BY <1>2, <1>3, <2>1, Zenon DEF OneToken, Token
  <1>4. ASSUME Token(toServer[1]), NEW q, Replied(q), q.id = toServer[1].id PROVE OneToken'
    <2>1. \A k \in 1..Len(toClient') : \/ k \in 1..Len(toClient) /\ toClient'[k] = toClient[k]
                                       \/ k = Len(toClient) + 1 /\ toClient'[k] = q
      BY <1>4 DEF Replied
    <2>2. \A j \in 2..Len(toServer) : Token(toServer[j]) => toServer[j].id # q.id
      <3>1. 1 \in 1..Len(toServer) /\ \A j \in 2..Len(toServer) : j \in 1..Len(toServer) /\ j # 1
        BY DEF Advanced
      <3> QED
        BY <1>4, <3>1, Zenon DEF OneToken
    <2>3. \A k \in 1..Len(toClient) : toClient[k].id # q.id
      <3>1. 1 \in 1..Len(toServer)
        BY DEF Advanced
      <3> QED
        BY <1>4, <3>1, Zenon DEF OneToken
    <2>4. \A j, k \in 1..Len(toClient') : toClient'[j].id = toClient'[k].id => j = k
      BY <2>1, <2>3 DEF OneToken
    <2>5. \A j \in 1..Len(toServer'), k \in 1..Len(toClient') :
            Token(toServer'[j]) => toServer'[j].id # toClient'[k].id
      <3> SUFFICES ASSUME NEW j \in 1..Len(toServer'), NEW k \in 1..Len(toClient'),
                          Token(toServer'[j])
                   PROVE  toServer'[j].id # toClient'[k].id
        BY Zenon
      <3>1. PICK l \in 2..Len(toServer) : toServer'[j] = toServer[l] /\ l \in 1..Len(toServer)
        BY <1>1, Zenon
      <3>2. CASE k \in 1..Len(toClient) /\ toClient'[k] = toClient[k]
        BY <3>1, <3>2, Zenon DEF OneToken
      <3>3. CASE toClient'[k] = q
        BY <2>2, <3>1, <3>3, Zenon
      <3> QED
        BY <2>1, <3>2, <3>3, Zenon
    <2> QED
      BY <1>2, <2>4, <2>5, Zenon DEF OneToken, Token
  <1> QED
    BY <1>3, <1>4, Zenon

\* The queue changes at most for the exchange of the first packet.
LEMMA TokenRest ==
  ASSUME OneToken, Pending, Awaited, Advanced, UNCHANGED <<phase, id>>,
         \/ pubIn' = pubIn
         \/ /\ Token(toServer[1])
            /\ \A i \in Ids : i # toServer[1].id => pubIn'[i] = pubIn[i],
         ChannelTypes,
         \A k \in 1..Len(toServer) : toServer[k].type = "PUBLISH" /\ QoS[toServer[k].m] > 0
                                       => toServer[k].id \in Ids
  PROVE  /\ Pending'
         /\ \A k \in 1..Len(toClient) : \A q : q = toClient[k]
              => \E m \in InFlight' : Awaits(m, q)'
  <1>1. \A k \in 1..Len(toServer') : /\ toServer'[k] = toServer[k + 1]
                                     /\ k + 1 \in 2..Len(toServer) /\ k + 1 \in 1..Len(toServer)
    BY DEF Advanced
  <1>3. Pending'
    <2> SUFFICES ASSUME NEW k \in 1..Len(toServer')
                 PROVE  /\ toServer'[k].type = "PUBLISH" /\ QoS[toServer'[k].m] > 0 =>
                             phase'[toServer'[k].m] = "pub" /\ pubIn'[toServer'[k].id] = None
                        /\ toServer'[k].type = "PUBREL" =>
                             \E n \in Msgs : phase'[n] = "rel" /\ id'[n] = toServer'[k].id
      BY Zenon DEF Pending
    <2>1. PICK l \in 2..Len(toServer) : toServer'[k] = toServer[l] /\ l \in 1..Len(toServer)
      BY <1>1, Zenon
    <2>2. Token(toServer[1]) /\ Token(toServer[l]) => toServer[l].id # toServer[1].id
      BY <2>1 DEF OneToken, Advanced
    <2>3. CASE toServer[l].type = "PUBLISH" /\ QoS[toServer[l].m] > 0
      <3>1. phase[toServer[l].m] = "pub" /\ pubIn[toServer[l].id] = None /\ toServer[l].id \in Ids
        BY <2>1, <2>3, Zenon DEF Pending
      <3>2. pubIn'[toServer[l].id] = None
        BY <2>2, <2>3, <3>1, Zenon DEF Token
      <3> QED
        BY <2>1, <2>3, <3>1, <3>2, Zenon
    <2>4. CASE toServer[l].type = "PUBREL"
      BY <2>1, <2>4, ZenonT(60) DEF Pending
    <2> QED
      BY <2>1, <2>3, <2>4, Zenon
  <1>4. ASSUME NEW k \in 1..Len(toClient), NEW q, q = toClient[k]
        PROVE  \E m \in InFlight' : Awaits(m, q)'
    <2>1. PICK m \in InFlight : Awaits(m, q)
      BY <1>4, Zenon DEF Awaited
    <2>2. q.id \in Ids
      <3>1. q \in Acks
        BY <1>4 DEF ChannelTypes
      <3> QED
        BY <3>1, Zenon DEF Acks
    <2>3. Token(toServer[1]) => q.id # toServer[1].id
      BY <1>4 DEF OneToken, Advanced
    <2>4. pubIn'[q.id] = pubIn[q.id] /\ InFlight' = InFlight
      BY <2>2, <2>3, Zenon DEF InFlight
    <2> QED
      BY <2>1, <2>4, Zenon DEF Awaits
  <1> QED
    BY <1>3, <1>4, Zenon

\* A PUBLISH of an exchange has an id.
LEMMA TokenId ==
  ASSUME Base
  PROVE  \A k \in 1..Len(toServer) : toServer[k].type = "PUBLISH" /\ QoS[toServer[k].m] > 0
                                       => toServer[k].id \in Ids
  <1> SUFFICES ASSUME NEW k \in 1..Len(toServer), toServer[k].type = "PUBLISH",
                      QoS[toServer[k].m] > 0
               PROVE  toServer[k].id \in Ids
    BY Zenon
  <1>1. toServer[k] \in Pubs /\ toServer[k].m \in Msgs
    BY DEF Base, Types, ChannelTypes, Pubs, Rels
  <1> QED
    BY <1>1, Zenon DEF Base, IdInv, PacketIds, Carries

\* The server answers a PUBLISH.
LEMMA TokenTaken ==
  ASSUME Base, OneToken, Pending, Awaited, StoredOpen, V5, NEW p, Taken(p)
  PROVE  (OneToken /\ Pending /\ Awaited /\ StoredOpen)'
  <1>0. ChannelTypes /\ StoreTypes /\ StoredOpen /\ OneToken /\ Pending /\ Awaited
    BY Zenon DEF Base, Types
  <1>1. /\ p.m \in Msgs /\ p = toServer[1] /\ 1 \in 1..Len(toServer) /\ p.type = "PUBLISH"
        /\ (QoS[p.m] > 0 => p.id \in Ids) /\ p.id = id[p.m] /\ Advanced
    BY <1>0, TakenPacket, ReadServer, Zenon DEF Carries
  <1>2. UNCHANGED <<phase, id>> /\ InFlight' = InFlight
    BY Zenon DEF Taken, client, InFlight
  <1>3. Token(p) <=> QoS[p.m] > 0
    BY <1>1, Zenon DEF Token
  <1>4. QoS[p.m] > 0 => p.m \in InFlight /\ phase[p.m] = "pub" /\ pubIn[p.id] = None
    BY <1>1, Zenon DEF Pending, InFlight
  <1>5. \/ pubIn' = pubIn
        \/ QoS[p.m] = 2 /\ Allowed(p) /\ pubIn' = [pubIn EXCEPT ![p.id] = <<p.m, TopicOf(p)>>]
    BY <1>4, TakenEffect, Zenon DEF Store
  <1>6. \/ QoS[p.m] = 0 /\ toClient' = toClient
        \/ QoS[p.m] > 0 /\ \E q \in Acks :
             /\ Replied(q) /\ q.id = p.id
             /\ \/ QoS[p.m] = 1 /\ q.type = "PUBACK"
                \/ /\ QoS[p.m] = 2 /\ q.type = "PUBREC"
                   /\ V5 /\ q.reason # "ok" => ~Allowed(p) \/ pubIn[p.id] # None
    BY <1>0, TakenAnswer, SentClient, Zenon
  <1>7. OneToken'
    BY <1>0, <1>1, <1>3, <1>6, TokenMoves, Zenon
  <1>8. /\ Pending'
        /\ \A k \in 1..Len(toClient) : \A q : q = toClient[k]
              => \E m \in InFlight' : Awaits(m, q)'
    <2>1. \/ pubIn' = pubIn
          \/ /\ Token(toServer[1])
             /\ \A i \in Ids : i # toServer[1].id => pubIn'[i] = pubIn[i]
      BY <1>0, <1>1, <1>3, <1>5 DEF StoreTypes
    <2> QED
      BY <1>0, <1>1, <1>2, <2>1, TokenId, TokenRest, Zenon
  <1>9. Awaited'
    <2>1. CASE QoS[p.m] = 0 /\ toClient' = toClient
      BY <1>8, <2>1, Zenon DEF Awaited
    <2>2. ASSUME QoS[p.m] > 0, NEW q \in Acks, Replied(q), q.id = p.id,
                 \/ QoS[p.m] = 1 /\ q.type = "PUBACK"
                 \/ /\ QoS[p.m] = 2 /\ q.type = "PUBREC"
                    /\ V5 /\ q.reason # "ok" => ~Allowed(p) \/ pubIn[p.id] # None
          PROVE  Awaited'
      <3>1. q.type = "PUBREC" /\ q.reason # "ok" => pubIn' = pubIn
        BY <1>4, <1>5, <2>2, Zenon
      <3>2. Awaits(p.m, q)'
        BY <1>1, <1>2, <1>4, <2>2, <3>1, ZenonT(60) DEF Awaits
      <3>3. \A k \in 1..Len(toClient') : \/ k \in 1..Len(toClient) /\ toClient'[k] = toClient[k]
                                         \/ k = Len(toClient) + 1 /\ toClient'[k] = q
        BY <2>2 DEF Replied
      <3> QED
        BY <1>2, <1>4, <1>8, <2>2, <3>2, <3>3, Zenon DEF Awaited
    <2> QED
      BY <1>6, <2>1, <2>2, Zenon
  <1>10. StoredOpen'
    BY <1>0, <1>1, <1>2, <1>4, <1>5 DEF StoredOpen, StoreTypes
  <1> QED
    BY <1>7, <1>8, <1>9, <1>10, Zenon

\* The server answers a PUBREL.
LEMMA TokenReleased ==
  ASSUME Base, OneToken, Pending, Awaited, StoredOpen, OnPubrel
  PROVE  (OneToken /\ Pending /\ Awaited /\ StoredOpen)'
  <1>0. ChannelTypes /\ StoreTypes /\ StoredOpen /\ OneToken /\ Pending /\ Awaited
    BY Zenon DEF Base, Types
  <1>1. PICK p : p = Head(toServer)
    BY Zenon
  <1>2. /\ p.id \in Ids /\ p = toServer[1] /\ 1 \in 1..Len(toServer) /\ p.type = "PUBREL"
        /\ Advanced
    BY <1>0, <1>1, ReleasedPacket, ReadServer, Zenon
  <1>3. PICK q \in Acks : Replied(q) /\ q.type = "PUBCOMP" /\ q.id = p.id
    BY <1>0, <1>1, ReleasedPacket, SentClient, Zenon
  <1>4. UNCHANGED <<phase, id>> /\ InFlight' = InFlight
    BY Zenon DEF OnPubrel, client, InFlight
  <1>5. Token(p)
    BY <1>2, Zenon DEF Token
  <1>6. \/ pubIn' = pubIn /\ pubIn[p.id] = None
        \/ pubIn' = [pubIn EXCEPT ![p.id] = None]
    BY <1>1, ReleasedPacket, Zenon DEF Release
  <1>7. PICK m \in Msgs : phase[m] = "rel" /\ id[m] = p.id
    BY <1>2, Zenon DEF Pending
  <1>8. OneToken'
    BY <1>0, <1>2, <1>3, <1>5, TokenMoves, Zenon
  <1>9. /\ Pending'
        /\ \A k \in 1..Len(toClient) : \A r : r = toClient[k]
              => \E n \in InFlight' : Awaits(n, r)'
    <2>1. \/ pubIn' = pubIn
          \/ /\ Token(toServer[1])
             /\ \A i \in Ids : i # toServer[1].id => pubIn'[i] = pubIn[i]
      BY <1>0, <1>2, <1>5, <1>6, Zenon DEF StoreTypes
    <2> QED
      BY <1>0, <1>2, <1>4, <2>1, TokenId, TokenRest, Zenon
  <1>10. Awaited'
    <2>1. pubIn'[p.id] = None
      BY <1>0, <1>2, <1>6, Zenon DEF StoreTypes
    <2>2. Awaits(m, q)' /\ m \in InFlight'
      BY <1>3, <1>4, <1>7, <2>1, ZenonT(60) DEF Awaits, InFlight
    <2>3. \A k \in 1..Len(toClient') : \/ k \in 1..Len(toClient) /\ toClient'[k] = toClient[k]
                                       \/ k = Len(toClient) + 1 /\ toClient'[k] = q
      BY <1>3 DEF Replied
    <2> QED
      BY <1>9, <2>2, <2>3, Zenon DEF Awaited
  <1>11. StoredOpen'
    BY <1>0, <1>2, <1>4, <1>6, Zenon DEF StoredOpen, StoreTypes
  <1> QED
    BY <1>8, <1>9, <1>10, <1>11, Zenon

\* After a reconnect there is one packet for every unfinished message.
LEMMA TokenAgain ==
  ASSUME Base, Reconnect, \E order : Again(order)
  PROVE  (OneToken /\ Pending /\ Awaited /\ StoredOpen)'
  <1>1. PICK order : Again(order)
    BY Zenon
  <1>2. /\ UNCHANGED <<phase, id>> /\ toClient' = <<>> /\ Len(toClient') = 0
        /\ \A i \in Ids : pubIn'[i] = None
    BY Empty, Zenon DEF Reconnect, Base, DownInv
  <1>3. \A k \in 1..Len(toServer') :
          /\ order[k] \in InFlight /\ toServer'[k].id = id[order[k]] /\ id[order[k]] \in Ids
          /\ toServer'[k].type = "PUBREL" => phase[order[k]] = "rel"
          /\ toServer'[k].type = "PUBLISH" => phase[order[k]] = "pub" /\ toServer'[k].m = order[k]
    BY <1>1, Zenon DEF Again, Base, IdInv, FlightIds
  <1>4. \A j, k \in 1..Len(toServer') : toServer'[j].id = toServer'[k].id => j = k
    <2>1. \A j, k \in 1..Len(toServer') : order[j] = order[k] => j = k
      BY <1>1, Zenon DEF Again
    <2>2. \A m, n \in InFlight : id[m] = id[n] => m = n
      BY Zenon DEF Base, IdInv, FlightIds
    <2> QED
      BY <1>3, <2>1, <2>2
  <1>5. OneToken'
    BY <1>2, <1>4 DEF OneToken
  <1>6. Pending'
    BY <1>2, <1>3 DEF Pending, InFlight
  <1>7. Awaited' /\ StoredOpen'
    BY <1>2 DEF Awaited, StoredOpen
  <1> QED
    BY <1>5, <1>6, <1>7, Zenon

\* A connection keeps its version.
LEMMA SameVersion == [Next]_vars => version' = version
  <1> SUFFICES ASSUME [Next]_vars PROVE version' = version
    BY Zenon
  <1>1. CASE UNCHANGED vars
    BY <1>1, Zenon DEF vars, client
  <1>2. ASSUME NEW m \in Msgs, ClientPublish(m) \/ ClientRepeats(m) PROVE version' = version
    BY <1>2, Zenon DEF ClientPublish, ClientRepeats, client
  <1>3. CASE ClientReceives
    BY <1>3, Zenon DEF ClientReceives
  <1>4. CASE OnPublish \/ OnPubrel \/ Drop
    BY <1>4, Zenon DEF OnPublish, OnPubrel, Drop, client
  <1>5. CASE Reconnect
    BY <1>5, Zenon DEF Reconnect
  <1> QED
    BY <1>1, <1>2, <1>3, <1>4, <1>5, Zenon DEF Next

\* At first no exchange has begun.
LEMMA TokenInit == Init => TokenInv
  BY Empty DEF Init, TokenInv, OneToken, Pending, Awaited, StoredOpen

\* An unfinished exchange has one packet under way, or the server has its message.
LEMMA TokenStep == Base /\ TokenInv /\ Step => TokenInv'
  <1> SUFFICES ASSUME Base, TokenInv, [Next]_vars, Reconnect => \E order : Again(order), V5
               PROVE  (OneToken /\ Pending /\ Awaited /\ StoredOpen)'
    BY SameVersion, Zenon DEF TokenInv, V5, Step
  <1>0. Types /\ OneToken /\ Pending /\ Awaited /\ StoredOpen
    BY Zenon DEF TokenInv, Base
  <1>1. CASE UNCHANGED vars
    <2>1. UNCHANGED <<toServer, toClient, phase, id, pubIn>> /\ InFlight' = InFlight
      BY <1>1, Zenon DEF vars, client, server, InFlight
    <2>2. OneToken' /\ Pending'
      BY <1>0, <2>1, Zenon DEF OneToken, Token, Pending
    <2> QED
      BY <1>0, <2>1, <2>2, Zenon DEF Awaited, Awaits, StoredOpen
  <1>2. ASSUME NEW m \in Msgs, ClientPublish(m)
        PROVE  (OneToken /\ Pending /\ Awaited /\ StoredOpen)'
    <2>1. PICK p \in Pubs : NewPacket(m, p)
      BY <1>0, <1>2, NewMessage, Zenon
    <2> QED
      BY <1>0, <2>1, TokenPublish, Zenon
  <1>3. ASSUME NEW m \in Msgs, ClientRepeats(m) PROVE FALSE
    BY <1>3, Zenon DEF ClientRepeats
  <1>4. CASE ClientReceives
    BY <1>0, <1>4, Received, TokenHeard, Zenon
  <1>5. ASSUME Close PROVE (OneToken /\ Pending /\ Awaited /\ StoredOpen)'
    <2>1. /\ Len(toServer') = 0 /\ Len(toClient') = 0
          /\ \A i \in Ids : pubIn'[i] = None
      BY <1>5, Gone, Empty, Zenon
    <2> QED
      BY <2>1 DEF OneToken, Pending, Awaited, StoredOpen
  <1>6. CASE Taken(Head(toServer))
    BY <1>0, <1>6, TokenTaken, Zenon
  <1>7. CASE OnPubrel
    BY <1>0, <1>7, TokenReleased, Zenon
  <1>8. CASE Reconnect
    BY <1>8, TokenAgain, Zenon
  <1> QED
    BY <1>1, <1>2, <1>3, <1>4, <1>5, <1>6, <1>7, <1>8, OnPublishCases, Zenon DEF Next, Drop

-----------------------------------------------------------------------------
(* The receive maximum, and what the client sends again: finite sets.       *)

\* The client sends the messages of InFlight again in some order.
LEMMA InOrder ==
  ASSUME Reconnect
  PROVE  \E order \in [1..Size(InFlight) -> InFlight] :
           /\ {order[n] : n \in DOMAIN order} = InFlight
           /\ toServer' = [n \in DOMAIN order |-> Resumed(order[n])]
  <1>1. Cardinality(InFlight) = Size(InFlight)
    BY IsSize, Zenon
  <1> QED
    BY <1>1, Zenon DEF Reconnect

LOCAL INSTANCE FiniteSetTheorems

\* The theorems used, in these words: the size of a finite set is a number,
LEMMA SizeType == ASSUME NEW S, Finite(S) PROVE Size(S) \in Nat
  <1>1. IsFiniteSet(S)
    BY Zenon DEF IsFiniteSet, Finite
  <1>2. Cardinality(S) \in Nat
    BY <1>1, FS_CardinalityType, Zenon
  <1> QED
    BY <1>2, Zenon DEF Cardinality, Size

\* that of the empty set is 0,
LEMMA EmptySize == Finite({}) /\ Size({}) = 0
  <1>1. IsFiniteSet({}) /\ Cardinality({}) = 0
    BY FS_EmptySet, Zenon
  <1> QED
    BY <1>1, Zenon DEF IsFiniteSet, Finite, Cardinality, Size

\* a part of a finite set is finite and not larger,
LEMMA PartFinite ==
  ASSUME NEW S, Finite(S), NEW T, T \subseteq S
  PROVE  Finite(T) /\ Size(T) <= Size(S)
  <1>1. IsFiniteSet(S)
    BY Zenon DEF IsFiniteSet, Finite
  <1>2. IsFiniteSet(T) /\ Cardinality(T) <= Cardinality(S)
    BY <1>1, FS_Subset, Zenon
  <1> QED
    BY <1>2, Zenon DEF IsFiniteSet, Finite, Cardinality, Size

\* with one element more it is larger by one,
LEMMA OneMore ==
  ASSUME NEW S, Finite(S), NEW x
  PROVE  Finite(S \cup {x}) /\ (x \notin S => Size(S \cup {x}) = Size(S) + 1)
  <1>1. IsFiniteSet(S)
    BY Zenon DEF IsFiniteSet, Finite
  <1>2. IsFiniteSet(S \cup {x}) /\ (x \notin S => Cardinality(S \cup {x}) = Cardinality(S) + 1)
    BY <1>1, FS_AddElement, Zenon
  <1> QED
    BY <1>2, Zenon DEF IsFiniteSet, Finite, Cardinality, Size

\* with one less smaller by one,
LEMMA OneLess ==
  ASSUME NEW S, Finite(S), NEW x \in S
  PROVE  Finite(S \ {x}) /\ Size(S \ {x}) = Size(S) - 1
  <1>1. IsFiniteSet(S)
    BY Zenon DEF IsFiniteSet, Finite
  <1>2. IsFiniteSet(S \ {x}) /\ Cardinality(S \ {x}) = Cardinality(S) - 1
    BY <1>1, FS_RemoveElement, Zenon
  <1> QED
    BY <1>2, Zenon DEF IsFiniteSet, Finite, Cardinality, Size

\* a set that is mapped one to one into a finite set is not larger,
LEMMA IntoSize ==
  ASSUME NEW S, NEW T, Finite(T), NEW f \in Injection(S, T)
  PROVE  Finite(S) /\ Size(S) <= Size(T)
  <1>1. IsFiniteSet(T)
    BY Zenon DEF IsFiniteSet, Finite
  <1>2. IsFiniteSet(S) /\ Cardinality(S) <= Cardinality(T)
    BY <1>1, FS_Injection, Zenon
  <1> QED
    BY <1>2, Zenon DEF IsFiniteSet, Finite, Cardinality, Size

\* there are n numbers up to n,
LEMMA Numbers ==
  ASSUME NEW n \in Nat
  PROVE  IsFiniteSet(1..n) /\ Cardinality(1..n) = n
  <1>1. 1 \in Int /\ n \in Int
    OBVIOUS
  <1>2. /\ IsFiniteSet(1..n)
        /\ Cardinality(1..n) = IF 1 > n THEN 0 ELSE n - 1 + 1
    BY <1>1, FS_Interval, Zenon
  <1> QED
    BY <1>2

\* and as many numbers as it has elements are mapped onto it one to one.
LEMMA OntoOnce ==
  ASSUME NEW S, Finite(S), Size(S) \in Nat, NEW f \in [1..Size(S) -> S],
         {f[n] : n \in DOMAIN f} = S
  PROVE  \A j, k \in 1..Size(S) : f[j] = f[k] => j = k
  <1>1. IsFiniteSet(S) /\ Cardinality(S) = Size(S)
    BY Zenon DEF IsFiniteSet, Finite, Cardinality, Size
  <1>2. f \in Surjection(1..Size(S), S)
    BY Zenon DEF Surjection
  <1>3. IsFiniteSet(1..Size(S)) /\ Cardinality(1..Size(S)) = Size(S)
    BY Numbers, Zenon
  <1>4. f \in Injection(1..Size(S), S)
    BY <1>1, <1>2, <1>3, FS_SurjSameCardinalityImpliesInj, Zenon
  <1> QED
    BY <1>4, Zenon DEF Injection, IsInjective

\* The first part of the invariant holds at first.
LEMMA BaseInit == Init => Base
  <1> SUFFICES ASSUME Init PROVE Base
    BY Zenon
  <1>1. Types
    BY Empty, Zenon DEF Init, Types, ChannelTypes, StoreTypes, AliasTypes, MsgTypes, CountTypes
  <1>2. DownInv
    BY Zenon DEF Init, DownInv
  <1>3. IdInv
    BY Empty DEF Init, IdInv, FlightIds, PacketIds, StoredIds, InFlight
  <1>4. FewInv
    <2>1. InFlight = {}
      BY Zenon DEF Init, InFlight
    <2> QED
      BY <2>1, EmptySize, ReceiverAssumption DEF FewInv
  <1> QED
    BY <1>1, <1>2, <1>3, <1>4, Zenon DEF Base

\* Reconnect puts the packets of the unfinished messages, each once, in the channel.
LEMMA SentAgain == ASSUME Base, Reconnect PROVE \E order : Again(order)
  <1>1. PICK order \in [1..Size(InFlight) -> InFlight] :
          /\ {order[n] : n \in DOMAIN order} = InFlight
          /\ toServer' = [n \in DOMAIN order |-> Resumed(order[n])]
    BY InOrder, Zenon
  <1>2. \A m \in InFlight :
          /\ Resumed(m) \in Pubs \cup Rels
          /\ \/ phase[m] = "rel" /\ Resumed(m).type = "PUBREL"
             \/ /\ phase[m] = "pub" /\ Resumed(m).type = "PUBLISH" /\ Resumed(m).m = m
                /\ Resumed(m).topic = Topic[m] /\ Resumed(m).alias = None
          /\ Resumed(m).id = id[m]
    <2> SUFFICES ASSUME NEW m \in InFlight
                 PROVE  /\ Resumed(m) \in Pubs \cup Rels
                        /\ \/ phase[m] = "rel" /\ Resumed(m).type = "PUBREL"
                           \/ /\ phase[m] = "pub" /\ Resumed(m).type = "PUBLISH"
                              /\ Resumed(m).m = m
                              /\ Resumed(m).topic = Topic[m] /\ Resumed(m).alias = None
                        /\ Resumed(m).id = id[m]
      BY Zenon
    <2>1. m \in Msgs /\ id[m] \in Ids /\ Topic[m] \in Topics /\ phase[m] \in {"pub", "rel"}
      BY Zenon DEF Base, IdInv, FlightIds, InFlight, Topics
    <2>2. CASE phase[m] = "rel"
      BY <2>1, <2>2, Zenon DEF Resumed, Ack, Rels
    <2>3. CASE phase[m] = "pub"
      BY <2>1, <2>3, Zenon DEF Resumed, Publish, Pubs
    <2> QED
      BY <2>1, <2>2, <2>3, Zenon
  <1>3. Finite(InFlight) /\ Size(InFlight) \in Nat
    BY SizeType, Zenon DEF Base, FewInv
  <1>4. toServer' \in Seq(Pubs \cup Rels) /\ Len(toServer') = Size(InFlight)
    BY <1>1, <1>2, <1>3
  <1>5. \A j, k \in 1..Len(toServer') : order[j] = order[k] => j = k
    <2>1. \A j, k \in 1..Size(InFlight) : order[j] = order[k] => j = k
      BY <1>1, <1>3, OntoOnce, Zenon
    <2> QED
      BY <1>4, <2>1, Zenon
  <1>6. \A k \in 1..Len(toServer') : order[k] \in InFlight /\ toServer'[k] = Resumed(order[k])
    BY <1>1, <1>4, Zenon
  <1>7. \A k \in 1..Len(toServer') :
          /\ order[k] \in InFlight
          /\ \/ /\ phase[order[k]] = "rel" /\ toServer'[k].type = "PUBREL"
             \/ /\ phase[order[k]] = "pub" /\ toServer'[k].type = "PUBLISH"
                /\ toServer'[k].m = order[k]
                /\ toServer'[k].topic = Topic[order[k]] /\ toServer'[k].alias = None
          /\ toServer'[k].id = id[order[k]]
    BY <1>2, <1>6
  <1>8. Again(order)
    BY <1>1, <1>3, <1>4, <1>5, <1>7, Zenon DEF Again
  <1> QED
    BY <1>8, Zenon

\* A client does not begin an exchange beyond the receive maximum.
LEMMA FewStep == Base /\ [Next]_vars => FewInv'
  <1> SUFFICES ASSUME Base, [Next]_vars PROVE FewInv'
    BY Zenon
  <1>0. Types /\ MsgTypes /\ FewInv
    BY Zenon DEF Base, Types
  <1>1. ASSUME UNCHANGED phase PROVE FewInv'
    BY <1>0, <1>1, Zenon DEF FewInv, InFlight
  <1>2. ASSUME NEW m \in Msgs, ClientPublish(m) PROVE FewInv'
    <2>1. PICK p \in Pubs : NewPacket(m, p)
      BY <1>0, <1>2, NewMessage, Zenon
    <2>2. \/ InFlight' = InFlight
          \/ /\ Size(InFlight) < ReceiveMax /\ m \notin InFlight
             /\ InFlight' = InFlight \cup {m}
      BY <1>0, <2>1, Zenon DEF InFlight, NewPacket, MsgTypes
    <2>3. Size(InFlight) \in Nat /\ ReceiveMax \in Nat
      BY <1>0, SizeType, ReceiverAssumption, Zenon DEF FewInv
    <2>4. /\ Finite(InFlight \cup {m})
          /\ m \notin InFlight => Size(InFlight \cup {m}) = Size(InFlight) + 1
      BY <1>0, OneMore, Zenon DEF FewInv
    <2>5. CASE InFlight' = InFlight
      BY <1>0, <2>5, Zenon DEF FewInv
    <2>6. CASE Size(InFlight) < ReceiveMax /\ m \notin InFlight
               /\ InFlight' = InFlight \cup {m}
      <3>1. Size(InFlight \cup {m}) <= ReceiveMax
        BY <2>3, <2>4, <2>6
      <3> QED
        BY <2>4, <2>6, <3>1, Zenon DEF FewInv
    <2> QED
      BY <2>2, <2>5, <2>6, Zenon
  <1>3. CASE ClientReceives
    <2>1. Heard
      BY <1>0, <1>3, Received, Zenon
    <2>2. InFlight' \subseteq InFlight
      BY <1>0, <2>1, HeardPhase, Zenon DEF InFlight
    <2>3. Finite(InFlight') /\ Size(InFlight') <= Size(InFlight)
      BY <1>0, <2>2, PartFinite, Zenon DEF FewInv
    <2>4. Size(InFlight) \in Nat /\ Size(InFlight') \in Nat /\ ReceiveMax \in Nat
      BY <1>0, <2>3, SizeType, ReceiverAssumption, Zenon DEF FewInv
    <2>5. Size(InFlight') <= ReceiveMax
      BY <1>0, <2>3, <2>4 DEF FewInv
    <2> QED
      BY <2>3, <2>5, Zenon DEF FewInv
  <1> QED
    BY <1>1, <1>2, <1>3, OnPublishCases, Zenon DEF Next, Drop, ClientRepeats, OnPubrel, Taken,
                                            Reconnect, vars, client

\* Every step keeps the first part, and Reconnect is as SentAgain says.
LEMMA BaseStep == Base /\ [Next]_vars => Base' /\ Step
  <1> SUFFICES ASSUME Base, [Next]_vars PROVE Base' /\ Step
    BY Zenon
  <1>1. Step
    BY SentAgain, Zenon DEF Step
  <1> QED
    BY <1>1, TypesStep, DownStep, FlightStep, PacketStep, StoredStep, FewStep, Zenon DEF Base, IdInv

\* A client within its maximum does not find the quota used up: the stored messages and
\* the one that comes are unfinished messages with different ids.
LEMMA QuotaLeft ==
  ASSUME Base, TokenInv, QuotaInv, V5, up, toServer # <<>>,
         Head(toServer).type = "PUBLISH", QoS[Head(toServer).m] > 0
  PROVE  rxQuota # 0
  <1> SUFFICES ASSUME rxQuota = 0 PROVE FALSE
    BY Zenon
  <1>1. PICK p : p = Head(toServer) /\ p = toServer[1] /\ 1 \in 1..Len(toServer) /\ p \in Pubs
    BY Read DEF Base, Types, ChannelTypes, Rels
  <1>2. p.m \in Msgs /\ p.type = "PUBLISH" /\ QoS[p.m] > 0
    BY <1>1, Zenon DEF Pubs
  <1>3. p.m \in InFlight /\ id[p.m] = p.id /\ pubIn[p.id] = None /\ p.id \in Ids
    BY <1>1, <1>2 DEF Base, TokenInv, Pending, IdInv, PacketIds, Carries, InFlight
  <1>4. \A i \in Stored : pubIn[i][1] \in InFlight /\ id[pubIn[i][1]] = i
    BY Zenon DEF Stored, TokenInv, StoredOpen, Base, IdInv, StoredIds
  <1>5. PICK f : f = [i \in Stored \cup {p.id} |-> IF i = p.id THEN p.m ELSE pubIn[i][1]]
    BY Zenon
  <1>6. f \in Injection(Stored \cup {p.id}, InFlight)
    <2>1. p.id \notin Stored
      BY <1>3, Zenon DEF Stored
    <2>2. \A i \in Stored \cup {p.id} : f[i] \in InFlight /\ id[f[i]] = i
      BY <1>3, <1>4, <1>5, Zenon
    <2>3. f \in [Stored \cup {p.id} -> InFlight]
      BY <1>5, <2>2, Zenon
    <2>4. \A i, j \in Stored \cup {p.id} : f[i] = f[j] => i = j
      BY <2>2, Zenon
    <2> QED
      BY <2>3, <2>4, Zenon DEF Injection, IsInjective
  <1>7. Finite(InFlight) /\ Size(InFlight) <= ReceiveMax
    BY Zenon DEF Base, FewInv
  <1>8. Size(Stored \cup {p.id}) <= Size(InFlight)
    BY <1>6, <1>7, IntoSize, Zenon
  <1>9. /\ Finite(Stored) /\ rxQuota + Size(Stored) = ReceiveMax
    BY Zenon DEF QuotaInv
  <1>10. Size(Stored \cup {p.id}) = Size(Stored) + 1
    <2>1. p.id \notin Stored
      BY <1>3, Zenon DEF Stored
    <2> QED
      BY <1>9, <2>1, OneMore, Zenon
  <1>11. Size(Stored) \in Nat /\ Size(InFlight) \in Nat /\ ReceiveMax \in Nat
    BY <1>7, <1>9, SizeType, ReceiverAssumption, Zenon
  <1> QED
    BY <1>7, <1>8, <1>9, <1>10, <1>11

\* At first the quota is full.
LEMMA QuotaInit == Init => QuotaInv
  <1> SUFFICES ASSUME Init PROVE QuotaInv
    BY Zenon
  <1>1. Stored = {}
    BY Empty, Zenon DEF Init, Stored
  <1> QED
    BY <1>1, EmptySize, ReceiverAssumption DEF Init, QuotaInv

\* The quota and the stored messages add up to the receive maximum, so it is not exceeded.
LEMMA QuotaStep == Base /\ TokenInv /\ QuotaInv /\ [Next]_vars => QuotaInv'
  <1> SUFFICES ASSUME Base, TokenInv, QuotaInv, [Next]_vars, V5
               PROVE  /\ Finite(Stored') /\ rxQuota' \in Int
                      /\ up' => rxQuota' + Size(Stored') = ReceiveMax
                      /\ "quota" \notin closed'
    <2> QED
      BY SameVersion, Zenon DEF QuotaInv, V5
  <1> DEFINE Goal == /\ Finite(Stored') /\ rxQuota' \in Int
                     /\ up' => rxQuota' + Size(Stored') = ReceiveMax
                     /\ "quota" \notin closed'
  <1>0. /\ Finite(Stored) /\ rxQuota \in Int /\ StoreTypes
        /\ up => rxQuota + Size(Stored) = ReceiveMax
        /\ "quota" \notin closed /\ Size(Stored) \in Nat /\ ReceiveMax \in Nat
    BY SizeType, ReceiverAssumption, Zenon DEF QuotaInv, Base, Types
  <1>1. CASE UNCHANGED <<up, pubIn, rxQuota, closed>>
    <2>1. Stored' = Stored
      BY <1>1, Zenon DEF Stored
    <2> QED
      BY <1>0, <1>1, <2>1, Zenon
  <1>2. ASSUME Close, closed' = closed \/ closed' = closed \cup {"alias"} PROVE Goal
    <2>1. Stored' = {}
      BY <1>2, Gone, Empty, Zenon DEF Stored
    <2>2. rxQuota' = rxQuota /\ ~up'
      BY <1>2, Gone, Zenon DEF Close
    <2> QED
      BY <1>0, <1>2, <2>1, <2>2, EmptySize, Zenon
  <1>3. ASSUME NEW p, Taken(p) PROVE Goal
    <2>1. /\ p.m \in Msgs /\ p = toServer[1] /\ 1 \in 1..Len(toServer) /\ p.type = "PUBLISH"
          /\ QoS[p.m] > 0 => p.id \in Ids
      BY <1>3, TakenPacket, Zenon DEF Carries
    <2>2. up /\ up' = up /\ closed' = closed
      BY <1>3, Zenon DEF Taken
    <2>3. CASE pubIn' = pubIn /\ rxQuota' = rxQuota
      BY <1>1, <2>2, <2>3, Zenon
    <2>4. CASE QoS[p.m] = 2 /\ pubIn' = Store(p) /\ rxQuota' = TakeQuota
      <3>1. pubIn[p.id] = None
        BY <2>1, <2>4 DEF TokenInv, Pending
      <3>2. <<p.m, TopicOf(p)>> # None
        <4>1. TopicOf(p) # None
          <5>1. None \notin Topics /\ None \notin Aliases
            BY ReceiverAssumption, Zenon
          <5>2. p.topic = None => p.alias \in Aliases /\ p.alias # None
            BY <1>3, <5>1, TakenPacket, Zenon
          <5>3. ~BadAlias(p)
            BY <1>3, Zenon DEF Taken
          <5> QED
            BY <5>2, <5>3, Zenon DEF BadAlias, TopicOf
        <4>2. <<p.m, TopicOf(p)>> \in Msgs \X Topics
          BY <1>3, <4>1, TakenPacket, Zenon
        <4> QED
          BY <4>2, ReceiverAssumption, Zenon
      <3>3. pubIn' = [pubIn EXCEPT ![p.id] = <<p.m, TopicOf(p)>>] /\ p.id \in Ids
        BY <2>1, <2>4, <3>1 DEF Store
      <3>4. Stored' = Stored \cup {p.id} /\ p.id \notin Stored
        BY <1>0, <3>1, <3>2, <3>3, Zenon DEF Stored, StoreTypes
      <3>5. Finite(Stored') /\ Size(Stored') = Size(Stored) + 1
        BY <1>0, <3>4, OneMore, Zenon
      <3> QED
        BY <1>0, <2>2, <2>4, <3>5 DEF TakeQuota
    <2> QED
      BY <1>3, <2>3, <2>4, TakenEffect, Zenon
  <1>4. CASE OnPubrel
    <2>1. PICK p : p = Head(toServer)
      BY Zenon
    <2>2. up /\ up' = up /\ closed' = closed
      BY <1>4, Zenon DEF OnPubrel
    <2>3. p.id \in Ids
      BY <1>4, <2>1, ReleasedPacket, Zenon
    <2>4. CASE pubIn[p.id] = None
      BY <1>1, <1>4, <2>1, <2>2, <2>4, ReleasedPacket, Zenon
    <2>5. CASE pubIn[p.id] # None
      <3>1. pubIn' = Release(p) /\ rxQuota' = GiveQuota
        BY <1>4, <2>1, <2>5, ReleasedPacket, Zenon
      <3>2. Stored' = Stored \ {p.id} /\ p.id \in Stored
        BY <1>0, <2>3, <2>5, <3>1, Zenon DEF Stored, Release, StoreTypes
      <3>3. Finite(Stored') /\ Size(Stored') = Size(Stored) - 1
        BY <1>0, <3>2, OneLess, Zenon
      <3> QED
        BY <1>0, <2>2, <3>1, <3>3 DEF GiveQuota
    <2> QED
      BY <2>4, <2>5, Zenon
  <1>5. CASE Reconnect
    <2>1. \A i \in Ids : pubIn'[i] = None
      BY <1>5, Empty, Zenon DEF Reconnect, Base, DownInv
    <2>2. Stored' = {}
      BY <2>1, Zenon DEF Stored
    <2> QED
      BY <1>0, <1>5, <2>2, EmptySize DEF Reconnect
  <1>6. CASE OnPublish
    BY <1>0, <1>2, <1>3, <1>6, OnPublishCases, QuotaLeft, Zenon
  <1> QED
    BY <1>1, <1>2, <1>4, <1>5, <1>6, Zenon
    DEF Next, Drop, vars, server, ClientPublish, ClientRepeats, ClientReceives

-----------------------------------------------------------------------------
(* The theorems.                                                           *)

\* The packets on their way, the ids and the stored messages fit together in every state.
THEOREM Exchanges == Spec => [](Base /\ OnceInv)
  <1>1. Init => Base /\ OnceInv
    BY BaseInit, OnceInit, Zenon
  <1>2. Base /\ OnceInv /\ [Next]_vars => (Base /\ OnceInv)'
    BY BaseStep, OnceStep, Zenon
  <1> QED
    BY <1>1, <1>2, PTL DEF Spec

\* A message of QoS 2 is published at most once, for any clients' messages and ids,
\* however often the connection is lost and with every repetition 3.1.1 allows
\* (onPublish stores it, only the PUBREL part of onAck publishes it).
THEOREM PublishedOnce == Spec => []AtMostOnce
  <1>1. Base /\ OnceInv => AtMostOnce
    BY DEF AtMostOnce, OnceInv, NotAgain
  <1> QED
    BY <1>1, Exchanges, PTL

\* The packets on their way, the stored messages and the quota fit together in every state.
THEOREM Invariance == Spec => [](Base /\ TokenInv /\ QuotaInv)
  <1>1. Init => Base /\ TokenInv /\ QuotaInv
    BY BaseInit, TokenInit, QuotaInit, Zenon
  <1>2. Base /\ TokenInv /\ QuotaInv /\ [Next]_vars => (Base /\ TokenInv /\ QuotaInv)'
    BY BaseStep, TokenStep, QuotaStep, Zenon
  <1> QED
    BY <1>1, <1>2, PTL DEF Spec

\* A 5.0 client that keeps the receive maximum is never disconnected for exceeding it:
\* onPublish and onAck give back what they take, across reconnections too.
THEOREM WithinMaximum == Spec => []NotExceeded
  <1>1. QuotaInv => NotExceeded
    BY Zenon DEF QuotaInv, NotExceeded
  <1> QED
    BY <1>1, Invariance, PTL

\* When the ACL refuses no topic of the client, every message is published to its own
\* topic, whatever aliases the client used and gave anew (onPublish).
THEOREM TopicByAlias == ASSUME Topics \subseteq Writable PROVE Spec => []RightTopic
  <1>1. Init => Base /\ AliasInv
    BY BaseInit, AliasInit, Zenon
  <1>2. Base /\ AliasInv /\ [Next]_vars => (Base /\ AliasInv)'
    BY BaseStep, AliasStep, Zenon
  <1>3. AliasInv => RightTopic
    BY Zenon DEF AliasInv
  <1> QED
    BY <1>1, <1>2, <1>3, PTL DEF Spec
=============================================================================
