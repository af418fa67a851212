------------------------------- MODULE Writer -------------------------------
(***************************************************************************)
(* The transmit side of a connection (connection/writer.go, flowControl.go, *)
(* ack.go) with the part of the reader that feeds it (connection.go onAck) *)
(* and the life of the connections of one durable session, as far as the    *)
(* packets of the session are concerned.                                    *)
(*                                                                         *)
(* Processes: the goroutines that publish to the subscriber (Senders), the  *)
(* reader goroutine, the writer goroutines (two names are enough, see       *)
(* SpawnPossible), the goroutine that closes the connection, the client.    *)
(* A step is one access to shared state: a queue operation under its lock,  *)
(* a sync.Map operation, an atomic, a WaitGroup or a channel operation.     *)
(***************************************************************************)
EXTENDS Integers, Sequences, FiniteSets

CONSTANTS
  Msgs,        \* packets the broker sends to this client
  Class,       \* [Msgs -> {"g", "qos0", "qos1", "qos2"}], "g": PINGRESP, SUBACK...
  TooBig,      \* messages above the packet size the client accepts
  Expirable,   \* messages with a publication expiry that may run out
  Rejects,     \* may the client answer PUBREC with an error reason (v5)?
  OfflineQoS0, \* the offlineQoS0 option
  SendQuota,   \* Receive Maximum of the client, the initial flow.quota
  MaxID,       \* largest packet id: 0xFFFF in the code
  MaxConn,     \* bound: how many times the client connects
  LastFails,   \* may the last of these connections fail too?
  Senders      \* goroutines that publish to the subscriber of this session

ASSUME ClassAssumption == Class \in [Msgs -> {"g", "qos0", "qos1", "qos2"}]
ASSUME QuotaAssumption == /\ SendQuota \in Nat \ {0}
                          /\ MaxID \in Nat
                          /\ SendQuota <= MaxID
ASSUME BoundAssumption == MaxConn \in Nat
ASSUME FlagAssumption == Rejects \in BOOLEAN /\ OfflineQoS0 \in BOOLEAN /\ LastFails \in BOOLEAN

Ids == 1..MaxID
Routines == {1, 2}
RangeOf(q) == {q[i] : i \in DOMAIN q}
QoS12(m) == Class[m] \in {"qos1", "qos2"}

Publish(m, i) == [type |-> "PUBLISH", m |-> m, id |-> i]
Pubrel(i) == [type |-> "PUBREL", id |-> i]
Ack(t, i) == [type |-> t, id |-> i, ok |-> TRUE]
Nack(i) == [type |-> "PUBREC", id |-> i, ok |-> FALSE]

Acked == {m \in Msgs : QoS12(m)}
UnAckPackets == [type : {"PUBLISH"}, m : Acked, id : Ids] \cup [type : {"PUBREL"}, id : Ids]
Packets == UnAckPackets \cup [type : {"PUBLISH"}, m : Msgs \ Acked, id : {0}]
Acks == [type : {"PUBACK", "PUBREC", "PUBCOMP"}, id : Ids, ok : BOOLEAN]
NoAck == [type |-> "none", id |-> 0, ok |-> TRUE]
NoPacket == [type |-> "none", id |-> 0]

VARIABLES
  gMessages, qos0Messages, qos12Messages, pubrelMessages,  \* the four queues
  inUse, counter, quota, turns, \* flow; turns made by the loop of acquire
  pubOut,                   \* ackQueue.messages: id -> packet, or NoPacket
  running, wgRunSync, wg, quit,
  rpc, batch, buf,          \* per routine: pc, popped packets, bufio.Writer
  spc,                      \* per sender: pc
  kpc, kack,                \* reader: pc and the ack being processed
  cpc, nconn, online,       \* connection: phase, number, subscriber online
  persist,                  \* the session's persisted packets
  wire, acks, broken,       \* to the client, from the client, the socket has failed
  recvIds, delivered, refused, \* client: QoS 2 ids it holds, what it took
  accepted, open            \* history: published messages, exchanges under way

queues == <<gMessages, qos0Messages, qos12Messages, pubrelMessages>>
flow == <<inUse, counter, quota, turns>>
sync == <<running, wgRunSync, wg, quit>>
routine == <<rpc, batch, buf>>
reader == <<kpc, kack>>
conn == <<cpc, nconn, online>>
client == <<recvIds, delivered, refused>>
net == <<wire, acks, broken>>
hist == <<accepted, open>>
vars == <<queues, flow, pubOut, sync, routine, spc, reader, conn, persist, net, client, hist>>

-----------------------------------------------------------------------------

\* New, newWriter and wrQuota: a fresh writer; no connection yet.
Init ==
  /\ gMessages = <<>> /\ qos0Messages = <<>> /\ qos12Messages = <<>> /\ pubrelMessages = <<>>
  /\ inUse = {} /\ counter = 0 /\ quota = SendQuota /\ turns = 0
  /\ pubOut = [i \in Ids |-> NoPacket]
  /\ running = 0 /\ wgRunSync = 0 /\ wg = 0 /\ quit = FALSE
  /\ rpc = [r \in Routines |-> "off"]
  /\ batch = [r \in Routines |-> <<>>]
  /\ buf = [r \in Routines |-> <<>>]
  /\ spc = [s \in Senders |-> "idle"]
  /\ kpc = "idle" /\ kack = NoAck
  /\ cpc = "down" /\ nconn = 0 /\ online = FALSE
  /\ persist = [unack |-> {}, qos12 |-> <<>>, qos0 |-> <<>>]
  /\ wire = <<>> /\ acks = {} /\ broken = FALSE
  /\ recvIds = {} /\ delivered = <<>> /\ refused = {}
  /\ accepted = <<>> /\ open = {}

-----------------------------------------------------------------------------
(* run(): the check of quit, then the compare-and-swap that starts a routine. *)

\* running 0 -> 1, wg.Add(1), go s.routine(); nothing when a routine runs.
\* pcs: the routines' pcs, the caller's own move included.
Cas(pcs) ==
  \/ /\ running = 0
     /\ running' = 1
     /\ wg' = wg + 1
     /\ \E r \in Routines : pcs[r] = "off" /\ rpc' = [pcs EXCEPT ![r] = "wait"]
     /\ UNCHANGED <<wgRunSync, quit, batch, buf>>
  \/ /\ running = 1
     /\ rpc' = pcs
     /\ UNCHANGED <<sync, batch, buf>>

-----------------------------------------------------------------------------
(* Senders: subscriber.Publish under the read lock, with the subscriber online. *)

\* send: the size check and the queue of the class.
Send(s, m) ==
  /\ online /\ spc[s] = "idle"
  /\ m \notin RangeOf(accepted) /\ Class[m] # "g"
  /\ accepted' = Append(accepted, m)
  /\ \/ /\ m \in TooBig
        /\ UNCHANGED <<queues, spc>>
     \/ /\ m \notin TooBig
        /\ spc' = [spc EXCEPT ![s] = "run"]
        /\ IF QoS12(m)
             THEN qos12Messages' = Append(qos12Messages, m) /\ UNCHANGED qos0Messages
             ELSE qos0Messages' = Append(qos0Messages, m) /\ UNCHANGED qos12Messages
        /\ UNCHANGED <<gMessages, pubrelMessages>>
  /\ UNCHANGED <<flow, pubOut, sync, routine, reader, conn, persist, net, client, open>>

SenderRun(s) ==
  /\ spc[s] = "run"
  /\ spc' = [spc EXCEPT ![s] = IF quit THEN "idle" ELSE "cas"]
  /\ UNCHANGED <<queues, flow, pubOut, sync, routine, reader, conn, persist, net, client, hist>>

SenderCas(s) ==
  /\ spc[s] = "cas"
  /\ Cas(rpc)
  /\ spc' = [spc EXCEPT ![s] = "idle"]
  /\ UNCHANGED <<queues, flow, pubOut, reader, conn, persist, net, client, hist>>

-----------------------------------------------------------------------------
(* Reader: one ack at a time; pc "idle" between packets.                     *)

Reading == cpc \in {"loaded", "up"} /\ kpc = "idle"

\* A response of the reader other than an ack of a publish: PINGRESP, SUBACK.
Respond(m) ==
  /\ Reading /\ Class[m] = "g" /\ m \notin RangeOf(accepted)
  /\ accepted' = Append(accepted, m)
  /\ gMessages' = Append(gMessages, m)
  /\ kpc' = "run"
  /\ kack' = NoAck
  /\ UNCHANGED <<qos0Messages, qos12Messages, pubrelMessages, flow, pubOut, sync, routine, spc,
                 conn, persist, net, client, open>>

\* onAck up to messages.Load of ackQueue.release.
TakeAck(a) ==
  /\ Reading /\ a \in acks
  /\ acks' = acks \ {a}
  /\ kack' = a
  /\ kpc' = CASE a.type = "PUBREC" -> "rec"
              [] a.type # "PUBREC" /\ pubOut[a.id] # NoPacket -> "rel"
              [] a.type # "PUBREC" /\ pubOut[a.id] = NoPacket -> "idle"
  /\ open' = IF kpc' = "idle" THEN {o \in open : o.id # a.id} ELSE open
  /\ UNCHANGED <<queues, flow, pubOut, sync, routine, spc, conn, persist, wire, broken, client, accepted>>

\* PUBREC: the message leaves pubOut. With an error reason the id is released,
\* otherwise PUBREL is queued.
OnPubrec ==
  /\ kpc = "rec"
  /\ pubOut' = [pubOut EXCEPT ![kack.id] = NoPacket]
  /\ \/ ~kack.ok /\ kpc' = "rel" /\ UNCHANGED pubrelMessages
     \/ kack.ok /\ kpc' = "run" /\ pubrelMessages' = Append(pubrelMessages, kack.id)
  /\ UNCHANGED <<gMessages, qos0Messages, qos12Messages, flow, sync, routine, spc, kack, conn,
                 persist, net, client, hist>>

\* After a release: PUBACK and PUBCOMP still have to delete the entry of pubOut.
AfterRelease == IF kack.type \in {"PUBACK", "PUBCOMP"} THEN "del" ELSE "idle"

\* Mutant: the quota comes back, the id does not.
ReleaseID_Leak ==
  /\ kpc = "rel"
  /\ kpc' = "inc"
  /\ open' = {o \in open : o.id # kack.id}
  /\ UNCHANGED <<queues, flow, pubOut, sync, routine, spc, kack, conn, persist, net, client, accepted>>

\* flow.release: inUse.Delete ...
ReleaseID ==
  /\ kpc = "rel"
  /\ inUse' = inUse \ {kack.id}
  /\ kpc' = "inc"
  /\ open' = {o \in open : o.id # kack.id}
  /\ UNCHANGED <<queues, counter, quota, turns, pubOut, sync, routine, spc, kack, conn, persist, net,
                 client, accepted>>

\* ... then quota++, and a signal when the quota was exhausted.
ReleaseQuota ==
  /\ kpc = "inc"
  /\ quota' = quota + 1
  /\ kpc' = IF quota + 1 = 1 THEN "sig" ELSE AfterRelease
  /\ UNCHANGED <<queues, inUse, counter, turns, pubOut, sync, routine, spc, kack, conn, persist, net,
                 client, hist>>

\* Mutant: off by one.
SignalTxQuotaAvailable_OffByOne ==
  /\ kpc = "sig"
  /\ kpc' = IF Len(qos12Messages) > 1 THEN "run" ELSE AfterRelease
  /\ UNCHANGED <<queues, flow, pubOut, sync, routine, spc, kack, conn, persist, net, client, hist>>

\* signalTxQuotaAvailable.
SignalTxQuotaAvailable ==
  /\ kpc = "sig"
  /\ kpc' = IF Len(qos12Messages) > 0 THEN "run" ELSE AfterRelease
  /\ UNCHANGED <<queues, flow, pubOut, sync, routine, spc, kack, conn, persist, net, client, hist>>

ReaderRun ==
  /\ kpc = "run"
  /\ kpc' = IF quit THEN AfterRelease ELSE "cas"
  /\ UNCHANGED <<queues, flow, pubOut, sync, routine, spc, kack, conn, persist, net, client, hist>>

ReaderCas ==
  /\ kpc = "cas"
  /\ Cas(rpc)
  /\ kpc' = AfterRelease
  /\ UNCHANGED <<queues, flow, pubOut, spc, kack, conn, persist, net, client, hist>>

\* messages.Delete, the last step of ackQueue.release.
ReleaseDelete ==
  /\ kpc = "del"
  /\ pubOut' = [pubOut EXCEPT ![kack.id] = NoPacket]
  /\ kpc' = "idle"
  /\ UNCHANGED <<queues, flow, sync, routine, spc, kack, conn, persist, net, client, hist>>

-----------------------------------------------------------------------------
(* The writer routine.                                                       *)

\* Mutant: the new routine does not wait for the previous one.
RoutineWait_NoWait(r) ==
  /\ rpc[r] = "wait"
  /\ rpc' = [rpc EXCEPT ![r] = "enter"]
  /\ UNCHANGED <<queues, flow, pubOut, sync, batch, buf, spc, reader, conn, persist, net, client, hist>>

\* wgRunSync.Wait(): the previous routine has finished.
RoutineWait(r) ==
  /\ rpc[r] = "wait" /\ wgRunSync = 0
  /\ rpc' = [rpc EXCEPT ![r] = "enter"]
  /\ UNCHANGED <<queues, flow, pubOut, sync, batch, buf, spc, reader, conn, persist, net, client, hist>>

\* The check of quit and wgRunSync.Add(1).
RoutineEnter(r) ==
  /\ rpc[r] = "enter"
  /\ \/ quit /\ wg' = wg - 1 /\ rpc' = [rpc EXCEPT ![r] = "off"] /\ UNCHANGED wgRunSync
     \/ ~quit /\ wgRunSync' = wgRunSync + 1 /\ rpc' = [rpc EXCEPT ![r] = "pop"] /\ UNCHANGED wg
  /\ UNCHANGED <<queues, flow, pubOut, running, quit, batch, buf, spc, reader, conn, persist, net,
                 client, hist>>

\* popPackets: the check of quit and the PUBREL queue.
PopPubrel(r) ==
  /\ rpc[r] = "pop"
  /\ \/ /\ quit
        /\ rpc' = [rpc EXCEPT ![r] = "exit"]
        /\ UNCHANGED <<pubrelMessages, batch, pubOut>>
     \/ /\ ~quit /\ pubrelMessages # <<>>
        /\ LET p == Pubrel(Head(pubrelMessages))
           IN  /\ batch' = [batch EXCEPT ![r] = Append(@, p)]
               /\ pubOut' = [pubOut EXCEPT ![p.id] = p]
        /\ pubrelMessages' = Tail(pubrelMessages)
        /\ rpc' = [rpc EXCEPT ![r] = "q12"]
     \/ /\ ~quit /\ pubrelMessages = <<>>
        /\ rpc' = [rpc EXCEPT ![r] = "q12"]
        /\ UNCHANGED <<pubrelMessages, batch, pubOut>>
  /\ UNCHANGED <<gMessages, qos0Messages, qos12Messages, flow, sync, buf, spc, reader, conn, persist,
                 net, client, hist>>

QuotaAvailable == quota > 0

\* qos12PopPacket: Peek, quotaAvailable and the decrement of acquire.
PopQoS12(r) ==
  /\ rpc[r] = "q12"
  /\ \/ /\ qos12Messages # <<>> /\ QuotaAvailable
        /\ quota' = quota - 1
        /\ rpc' = [rpc EXCEPT ![r] = "acquire"]
     \/ /\ qos12Messages = <<>> \/ ~QuotaAvailable
        /\ rpc' = [rpc EXCEPT ![r] = "g"]
        /\ UNCHANGED quota
  /\ UNCHANGED <<queues, inUse, counter, turns, pubOut, sync, batch, buf, spc, reader, conn, persist, net,
                 client, hist>>

\* The counter is a uint32 cut to 16 bits; 0 is skipped.
NextID == IF counter = MaxID THEN 1 ELSE counter + 1

\* LoadOrStore of inUse finds no entry.
Free(i) == i \notin inUse

\* One turn of the loop of acquire. With a free id, or after the last turn, the
\* packet leaves the queue and enters pubOut.
Acquire(r) ==
  /\ rpc[r] = "acquire"
  /\ counter' = NextID
  /\ \/ /\ ~Free(NextID) /\ turns < MaxID
        /\ turns' = turns + 1
        /\ UNCHANGED <<inUse, qos12Messages, batch, pubOut, rpc, open>>
     \/ /\ Free(NextID) \/ turns >= MaxID
        /\ turns' = 0
        /\ inUse' = inUse \cup {NextID}
        /\ LET p == Publish(Head(qos12Messages), NextID)
           IN  /\ batch' = [batch EXCEPT ![r] = Append(@, p)]
               /\ pubOut' = [pubOut EXCEPT ![p.id] = p]
               /\ open' = open \cup {[m |-> p.m, id |-> p.id]}
        /\ qos12Messages' = Tail(qos12Messages)
        /\ rpc' = [rpc EXCEPT ![r] = "g"]
  /\ UNCHANGED <<gMessages, qos0Messages, pubrelMessages, quota, sync, buf, spc, reader, conn, persist,
                 net, client, accepted>>

PopGeneric(r) ==
  /\ rpc[r] = "g"
  /\ rpc' = [rpc EXCEPT ![r] = "q0"]
  /\ \/ /\ gMessages # <<>>
        /\ batch' = [batch EXCEPT ![r] = Append(@, Publish(Head(gMessages), 0))]
        /\ gMessages' = Tail(gMessages)
     \/ gMessages = <<>> /\ UNCHANGED <<gMessages, batch>>
  /\ UNCHANGED <<qos0Messages, qos12Messages, pubrelMessages, flow, pubOut, sync, buf, spc, reader,
                 conn, persist, net, client, hist>>

\* The last queue; with nothing popped the routine ends.
PopQoS0(r) ==
  /\ rpc[r] = "q0"
  /\ \/ /\ qos0Messages # <<>>
        /\ batch' = [batch EXCEPT ![r] = Append(@, Publish(Head(qos0Messages), 0))]
        /\ qos0Messages' = Tail(qos0Messages)
     \/ qos0Messages = <<>> /\ UNCHANGED <<qos0Messages, batch>>
  /\ rpc' = [rpc EXCEPT ![r] = IF batch'[r] = <<>> THEN "exit" ELSE "write"]
  /\ UNCHANGED <<gMessages, qos12Messages, pubrelMessages, flow, pubOut, sync, buf, spc, reader,
                 conn, persist, net, client, hist>>

AfterWrite(r) == [rpc EXCEPT ![r] = IF Len(batch[r]) = 1 THEN "pop" ELSE "write"]

\* An expired publish is skipped. Whether the expiry has run out is settled
\* anew at each test of it.
SkipExpired(r) ==
  /\ rpc[r] = "write"
  /\ Head(batch[r]).type = "PUBLISH" /\ Head(batch[r]).m \in Expirable
  /\ batch' = [batch EXCEPT ![r] = Tail(@)]
  /\ rpc' = AfterWrite(r)
  /\ UNCHANGED <<queues, flow, pubOut, sync, buf, spc, reader, conn, persist, net, client, hist>>

\* wr.Write: the packet stays in the buffer, or the buffer overflows to the socket.
Write(r) ==
  /\ rpc[r] = "write"
  /\ batch' = [batch EXCEPT ![r] = Tail(@)]
  /\ rpc' = AfterWrite(r)
  /\ \/ buf' = [buf EXCEPT ![r] = Append(@, Head(batch[r]))] /\ UNCHANGED wire
     \/ /\ ~broken
        /\ wire' = Append(wire \o buf[r], Head(batch[r]))
        /\ buf' = [buf EXCEPT ![r] = <<>>]
  /\ UNCHANGED <<queues, flow, pubOut, sync, spc, reader, conn, persist, acks, broken, client, hist>>

MayFail == nconn < MaxConn \/ LastFails

\* wr.Write fails (no write deadline is ever set, so the socket is gone for good):
\* the batch is dropped and the routine will close the connection.
WriteError(r) ==
  /\ rpc[r] = "write" /\ MayFail
  /\ batch' = [batch EXCEPT ![r] = <<>>]
  /\ buf' = [buf EXCEPT ![r] = <<>>]
  /\ rpc' = [rpc EXCEPT ![r] = "err"]
  /\ broken' = TRUE
  /\ UNCHANGED <<queues, flow, pubOut, sync, spc, reader, conn, persist, wire, acks, client, hist>>

\* The deferred function: running is cleared before the flush ...
RoutineExit(r) ==
  /\ rpc[r] \in {"exit", "err"}
  /\ running' = 0
  /\ rpc' = [rpc EXCEPT ![r] = IF @ = "exit" THEN "flush" ELSE "errdone"]
  /\ UNCHANGED <<queues, flow, pubOut, wgRunSync, wg, quit, batch, buf, spc, reader, conn, persist, net,
                 client, hist>>

\* ... the flush is skipped once quit is closed ...
RoutineFlush(r) ==
  /\ rpc[r] = "flush"
  /\ wire' = IF quit \/ broken THEN wire ELSE wire \o buf[r]
  /\ buf' = [buf EXCEPT ![r] = <<>>]
  /\ rpc' = [rpc EXCEPT ![r] = "check"]
  /\ UNCHANGED <<queues, flow, pubOut, sync, batch, spc, reader, conn, persist, acks, broken, client, hist>>

PacketsAvailable ==
  \/ pubrelMessages # <<>> \/ gMessages # <<>> \/ qos0Messages # <<>>
  \/ (QuotaAvailable /\ qos12Messages # <<>>)

\* Mutant: the queues are not looked at again.
RoutineCheck_Never(r) ==
  /\ rpc[r] = "check"
  /\ rpc' = [rpc EXCEPT ![r] = "done"]
  /\ UNCHANGED <<queues, flow, pubOut, sync, batch, buf, spc, reader, conn, persist, net, client, hist>>

\* ... and what came meanwhile is seen here.
RoutineCheck(r) ==
  /\ rpc[r] = "check"
  /\ rpc' = [rpc EXCEPT ![r] = IF PacketsAvailable THEN "run" ELSE "done"]
  /\ UNCHANGED <<queues, flow, pubOut, sync, batch, buf, spc, reader, conn, persist, net, client, hist>>

RoutineRun(r) ==
  /\ rpc[r] = "run"
  /\ rpc' = [rpc EXCEPT ![r] = IF quit THEN "done" ELSE "cas"]
  /\ UNCHANGED <<queues, flow, pubOut, sync, batch, buf, spc, reader, conn, persist, net, client, hist>>

RoutineCas(r) ==
  /\ rpc[r] = "cas"
  /\ Cas([rpc EXCEPT ![r] = "done"])
  /\ UNCHANGED <<queues, flow, pubOut, spc, reader, conn, persist, net, client, hist>>

\* wgRunSync.Done, wg.Done; after an error the routine closes the connection
\* (onConnectionClose runs once: a close under way is left alone). A close that
\* overtakes SignalOnline is the subject of module Connection and waits here.
RoutineDone(r) ==
  /\ \/ rpc[r] = "done" /\ UNCHANGED cpc
     \/ rpc[r] = "errdone" /\ cpc # "loaded" /\ cpc' = IF cpc = "up" THEN "closing" ELSE cpc
  /\ wgRunSync' = wgRunSync - 1
  /\ wg' = wg - 1
  /\ rpc' = [rpc EXCEPT ![r] = "off"]
  /\ UNCHANGED <<queues, flow, pubOut, running, quit, batch, buf, spc, reader, nconn, online, persist, net,
                 client, hist>>

-----------------------------------------------------------------------------
(* The connection: onConnectionCloseStage2, and Acknowledge of the next one. *)

\* The client goes away, a keep-alive runs out, the session is taken over.
Close ==
  /\ cpc = "up" /\ MayFail
  /\ cpc' = "closing"
  /\ UNCHANGED <<queues, flow, pubOut, sync, routine, spc, reader, nconn, online, persist, net, client, hist>>

\* rx.shutdown waits for the reader.
ReaderShutdown ==
  /\ cpc = "closing" /\ kpc = "idle"
  /\ cpc' = "offline"
  /\ UNCHANGED <<queues, flow, pubOut, sync, routine, spc, reader, nconn, online, persist, net, client, hist>>

\* SignalOffline takes the write lock of the subscriber: no sender is inside.
SignalOffline ==
  /\ cpc = "offline" /\ \A s \in Senders : spc[s] = "idle"
  /\ online' = FALSE
  /\ cpc' = "quit"
  /\ UNCHANGED <<queues, flow, pubOut, sync, routine, spc, reader, nconn, persist, net, client, hist>>

\* tx.stop: close(quit) ...
StopQuit ==
  /\ cpc = "quit"
  /\ quit' = TRUE
  /\ cpc' = "wait"
  /\ UNCHANGED <<queues, flow, pubOut, running, wgRunSync, wg, routine, spc, reader, nconn, online, persist,
                 net, client, hist>>

\* ... and wg.Wait().
StopWait ==
  /\ cpc = "wait" /\ wg = 0
  /\ cpc' = "drain"
  /\ UNCHANGED <<queues, flow, pubOut, sync, routine, spc, reader, nconn, online, persist, net, client, hist>>

Increasing(f) == \A i, j \in DOMAIN f : i < j => f[i] < f[j]

\* Mutant: the last packet of a queue is left behind.
Kept_AllButLast(q) == {SubSeq(q, 1, Len(q) - 1)}

\* What packetEncode leaves of a queue: for a message whose expiry has run out it
\* puts a nil entry, taken to be skipped by the persistence (external), which is
\* what leaving it out stands for; the others keep their order.
Kept(q) ==
  {k \in UNION {[1..n -> RangeOf(q)] : n \in 0..Len(q)} :
     \E at \in [DOMAIN k -> DOMAIN q] :
       /\ Increasing(at)
       /\ \A i \in DOMAIN k : k[i] = q[at[i]]
       /\ \A j \in DOMAIN q : q[j] \in Expirable \/ j \in RangeOf(at)}

\* getQueuedPackets: what is stored as unacknowledged, PUBRELs still queued and
\* the packets of pubOut.
Unacknowledged ==
  {Pubrel(i) : i \in RangeOf(pubrelMessages)} \cup {pubOut[i] : i \in {j \in Ids : pubOut[j] # NoPacket}}

\* conn.Close, getQueuedPackets and PacketsStore, then New for the next
\* connection. What is on the wire is lost.
Drain ==
  /\ cpc = "drain"
  /\ \E q12 \in Kept(qos12Messages), q0 \in Kept(qos0Messages) :
       persist' = [unack |-> persist.unack \cup Unacknowledged,
                   qos12 |-> persist.qos12 \o q12,
                   qos0  |-> IF OfflineQoS0 THEN persist.qos0 \o q0 ELSE persist.qos0]
  /\ cpc' = "down"
  /\ gMessages' = <<>> /\ qos0Messages' = <<>> /\ qos12Messages' = <<>> /\ pubrelMessages' = <<>>
  /\ inUse' = {} /\ counter' = 0 /\ quota' = SendQuota /\ turns' = 0
  /\ pubOut' = [i \in Ids |-> NoPacket]
  /\ running' = 0 /\ wgRunSync' = 0 /\ wg' = 0 /\ quit' = FALSE
  /\ wire' = <<>> /\ acks' = {} /\ broken' = FALSE /\ open' = {}
  /\ UNCHANGED <<routine, spc, reader, nconn, online, client, accepted>>

Orders(S) == {f \in [1..Cardinality(S) -> S] : \A i, j \in DOMAIN f : f[i] = f[j] => i = j}

\* Acknowledge of a new connection: tx.start(true) loads the persisted packets,
\* each unacknowledged one with reAcquire of its id as long as there is quota
\* (held), and signals; the reader runs from here on. The store gives the
\* unacknowledged packets in any order.
Start ==
  /\ cpc = "down" /\ nconn < MaxConn
  /\ nconn' = nconn + 1
  /\ LET publishes == {p \in persist.unack : p.type = "PUBLISH"}
         pubrels == {p.id : p \in persist.unack \ publishes}
     IN  /\ \E u \in Orders(publishes) : qos12Messages' = [i \in DOMAIN u |-> u[i].m] \o persist.qos12
         /\ pubrelMessages' \in Orders(pubrels)
         /\ \E held \in SUBSET persist.unack :
              /\ \/ held = persist.unack /\ Cardinality(held) <= SendQuota
                 \/ Cardinality(held) = SendQuota
              /\ inUse' = {p.id : p \in held}
              /\ quota' = SendQuota - Cardinality(held)
         /\ open' = {[m |-> "resumed", id |-> i] : i \in pubrels}
  /\ qos0Messages' = persist.qos0
  /\ persist' = [unack |-> {}, qos12 |-> <<>>, qos0 |-> <<>>]
  /\ Cas(rpc)
  /\ cpc' = "loaded"
  /\ UNCHANGED <<gMessages, counter, turns, pubOut, spc, reader, online, net, client, accepted>>

\* SignalOnline, the last step of Acknowledge.
SignalOnline ==
  /\ cpc = "loaded"
  /\ online' = TRUE
  /\ cpc' = "up"
  /\ UNCHANGED <<queues, flow, pubOut, sync, routine, spc, reader, nconn, persist, net, client, hist>>

\* The client subscribes on its first connection.
Subscribed == nconn > 1 \/ (nconn = 1 /\ cpc # "loaded")

\* OfflinePublish (sessionPersistPublish) of an offline subscriber.
PersistPublish(m) ==
  /\ ~online /\ Subscribed
  /\ m \notin RangeOf(accepted) /\ Class[m] # "g"
  /\ accepted' = Append(accepted, m)
  /\ \/ m \in Expirable /\ UNCHANGED persist
     \/ QoS12(m) /\ persist' = [persist EXCEPT !.qos12 = Append(@, m)]
     \/ ~QoS12(m) /\ persist' = [persist EXCEPT !.qos0 = Append(@, m)]
  /\ UNCHANGED <<queues, flow, pubOut, sync, routine, spc, reader, conn, net, client, open>>

-----------------------------------------------------------------------------
(* The client: keeps the ids of QoS 2 messages until PUBREL, over connections. *)

ClientReceive ==
  /\ cpc # "down" /\ wire # <<>>
  /\ wire' = Tail(wire)
  /\ LET p == Head(wire)
     IN  \/ /\ p.type = "PUBREL"
            /\ recvIds' = recvIds \ {p.id}
            /\ acks' = acks \cup {Ack("PUBCOMP", p.id)}
            /\ UNCHANGED <<delivered, refused>>
         \/ /\ p.type = "PUBLISH" /\ Class[p.m] # "qos2"
            /\ delivered' = Append(delivered, p.m)
            /\ acks' = IF Class[p.m] = "qos1" THEN acks \cup {Ack("PUBACK", p.id)} ELSE acks
            /\ UNCHANGED <<recvIds, refused>>
         \/ /\ p.type = "PUBLISH" /\ Class[p.m] = "qos2"
            /\ recvIds' = recvIds \cup {p.id}
            /\ delivered' = IF p.id \in recvIds THEN delivered ELSE Append(delivered, p.m)
            /\ acks' = acks \cup {Ack("PUBREC", p.id)}
            /\ UNCHANGED refused
         \/ /\ p.type = "PUBLISH" /\ Class[p.m] = "qos2" /\ Rejects /\ p.id \notin recvIds
            /\ refused' = refused \cup {p.m}
            /\ acks' = acks \cup {Nack(p.id)}
            /\ UNCHANGED <<recvIds, delivered>>
  /\ UNCHANGED <<queues, flow, pubOut, sync, routine, spc, reader, conn, persist, broken, hist>>

-----------------------------------------------------------------------------

ReaderNext ==
  \/ \E a \in acks : TakeAck(a)
  \/ OnPubrec \/ ReleaseID \/ ReleaseQuota \/ SignalTxQuotaAvailable
  \/ ReaderRun \/ ReaderCas \/ ReleaseDelete

RoutineNext(r) ==
  \/ RoutineWait(r) \/ RoutineEnter(r)
  \/ PopPubrel(r) \/ PopQoS12(r) \/ Acquire(r) \/ PopGeneric(r) \/ PopQoS0(r)
  \/ SkipExpired(r) \/ Write(r) \/ WriteError(r)
  \/ RoutineExit(r) \/ RoutineFlush(r) \/ RoutineCheck(r) \/ RoutineRun(r) \/ RoutineCas(r)
  \/ RoutineDone(r)

ConnNext == ReaderShutdown \/ SignalOffline \/ StopQuit \/ StopWait \/ Drain \/ Start \/ SignalOnline

Next ==
  \/ \E s \in Senders : SenderRun(s) \/ SenderCas(s) \/ \E m \in Msgs : Send(s, m)
  \/ \E m \in Msgs : Respond(m) \/ PersistPublish(m)
  \/ ReaderNext
  \/ \E r \in Routines : RoutineNext(r)
  \/ ConnNext \/ Close
  \/ ClientReceive

\* Goroutines that can run do run; the client reads and answers. Whether and
\* when anyone publishes or the connection fails is left open.
Fairness ==
  /\ \A s \in Senders : WF_vars(SenderRun(s) \/ SenderCas(s))
  /\ WF_vars(ReaderNext)
  /\ \A r \in Routines : WF_vars(RoutineNext(r))
  /\ WF_vars(ConnNext)
  /\ WF_vars(ClientReceive)

Spec == Init /\ [][Next]_vars
FairSpec == Spec /\ Fairness

-----------------------------------------------------------------------------
(* Properties.                                                               *)

RoutinePC == {"off", "wait", "enter", "pop", "q12", "acquire", "g", "q0", "write", "exit", "err",
              "errdone", "flush", "check", "run", "cas", "done"}

\* Every variable of the writer, the reader and the session keeps its type; the
\* quota is never negative and the WaitGroup counters never drop below zero.
TypeOK ==
  /\ gMessages \in Seq(Msgs \ Acked) /\ qos0Messages \in Seq(Msgs \ Acked) /\ qos12Messages \in Seq(Acked)
  /\ pubrelMessages \in Seq(Ids)
  /\ inUse \in SUBSET Ids /\ counter \in 0..MaxID /\ quota \in Nat /\ turns \in 0..MaxID
  /\ pubOut \in [Ids -> UnAckPackets \cup {NoPacket}]
  /\ running \in {0, 1} /\ wgRunSync \in Nat /\ wg \in Nat /\ quit \in BOOLEAN
  /\ rpc \in [Routines -> RoutinePC]
  /\ batch \in [Routines -> Seq(Packets)] /\ buf \in [Routines -> Seq(Packets)]
  /\ spc \in [Senders -> {"idle", "run", "cas"}]
  /\ kpc \in {"idle", "rec", "rel", "inc", "sig", "run", "cas", "del"}
  /\ kack \in Acks \cup {NoAck}
  /\ cpc \in {"down", "loaded", "up", "closing", "offline", "quit", "wait", "drain"}
  /\ nconn \in Nat /\ online \in BOOLEAN
  /\ persist \in [unack : SUBSET UnAckPackets, qos12 : Seq(Acked), qos0 : Seq(Msgs \ Acked)]
  /\ wire \in Seq(Packets) /\ acks \in SUBSET Acks /\ broken \in BOOLEAN
  /\ recvIds \in SUBSET Ids /\ delivered \in Seq(Msgs) /\ refused \in SUBSET Msgs
  /\ accepted \in Seq(Msgs)
  /\ open \in SUBSET [m : Msgs \cup {"resumed"}, id : Ids]

\* The routine that pops packets and writes to the socket.
Writing(r) == rpc[r] \notin {"off", "wait"}

\* At most one routine is between wgRunSync.Wait and wgRunSync.Done, although
\* running is already 0 while the old one flushes and a new one may be started.
SingleWriter == \A r, q \in Routines : Writing(r) /\ Writing(q) => r = q

\* run() never starts a third routine: there is at most the one that finishes
\* and the one that waits for it.
SpawnPossible == running = 0 => \E r \in Routines : rpc[r] = "off"

\* The exchanges under way never exceed the Receive Maximum of the client.
ReceiveMaximum == Cardinality(open) <= SendQuota

\* The ids and the quota are used as FlowControl has it: an id is released at
\* most once and only while its exchange is under way, and a connection that is
\* resumed starts with the ids of the packets it resumes, all of them reserved: the
\* client has the same Receive Maximum on every connection.
Flow == INSTANCE FlowControl WITH
          apc <- IF \E r \in Routines : rpc[r] = "acquire" THEN "loop" ELSE "idle",
          kpc <- IF kpc = "inc" THEN "inc" ELSE "idle",
          exchanges <- {o.id : o \in open},
          excess <- 0
FlowRefined == Flow!Spec

\* No lost wake-up: when no routine runs and a packet could be sent, somebody is
\* on the way to start one (a sender or the reader before its compare-and-swap,
\* a routine before its last look at the queues) or the connection is closing.
NoLostWakeup ==
  PacketsAvailable /\ running = 0 =>
    \/ \E s \in Senders : spc[s] # "idle"
    \/ kpc \in {"sig", "run", "cas"}
    \/ \E r \in Routines : rpc[r] \in {"flush", "check", "run", "cas", "errdone"}
    \/ cpc \notin {"loaded", "up"}

Persisted(m) == m \in RangeOf(persist.qos12) \/ \E p \in persist.unack : p.type = "PUBLISH" /\ p.m = m
Stored(m) == \E i \in Ids : pubOut[i].type = "PUBLISH" /\ pubOut[i].m = m
Assured == {m \in Msgs \ (TooBig \cup Expirable) : QoS12(m)}

\* A QoS 1 or 2 message the broker accepted is, until the client has it, queued,
\* unacknowledged in pubOut or persisted: a close of the connection at any
\* point (tx.stop, getQueuedPackets, PacketsStore) loses none.
NoMessageLost ==
  \A m \in Assured \cap RangeOf(accepted) :
    \/ m \in RangeOf(delivered) \cup refused
    \/ m \in RangeOf(qos12Messages) \/ Stored(m) \/ Persisted(m)

\* On the first connection of a session the client gets the QoS 1 and 2 messages that
\* it gets in the order in which they were published, whatever routines carried them.
\* (A connection that resumes sends unacknowledged packets first, in any order.)
InOrder ==
  nconn <= 1 =>
    LET got == SelectSeq(delivered, LAMBDA m : QoS12(m))
    IN  got = SelectSeq(accepted, LAMBDA m : QoS12(m) /\ m \in RangeOf(delivered))

Arrived(m) == m \in RangeOf(delivered) \cup refused

\* "At least once" on a connection that lasts: an accepted QoS 1 or 2 message
\* arrives, for every order of publishes, acks and routine hand-overs.
AtLeastOnce == \A m \in Assured : m \in RangeOf(accepted) ~> Arrived(m)

\* "At least once" for a message left unacknowledged by a closed connection: it
\* arrives once the client is back (packetLoader, qos12PopPacket).
ResumedArrives ==
  \A m \in Assured : (\E p \in persist.unack : p.type = "PUBLISH" /\ p.m = m) ~> Arrived(m)

\* "At least once" for a message published while the client is away: it arrives
\* once the client is back (OfflinePublish, Acknowledge).
OfflineArrives == \A m \in Assured : m \in RangeOf(persist.qos12) ~> Arrived(m)

\* "Exactly once": the client application never gets a QoS 2 message twice.
ExactlyOnce ==
  \A i, j \in DOMAIN delivered : delivered[i] = delivered[j] /\ Class[delivered[i]] = "qos2" => i = j

\* With offlineQoS0 off no QoS 0 message is kept for an offline session.
QoS0NotPersisted == ~OfflineQoS0 => persist.qos0 = <<>>

=============================================================================
