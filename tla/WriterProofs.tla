---------------------------- MODULE WriterProofs ----------------------------
(***************************************************************************)
(* Writer, for every set of messages, every quota, any number of senders    *)
(* and of connections: one routine at a time, who waits for whom, and no    *)
(* wake-up is lost.                                                         *)
(*                                                                         *)
(* The parts: the types, which every step keeps; the hand-over from one     *)
(* routine to the next; what the routine and the reader hold; the order of  *)
(* a close; the wake-ups; and what is stored between two connections, for   *)
(* which the theorems about finite sets are needed.                         *)
(***************************************************************************)
EXTENDS Writer, TLAPS

-----------------------------------------------------------------------------
(* The inductive invariant.                                                  *)

\* From the compare-and-swap in run() to the store of 0 to running.
Busy == {"wait", "enter", "pop", "q12", "acquire", "g", "q0", "write", "exit", "err"}

\* Between wgRunSync.Add and wgRunSync.Done.
Inside == RoutinePC \ {"off", "wait", "enter"}

Count(S) == (IF rpc[1] \in S THEN 1 ELSE 0) + (IF rpc[2] \in S THEN 1 ELSE 0)

Handover ==
  /\ \A r \in Routines : rpc[r] \in Busy => running = 1
  /\ \A r, q \in Routines : rpc[r] \in Busy /\ rpc[q] \in Busy => r = q
  /\ SingleWriter
  /\ wgRunSync = Count(Inside)
  /\ wg = Count(RoutinePC \ {"off"})

Local ==
  /\ \A r \in Routines : rpc[r] = "acquire" => qos12Messages # <<>>
  /\ \A r \in Routines : rpc[r] = "write" => batch[r] # <<>>
  /\ kpc \in {"rec", "rel", "inc"} => kack \in Acks
  /\ IsFiniteSet(persist.unack)

Closing ==
  /\ quit => cpc \in {"wait", "drain"}
  /\ cpc \in {"offline", "quit", "wait", "drain", "down"} => kpc = "idle"
  /\ cpc \in {"quit", "wait", "drain", "down"} => ~online /\ \A s \in Senders : spc[s] = "idle"
  /\ cpc \in {"drain", "down"} => wg = 0

IInv == TypeOK /\ Handover /\ Local /\ Closing

-----------------------------------------------------------------------------
(* Types. TypeOK is taken apart by the groups of variables of Writer.        *)

TQueues == /\ gMessages \in Seq(Msgs \ Acked) /\ qos0Messages \in Seq(Msgs \ Acked)
           /\ qos12Messages \in Seq(Acked) /\ pubrelMessages \in Seq(Ids)
TFlow == inUse \in SUBSET Ids /\ counter \in 0..MaxID /\ quota \in Nat /\ turns \in 0..MaxID
TOut == pubOut \in [Ids -> UnAckPackets \cup {NoPacket}]
TSync == running \in {0, 1} /\ wgRunSync \in Nat /\ wg \in Nat /\ quit \in BOOLEAN
TRoutine == /\ rpc \in [Routines -> RoutinePC]
            /\ batch \in [Routines -> Seq(Packets)] /\ buf \in [Routines -> Seq(Packets)]
TSender == spc \in [Senders -> {"idle", "run", "cas"}]
TReader == /\ kpc \in {"idle", "rec", "rel", "inc", "sig", "run", "cas", "del"}
           /\ kack \in Acks \cup {NoAck}
TConn == /\ cpc \in {"down", "loaded", "up", "closing", "offline", "quit", "wait", "drain"}
         /\ nconn \in Nat /\ online \in BOOLEAN
TPersist == persist \in [unack : SUBSET UnAckPackets, qos12 : Seq(Acked), qos0 : Seq(Msgs \ Acked)]
TNet == wire \in Seq(Packets) /\ acks \in SUBSET Acks /\ broken \in BOOLEAN
TClient == recvIds \in SUBSET Ids /\ delivered \in Seq(Msgs) /\ refused \in SUBSET Msgs
THist == accepted \in Seq(Msgs) /\ open \in SUBSET [m : Msgs \cup {"resumed"}, id : Ids]

\* What a queue holds has the type of its elements.
LEMMA HeadTail ==
  ASSUME NEW S, NEW q \in Seq(S), q # <<>>
  PROVE  Head(q) \in S /\ Tail(q) \in Seq(S)
OBVIOUS

\* A new queue is empty.
LEMMA EmptyQueue ==
  ASSUME NEW S
  PROVE  /\ <<>> \in Seq(S) /\ Len(<<>>) = 0
         /\ \A q \in Seq(S) : q # <<>> => Len(q) \in Nat \ {0}
OBVIOUS

\* What is put into a queue has the type of its elements ...
LEMMA Appended ==
  ASSUME NEW S, NEW q \in Seq(S), NEW x \in S
  PROVE  Append(q, x) \in Seq(S) /\ Append(q, x) # <<>>
<1>1. Append(q, x) \in Seq(S) /\ Len(Append(q, x)) = Len(q) + 1 /\ Len(q) \in Nat
  OBVIOUS
<1>2. \A n \in Nat : n + 1 # 0
  OBVIOUS
<1> QED BY <1>1, <1>2, EmptyQueue, Zenon

\* ... and so have two queues in a row.
LEMMA Concatenated ==
  ASSUME NEW S, NEW q \in Seq(S), NEW u \in Seq(S)
  PROVE  q \o u \in Seq(S)
OBVIOUS

\* The groups are TypeOK, before and after a step.
LEMMA Groups ==
  /\ TypeOK <=> /\ TQueues /\ TFlow /\ TOut /\ TSync /\ TRoutine /\ TSender /\ TReader /\ TConn
                /\ TPersist /\ TNet /\ TClient /\ THist
  /\ TypeOK' <=> /\ TQueues' /\ TFlow' /\ TOut' /\ TSync' /\ TRoutine' /\ TSender' /\ TReader' /\ TConn'
                 /\ TPersist' /\ TNet' /\ TClient' /\ THist'
BY Zenon DEF TypeOK, TQueues, TFlow, TOut, TSync, TRoutine, TSender, TReader, TConn, TPersist, TNet,
       TClient, THist

\* A group that a step leaves alone keeps its type.
LEMMA Same ==
  ASSUME TypeOK
  PROVE  /\ UNCHANGED queues => TQueues'
         /\ UNCHANGED flow => TFlow'
         /\ UNCHANGED pubOut => TOut'
         /\ UNCHANGED sync => TSync'
         /\ UNCHANGED routine => TRoutine'
         /\ UNCHANGED spc => TSender'
         /\ UNCHANGED reader => TReader'
         /\ UNCHANGED conn => TConn'
         /\ UNCHANGED persist => TPersist'
         /\ UNCHANGED net => TNet'
         /\ UNCHANGED client => TClient'
         /\ UNCHANGED hist => THist'
<1> USE Groups
<1>1. UNCHANGED queues => TQueues' BY Zenon DEF TQueues, queues
<1>2. UNCHANGED flow => TFlow' BY Zenon DEF TFlow, flow
<1>3. UNCHANGED pubOut => TOut' BY Zenon DEF TOut
<1>4. UNCHANGED sync => TSync' BY Zenon DEF TSync, sync
<1>5. UNCHANGED routine => TRoutine' BY Zenon DEF TRoutine, routine
<1>6. UNCHANGED spc => TSender' BY Zenon DEF TSender
<1>7. UNCHANGED reader => TReader' BY Zenon DEF TReader, reader
<1>8. UNCHANGED conn => TConn' BY Zenon DEF TConn, conn
<1>9. UNCHANGED persist => TPersist' BY Zenon DEF TPersist
<1>10. UNCHANGED net => TNet' BY Zenon DEF TNet, net
<1>11. UNCHANGED client => TClient' BY Zenon DEF TClient, client
<1>12. UNCHANGED hist => THist' BY Zenon DEF THist, hist
<1> QED BY <1>1, <1>2, <1>3, <1>4, <1>5, <1>6, <1>7, <1>8, <1>9, <1>10, <1>11, <1>12, Zenon

\* run() keeps the types of the counters and of the routines.
LEMMA CasType ==
  ASSUME TypeOK, NEW pcs \in [Routines -> RoutinePC], Cas(pcs)
  PROVE  TSync' /\ TRoutine'
<1>1. TSync /\ TRoutine BY Groups, Zenon
<1>2. CASE running = 0
  <2>1. PICK r \in Routines : rpc' = [pcs EXCEPT ![r] = "wait"] BY <1>2 DEF Cas
  <2>2. running' = 1 /\ wg' = wg + 1 /\ UNCHANGED <<wgRunSync, quit, batch, buf>> BY <1>2 DEF Cas
  <2>3. rpc' \in [Routines -> RoutinePC] BY <2>1, Zenon DEF RoutinePC
  <2> QED BY <1>1, <2>2, <2>3 DEF TSync, TRoutine
<1>3. CASE running = 1
  BY <1>1, <1>3 DEF Cas, TSync, TRoutine, sync
<1> QED BY <1>1, <1>2, <1>3, Zenon DEF TSync

\* Steps of the goroutines that publish.
LEMMA SenderType ==
  ASSUME IInv, NEW s \in Senders,
         SenderRun(s) \/ SenderCas(s) \/ \E m \in Msgs : Send(s, m)
  PROVE  TypeOK'
<1> USE Groups, Same DEF IInv
<1>1. ASSUME NEW m \in Msgs, Send(s, m) PROVE TypeOK'
  <2>1. TQueues'
    <3>1. CASE m \in TooBig BY <1>1, <3>1, Zenon DEF Send
    <3>2. CASE m \notin TooBig /\ QoS12(m)
      <4>1. m \in Acked BY <3>2, Zenon DEF Acked
      <4>2. /\ qos12Messages' = Append(qos12Messages, m)
            /\ UNCHANGED <<gMessages, qos0Messages, pubrelMessages>>
        BY <1>1, <3>2, Zenon DEF Send
      <4> QED BY <4>1, <4>2 DEF TQueues
    <3>3. CASE m \notin TooBig /\ ~QoS12(m)
      <4>1. m \in Msgs \ Acked BY <3>3, Zenon DEF Acked
      <4>2. /\ qos0Messages' = Append(qos0Messages, m)
            /\ UNCHANGED <<gMessages, qos12Messages, pubrelMessages>>
        BY <1>1, <3>3, Zenon DEF Send
      <4> QED BY <4>1, <4>2 DEF TQueues
    <3> QED BY <3>1, <3>2, <3>3, Zenon
  <2>2. TSender' BY <1>1, Zenon DEF Send, TSender
  <2>3. THist' BY <1>1 DEF Send, THist
  <2> QED BY <1>1, <2>1, <2>2, <2>3, Zenon DEF Send
<1>2. CASE SenderRun(s)
  <2>1. TSender' BY <1>2, Zenon DEF SenderRun, TSender
  <2> QED BY <1>2, <2>1, Zenon DEF SenderRun
<1>3. CASE SenderCas(s)
  <2>1. TSender' BY <1>3, Zenon DEF SenderCas, TSender
  <2>2. TSync' /\ TRoutine' BY <1>3, CasType, Zenon DEF SenderCas, TRoutine
  <2> QED BY <1>3, <2>1, <2>2, Zenon DEF SenderCas
<1> QED BY <1>1, <1>2, <1>3, Zenon

\* Steps of the reader.
LEMMA ReaderType ==
  ASSUME IInv, ReaderNext \/ \E m \in Msgs : Respond(m)
  PROVE  TypeOK'
<1> USE Groups, Same DEF IInv
<1>0. AfterRelease \in {"del", "idle"} BY Zenon DEF AfterRelease
<1>1. ASSUME NEW m \in Msgs, Respond(m) PROVE TypeOK'
  <2>1. m \in Msgs \ Acked BY <1>1, Zenon DEF Respond, Acked, QoS12
  <2>2. TQueues' BY <1>1, <2>1 DEF Respond, TQueues
  <2>3. TReader' BY <1>1, Zenon DEF Respond, TReader
  <2>4. THist' BY <1>1 DEF Respond, THist
  <2> QED BY <1>1, <2>2, <2>3, <2>4, Zenon DEF Respond
<1>2. ASSUME NEW a \in acks, TakeAck(a) PROVE TypeOK'
  <2>1. TReader' BY <1>2, Zenon DEF TakeAck, TReader, TNet
  <2>2. TNet' BY <1>2, Zenon DEF TakeAck, TNet
  <2>3. THist' BY <1>2, Zenon DEF TakeAck, THist
  <2> QED BY <1>2, <2>1, <2>2, <2>3, Zenon DEF TakeAck
<1>3. CASE OnPubrec
  <2>1. kack.id \in Ids BY <1>3, Zenon DEF OnPubrec, Local, Acks
  <2>2. TQueues'
    <3>1. Append(pubrelMessages, kack.id) \in Seq(Ids) BY <2>1, Appended, Zenon DEF TQueues
    <3> QED BY Zenon, <1>3, <3>1 DEF OnPubrec, TQueues
  <2>3. TReader' BY <1>3, Zenon DEF OnPubrec, TReader
  <2>4. TOut' BY <1>3, Zenon DEF OnPubrec, TOut
  <2> QED BY <1>3, <2>2, <2>3, <2>4, Zenon DEF OnPubrec
<1>4. CASE ReleaseID
  <2>1. TFlow' /\ TReader' /\ THist' BY <1>4, Zenon DEF ReleaseID, TFlow, TReader, THist
  <2> QED BY <1>4, <2>1, Zenon DEF ReleaseID
<1>5. CASE ReleaseQuota
  <2>1. TFlow' /\ TReader' BY <1>0, <1>5 DEF ReleaseQuota, TFlow, TReader
  <2> QED BY <1>5, <2>1, Zenon DEF ReleaseQuota
<1>6. CASE SignalTxQuotaAvailable
  <2>1. TReader' BY <1>0, <1>6, Zenon DEF SignalTxQuotaAvailable, TReader
  <2> QED BY <1>6, <2>1, Zenon DEF SignalTxQuotaAvailable
<1>7. CASE ReaderRun
  <2>1. TReader' BY <1>0, <1>7, Zenon DEF ReaderRun, TReader
  <2> QED BY <1>7, <2>1, Zenon DEF ReaderRun
<1>8. CASE ReaderCas
  <2>1. TReader' BY <1>0, <1>8, Zenon DEF ReaderCas, TReader
  <2>2. TSync' /\ TRoutine' BY <1>8, CasType, Zenon DEF ReaderCas, TRoutine
  <2> QED BY <1>8, <2>1, <2>2, Zenon DEF ReaderCas
<1>9. CASE ReleaseDelete
  <2>1. TReader' /\ TOut' BY <1>9, Zenon DEF ReleaseDelete, TReader, TOut
  <2> QED BY <1>9, <2>1, Zenon DEF ReleaseDelete
<1> QED BY <1>1, <1>2, <1>3, <1>4, <1>5, <1>6, <1>7, <1>8, <1>9, Zenon DEF ReaderNext

\* The packets the routine makes of what it pops.
LEMMA PacketTypes ==
  /\ \A i \in Ids : Pubrel(i) \in UnAckPackets /\ Pubrel(i) \in Packets /\ Pubrel(i).id = i
  /\ \A m \in Acked, i \in Ids : Publish(m, i) \in UnAckPackets /\ Publish(m, i) \in Packets
  /\ \A m \in Msgs \ Acked : Publish(m, 0) \in Packets
BY Zenon DEF Pubrel, Publish, UnAckPackets, Packets

\* The routine starts and sends the PUBRELs.
LEMMA EnterType ==
  ASSUME IInv, NEW r \in Routines,
         RoutineWait(r) \/ RoutineEnter(r) \/ PopPubrel(r)
  PROVE  TypeOK'
<1>0. TypeOK /\ TRoutine /\ TSync /\ TQueues /\ TOut /\ Handover BY Groups, Zenon DEF IInv
<1>1. CASE RoutineWait(r)
  <2>1. TRoutine' BY <1>0, <1>1, Zenon DEF RoutineWait, TRoutine, RoutinePC
  <2> QED BY Zenon, <1>0, Groups, Same, <1>1, <2>1 DEF RoutineWait
<1>2. CASE RoutineEnter(r)
  <2>1. TRoutine' BY Zenon, <1>0, <1>2 DEF RoutineEnter, TRoutine, RoutinePC
  <2>2. wg >= 1
    <3>1. rpc[r] \in RoutinePC \ {"off"} BY <1>0, <1>2, Zenon DEF RoutineEnter, RoutinePC
    <3> QED BY <1>0, <3>1 DEF Handover, Count, Routines
  <2>3. TSync' BY <1>0, <1>2, <2>2 DEF RoutineEnter, TSync
  <2> QED BY Zenon, <1>0, Groups, Same, <1>2, <2>1, <2>3 DEF RoutineEnter
<1>3. CASE PopPubrel(r)
  <2>1. CASE pubrelMessages # <<>>
    <3> DEFINE p == Pubrel(Head(pubrelMessages))
    <3>1. Head(pubrelMessages) \in Ids /\ Tail(pubrelMessages) \in Seq(Ids)
      BY <1>0, <2>1, HeadTail, Zenon DEF TQueues
    <3>2. p \in UnAckPackets /\ p \in Packets BY <1>0, <3>1, PacketTypes, Zenon
    <3> HIDE DEF p
    <3>3. Append(batch[r], p) \in Seq(Packets) BY <1>0, <3>2, Appended, Zenon DEF TRoutine
    <3>4. TRoutine' BY Zenon, <1>0, <1>3, <3>3 DEF PopPubrel, TRoutine, RoutinePC, p
    <3>5. TQueues' BY Zenon, <1>0, <1>3, <3>1 DEF PopPubrel, TQueues
    <3>6. TOut' BY <1>0, <1>3, <3>2, Zenon DEF PopPubrel, TOut, p
    <3> QED BY Zenon, <1>0, Groups, Same, <1>3, <3>4, <3>5, <3>6 DEF PopPubrel
  <2>2. CASE pubrelMessages = <<>>
    <3>1. TRoutine' BY Zenon, <1>0, <1>3, <2>2 DEF PopPubrel, TRoutine, RoutinePC
    <3>2. TQueues' /\ TOut' BY Zenon, <1>0, <1>3, <2>2 DEF PopPubrel, TQueues, TOut
    <3> QED BY Zenon, <1>0, Groups, Same, <1>3, <3>1, <3>2 DEF PopPubrel
  <2> QED BY <2>1, <2>2, Zenon
<1> QED BY <1>1, <1>2, <1>3, Zenon

\* The routine takes a message of QoS 1 or 2 and an id for it.
LEMMA AcquireType ==
  ASSUME IInv, NEW r \in Routines,
         PopQoS12(r) \/ Acquire(r)
  PROVE  TypeOK'
<1>0. TypeOK /\ TRoutine /\ TQueues /\ TFlow /\ TOut /\ THist /\ Local BY Groups, Zenon DEF IInv
<1>1. CASE PopQoS12(r)
  <2>1. TRoutine' BY Zenon, <1>0, <1>1 DEF PopQoS12, TRoutine, RoutinePC
  <2>2. TFlow' BY <1>0, <1>1 DEF PopQoS12, QuotaAvailable, TFlow
  <2> QED BY Zenon, <1>0, Groups, Same, <1>1, <2>1, <2>2 DEF PopQoS12
<1>2. CASE Acquire(r)
  <2>0. NextID \in Ids BY <1>0, QuotaAssumption DEF NextID, TFlow, Ids
  <2>1. counter' = NextID /\ UNCHANGED <<gMessages, qos0Messages, pubrelMessages, quota, buf, accepted>>
    BY Zenon, <1>2 DEF Acquire
  <2>2. CASE /\ turns < MaxID /\ turns' = turns + 1
             /\ UNCHANGED <<inUse, qos12Messages, batch, pubOut, rpc, open>>
    <3>1. TRoutine' BY Zenon, <1>0, <2>1, <2>2 DEF TRoutine
    <3>2. TQueues' /\ TOut' BY Zenon, <1>0, <2>1, <2>2 DEF TQueues, TOut
    <3>3. TFlow' BY <1>0, <2>0, <2>1, <2>2, QuotaAssumption DEF TFlow, Ids
    <3>4. THist' BY Zenon, <1>0, <2>1, <2>2 DEF THist
    <3> QED BY Zenon, <1>0, Groups, Same, <1>2, <3>1, <3>2, <3>3, <3>4 DEF Acquire
  <2> DEFINE p == Publish(Head(qos12Messages), NextID)
  <2>3. CASE /\ turns' = 0 /\ inUse' = inUse \cup {NextID}
             /\ batch' = [batch EXCEPT ![r] = Append(@, p)]
             /\ pubOut' = [pubOut EXCEPT ![p.id] = p]
             /\ open' = open \cup {[m |-> p.m, id |-> p.id]}
             /\ qos12Messages' = Tail(qos12Messages)
             /\ rpc' = [rpc EXCEPT ![r] = "g"]
    <3>0. qos12Messages # <<>> BY Zenon, <1>0, <1>2 DEF Acquire, Local
    <3>1. Head(qos12Messages) \in Acked /\ Tail(qos12Messages) \in Seq(Acked)
      BY Zenon, <1>0, <3>0, HeadTail DEF TQueues
    <3>2. p \in UnAckPackets /\ p \in Packets BY Zenon, <2>0, <3>1, PacketTypes
    <3>3. [m |-> p.m, id |-> p.id] \in [m : Msgs \cup {"resumed"}, id : Ids]
      BY <2>0, <3>1, Zenon DEF Publish, Acked
    <3> HIDE DEF p
    <3>4. Append(batch[r], p) \in Seq(Packets) BY Zenon, <1>0, <3>2, Appended DEF TRoutine
    <3>5. TRoutine' BY Zenon, <1>0, <2>1, <2>3, <3>4 DEF TRoutine, RoutinePC
    <3>6. TQueues' BY Zenon, <1>0, <2>1, <2>3, <3>1 DEF TQueues
    <3>7. TOut' BY Zenon, <1>0, <2>3, <3>2 DEF TOut
    <3>8. THist' BY Zenon, <1>0, <2>1, <2>3, <3>3 DEF THist
    <3>9. TFlow' BY <1>0, <2>0, <2>1, <2>3, QuotaAssumption DEF TFlow, Ids
    <3> QED BY Zenon, <1>0, Groups, Same, <1>2, <3>5, <3>6, <3>7, <3>8, <3>9 DEF Acquire
  <2> QED BY Zenon, <1>2, <2>2, <2>3 DEF Acquire
<1> QED BY <1>1, <1>2, Zenon

\* The routine takes the other messages.
LEMMA PopType ==
  ASSUME IInv, NEW r \in Routines,
         PopGeneric(r) \/ PopQoS0(r)
  PROVE  TypeOK'
<1>0. TypeOK /\ TRoutine /\ TQueues BY Groups, Zenon DEF IInv
<1>1. CASE PopGeneric(r)
  <2>1. CASE gMessages # <<>>
    <3> DEFINE p == Publish(Head(gMessages), 0)
    <3>1. Head(gMessages) \in Msgs \ Acked /\ Tail(gMessages) \in Seq(Msgs \ Acked)
      BY <1>0, <2>1, HeadTail, Zenon DEF TQueues
    <3>2. p \in Packets BY <1>0, <3>1, PacketTypes, Zenon
    <3> HIDE DEF p
    <3>3. Append(batch[r], p) \in Seq(Packets) BY Zenon, <1>0, <3>2, Appended DEF TRoutine
    <3>4. TRoutine' BY Zenon, <1>0, <1>1, <2>1, <3>3 DEF PopGeneric, TRoutine, RoutinePC, p
    <3>5. TQueues' BY Zenon, <1>0, <1>1, <2>1, <3>1 DEF PopGeneric, TQueues
    <3> QED BY Zenon, <1>0, Groups, Same, <1>1, <3>4, <3>5 DEF PopGeneric
  <2>2. CASE gMessages = <<>>
    <3>1. TRoutine' BY <1>0, <1>1, <2>2, Zenon DEF PopGeneric, TRoutine, RoutinePC
    <3>2. TQueues' BY <1>0, <1>1, <2>2, Zenon DEF PopGeneric, TQueues
    <3> QED BY Zenon, <1>0, Groups, Same, <1>1, <3>1, <3>2 DEF PopGeneric
  <2> QED BY <2>1, <2>2, Zenon
<1>2. CASE PopQoS0(r)
  <2>1. CASE qos0Messages # <<>>
    <3> DEFINE p == Publish(Head(qos0Messages), 0)
    <3>1. Head(qos0Messages) \in Msgs \ Acked /\ Tail(qos0Messages) \in Seq(Msgs \ Acked)
      BY <1>0, <2>1, HeadTail, Zenon DEF TQueues
    <3>2. p \in Packets BY <1>0, <3>1, PacketTypes, Zenon
    <3> HIDE DEF p
    <3>3. Append(batch[r], p) \in Seq(Packets) BY <1>0, <3>2, Appended, Zenon DEF TRoutine
    <3>4. TRoutine' BY Zenon, <1>0, <1>2, <2>1, <3>3 DEF PopQoS0, TRoutine, RoutinePC, p
    <3>5. TQueues' BY Zenon, <1>0, <1>2, <2>1, <3>1 DEF PopQoS0, TQueues
    <3> QED BY Zenon, <1>0, Groups, Same, <1>2, <3>4, <3>5 DEF PopQoS0
  <2>2. CASE qos0Messages = <<>>
    <3>1. TRoutine' BY Zenon, <1>0, <1>2, <2>2 DEF PopQoS0, TRoutine, RoutinePC
    <3>2. TQueues' BY <1>0, <1>2, <2>2, Zenon DEF PopQoS0, TQueues
    <3> QED BY Zenon, <1>0, Groups, Same, <1>2, <3>1, <3>2 DEF PopQoS0
  <2> QED BY <2>1, <2>2, Zenon
<1> QED BY <1>1, <1>2, Zenon

\* The routine writes the packets it took.
LEMMA WriteType ==
  ASSUME IInv, NEW r \in Routines,
         SkipExpired(r) \/ Write(r) \/ WriteError(r)
  PROVE  TypeOK'
<1>0. TypeOK /\ TRoutine /\ TNet /\ Local BY Groups, Zenon DEF IInv
<1>1. CASE SkipExpired(r)
  <2>1. Tail(batch[r]) \in Seq(Packets) BY Zenon, <1>0, <1>1, HeadTail DEF SkipExpired, Local, TRoutine
  <2>2. TRoutine' BY <1>0, <1>1, <2>1, Zenon DEF SkipExpired, AfterWrite, TRoutine, RoutinePC
  <2> QED BY Zenon, <1>0, Groups, Same, <1>1, <2>2 DEF SkipExpired
<1>2. CASE Write(r)
  <2>1. Head(batch[r]) \in Packets /\ Tail(batch[r]) \in Seq(Packets)
    BY <1>0, <1>2, HeadTail, Zenon DEF Write, Local, TRoutine
  <2>2. Append(buf[r], Head(batch[r])) \in Seq(Packets)
    BY Zenon, <1>0, <2>1, Appended DEF TRoutine
  <2>3. Append(wire \o buf[r], Head(batch[r])) \in Seq(Packets)
    <3>1. wire \o buf[r] \in Seq(Packets) BY Zenon, <1>0, Concatenated DEF TRoutine, TNet
    <3> QED BY <2>1, <3>1, Appended, Zenon
  <2>4. rpc' \in [Routines -> RoutinePC] BY <1>0, <1>2, Zenon DEF Write, AfterWrite, TRoutine, RoutinePC
  <2>5. batch' \in [Routines -> Seq(Packets)] BY <1>0, <1>2, <2>1, Zenon DEF Write, TRoutine
  <2>6. buf' \in [Routines -> Seq(Packets)] BY Zenon, <1>0, <1>2, <2>2, EmptyQueue DEF Write, TRoutine
  <2>7. TNet' BY Zenon, <1>0, <1>2, <2>3 DEF Write, TNet
  <2>8. TRoutine' BY <1>0, <2>4, <2>5, <2>6, Zenon DEF TRoutine
  <2> QED BY Zenon, <1>0, Groups, Same, <1>2, <2>7, <2>8 DEF Write
<1>3. CASE WriteError(r)
  <2>1. TRoutine' BY <1>0, <1>3 DEF WriteError, TRoutine, RoutinePC
  <2>2. TNet' BY <1>0, <1>3, Zenon DEF WriteError, TNet
  <2> QED BY Zenon, <1>0, Groups, Same, <1>3, <2>1, <2>2 DEF WriteError
<1> QED BY <1>1, <1>2, <1>3, Zenon

\* The routine flushes and ends.
LEMMA LeaveType ==
  ASSUME IInv, NEW r \in Routines,
         RoutineExit(r) \/ RoutineFlush(r) \/ RoutineCheck(r) \/ RoutineRun(r)
           \/ RoutineCas(r) \/ RoutineDone(r)
  PROVE  TypeOK'
<1>0. TypeOK /\ TRoutine /\ TSync /\ TNet /\ TConn /\ Handover BY Groups, Zenon DEF IInv
<1>1. CASE RoutineExit(r)
  <2>1. TRoutine' BY <1>0, <1>1, Zenon DEF RoutineExit, TRoutine, RoutinePC
  <2>2. TSync' BY <1>0, <1>1, Zenon DEF RoutineExit, TSync
  <2> QED BY Zenon, <1>0, Groups, Same, <1>1, <2>1, <2>2 DEF RoutineExit
<1>2. CASE RoutineFlush(r)
  <2>1. wire \o buf[r] \in Seq(Packets) BY Zenon, <1>0, Concatenated DEF TRoutine, TNet
  <2>2. TRoutine' BY <1>0, <1>2 DEF RoutineFlush, TRoutine, RoutinePC
  <2>3. TNet' BY <1>0, <1>2, <2>1, Zenon DEF RoutineFlush, TNet
  <2> QED BY Zenon, <1>0, Groups, Same, <1>2, <2>2, <2>3 DEF RoutineFlush
<1>3. CASE RoutineCheck(r)
  <2>1. TRoutine' BY <1>0, <1>3, Zenon DEF RoutineCheck, TRoutine, RoutinePC
  <2> QED BY Zenon, <1>0, Groups, Same, <1>3, <2>1 DEF RoutineCheck
<1>4. CASE RoutineRun(r)
  <2>1. TRoutine' BY <1>0, <1>4, Zenon DEF RoutineRun, TRoutine, RoutinePC
  <2> QED BY Zenon, <1>0, Groups, Same, <1>4, <2>1 DEF RoutineRun
<1>5. CASE RoutineCas(r)
  <2>1. [rpc EXCEPT ![r] = "done"] \in [Routines -> RoutinePC] BY <1>0, Zenon DEF TRoutine, RoutinePC
  <2>2. TSync' /\ TRoutine' BY Zenon, <1>0, <1>5, <2>1, CasType DEF RoutineCas
  <2> QED BY Zenon, <1>0, Groups, Same, <1>5, <2>2 DEF RoutineCas
<1>6. CASE RoutineDone(r)
  <2>1. TRoutine' BY <1>0, <1>6, Zenon DEF RoutineDone, TRoutine, RoutinePC
  <2>2. wg >= 1 /\ wgRunSync >= 1
    <3>1. rpc[r] \in Inside /\ rpc[r] \in RoutinePC \ {"off"}
      BY <1>0, <1>6, Zenon DEF RoutineDone, Inside, RoutinePC
    <3> QED BY <1>0, <3>1 DEF Handover, Count, Routines
  <2>3. TSync' BY <1>0, <1>6, <2>2 DEF RoutineDone, TSync
  <2>4. TConn' BY <1>0, <1>6, Zenon DEF RoutineDone, TConn
  <2> QED BY Zenon, <1>0, Groups, Same, <1>6, <2>1, <2>3, <2>4 DEF RoutineDone
<1> QED BY <1>1, <1>2, <1>3, <1>4, <1>5, <1>6, Zenon

\* Steps of the writer routine.
LEMMA RoutineType ==
  ASSUME IInv, NEW r \in Routines, RoutineNext(r)
  PROVE  TypeOK'
BY Zenon, EnterType, AcquireType, PopType, WriteType, LeaveType DEF RoutineNext

\* What is kept of a queue is a queue of the same messages.
LEMMA KeptType ==
  ASSUME NEW S, NEW q \in Seq(S), NEW k \in Kept(q)
  PROVE  k \in Seq(S)
<1>1. PICK n \in 0..Len(q) : k \in [1..n -> RangeOf(q)] BY Zenon DEF Kept
<1>2. RangeOf(q) \subseteq S BY DEF RangeOf
<1>3. k \in [1..n -> S] BY <1>1, <1>2, Zenon
<1> QED BY <1>1, <1>3

\* What is left of the connection is stored.
LEMMA DrainType ==
  ASSUME IInv, Drain
  PROVE  TypeOK'
<1>0. TypeOK /\ TQueues /\ TOut /\ TConn /\ TPersist /\ THist BY Groups, Zenon DEF IInv
<1>1. TConn'
  <2>1. cpc' = "down" /\ UNCHANGED <<nconn, online>> BY Zenon DEF Drain
  <2> QED BY <1>0, <2>1, Zenon DEF TConn
<1>2. TQueues' BY Zenon, EmptyQueue DEF Drain, TQueues
<1>3. TFlow'
  <2>1. inUse' = {} /\ counter' = 0 /\ quota' = SendQuota /\ turns' = 0 BY Zenon DEF Drain
  <2> QED BY <2>1, QuotaAssumption DEF TFlow
<1>4. TOut' BY Zenon DEF Drain, TOut
<1>5. TSync' BY Zenon DEF Drain, TSync
<1>6. TNet' BY Zenon, EmptyQueue DEF Drain, TNet
<1>7. THist' BY Zenon, <1>0 DEF Drain, THist
<1>8. TPersist'
  <2> DEFINE un == persist.unack \cup Unacknowledged
  <2>1. PICK q12 \in Kept(qos12Messages), q0 \in Kept(qos0Messages) :
          persist' = [unack |-> un, qos12 |-> persist.qos12 \o q12,
                      qos0 |-> IF OfflineQoS0 THEN persist.qos0 \o q0 ELSE persist.qos0]
    BY Zenon DEF Drain
  <2>2. q12 \in Seq(Acked) /\ q0 \in Seq(Msgs \ Acked) BY <1>0, KeptType, Zenon DEF TQueues
  <2>3. persist.qos12 \o q12 \in Seq(Acked) /\ persist.qos0 \o q0 \in Seq(Msgs \ Acked)
    BY <1>0, <2>2, Concatenated, Zenon DEF TPersist
  <2>4. un \subseteq UnAckPackets
    <3>1. RangeOf(pubrelMessages) \subseteq Ids BY <1>0 DEF TQueues, RangeOf
    <3>2. {Pubrel(i) : i \in RangeOf(pubrelMessages)} \subseteq UnAckPackets BY <3>1, PacketTypes, Zenon
    <3>3. {pubOut[i] : i \in {j \in Ids : pubOut[j] # NoPacket}} \subseteq UnAckPackets
      BY <1>0, Zenon DEF TOut
    <3> QED BY <1>0, <3>2, <3>3, Zenon DEF TPersist, Unacknowledged
  <2> HIDE DEF un
  <2> QED BY Zenon, <1>0, <2>1, <2>3, <2>4 DEF TPersist
<1> QED BY Zenon, <1>0, Groups, Same, <1>1, <1>2, <1>3, <1>4, <1>5, <1>6, <1>7, <1>8 DEF Drain

\* The client takes a packet off the wire.
LEMMA ClientType ==
  ASSUME IInv, ClientReceive
  PROVE  TypeOK'
<1>0. TypeOK /\ TNet /\ TClient BY Groups, Zenon DEF IInv
<1> DEFINE p == Head(wire)
<1>1. p \in Packets /\ Tail(wire) \in Seq(Packets) BY Zenon, <1>0, HeadTail DEF ClientReceive, TNet
<1>2. /\ p.type = "PUBREL" => p.id \in Ids
      /\ p.type = "PUBLISH" => p.m \in Msgs
      /\ p.type = "PUBLISH" /\ Class[p.m] \in {"qos1", "qos2"} => p.id \in Ids
  BY Zenon, <1>1 DEF Packets, UnAckPackets, Acked, QoS12
<1>3. \/ /\ p.type = "PUBREL"
         /\ recvIds' = recvIds \ {p.id}
         /\ acks' = acks \cup {Ack("PUBCOMP", p.id)}
         /\ UNCHANGED <<delivered, refused>>
      \/ /\ p.type = "PUBLISH" /\ Class[p.m] # "qos2"
         /\ delivered' = Append(delivered, p.m)
         /\ acks' = IF Class[p.m] = "qos1" THEN acks \cup {Ack("PUBACK", p.id)} ELSE acks
         /\ UNCHANGED <<recvIds, refused>>
      \/ /\ p.type = "PUBLISH" /\ Class[p.m] = "qos2"
         /\ recvIds' = recvIds \cup {p.id}
         /\ delivered' = IF p.id \in recvIds THEN delivered ELSE Append(delivered, p.m)
         /\ acks' = acks \cup {Ack("PUBREC", p.id)}
         /\ UNCHANGED refused
      \/ /\ p.type = "PUBLISH" /\ Class[p.m] = "qos2"
         /\ refused' = refused \cup {p.m}
         /\ acks' = acks \cup {Nack(p.id)}
         /\ UNCHANGED <<recvIds, delivered>>
  BY Zenon DEF ClientReceive
<1> HIDE DEF p
<1>4. p.m \in Msgs => Append(delivered, p.m) \in Seq(Msgs) BY <1>0, Appended, Zenon DEF TClient
<1>5. p.id \in Ids => /\ Ack("PUBCOMP", p.id) \in Acks /\ Ack("PUBACK", p.id) \in Acks
                      /\ Ack("PUBREC", p.id) \in Acks /\ Nack(p.id) \in Acks
  BY Zenon DEF Ack, Nack, Acks
<1>6. TClient' BY Zenon, <1>0, <1>2, <1>3, <1>4 DEF TClient
<1>7. acks' \subseteq Acks
  <2>1. acks \subseteq Acks BY Zenon, <1>0 DEF TNet
  <2>2. \/ acks' = acks
        \/ p.id \in Ids /\ \E a \in {Ack("PUBCOMP", p.id), Ack("PUBACK", p.id), Ack("PUBREC", p.id), Nack(p.id)} :
             acks' = acks \cup {a}
    BY Zenon, <1>2, <1>3
  <2> QED BY Zenon, <1>5, <2>1, <2>2
<1>8. TNet' BY Zenon, <1>0, <1>1, <1>7 DEF ClientReceive, TNet
<1> QED BY Zenon, <1>0, Groups, Same, <1>6, <1>8 DEF ClientReceive

\* Publishes to an offline session and steps of the client.
LEMMA OtherType ==
  ASSUME IInv, ClientReceive \/ \E m \in Msgs : PersistPublish(m)
  PROVE  TypeOK'
<1>0. TypeOK /\ THist /\ TPersist BY Groups, Zenon DEF IInv
<1>1. ASSUME NEW m \in Msgs, PersistPublish(m) PROVE TypeOK'
  <2>1. THist' BY <1>0, <1>1, Appended, Zenon DEF PersistPublish, THist
  <2>2. TPersist'
    <3>1. CASE UNCHANGED persist BY <1>0, <3>1, Zenon DEF TPersist
    <3>2. CASE QoS12(m) /\ persist' = [persist EXCEPT !.qos12 = Append(@, m)]
      <4>1. Append(persist.qos12, m) \in Seq(Acked) BY <1>0, <3>2, Appended, Zenon DEF TPersist, Acked
      <4> QED BY Zenon, <1>0, <3>2, <4>1 DEF TPersist
    <3>3. CASE ~QoS12(m) /\ persist' = [persist EXCEPT !.qos0 = Append(@, m)]
      <4>1. Append(persist.qos0, m) \in Seq(Msgs \ Acked) BY <1>0, <3>3, Appended, Zenon DEF TPersist, Acked
      <4> QED BY Zenon, <1>0, <3>3, <4>1 DEF TPersist
    <3> QED BY <1>1, <3>1, <3>2, <3>3, Zenon DEF PersistPublish
  <2> QED BY Zenon, <1>0, Groups, Same, <1>1, <2>1, <2>2 DEF PersistPublish
<1>2. CASE ClientReceive BY <1>2, ClientType, Zenon
<1> QED BY <1>1, <1>2, Zenon

-----------------------------------------------------------------------------
(* The hand-over from one routine to the next.                               *)

\* A step that touches neither the routines nor the counters.
LEMMA HandoverSame ==
  ASSUME Handover, UNCHANGED <<rpc, running, wgRunSync, wg>>
  PROVE  Handover'
BY Zenon DEF Handover, SingleWriter, Writing, Count

\* run(): with running at 0 the only other routine is past its last pop.
LEMMA CasHandover ==
  ASSUME TRoutine, TSync, Handover, NEW pcs \in [Routines -> RoutinePC], Cas(pcs),
         \A r \in Routines : pcs[r] = rpc[r] \/ (rpc[r] = "cas" /\ pcs[r] = "done")
  PROVE  Handover'
<1> USE DEF Routines
<1>1. CASE running = 0
  <2>1. PICK r \in Routines : pcs[r] = "off" /\ rpc' = [pcs EXCEPT ![r] = "wait"] BY <1>1 DEF Cas
  <2>2. running' = 1 /\ wg' = wg + 1 /\ wgRunSync' = wgRunSync BY <1>1 DEF Cas
  <2>3. \A q \in Routines : rpc[q] \notin Busy BY <1>1 DEF Handover
  <2>4. PICK q \in Routines : q # r OBVIOUS
  <2>5. rpc'[r] = "wait" /\ rpc'[q] = pcs[q] /\ rpc[r] = "off" BY <2>1, <2>4, Zenon
  <2>6. rpc'[q] \in RoutinePC /\ rpc'[q] \notin Busy /\ rpc'[q] \notin {"wait", "enter"}
    BY <2>3, <2>5 DEF TRoutine, Busy, RoutinePC
  <2>7. \A s \in Routines : s = r \/ s = q BY <2>4, Zenon
  <2>8. \A s, t \in Routines : rpc'[s] \in Busy /\ rpc'[t] \in Busy => s = t BY <2>6, <2>7, Zenon
  <2>9. SingleWriter' BY <2>5, <2>7, Zenon DEF SingleWriter, Writing
  <2>10. wgRunSync' = Count(Inside)'
    BY <2>2, <2>4, <2>5, <2>6 DEF Handover, Count, Inside, RoutinePC, TRoutine
  <2>11. wg' = Count(RoutinePC \ {"off"})'
    BY <2>2, <2>4, <2>5, <2>6 DEF Handover, Count, RoutinePC, TRoutine, TSync
  <2> QED BY <2>2, <2>8, <2>9, <2>10, <2>11, Zenon DEF Handover
<1>2. CASE running = 1
  <2>1. rpc' = pcs /\ UNCHANGED <<running, wg, wgRunSync>> BY <1>2 DEF Cas, sync
  <2>2. \A r \in Routines : rpc'[r] \in Busy => rpc[r] \in Busy BY <2>1, Zenon DEF Busy
  <2>3. \A r \in Routines : rpc'[r] \in Inside <=> rpc[r] \in Inside BY <2>1, Zenon DEF Inside, RoutinePC
  <2>4. \A r \in Routines : rpc'[r] \in RoutinePC \ {"off"} <=> rpc[r] \in RoutinePC \ {"off"}
    BY <2>1, Zenon DEF RoutinePC
  <2>5. SingleWriter'
    <3>1. \A r \in Routines : Writing(r)' => Writing(r) BY <2>1, Zenon DEF Writing
    <3> QED BY <3>1, Zenon DEF Handover, SingleWriter
  <2>6. wgRunSync' = Count(Inside)' BY <2>1, <2>3, Zenon DEF Handover, Count
  <2>7. wg' = Count(RoutinePC \ {"off"})' BY <2>1, <2>4, Zenon DEF Handover, Count
  <2> QED BY <1>2, <2>1, <2>2, <2>5, <2>6, <2>7, Zenon DEF Handover
<1> QED BY <1>1, <1>2, Zenon DEF TSync

\* A routine goes on, without entering or leaving and without getting busy again.
Moves(r, p) ==
  /\ rpc[r] \in Inside /\ p \in Inside /\ (p \in Busy => rpc[r] \in Busy)
  /\ rpc' = [rpc EXCEPT ![r] = p] /\ UNCHANGED <<running, wgRunSync, wg>>

LEMMA MoveHandover ==
  ASSUME TRoutine, Handover, NEW r \in Routines, NEW p, Moves(r, p)
  PROVE  Handover'
<1>1. \A q \in Routines : rpc'[q] = IF q = r THEN p ELSE rpc[q] BY Zenon DEF Moves, TRoutine
<1>2. \A q \in Routines : rpc'[q] \in Busy => rpc[q] \in Busy BY <1>1, Zenon DEF Moves
<1>3. \A q \in Routines : rpc'[q] \in Inside <=> rpc[q] \in Inside BY <1>1, Zenon DEF Moves
<1>4. \A q \in Routines : rpc'[q] \in RoutinePC \ {"off"} <=> rpc[q] \in RoutinePC \ {"off"}
  BY <1>1, Zenon DEF Moves, Inside
<1>5. SingleWriter'
  <2>1. rpc[r] \notin {"off", "wait"} BY Zenon DEF Moves, Inside
  <2>2. \A q \in Routines : Writing(q)' => Writing(q) BY <1>1, <2>1, Zenon DEF Writing
  <2> QED BY <2>2, Zenon DEF Handover, SingleWriter
<1>6. 1 \in Routines /\ 2 \in Routines BY Zenon DEF Routines
<1>7. Count(Inside)' = Count(Inside) BY <1>3, <1>6, Zenon DEF Count
<1>8. Count(RoutinePC \ {"off"})' = Count(RoutinePC \ {"off"}) BY <1>4, <1>6, Zenon DEF Count
<1> QED BY <1>2, <1>5, <1>7, <1>8, Zenon DEF Handover, Moves

\* Steps of the routine.
LEMMA RoutineHandover ==
  ASSUME TRoutine, TSync, Handover, NEW r \in Routines, RoutineNext(r)
  PROVE  Handover'
<1> USE DEF Routines, Handover, SingleWriter, Writing, TRoutine, TSync
<1>0. ASSUME NEW p, Moves(r, p) PROVE Handover' BY <1>0, MoveHandover, Zenon
<1>1. CASE RoutineWait(r) BY <1>1 DEF RoutineWait, Busy, Inside, Count, RoutinePC, sync
<1>2. CASE RoutineEnter(r) BY <1>2 DEF RoutineEnter, Busy, Inside, Count, RoutinePC
<1> HIDE DEF Routines, Handover, SingleWriter, Writing, TRoutine, TSync
<1>3. CASE PopPubrel(r)
  <2>1. Moves(r, "exit") \/ Moves(r, "q12") BY <1>3, Zenon DEF PopPubrel, Moves, Inside, Busy, RoutinePC, sync
  <2> QED BY <1>0, <2>1, Zenon
<1>4. CASE PopQoS12(r)
  <2>1. Moves(r, "acquire") \/ Moves(r, "g") BY <1>4, Zenon DEF PopQoS12, Moves, Inside, Busy, RoutinePC, sync
  <2> QED BY <1>0, <2>1, Zenon
<1>5. CASE Acquire(r)
  <2>1. Moves(r, "g") \/ UNCHANGED <<rpc, running, wgRunSync, wg>>
    BY <1>5, Zenon DEF Acquire, Moves, Inside, Busy, RoutinePC, sync
  <2> QED BY <1>0, <2>1, HandoverSame, Zenon
<1>6. CASE PopGeneric(r)
  <2>1. Moves(r, "q0") BY <1>6, Zenon DEF PopGeneric, Moves, Inside, Busy, RoutinePC, sync
  <2> QED BY <1>0, <2>1, Zenon
<1>7. CASE PopQoS0(r)
  <2>1. Moves(r, "exit") \/ Moves(r, "write") BY <1>7, Zenon DEF PopQoS0, Moves, Inside, Busy, RoutinePC, sync
  <2> QED BY <1>0, <2>1, Zenon
<1>8. CASE SkipExpired(r) \/ Write(r)
  <2>1. Moves(r, "pop") \/ Moves(r, "write")
    BY <1>8, Zenon DEF SkipExpired, Write, AfterWrite, Moves, Inside, Busy, RoutinePC, sync
  <2> QED BY <1>0, <2>1, Zenon
<1>10. CASE WriteError(r)
  <2>1. Moves(r, "err") BY <1>10, Zenon DEF WriteError, Moves, Inside, Busy, RoutinePC, sync
  <2> QED BY <1>0, <2>1, Zenon
<1>12. CASE RoutineFlush(r)
  <2>1. Moves(r, "check") BY <1>12, Zenon DEF RoutineFlush, Moves, Inside, Busy, RoutinePC, sync
  <2> QED BY <1>0, <2>1, Zenon
<1>13. CASE RoutineCheck(r)
  <2>1. Moves(r, "run") \/ Moves(r, "done")
    BY <1>13, Zenon DEF RoutineCheck, Moves, Inside, Busy, RoutinePC, sync
  <2> QED BY <1>0, <2>1, Zenon
<1>14. CASE RoutineRun(r)
  <2>1. Moves(r, "done") \/ Moves(r, "cas") BY <1>14, Zenon DEF RoutineRun, Moves, Inside, Busy, RoutinePC, sync
  <2> QED BY <1>0, <2>1, Zenon
<1> USE DEF Routines, Handover, SingleWriter, Writing, TRoutine, TSync
<1>11. CASE RoutineExit(r) BY <1>11 DEF RoutineExit, Busy, Inside, Count, RoutinePC
<1>15. CASE RoutineCas(r)
  <2> DEFINE pcs == [rpc EXCEPT ![r] = "done"]
  <2>1. pcs \in [Routines -> RoutinePC] /\ Cas(pcs) BY <1>15, Zenon DEF RoutineCas, RoutinePC
  <2>2. \A q \in Routines : pcs[q] = rpc[q] \/ (rpc[q] = "cas" /\ pcs[q] = "done") BY <1>15, Zenon DEF RoutineCas
  <2> HIDE DEF pcs
  <2> QED BY Zenon, <2>1, <2>2, CasHandover
<1>16. CASE RoutineDone(r) BY <1>16 DEF RoutineDone, Busy, Inside, Count, RoutinePC
<1> HIDE DEF Routines, Handover, SingleWriter, Writing, TRoutine, TSync
<1> QED BY <1>1, <1>2, <1>3, <1>4, <1>5, <1>6, <1>7, <1>8, <1>10, <1>11, <1>12, <1>13, <1>14,
           <1>15, <1>16, Zenon DEF RoutineNext

\* Every step keeps the hand-over in order.
LEMMA HandoverStep ==
  ASSUME IInv, Next
  PROVE  Handover'
<1>0. TRoutine /\ TSync /\ Handover /\ Closing BY Groups, Zenon DEF IInv
<1>1. ASSUME NEW s \in Senders, SenderRun(s) \/ SenderCas(s) \/ \E m \in Msgs : Send(s, m) PROVE Handover'
  <2>1. CASE SenderRun(s) BY <1>0, <2>1, HandoverSame, Zenon DEF SenderRun, sync, routine
  <2>2. CASE SenderCas(s) BY <1>0, <2>2, CasHandover, Zenon DEF SenderCas, TRoutine
  <2>3. CASE \E m \in Msgs : Send(s, m) BY <1>0, <2>3, HandoverSame, Zenon DEF Send, sync, routine
  <2> QED BY <1>1, <2>1, <2>2, <2>3, Zenon
<1>2. ASSUME NEW m \in Msgs, Respond(m) \/ PersistPublish(m) PROVE Handover'
  BY <1>0, <1>2, HandoverSame, Zenon DEF Respond, PersistPublish, sync, routine
<1>3. CASE ReaderNext
  <2>1. CASE ReaderCas BY <1>0, <2>1, CasHandover, Zenon DEF ReaderCas, TRoutine
  <2>2. CASE ~ReaderCas
    BY <1>0, <1>3, <2>2, HandoverSame, Zenon DEF ReaderNext, TakeAck, OnPubrec, ReleaseID, ReleaseQuota,
       SignalTxQuotaAvailable, ReaderRun, ReleaseDelete, sync, routine
  <2> QED BY <2>1, <2>2, Zenon
<1>4. ASSUME NEW r \in Routines, RoutineNext(r) PROVE Handover' BY <1>0, <1>4, RoutineHandover, Zenon
<1>5. CASE ConnNext \/ Close
  <2>1. CASE Start BY Zenon, <1>0, <2>1, CasHandover DEF Start, TRoutine
  <2>2. CASE Drain
    <3>1. \A r \in Routines : rpc[r] = "off"
      BY <1>0, <2>2 DEF Drain, Closing, Handover, Count, Routines, TRoutine, RoutinePC
    <3>2. rpc' = rpc /\ wgRunSync' = 0 /\ wg' = 0 BY <2>2, Zenon DEF Drain, routine
    <3> QED BY <3>1, <3>2 DEF Handover, SingleWriter, Writing, Count, Routines, Busy, Inside, RoutinePC
  <2>3. CASE ~Start /\ ~Drain
    BY <1>0, <1>5, <2>3, HandoverSame, Zenon DEF ConnNext, ReaderShutdown, SignalOffline, StopQuit, StopWait,
       SignalOnline, Close, sync, routine
  <2> QED BY <2>1, <2>2, <2>3, Zenon
<1>6. CASE ClientReceive BY Zenon, <1>0, <1>6, HandoverSame DEF ClientReceive, sync, routine
<1> QED BY <1>1, <1>2, <1>3, <1>4, <1>5, <1>6, Zenon DEF Next

-----------------------------------------------------------------------------
(* What the routine and the reader hold.                                     *)

\* Once the connection is drained no routine is left.
LEMMA NoRoutine ==
  ASSUME TRoutine, Handover, wg = 0
  PROVE  \A r \in Routines : rpc[r] = "off"
BY DEF Handover, Count, Routines, TRoutine, RoutinePC

\* Local, conjunct by conjunct.
LAcquire == \A r \in Routines : rpc[r] = "acquire" => qos12Messages # <<>>
LWrite == \A r \in Routines : rpc[r] = "write" => batch[r] # <<>>
LAck == kpc \in {"rec", "rel", "inc"} => kack \in Acks
LFinite == IsFiniteSet(persist.unack)

\* run() starts a routine with nothing in its hands.
LEMMA CasLocal ==
  ASSUME TRoutine, TSync, NEW pcs \in [Routines -> RoutinePC], Cas(pcs),
         \A r \in Routines : pcs[r] = rpc[r] \/ pcs[r] = "done"
  PROVE  /\ \A r \in Routines : rpc'[r] = rpc[r] \/ rpc'[r] \in {"done", "wait"}
         /\ UNCHANGED <<batch, buf>>
BY DEF Cas, TRoutine, TSync, Routines

\* Steps of the routine.
LEMMA RoutineLocal ==
  ASSUME IInv, NEW r \in Routines, RoutineNext(r)
  PROVE  Local'
<1>0. TypeOK /\ TRoutine /\ TSync /\ TQueues /\ Handover /\ Local BY Groups, Zenon DEF IInv
<1>1. LAck' /\ LFinite'
  BY Zenon, <1>0 DEF Local, LAck, LFinite, RoutineNext, RoutineWait, RoutineEnter, PopPubrel, PopQoS12, Acquire, PopGeneric,
     PopQoS0, SkipExpired, Write, WriteError, RoutineExit, RoutineFlush, RoutineCheck, RoutineRun,
     RoutineCas, RoutineDone, reader
<1>2. LAcquire'
  <2>1. CASE PopQoS12(r) BY <1>0, <2>1, Zenon DEF PopQoS12, TRoutine, Local, LAcquire, queues
  <2>2. CASE Acquire(r)
    <3>1. \A q \in Routines : rpc[q] = "acquire" => q = r BY <1>0, <2>2, Zenon DEF Acquire, Handover, Busy
    <3>2. CASE UNCHANGED <<qos12Messages, rpc>> BY <1>0, <3>2, Zenon DEF Local, LAcquire
    <3>3. CASE rpc' = [rpc EXCEPT ![r] = "g"] BY <1>0, <3>1, <3>3, Zenon DEF LAcquire, TRoutine
    <3> QED BY <2>2, <3>2, <3>3, Zenon DEF Acquire
  <2>3. CASE RoutineCas(r)
    <3> DEFINE pcs == [rpc EXCEPT ![r] = "done"]
    <3>1. pcs \in [Routines -> RoutinePC] /\ Cas(pcs) BY <1>0, <2>3, Zenon DEF RoutineCas, RoutinePC, TRoutine
    <3>2. \A q \in Routines : pcs[q] = rpc[q] \/ pcs[q] = "done" BY <1>0, Zenon DEF TRoutine
    <3> HIDE DEF pcs
    <3>3. \A q \in Routines : rpc'[q] = rpc[q] \/ rpc'[q] \in {"done", "wait"}
      BY <1>0, <3>1, <3>2, CasLocal, Zenon
    <3> QED BY <1>0, <2>3, <3>3, Zenon DEF RoutineCas, Local, LAcquire, queues
  <2>4. CASE ~PopQoS12(r) /\ ~Acquire(r) /\ ~RoutineCas(r)
    <3>1. UNCHANGED qos12Messages
      BY Zenon, <2>4 DEF RoutineNext, RoutineWait, RoutineEnter, PopPubrel, PopGeneric,
         PopQoS0, SkipExpired, Write, WriteError, RoutineExit, RoutineFlush, RoutineCheck, RoutineRun,
         RoutineDone, queues
    <3>2. \A q \in Routines : rpc'[q] = rpc[q] \/ rpc'[q] # "acquire"
      BY Zenon, <1>0, <2>4 DEF RoutineNext, RoutineWait, RoutineEnter, PopPubrel, PopGeneric, PopQoS0,
         SkipExpired, Write, WriteError, AfterWrite, RoutineExit, RoutineFlush, RoutineCheck, RoutineRun,
         RoutineDone, TRoutine
    <3> QED BY <1>0, <3>1, <3>2, Zenon DEF Local, LAcquire
  <2> QED BY <2>1, <2>2, <2>3, <2>4, Zenon
<1>3. LWrite'
  <2>1. CASE PopQoS0(r)
    <3>1. batch'[r] # <<>> \/ rpc'[r] # "write" BY <1>0, <2>1, Zenon DEF PopQoS0, TRoutine
    <3>2. \A q \in Routines : q # r => rpc'[q] = rpc[q] /\ batch'[q] = batch[q]
      BY <1>0, <2>1, Zenon DEF PopQoS0, TRoutine
    <3> QED BY <1>0, <3>1, <3>2, Zenon DEF Local, LWrite
  <2>2. CASE SkipExpired(r) \/ Write(r)
    <3>1. batch[r] # <<>> BY <1>0, <2>2, Zenon DEF SkipExpired, Write, Local
    <3>2. batch[r] \in Seq(Packets) BY <1>0, Zenon DEF TRoutine
    <3>3. Len(batch[r]) # 1 => Tail(batch[r]) # <<>>
      <4> DEFINE t == Tail(batch[r])
                 n == Len(batch[r])
      <4>1. Len(t) = n - 1 /\ n \in Nat /\ t \in Seq(Packets) BY <3>1, <3>2
      <4>2. \A q \in Seq(Packets) : q = <<>> => Len(q) = 0 BY EmptyQueue, Zenon
      <4> HIDE DEF t, n
      <4>3. n # 1 => t # <<>> BY <4>1, <4>2
      <4> QED BY <4>3, Zenon DEF t, n
    <3>4. batch'[r] = Tail(batch[r]) /\ (rpc'[r] = "write" => Len(batch[r]) # 1)
      BY <1>0, <2>2, Zenon DEF SkipExpired, Write, AfterWrite, TRoutine
    <3>5. \A q \in Routines : q # r => rpc'[q] = rpc[q] /\ batch'[q] = batch[q]
      BY <1>0, <2>2, Zenon DEF SkipExpired, Write, AfterWrite, TRoutine
    <3> QED BY Zenon, <1>0, <3>3, <3>4, <3>5 DEF Local, LWrite
  <2>3. CASE RoutineCas(r)
    <3> DEFINE pcs == [rpc EXCEPT ![r] = "done"]
    <3>1. pcs \in [Routines -> RoutinePC] /\ Cas(pcs) BY <1>0, <2>3, Zenon DEF RoutineCas, RoutinePC, TRoutine
    <3>2. \A q \in Routines : pcs[q] = rpc[q] \/ pcs[q] = "done" BY <1>0, Zenon DEF TRoutine
    <3> HIDE DEF pcs
    <3>3. /\ \A q \in Routines : rpc'[q] = rpc[q] \/ rpc'[q] \in {"done", "wait"}
          /\ batch' = batch
      BY <1>0, <3>1, <3>2, CasLocal, Zenon
    <3> QED BY <1>0, <3>3, Zenon DEF Local, LWrite
  <2>4. CASE ~PopQoS0(r) /\ ~SkipExpired(r) /\ ~Write(r) /\ ~RoutineCas(r)
    <3>1. \A q \in Routines : rpc'[q] = "write" => rpc[q] = "write" /\ batch'[q] = batch[q]
      BY Zenon, <1>0, <2>4 DEF RoutineNext, RoutineWait, RoutineEnter, PopPubrel, PopQoS12, Acquire, PopGeneric,
         WriteError, RoutineExit, RoutineFlush, RoutineCheck, RoutineRun, RoutineDone, TRoutine
    <3> QED BY <1>0, <3>1, Zenon DEF Local, LWrite
  <2> QED BY <2>1, <2>2, <2>3, <2>4, Zenon
<1> QED BY <1>1, <1>2, <1>3, Zenon DEF Local, LAcquire, LWrite, LAck, LFinite

-----------------------------------------------------------------------------
(* The order of a close.                                                     *)

\* Steps of a routine: there is none once the connection is drained.
LEMMA RoutineClosing ==
  ASSUME IInv, NEW r \in Routines, RoutineNext(r)
  PROVE  Closing'
<1>0. TRoutine /\ Handover /\ Closing BY Groups, Zenon DEF IInv
<1>1. rpc[r] # "off"
  BY Zenon DEF RoutineNext, RoutineWait, RoutineEnter, PopPubrel, PopQoS12, Acquire, PopGeneric,
   PopQoS0, SkipExpired, Write, WriteError, RoutineExit, RoutineFlush, RoutineCheck, RoutineRun,
   RoutineCas, RoutineDone
<1>2. wg # 0 BY <1>0, <1>1, NoRoutine, Zenon
<1>3. cpc \notin {"drain", "down"} BY <1>0, <1>2, Zenon DEF Closing
<1>4. UNCHANGED <<quit, kpc, spc, online>>
  BY Zenon DEF RoutineNext, RoutineWait, RoutineEnter, PopPubrel, PopQoS12, Acquire, PopGeneric,
   PopQoS0, SkipExpired, Write, WriteError, RoutineExit, RoutineFlush, RoutineCheck, RoutineRun,
   RoutineCas, RoutineDone, Cas, sync, reader, conn
<1>5. cpc' = cpc \/ (cpc = "up" /\ cpc' = "closing")
  BY Zenon DEF RoutineNext, RoutineWait, RoutineEnter, PopPubrel, PopQoS12, Acquire, PopGeneric,
   PopQoS0, SkipExpired, Write, WriteError, RoutineExit, RoutineFlush, RoutineCheck, RoutineRun,
   RoutineCas, RoutineDone, conn
<1> QED BY <1>0, <1>3, <1>4, <1>5, Zenon DEF Closing

\* Steps of the reader, of senders and of routines while the connection closes.
LEMMA ClosingStep ==
  ASSUME IInv, Next
  PROVE  Closing'
<1>0. TypeOK /\ TRoutine /\ TSync /\ TSender /\ TReader /\ TConn /\ Handover /\ Closing BY Zenon, Groups DEF IInv
<1>1. ASSUME NEW s \in Senders, SenderRun(s) \/ SenderCas(s) \/ \E m \in Msgs : Send(s, m) PROVE Closing'
  <2>1. cpc \notin {"quit", "wait", "drain", "down"}
    BY Zenon, <1>0, <1>1 DEF SenderRun, SenderCas, Send, Closing
  <2>2. UNCHANGED <<quit, cpc, kpc>>
    BY Zenon, <1>0, <1>1 DEF SenderRun, SenderCas, Send, Cas, conn, reader, sync
  <2> QED BY <1>0, <2>1, <2>2, Zenon DEF Closing
<1>2. ASSUME NEW m \in Msgs, Respond(m) \/ PersistPublish(m) PROVE Closing'
  <2>1. CASE Respond(m) BY Zenon, <1>0, <2>1 DEF Respond, Reading, Closing, conn, sync
  <2>2. CASE PersistPublish(m) BY <1>0, <2>2, Zenon DEF PersistPublish, Closing, conn, reader, sync
  <2> QED BY <1>2, <2>1, <2>2, Zenon
<1>3. CASE ReaderNext
  <2>1. cpc \notin {"offline", "quit", "wait", "drain", "down"}
    BY Zenon, <1>0, <1>3 DEF ReaderNext, TakeAck, Reading, OnPubrec, ReleaseID, ReleaseQuota, ReaderCas,
       SignalTxQuotaAvailable, ReaderRun, ReleaseDelete, Closing
  <2>2. UNCHANGED <<quit, cpc>>
    BY Zenon, <1>0, <1>3 DEF ReaderNext, TakeAck, OnPubrec, ReleaseID, ReleaseQuota, ReaderCas, Cas,
       SignalTxQuotaAvailable, ReaderRun, ReleaseDelete, conn, sync
  <2> QED BY <1>0, <2>1, <2>2, Zenon DEF Closing
<1>4. ASSUME NEW r \in Routines, RoutineNext(r) PROVE Closing' BY Zenon, <1>4, RoutineClosing
<1>5. CASE ConnNext \/ Close
  <2>1. CASE Start
    <3>1. UNCHANGED quit BY Zenon, <2>1 DEF Start, Cas, sync
    <3> QED BY Zenon, <1>0, <2>1, <3>1 DEF Start, Closing
  <2>2. CASE Drain BY Zenon, <1>0, <2>2 DEF Drain, Closing, reader
  <2>3. CASE ReaderShutdown BY <1>0, <2>3, Zenon DEF ReaderShutdown, Closing, sync, reader
  <2>4. CASE SignalOffline BY <1>0, <2>4, Zenon DEF SignalOffline, Closing, sync, reader
  <2>5. CASE StopQuit BY <1>0, <2>5, Zenon DEF StopQuit, Closing, reader
  <2>6. CASE StopWait BY <1>0, <2>6, Zenon DEF StopWait, Closing, sync, reader
  <2>7. CASE SignalOnline BY Zenon, <1>0, <2>7 DEF SignalOnline, Closing, sync, reader
  <2>8. CASE Close BY <1>0, <2>8, Zenon DEF Close, Closing, sync, reader
  <2> QED BY <1>5, <2>1, <2>2, <2>3, <2>4, <2>5, <2>6, <2>7, <2>8, Zenon DEF ConnNext
<1>6. CASE ClientReceive BY Zenon, <1>0, <1>6 DEF ClientReceive, Closing, conn, sync, reader
<1> QED BY <1>1, <1>2, <1>3, <1>4, <1>5, <1>6, Zenon DEF Next

-----------------------------------------------------------------------------
(* Wake-ups.                                                                 *)

\* Somebody will look at the queues again, or nobody has to.
Hope ==
  \/ \E s \in Senders : spc[s] # "idle"
  \/ kpc \in {"run", "cas"}
  \/ \E r \in Routines : rpc[r] \in {"flush", "check", "run", "cas", "errdone"}
  \/ cpc \notin {"loaded", "up"}

\* NoLostWakeup made inductive: the signal of a released quota looks at one
\* queue only, so it is no hope for the other three.
Wake ==
  running = 0 =>
    /\ pubrelMessages # <<>> \/ gMessages # <<>> \/ qos0Messages # <<>> => Hope
    /\ quota > 0 /\ qos12Messages # <<>> => Hope \/ kpc = "sig"

\* Steps that leave queues, quota and running alone.
LEMMA WakeSame ==
  ASSUME Wake, UNCHANGED <<queues, quota, running>>, Hope => Hope', Hope \/ kpc = "sig" => Hope' \/ kpc' = "sig"
  PROVE  Wake'
BY Zenon DEF Wake, queues

\* run() leaves running at 1.
LEMMA CasWake ==
  ASSUME TSync, NEW pcs, Cas(pcs)
  PROVE  Wake'
<1>1. running' = 1 BY Zenon DEF Cas, TSync, sync
<1> QED BY <1>1 DEF Wake

\* A routine between its compare-and-swap and the store of 0.
LEMMA BusyWake ==
  ASSUME Handover, NEW r \in Routines, rpc[r] \in Busy, UNCHANGED running
  PROVE  Wake'
BY DEF Handover, Wake

\* Steps of the routine.
LEMMA RoutineWake ==
  ASSUME IInv, Wake, NEW r \in Routines, RoutineNext(r)
  PROVE  Wake'
<1>0. TRoutine /\ TSync /\ Handover /\ Closing BY Groups, Zenon DEF IInv
<1>1. CASE rpc[r] \in Busy /\ UNCHANGED running BY <1>0, <1>1, BusyWake, Zenon
<1>2. CASE RoutineExit(r)
  <2>1. rpc'[r] \in {"flush", "errdone"} BY <1>0, <1>2, Zenon DEF RoutineExit, TRoutine
  <2>2. Hope' BY <2>1, Zenon DEF Hope
  <2> QED BY <2>2, Zenon DEF Wake
<1>3. CASE RoutineFlush(r)
  <2>1. rpc'[r] = "check" /\ UNCHANGED <<queues, quota, running>> BY <1>0, <1>3, Zenon DEF RoutineFlush, TRoutine, flow, sync
  <2>2. Hope' BY <2>1, Zenon DEF Hope
  <2> QED BY <2>2, Zenon DEF Wake
<1>4. CASE RoutineCheck(r)
  <2>1. UNCHANGED <<queues, quota, running>> BY <1>4, Zenon DEF RoutineCheck, flow, sync
  <2>2. CASE PacketsAvailable
    <3>1. rpc'[r] = "run" BY <1>0, <1>4, <2>2, Zenon DEF RoutineCheck, TRoutine
    <3>2. Hope' BY <3>1, Zenon DEF Hope
    <3> QED BY <3>2, Zenon DEF Wake
  <2>3. CASE ~PacketsAvailable BY <2>1, <2>3, Zenon DEF PacketsAvailable, QuotaAvailable, Wake, queues
  <2> QED BY <2>2, <2>3, Zenon
<1>5. CASE RoutineRun(r)
  <2>1. CASE quit
    <3>1. cpc' \notin {"loaded", "up"} BY <1>0, <1>5, <2>1, Zenon DEF RoutineRun, Closing, conn
    <3>2. Hope' BY <3>1, Zenon DEF Hope
    <3> QED BY <3>2, Zenon DEF Wake
  <2>2. CASE ~quit
    <3>1. rpc'[r] = "cas" BY <1>0, <1>5, <2>2, Zenon DEF RoutineRun, TRoutine
    <3>2. Hope' BY <3>1, Zenon DEF Hope
    <3> QED BY <3>2, Zenon DEF Wake
  <2> QED BY <2>1, <2>2, Zenon
<1>6. CASE RoutineCas(r) BY <1>0, <1>6, CasWake, Zenon DEF RoutineCas
<1>7. CASE RoutineDone(r)
  <2>1. UNCHANGED <<queues, quota, running, spc, kpc>> BY <1>7, Zenon DEF RoutineDone, flow, reader
  <2>2. CASE rpc[r] = "done"
    <3>1. cpc' = cpc /\ \A q \in Routines : q # r => rpc'[q] = rpc[q] BY <1>0, <1>7, <2>2, Zenon DEF RoutineDone, TRoutine
    <3>2. Hope => Hope' BY <2>1, <2>2, <3>1, Zenon DEF Hope
    <3> QED BY <2>1, <3>2, WakeSame, Zenon
  <2>3. CASE rpc[r] # "done"
    <3>1. cpc \in {"down", "loaded", "up", "closing", "offline", "quit", "wait", "drain"}
      BY Groups, Zenon DEF IInv, TConn
    <3>2. cpc' \notin {"loaded", "up"} BY <1>7, <2>3, <3>1, Zenon DEF RoutineDone
    <3>3. Hope' BY <3>2, Zenon DEF Hope
    <3> QED BY <3>3, Zenon DEF Wake
  <2> QED BY <2>2, <2>3, Zenon
<1>8. CASE \/ RoutineWait(r) \/ RoutineEnter(r) \/ PopPubrel(r) \/ PopQoS12(r) \/ Acquire(r) \/ PopGeneric(r)
           \/ PopQoS0(r) \/ SkipExpired(r) \/ Write(r) \/ WriteError(r)
  <2>1. rpc[r] \in Busy /\ UNCHANGED running
    BY Zenon, <1>8 DEF RoutineWait, RoutineEnter, PopPubrel, PopQoS12, Acquire, PopGeneric, PopQoS0, SkipExpired, Write,
       WriteError, Busy, sync
  <2> QED BY <1>1, <2>1, Zenon
<1> QED BY <1>2, <1>3, <1>4, <1>5, <1>6, <1>7, <1>8, Zenon DEF RoutineNext

\* Every step keeps Wake.
LEMMA WakeStep == IInv /\ Wake /\ [Next]_vars => Wake'
<1> SUFFICES ASSUME IInv, Wake, [Next]_vars PROVE Wake' BY Zenon
<1>0. TRoutine /\ TSync /\ TFlow /\ TSender /\ Closing BY Groups, Zenon DEF IInv
<1>1. ASSUME NEW s \in Senders, SenderRun(s) \/ SenderCas(s) \/ \E m \in Msgs : Send(s, m) PROVE Wake'
  <2>1. CASE SenderRun(s)
    <3>1. CASE quit
      <4>1. cpc' \notin {"loaded", "up"} BY <1>0, <2>1, <3>1, Zenon DEF SenderRun, Closing, conn
      <4>2. Hope' BY <4>1, Zenon DEF Hope
      <4> QED BY <4>2, Zenon DEF Wake
    <3>2. CASE ~quit
      <4>1. spc'[s] # "idle" BY <1>0, <2>1, <3>2, Zenon DEF SenderRun, TSender
      <4>2. Hope' BY <4>1, Zenon DEF Hope
      <4> QED BY <4>2, Zenon DEF Wake
    <3> QED BY <3>1, <3>2, Zenon
  <2>2. CASE SenderCas(s) BY <1>0, <2>2, CasWake, Zenon DEF SenderCas
  <2>3. ASSUME NEW m \in Msgs, Send(s, m) PROVE Wake'
    <3>1. CASE m \in TooBig
      <4>1. UNCHANGED <<queues, quota, running, spc, kpc, rpc, cpc>>
        BY <2>3, <3>1, Zenon DEF Send, flow, sync, reader, routine, conn
      <4> QED BY <4>1, WakeSame, Zenon DEF Hope
    <3>2. CASE m \notin TooBig
      <4>1. spc'[s] # "idle" BY <1>0, <2>3, <3>2, Zenon DEF Send, TSender
      <4>2. Hope' BY <4>1, Zenon DEF Hope
      <4> QED BY <4>2, Zenon DEF Wake
    <3> QED BY <3>1, <3>2, Zenon
  <2> QED BY <1>1, <2>1, <2>2, <2>3, Zenon
<1>2. ASSUME NEW m \in Msgs, Respond(m) \/ PersistPublish(m) PROVE Wake'
  <2>1. CASE Respond(m)
    <3>1. kpc' = "run" BY <2>1, Zenon DEF Respond
    <3> QED BY <3>1, Zenon DEF Wake, Hope
  <2>2. CASE PersistPublish(m)
    <3>1. UNCHANGED <<queues, quota, running, spc, kpc, rpc, cpc>>
      BY <2>2, Zenon DEF PersistPublish, flow, sync, reader, routine, conn
    <3> QED BY <3>1, WakeSame, Zenon DEF Hope
  <2> QED BY <1>2, <2>1, <2>2, Zenon
<1>3. CASE ReaderNext
  <2>1. CASE (\E a \in acks : TakeAck(a)) \/ ReleaseID \/ ReleaseDelete
    <3>1. /\ kpc \notin {"run", "cas", "sig"}
          /\ UNCHANGED <<queues, quota, running, spc, rpc, cpc>>
      BY <2>1, Zenon DEF TakeAck, Reading, ReleaseID, ReleaseDelete, flow, sync, routine, conn
    <3>2. Hope => Hope' BY <3>1, Zenon DEF Hope
    <3> QED BY <3>1, <3>2, WakeSame, Zenon
  <2>2. CASE OnPubrec
    <3>1. kpc = "rec" /\ UNCHANGED <<gMessages, qos0Messages, qos12Messages, quota, running, spc, rpc, cpc>>
      BY <2>2, Zenon DEF OnPubrec, flow, sync, routine, conn
    <3>2. CASE kpc' = "run" BY <3>2, Zenon DEF Wake, Hope
    <3>3. CASE pubrelMessages' = pubrelMessages BY <3>1, <3>3, Zenon DEF Wake, Hope
    <3> QED BY <2>2, <3>2, <3>3, Zenon DEF OnPubrec
  <2>3. CASE ReleaseQuota
    <3>1. kpc = "inc" /\ quota' = quota + 1 /\ UNCHANGED <<queues, running, spc, rpc, cpc>>
      BY <2>3, Zenon DEF ReleaseQuota, sync, routine, conn
    <3>2. Hope => Hope' BY <3>1, Zenon DEF Hope
    <3>3. CASE quota = 0
      <4>1. kpc' = "sig" BY <2>3, <3>3 DEF ReleaseQuota
      <4> QED BY <3>1, <3>2, <4>1, Zenon DEF Wake, queues
    <3>4. CASE quota # 0
      <4>1. quota > 0 BY <1>0, <3>4 DEF TFlow
      <4> QED BY <3>1, <3>2, <4>1, Zenon DEF Wake, queues
    <3> QED BY <3>3, <3>4, Zenon
  <2>4. CASE SignalTxQuotaAvailable
    <3>1. kpc = "sig" /\ UNCHANGED <<queues, quota, running, spc, rpc, cpc>>
      BY <2>4, Zenon DEF SignalTxQuotaAvailable, flow, sync, routine, conn
    <3>2. Hope => Hope' BY <3>1, Zenon DEF Hope
    <3>3. CASE kpc' = "run" BY <3>3, Zenon DEF Wake, Hope
    <3>4. CASE kpc' # "run"
      <4>1. ~(Len(qos12Messages) > 0) BY <2>4, <3>4, Zenon DEF SignalTxQuotaAvailable
      <4>2. qos12Messages \in Seq(Acked) BY Groups, Zenon DEF IInv, TQueues
      <4>3. qos12Messages = <<>> BY <4>1, <4>2, EmptyQueue
      <4> QED BY <3>1, <3>2, <4>3, Zenon DEF Wake, queues
    <3> QED BY <3>3, <3>4, Zenon
  <2>5. CASE ReaderRun
    <3>1. CASE quit
      <4>1. cpc' \notin {"loaded", "up"} BY <1>0, <2>5, <3>1, Zenon DEF ReaderRun, Closing, conn
      <4> QED BY <4>1, Zenon DEF Wake, Hope
    <3>2. CASE ~quit
      <4>1. kpc' = "cas" BY <2>5, <3>2, Zenon DEF ReaderRun
      <4> QED BY <4>1, Zenon DEF Wake, Hope
    <3> QED BY <3>1, <3>2, Zenon
  <2>6. CASE ReaderCas BY <1>0, <2>6, CasWake, Zenon DEF ReaderCas
  <2> QED BY <1>3, <2>1, <2>2, <2>3, <2>4, <2>5, <2>6, Zenon DEF ReaderNext
<1>4. ASSUME NEW r \in Routines, RoutineNext(r) PROVE Wake' BY <1>4, RoutineWake, Zenon
<1>5. CASE ConnNext \/ Close
  <2>1. CASE Start BY <1>0, <2>1, CasWake, Zenon DEF Start
  <2>2. CASE SignalOnline
    <3>1. cpc = "loaded" /\ UNCHANGED <<queues, quota, running, spc, kpc, rpc>>
      BY <2>2, Zenon DEF SignalOnline, flow, sync, routine, reader
    <3>2. Hope => Hope' BY <3>1, Zenon DEF Hope
    <3> QED BY <3>1, <3>2, WakeSame, Zenon
  <2>3. CASE ~Start /\ ~SignalOnline
    <3>1. cpc' \notin {"loaded", "up"}
      BY <1>5, <2>3, Zenon DEF ConnNext, Close, ReaderShutdown, SignalOffline, StopQuit, StopWait, Drain
    <3> QED BY <3>1, Zenon DEF Wake, Hope
  <2> QED BY <2>1, <2>2, <2>3, Zenon
<1>6. CASE ClientReceive \/ UNCHANGED vars
  <2>1. UNCHANGED <<queues, quota, running, spc, kpc, rpc, cpc>>
    BY Zenon, <1>6 DEF ClientReceive, vars, flow, sync, reader, routine, conn
  <2> QED BY <2>1, WakeSame, Zenon DEF Hope
<1> QED BY <1>1, <1>2, <1>3, <1>4, <1>5, <1>6, Zenon DEF Next

-----------------------------------------------------------------------------
(* What is stored is finite, so the next connection can put it in order.      *)

\* IsFiniteSet and Cardinality, spelled out: the names below are those of the
\* instance of FiniteSetTheorems.
Finite(S) == \E seq \in Seq(S) : \A s \in S : \E n \in 1..Len(seq) : seq[n] = s
Size(S) ==
  LET CS[T \in SUBSET S] == IF T = {} THEN 0 ELSE 1 + CS[T \ {CHOOSE x : x \in T}]
  IN  CS[S]

\* Writer speaks of finite sets ...
LEMMA IsFinite == ASSUME NEW S PROVE IsFiniteSet(S) <=> Finite(S)
BY Zenon DEF IsFiniteSet, Finite

\* (in particular where it stores packets, at first none)
LEMMA LocalFinite == (Finite(persist.unack) => LFinite) /\ (Finite(persist'.unack) => LFinite')
BY IsFinite, Zenon DEF LFinite

\* The empty set is finite.
LEMMA EmptyFinite == Finite({})
<1>1. <<>> \in Seq({}) OBVIOUS
<1> QED BY <1>1, Zenon DEF Finite

\* ... and of their size.
LEMMA IsSize == ASSUME NEW S PROVE Cardinality(S) = Size(S)
BY Zenon DEF Cardinality, Size

\* An order of a set is a function on the numbers up to its size.
LEMMA OrdersFunction ==
  ASSUME NEW S, NEW f \in Orders(S)
  PROVE  f \in [1..Size(S) -> S]
<1>1. f \in [1..Cardinality(S) -> S] BY Zenon DEF Orders
<1> QED BY <1>1, IsSize, Zenon

\* What the connection started with: the ids it holds, and what is left of the quota.
LEMMA StartHolds ==
  ASSUME Start
  PROVE  \E held \in SUBSET persist.unack :
           /\ \/ held = persist.unack /\ Size(held) <= SendQuota
              \/ Size(held) = SendQuota
           /\ inUse' = {p.id : p \in held}
           /\ quota' = SendQuota - Size(held)
<1>1. PICK held \in SUBSET persist.unack :
        /\ \/ held = persist.unack /\ Cardinality(held) <= SendQuota
           \/ Cardinality(held) = SendQuota
        /\ inUse' = {p.id : p \in held}
        /\ quota' = SendQuota - Cardinality(held)
  BY Zenon DEF Start
<1>2. Cardinality(held) = Size(held) BY IsSize, Zenon
<1> QED BY <1>1, <1>2, Zenon

LOCAL INSTANCE FiniteSetTheorems

\* The theorems used, in these words: the size of a finite set is a number,
LEMMA SizeType == ASSUME NEW S, Finite(S) PROVE Size(S) \in Nat
<1>1. IsFiniteSet(S) BY Zenon DEF IsFiniteSet, Finite
<1>2. Cardinality(S) \in Nat BY <1>1, FS_CardinalityType, Zenon
<1> QED BY <1>2, Zenon DEF Cardinality, Size

\* a part of a finite set is finite,
LEMMA PartFinite == ASSUME NEW S, Finite(S), NEW T, T \subseteq S PROVE Finite(T)
<1>1. IsFiniteSet(S) BY Zenon DEF IsFiniteSet, Finite
<1>2. IsFiniteSet(T) BY <1>1, FS_Subset, Zenon
<1> QED BY <1>2, Zenon DEF IsFiniteSet, Finite

\* so is the image of one,
LEMMA ImageFinite == ASSUME NEW S, Finite(S), NEW T, NEW f \in Surjection(S, T) PROVE Finite(T)
<1>1. IsFiniteSet(S) BY Zenon DEF IsFiniteSet, Finite
<1>2. IsFiniteSet(T) BY <1>1, FS_Surjection, Zenon
<1> QED BY <1>2, Zenon DEF IsFiniteSet, Finite

\* and the union of two.
LEMMA UnionFinite == ASSUME NEW S, Finite(S), NEW T, Finite(T) PROVE Finite(S \cup T)
<1>1. IsFiniteSet(S) /\ IsFiniteSet(T) BY Zenon DEF IsFiniteSet, Finite
<1>2. IsFiniteSet(S \cup T) BY <1>1, FS_Union, Zenon
<1> QED BY <1>2, Zenon DEF IsFiniteSet, Finite

\* There are finitely many packet ids.
LEMMA IdsFinite == Finite(Ids)
<1>1. IsFiniteSet(Ids) BY QuotaAssumption, FS_Interval DEF Ids
<1> QED BY <1>1, Zenon DEF IsFiniteSet, Finite

\* An order of a finite set is a sequence of its elements.
LEMMA OrdersType ==
  ASSUME NEW S, Finite(S), NEW f \in Orders(S)
  PROVE  f \in Seq(S)
<1>1. Size(S) \in Nat BY SizeType, Zenon
<1>2. f \in [1..Size(S) -> S] BY OrdersFunction, Zenon
<1> QED BY <1>1, <1>2

\* The next connection takes up what is stored.
LEMMA StartType ==
  ASSUME IInv, Start
  PROVE  TypeOK'
<1>0. TypeOK /\ TRoutine /\ TSync /\ TQueues /\ TFlow /\ TConn /\ TPersist /\ THist /\ Local BY Groups, Zenon DEF IInv
<1> DEFINE publishes == {p \in persist.unack : p.type = "PUBLISH"}
           pubrels == {p.id : p \in persist.unack \ publishes}
<1>1. /\ \E u \in Orders(publishes) : qos12Messages' = [i \in DOMAIN u |-> u[i].m] \o persist.qos12
      /\ pubrelMessages' \in Orders(pubrels)
      /\ open' = {[m |-> "resumed", id |-> i] : i \in pubrels}
  BY Zenon DEF Start
<1>2. persist.unack \subseteq UnAckPackets BY <1>0, Zenon DEF TPersist
<1>3. publishes \subseteq [type : {"PUBLISH"}, m : Acked, id : Ids] BY <1>2, Zenon DEF UnAckPackets
<1>4. pubrels \subseteq Ids BY <1>2, Zenon DEF UnAckPackets
<1>5. Finite(persist.unack) BY <1>0, IsFinite, Zenon DEF Local
<1>6. Finite(publishes) /\ Finite(pubrels) BY <1>4, <1>5, IdsFinite, PartFinite, Zenon
<1> HIDE DEF publishes, pubrels
<1>7. qos12Messages' \in Seq(Acked)
  <2>1. PICK u \in Orders(publishes) : qos12Messages' = [i \in DOMAIN u |-> u[i].m] \o persist.qos12
    BY Zenon, <1>1
  <2>2. u \in Seq(publishes) BY <1>6, OrdersType, Zenon
  <2>3. Len(u) \in Nat /\ DOMAIN u = 1..Len(u) /\ \A i \in DOMAIN u : u[i].m \in Acked BY <1>3, <2>2
  <2>4. [i \in DOMAIN u |-> u[i].m] \in [1..Len(u) -> Acked] BY <2>3, Zenon
  <2>5. [i \in DOMAIN u |-> u[i].m] \in Seq(Acked) BY <2>3, <2>4
  <2> QED BY <1>0, <2>1, <2>5, Concatenated, Zenon DEF TPersist
<1>8. pubrelMessages' \in Seq(Ids)
  <2>1. pubrelMessages' \in Seq(pubrels) BY Zenon, <1>1, <1>6, OrdersType
  <2> QED BY <1>4, <2>1
<1>9. TQueues' BY Zenon, <1>0, <1>7, <1>8 DEF Start, TQueues, TPersist
<1>10. TFlow'
  <2>1. PICK held \in SUBSET persist.unack :
           /\ \/ held = persist.unack /\ Size(held) <= SendQuota
              \/ Size(held) = SendQuota
           /\ inUse' = {p.id : p \in held}
           /\ quota' = SendQuota - Size(held)
    BY StartHolds, Zenon
  <2>2. quota' \in Nat
    <3>1. CASE Size(held) = SendQuota BY <2>1, <3>1, QuotaAssumption
    <3>2. CASE held = persist.unack /\ Size(held) <= SendQuota
      <4>1. Size(held) \in Nat BY <1>5, <3>2, SizeType, Zenon
      <4> QED BY <2>1, <3>2, <4>1, QuotaAssumption
    <3> QED BY <2>1, <3>1, <3>2, Zenon
  <2>3. inUse' \subseteq Ids BY <1>2, <2>1, Zenon DEF UnAckPackets
  <2> QED BY Zenon, <1>0, <2>2, <2>3 DEF Start, TFlow
<1>11. THist'
  <2>1. UNCHANGED accepted BY Zenon DEF Start
  <2>2. open' = {[m |-> "resumed", id |-> i] : i \in pubrels} BY Zenon, <1>1
  <2>3. open' \subseteq [m : Msgs \cup {"resumed"}, id : Ids] BY <1>4, <2>2
  <2> QED BY Zenon, <1>0, <2>1, <2>3 DEF THist
<1>12. TPersist' BY Zenon, EmptyQueue DEF Start, TPersist
<1>13. TConn'
  <2>1. cpc' = "loaded" /\ nconn' = nconn + 1 /\ UNCHANGED online BY Zenon DEF Start
  <2> QED BY <1>0, <2>1 DEF TConn
<1>14. TSync' /\ TRoutine' BY Zenon, <1>0, CasType DEF Start, TRoutine
<1> QED BY Zenon, <1>0, Groups, Same, <1>9, <1>10, <1>11, <1>12, <1>13, <1>14 DEF Start

\* Steps of the connection.
LEMMA ConnType ==
  ASSUME IInv, ConnNext \/ Close
  PROVE  TypeOK'
<1>0. TypeOK /\ TSync /\ TConn BY Groups, Zenon DEF IInv
<1>1. CASE Close
  <2>1. TConn' BY <1>0, <1>1, Zenon DEF Close, TConn
  <2> QED BY Zenon, <1>0, Groups, Same, <1>1, <2>1 DEF Close
<1>2. CASE ReaderShutdown
  <2>1. TConn' BY <1>0, <1>2, Zenon DEF ReaderShutdown, TConn
  <2> QED BY Zenon, <1>0, Groups, Same, <1>2, <2>1 DEF ReaderShutdown
<1>3. CASE SignalOffline
  <2>1. TConn' BY Zenon, <1>0, <1>3 DEF SignalOffline, TConn
  <2> QED BY Zenon, <1>0, Groups, Same, <1>3, <2>1 DEF SignalOffline
<1>4. CASE StopQuit
  <2>1. TConn' BY <1>0, <1>4, Zenon DEF StopQuit, TConn
  <2>2. TSync' BY <1>0, <1>4, Zenon DEF StopQuit, TSync
  <2> QED BY Zenon, <1>0, Groups, Same, <1>4, <2>1, <2>2 DEF StopQuit
<1>5. CASE StopWait
  <2>1. TConn' BY <1>0, <1>5, Zenon DEF StopWait, TConn
  <2> QED BY Zenon, <1>0, Groups, Same, <1>5, <2>1 DEF StopWait
<1>6. CASE SignalOnline
  <2>1. TConn' BY <1>0, <1>6, Zenon DEF SignalOnline, TConn
  <2> QED BY Zenon, <1>0, Groups, Same, <1>6, <2>1 DEF SignalOnline
<1>7. CASE Drain BY <1>7, DrainType, Zenon
<1>8. CASE Start BY <1>8, StartType, Zenon
<1> QED BY <1>1, <1>2, <1>3, <1>4, <1>5, <1>6, <1>7, <1>8, Zenon DEF ConnNext

\* What PacketsStore is given is finite.
LEMMA UnackFinite ==
  ASSUME IInv, Drain
  PROVE  Finite(persist'.unack)
<1> DEFINE rels == {Pubrel(i) : i \in RangeOf(pubrelMessages)}
           outs == {pubOut[i] : i \in {j \in Ids : pubOut[j] # NoPacket}}
<1>1. PICK q12 \in Kept(qos12Messages), q0 \in Kept(qos0Messages) :
        persist' = [unack |-> persist.unack \cup (rels \cup outs), qos12 |-> persist.qos12 \o q12,
                    qos0 |-> IF OfflineQoS0 THEN persist.qos0 \o q0 ELSE persist.qos0]
  BY Zenon DEF Drain, Unacknowledged
<1>3. Finite(rels)
  <2>1. RangeOf(pubrelMessages) \subseteq Ids BY Groups DEF IInv, TQueues, RangeOf
  <2>2. Finite(RangeOf(pubrelMessages)) BY <2>1, IdsFinite, PartFinite, Zenon
  <2> DEFINE f == [i \in RangeOf(pubrelMessages) |-> Pubrel(i)]
  <2>3. f \in Surjection(RangeOf(pubrelMessages), rels) BY Zenon DEF Surjection
  <2> HIDE DEF f, rels
  <2> QED BY <2>2, <2>3, ImageFinite, Zenon
<1>4. Finite(outs)
  <2> DEFINE D == {j \in Ids : pubOut[j] # NoPacket}
             f == [i \in D |-> pubOut[i]]
  <2>1. Finite(D) BY IdsFinite, PartFinite, Zenon
  <2>2. f \in Surjection(D, outs) BY Zenon DEF Surjection
  <2> HIDE DEF f, D, outs
  <2> QED BY <2>1, <2>2, ImageFinite, Zenon
<1>5. Finite(persist.unack) BY IsFinite, Zenon DEF IInv, Local
<1> HIDE DEF rels, outs
<1>6. Finite(persist.unack \cup (rels \cup outs)) BY <1>3, <1>4, <1>5, UnionFinite, Zenon
<1> QED BY <1>1, <1>6, Zenon

\* Steps of the connection.
LEMMA ConnLocal ==
  ASSUME IInv, ConnNext \/ Close
  PROVE  Local'
<1>0. TRoutine /\ TSync /\ Handover /\ Local /\ Closing BY Groups, Zenon DEF IInv
<1> USE DEF Local
<1>1. CASE Start
  <2>1. \A r \in Routines : rpc[r] = "off" BY Zenon, <1>0, <1>1, NoRoutine DEF Start, Closing
  <2>2. \A q \in Routines : rpc'[q] = rpc[q] \/ rpc'[q] \in {"done", "wait"}
    BY Zenon, <1>0, <1>1, CasLocal DEF Start, TRoutine
  <2>3. LFinite'
    <3>1. persist'.unack = {} BY Zenon, <1>1 DEF Start
    <3> QED BY <3>1, EmptyFinite, LocalFinite, Zenon
  <2> QED BY Zenon, <1>0, <1>1, <2>1, <2>2, <2>3 DEF Start, reader, LFinite
<1>2. CASE Drain
  <2>1. \A r \in Routines : rpc[r] = "off" BY Zenon, <1>0, <1>2, NoRoutine DEF Drain, Closing
  <2>2. LFinite' BY <1>2, UnackFinite, LocalFinite, Zenon
  <2> QED BY Zenon, <1>0, <1>2, <2>1, <2>2 DEF Drain, routine, reader, LFinite
<1>3. CASE ~Start /\ ~Drain
  BY Zenon, <1>0, <1>3 DEF ConnNext, ReaderShutdown, SignalOffline, StopQuit, StopWait,
     SignalOnline, Close, queues, routine, reader
<1> QED BY <1>1, <1>2, <1>3, Zenon

\* Every step keeps Local.
LEMMA LocalStep ==
  ASSUME IInv, Next
  PROVE  Local'
<1>0. TypeOK /\ TRoutine /\ TSync /\ TQueues /\ TNet /\ Handover /\ Local /\ Closing BY Groups, Zenon DEF IInv
<1> USE DEF Local
<1>1. ASSUME NEW s \in Senders, SenderRun(s) \/ SenderCas(s) \/ \E m \in Msgs : Send(s, m) PROVE Local'
  <2>1. CASE SenderRun(s) BY <1>0, <2>1, Zenon DEF SenderRun, queues, routine, reader
  <2>2. CASE SenderCas(s)
    <3>1. /\ \A q \in Routines : rpc'[q] = rpc[q] \/ rpc'[q] \in {"done", "wait"}
          /\ batch' = batch
      BY <1>0, <2>2, CasLocal, Zenon DEF SenderCas, TRoutine
    <3> QED BY <1>0, <2>2, <3>1, Zenon DEF SenderCas, queues, reader
  <2>3. ASSUME NEW m \in Msgs, Send(s, m) PROVE Local'
    <3>1. qos12Messages # <<>> => qos12Messages' # <<>>
      <4>1. ASSUME QoS12(m) PROVE Append(qos12Messages, m) # <<>>
        <5>1. m \in Acked BY <4>1, Zenon DEF Acked
        <5>2. qos12Messages \in Seq(Acked) BY <1>0, Zenon DEF TQueues
        <5> QED BY <5>1, <5>2, Appended, Zenon
      <4> QED BY <2>3, <4>1, Zenon DEF Send, queues
    <3> QED BY <1>0, <2>3, <3>1, Zenon DEF Send, routine, reader
  <2> QED BY <1>1, <2>1, <2>2, <2>3, Zenon
<1>2. ASSUME NEW m \in Msgs, Respond(m) \/ PersistPublish(m) PROVE Local'
  <2>1. CASE Respond(m) BY Zenon, <1>0, <2>1 DEF Respond, routine
  <2>2. CASE PersistPublish(m)
    <3>1. persist'.unack = persist.unack BY <1>0, Groups, <2>2, Zenon DEF PersistPublish, TPersist
    <3> QED BY <1>0, <2>2, <3>1, Zenon DEF PersistPublish, queues, routine, reader
  <2> QED BY Zenon, <1>2, <2>1, <2>2
<1>3. CASE ReaderNext
  <2>1. CASE ReaderCas
    <3>1. /\ \A q \in Routines : rpc'[q] = rpc[q] \/ rpc'[q] \in {"done", "wait"}
          /\ batch' = batch
      BY <1>0, <2>1, CasLocal, Zenon DEF ReaderCas, TRoutine
    <3> QED BY Zenon, <1>0, <2>1, <3>1 DEF ReaderCas, AfterRelease, queues
  <2>2. CASE ~ReaderCas
    <3>1. LAcquire' /\ LWrite' /\ LFinite'
      BY Zenon, <1>0, <1>3, <2>2 DEF ReaderNext, TakeAck, OnPubrec, ReleaseID, ReleaseQuota,
         SignalTxQuotaAvailable, ReaderRun, ReleaseDelete, queues, routine, LAcquire, LWrite, LFinite
    <3>2. LAck'
      <4>1. ASSUME NEW a \in acks, TakeAck(a) PROVE LAck' BY <1>0, <4>1, Zenon DEF TakeAck, TNet, LAck
      <4>2. CASE ~\E a \in acks : TakeAck(a)
        BY Zenon, <1>0, <1>3, <2>2, <4>2 DEF ReaderNext, OnPubrec, ReleaseID, ReleaseQuota, AfterRelease,
           SignalTxQuotaAvailable, ReaderRun, ReleaseDelete, LAck
      <4> QED BY <4>1, <4>2, Zenon
    <3> QED BY <3>1, <3>2, Zenon DEF LAcquire, LWrite, LAck, LFinite
  <2> QED BY <2>1, <2>2, Zenon
<1>4. ASSUME NEW r \in Routines, RoutineNext(r) PROVE Local' BY Zenon, <1>4, RoutineLocal
<1>5. CASE ConnNext \/ Close BY Zenon, <1>5, ConnLocal
<1>6. CASE ClientReceive BY Zenon, <1>0, <1>6 DEF ClientReceive, queues, routine, reader
<1> QED BY Zenon, <1>1, <1>2, <1>3, <1>4, <1>5, <1>6 DEF Next

-----------------------------------------------------------------------------
(* The parts together.                                                       *)

\* The first state.
LEMMA InitIInv == Init => IInv
<1> SUFFICES ASSUME Init PROVE IInv BY Zenon
<1> USE DEF Init
<1>1. TQueues BY EmptyQueue, Zenon DEF TQueues
<1>2. TFlow BY QuotaAssumption DEF TFlow
<1>3. TOut BY Zenon DEF TOut
<1>4. TSync BY Zenon DEF TSync
<1>5. TRoutine BY EmptyQueue, Zenon DEF TRoutine, RoutinePC
<1>6. TSender BY Zenon DEF TSender
<1>7. TReader BY Zenon DEF TReader
<1>8. TConn BY Zenon DEF TConn
<1>9. TPersist BY EmptyQueue, Zenon DEF TPersist
<1>10. TNet /\ TClient /\ THist BY Zenon, EmptyQueue DEF TNet, TClient, THist
<1>11. Handover BY DEF Handover, Busy, Inside, Count, SingleWriter, Writing, Routines, RoutinePC
<1>12. Local
  <2>1. LFinite BY EmptyFinite, LocalFinite, Zenon
  <2> QED BY <2>1, Zenon DEF Local, LFinite
<1>13. Closing BY Zenon DEF Closing
<1> QED BY <1>1, <1>2, <1>3, <1>4, <1>5, <1>6, <1>7, <1>8, <1>9, <1>10, <1>11, <1>12, <1>13, Groups, Zenon DEF IInv

\* Every step of the model keeps the invariant.
LEMMA NextIInv == IInv /\ [Next]_vars => IInv'
<1> SUFFICES ASSUME IInv, [Next]_vars PROVE IInv' BY Zenon
<1>1. CASE Next
  <2>1. TypeOK' BY <1>1, SenderType, ReaderType, RoutineType, ConnType, OtherType, Zenon DEF Next
  <2> QED BY <1>1, <2>1, HandoverStep, LocalStep, ClosingStep, Zenon DEF IInv
<1>2. CASE UNCHANGED vars
  <2>1. TypeOK' BY <1>2, Groups, Same, Zenon DEF vars, IInv
  <2>2. Handover' BY <1>2, HandoverSame, Zenon DEF vars, IInv, routine, sync
  <2>3. Local' BY Zenon, <1>2 DEF vars, IInv, Local, routine, queues, reader
  <2>4. Closing' BY <1>2, Zenon DEF vars, IInv, Closing, sync, conn, reader
  <2> QED BY <2>1, <2>2, <2>3, <2>4, Zenon DEF IInv
<1> QED BY <1>1, <1>2, Zenon

\* The invariant holds in every reachable state.
THEOREM Invariance == Spec => []IInv
BY InitIInv, NextIInv, PTL DEF Spec

\* Every variable keeps its type for every value of the constants; with it the
\* quota never goes below zero and no WaitGroup is decremented below zero.
THEOREM TypeCorrect == Spec => []TypeOK
<1>1. IInv => TypeOK BY Zenon DEF IInv
<1> QED BY <1>1, Invariance, PTL

\* At most one routine writes to the socket at a time, whatever the number of
\* senders, of messages and of reconnections.
THEOREM OneWriter == Spec => []SingleWriter
<1>1. IInv => SingleWriter BY Zenon DEF IInv, Handover
<1> QED BY <1>1, Invariance, PTL

\* run() never meets two unfinished routines when it wins its compare-and-swap:
\* two routines are all there ever are.
THEOREM TwoRoutines == Spec => []SpawnPossible
<1>1. IInv => SpawnPossible
  <2> SUFFICES ASSUME IInv, running = 0 PROVE \E r \in Routines : rpc[r] = "off" BY Zenon DEF SpawnPossible
  <2>1. TRoutine /\ Handover BY Groups, Zenon DEF IInv
  <2>2. \A r \in Routines : rpc[r] \notin Busy BY <2>1 DEF Handover
  <2>3. ~(Writing(1) /\ Writing(2)) BY <2>1 DEF Handover, SingleWriter, Routines
  <2> QED BY <2>2, <2>3, Zenon DEF Writing, Busy, Routines
<1> QED BY <1>1, Invariance, PTL

\* No wake-up is lost: for any number of senders and messages, when no routine
\* runs and a packet could be sent, somebody is on the way to start a routine or
\* the connection is closing.
THEOREM WakeUps == Spec => []NoLostWakeup
<1>1. Init => Wake BY Zenon DEF Init, Wake, Hope
<1>2. IInv /\ Wake => NoLostWakeup BY Zenon DEF Wake, Hope, NoLostWakeup, PacketsAvailable, QuotaAvailable
<1> QED BY <1>1, <1>2, Invariance, WakeStep, PTL DEF Spec
=============================================================================
