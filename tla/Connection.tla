----------------------------- MODULE Connection -----------------------------
(***************************************************************************)
(* The life of one network connection: the handshake in the goroutine that *)
(* accepted it, the reader and the writer routines, the forwarding of      *)
(* publications by the subscriber, and the shutdown, which any of them or  *)
(* a Stop from outside may begin and exactly one of them performs.         *)
(***************************************************************************)
EXTENDS Naturals, FiniteSets

CONSTANTS
  Connects,    \* what a client may open with: "good", "refused", "auth", "bad"
  MaxPublish,  \* bound: publications for this subscriber
  MaxBuffer    \* bound: packets that one read brings besides the one it asked for

Actors == {"hand", "reader", "writer", "stopper"}
None == "none"

ASSUME ConnectionAssumption ==
  /\ Connects \subseteq {"good", "refused", "auth", "bad"}
  /\ MaxPublish \in Nat /\ MaxBuffer \in Nat

VARIABLES
  net,        \* the network: "up", "down"
  conn,       \* s.conn: "open", "closed", "nil"
  connect,    \* the channel s.connect: "open", "closed"
  opening,    \* what connectionRoutine read
  keepAlive,  \* does the client have a keep-alive time?
  deadline,   \* the read deadline that the close set is in force
  buffer,     \* packets in the reader's bufio.Reader
  pc,         \* where each of the four goroutines is
  cpc,        \* where connectionRoutine is
  stage,      \* s.onConnClose: 1 or 2
  closing,    \* onConnDisconnect: who runs the close, and where it is
  onStop,     \* s.onStop: "no", "running", "done"
  tx,         \* the writer: "new", "started", "quit", "nil"
  online,     \* does the subscriber forward to this connection?
  forwarding, \* a publication inside the subscriber's read lock
  signals,    \* how often SignalOffline and SignalConnectionClose were called
  broken,     \* a nil pointer was used
  published,
  early       \* ghost: reader or writer ended before the handshake signalled online

vars == <<net, conn, connect, opening, keepAlive, deadline, buffer, pc, cpc, stage, closing,
          onStop, tx, online, forwarding, signals, broken, published, early>>

rx == <<keepAlive, deadline, buffer>>
io == <<net, conn, connect, opening, cpc, rx>>
work == <<published, early>>

\* New
Init ==
  /\ net = "up" /\ conn = "open" /\ connect = "open" /\ opening = None
  /\ keepAlive \in BOOLEAN /\ deadline = FALSE /\ buffer = 0
  /\ pc = [hand |-> "new", reader |-> "off", writer |-> "off", stopper |-> "idle"]
  /\ cpc = "off" /\ stage = 1
  /\ closing = [by |-> None, at |-> "no"]
  /\ onStop = "no" /\ tx = "new"
  /\ online = FALSE /\ forwarding = FALSE
  /\ signals = [offline |-> 0, close |-> 0]
  /\ broken = FALSE /\ published = 0
  /\ early = FALSE

At(x, l) == pc[x] = l
Goto(x, l) == pc' = [pc EXCEPT ![x] = l]


\* rx.wg and tx.wg: a routine counts until its deferred wg.Done().
ReaderRuns == pc["reader"] \in {"read", "process", "stop", "offline", "txquit", "txwait"}
WriterRuns == pc["writer"] = "on"

\* A routine ends on an error, maybe before SignalOnline is called.
Ends == early' = (early \/ pc["hand"] \notin {"unlock", "done"})

-----------------------------------------------------------------------------
(* The handshake.                                                          *)

\* Accept, rx.connection
Accept ==
  /\ At("hand", "new")
  /\ cpc' = "read" /\ Goto("hand", "wait")
  /\ UNCHANGED <<rx, net, conn, connect, opening, stage, closing, onStop, tx, online,
                 forwarding, signals, broken, work>>

\* connectionRoutine: one packet, or an error from the network or the deadline
ConnectionRoutine ==
  /\ cpc = "read"
  /\ \E o \in (IF net = "up" THEN Connects ELSE {}) \cup {"bad"} : opening' = o
  /\ cpc' = "send"
  /\ UNCHANGED <<rx, net, conn, connect, pc, stage, closing, onStop, tx, online,
                 forwarding, signals, broken, work>>

\* OnConnection takes what the routine sends; processConnect decides on it.  An
\* error, or an answer that is neither AUTH nor CONNACK, stops the connection.
OnConnection ==
  /\ At("hand", "wait") /\ cpc = "send"
  /\ cpc' = "off"
  /\ Goto("hand", CASE opening = "good"    -> "load"
                    [] opening = "refused" -> "nack"
                    [] OTHER               -> "stop")
  /\ UNCHANGED <<rx, net, conn, connect, opening, stage, closing, onStop, tx, online,
                 forwarding, signals, broken, work>>

\* newSession: loadContainer attaches the session or rejects the client.
NewSession ==
  /\ At("hand", "load")
  /\ \E answer \in {"ack", "nack"} : Goto("hand", answer)
  /\ UNCHANGED <<io, stage, closing, onStop, tx, online, forwarding, signals, broken,
                 work>>

\* Acknowledge: the CONNACK, which may fail to be written.  When the read deadline
\* cannot be reset first it returns at once and stops nothing; the options it is
\* given, KeepAlive and Permissions, do not fail.
Acknowledge ==
  /\ pc["hand"] \in {"ack", "nack"}
  /\ \/ /\ connect' = "closed"
        /\ \/ At("hand", "ack") /\ stage' = 2 /\ Goto("hand", "start")
           \/ /\ At("hand", "nack") \/ net = "down"
              /\ Goto("hand", "stop") /\ UNCHANGED stage
     \/ net = "down" /\ Goto("hand", "returned") /\ UNCHANGED <<connect, stage>>
  /\ UNCHANGED <<rx, net, conn, opening, cpc, closing, onStop, tx, online, forwarding,
                 signals, broken, work>>

\* tx.start(true) sends what was persisted.
TxStart ==
  /\ At("hand", "start")
  /\ tx' = "started"
  /\ \E l \in {"on", "off"} : pc' = [pc EXCEPT !["hand"] = "run", !["writer"] = l]
  /\ UNCHANGED <<io, stage, closing, onStop, online, forwarding, signals, broken, work>>

\* rx.run, unless the writer has failed and the close was quicker: then s.rx is nil,
\* and OnConnection recovers from the panic.
RxRun ==
  /\ At("hand", "run")
  /\ IF tx = "nil" THEN broken' = TRUE /\ Goto("hand", "returned") /\ UNCHANGED deadline
     ELSE /\ pc' = [pc EXCEPT !["hand"] = "online", !["reader"] = "read"]
          /\ deadline' = (deadline /\ ~keepAlive)
          /\ UNCHANGED broken
  /\ UNCHANGED <<net, conn, connect, opening, cpc, keepAlive, buffer, stage, closing,
                 onStop, tx, online, forwarding, signals, work>>

\* SignalOnline takes the subscriber's write lock.
SignalOnline ==
  /\ At("hand", "online") /\ ~forwarding
  /\ online' = TRUE /\ Goto("hand", "unlock")
  /\ UNCHANGED <<io, stage, closing, onStop, tx, forwarding, signals, broken, work>>

\* session.start: from here another connection may take over.
Start ==
  /\ At("hand", "unlock") /\ Goto("hand", "done")
  /\ UNCHANGED <<io, stage, closing, onStop, tx, online, forwarding, signals, broken,
                 work>>

\* stopNonAck: the writer is let go without being started.
StopNonAck ==
  /\ At("hand", "stop")
  /\ tx' = (IF tx = "new" THEN "started" ELSE tx)
  /\ Goto("hand", "close")
  /\ UNCHANGED <<io, stage, closing, onStop, online, forwarding, signals, broken, work>>

-----------------------------------------------------------------------------
(* The reader routine.                                                     *)

\* readPacket: a packet from the network, and maybe more for the buffer,
ReaderPacket ==
  /\ At("reader", "read") /\ buffer = 0
  /\ net = "up" /\ conn = "open" /\ ~deadline
  /\ \E n \in 0..MaxBuffer : buffer' = n
  /\ Goto("reader", "process")
  /\ UNCHANGED <<net, conn, connect, opening, cpc, keepAlive, deadline, stage, closing,
                 onStop, tx, online, forwarding, signals, broken, work>>

\* or from the buffer.
ReaderBuffered ==
  /\ At("reader", "read") /\ buffer > 0
  /\ buffer' = buffer - 1
  /\ Goto("reader", "process")
  /\ UNCHANGED <<net, conn, connect, opening, cpc, keepAlive, deadline, stage, closing,
                 onStop, tx, online, forwarding, signals, broken, work>>

\* processIncoming: a packet is answered, which may start the writer, and the reader
\* sets the deadline of the keep-alive time in place of any other; or the packet ends
\* the connection (DISCONNECT, an error).
ReaderProcess ==
  /\ At("reader", "process")
  /\ \/ /\ \E l \in {pc["writer"]} \cup (IF At("writer", "off") /\ tx = "started"
                                          THEN {"on"} ELSE {}) :
             pc' = [pc EXCEPT !["reader"] = "read", !["writer"] = l]
        /\ deadline' = (deadline /\ ~keepAlive)
        /\ UNCHANGED early
     \/ Goto("reader", "stop") /\ Ends /\ UNCHANGED deadline
  /\ UNCHANGED <<net, conn, connect, opening, cpc, keepAlive, buffer, stage, closing,
                 onStop, tx, online, forwarding, signals, broken, published>>

\* The network is gone, the connection is closed, the deadline of the close has passed
\* or the client was silent for the keep-alive time; then rx.wg.Done().
ReaderError ==
  /\ At("reader", "read") /\ buffer = 0
  /\ net = "down" \/ conn # "open" \/ deadline \/ keepAlive
  /\ Goto("reader", "close") /\ Ends
  /\ UNCHANGED <<io, stage, closing, onStop, tx, online, forwarding, signals, broken,
                 published>>

\* Mutant: every call of onStop.Do runs its function.
TakenOnce_Always == TRUE

\* types.Once.Do: the first call runs the function, others return at once.
TakenOnce == onStop = "no"

\* The error path of processIncoming: onStop.Do { SignalOffline; tx.stop }
ReaderStop ==
  /\ At("reader", "stop")
  /\ IF TakenOnce THEN onStop' = "running" /\ Goto("reader", "offline")
     ELSE UNCHANGED onStop /\ Goto("reader", "close")
  /\ UNCHANGED <<io, stage, closing, tx, online, forwarding, signals, broken, work>>

\* Mutant: the subscriber's lock is not taken.
SignalOffline_NoLock ==
  /\ online' = FALSE
  /\ signals' = [signals EXCEPT !.offline = @ + 1]

\* SignalOffline takes the subscriber's write lock.
SignalOffline ==
  /\ ~forwarding
  /\ online' = FALSE
  /\ signals' = [signals EXCEPT !.offline = @ + 1]

ReaderOffline ==
  /\ At("reader", "offline") /\ SignalOffline
  /\ Goto("reader", "txquit")
  /\ UNCHANGED <<io, stage, closing, onStop, tx, forwarding, broken, work>>

\* tx.stop: no packet is taken from the queues from now on,
ReaderTxQuit ==
  /\ At("reader", "txquit") /\ tx # "new"
  /\ tx' = "quit" /\ Goto("reader", "txwait")
  /\ UNCHANGED <<io, stage, closing, onStop, online, forwarding, signals, broken, work>>

\* and the routine that writes is waited for.
ReaderTxWait ==
  /\ At("reader", "txwait") /\ ~WriterRuns
  /\ onStop' = "done" /\ Goto("reader", "close")
  /\ UNCHANGED <<io, stage, closing, tx, online, forwarding, signals, broken, work>>

-----------------------------------------------------------------------------
(* The writer routine, and the publications that start it.                 *)

WriterEnds ==
  /\ WriterRuns /\ Goto("writer", "off")
  /\ UNCHANGED <<io, stage, closing, onStop, tx, online, forwarding, signals, broken,
                 work>>

\* A write fails; after tx.wg.Done() the routine closes the connection.
WriterError ==
  /\ WriterRuns /\ (net = "down" \/ conn # "open")
  /\ Goto("writer", "close") /\ Ends
  /\ UNCHANGED <<io, stage, closing, onStop, tx, online, forwarding, signals, broken,
                 published>>

\* Type.Publish under the read lock, to an online subscriber
Forward ==
  /\ online /\ ~forwarding /\ published < MaxPublish
  /\ forwarding' = TRUE /\ published' = published + 1
  /\ UNCHANGED <<io, pc, stage, closing, onStop, tx, online, signals, broken, early>>

\* impl.Publish: tx.send
Publish ==
  /\ forwarding /\ forwarding' = FALSE
  /\ broken' = (broken \/ tx = "nil")
  /\ IF At("writer", "off") /\ tx = "started" THEN Goto("writer", "on")
     ELSE UNCHANGED pc
  /\ UNCHANGED <<io, stage, closing, onStop, tx, online, signals, work>>

-----------------------------------------------------------------------------
(* The close.                                                              *)

\* session.stop from a takeover, which holds the lock that Start released
Stop ==
  /\ At("stopper", "idle") /\ At("hand", "done")
  /\ Goto("stopper", "close")
  /\ UNCHANGED <<io, stage, closing, onStop, tx, online, forwarding, signals, broken,
                 work>>

\* Mutant: whoever comes second goes on at once.
Waits_Not == FALSE

\* OnceWait.Do: whoever comes second waits.
Waits == closing.at # "done"

\* onConnectionClose: the first one in performs the close.
OnConnectionClose(x) ==
  /\ At(x, "close")
  /\ IF closing.by = None
     THEN /\ closing' = [by |-> x, at |-> IF stage = 1 THEN "stage1" ELSE "stage2"]
          /\ Goto(x, "closing")
     ELSE ~Waits /\ Goto(x, "returned") /\ UNCHANGED closing
  /\ UNCHANGED <<io, stage, onStop, tx, online, forwarding, signals, broken, work>>

Then(l) == closing' = [closing EXCEPT !.at = l]

\* onConnectionCloseStage1: nothing was started.
Stage1 ==
  /\ closing.at = "stage1" /\ tx # "new" /\ ~WriterRuns /\ ~ReaderRuns
  /\ connect' = "closed" /\ conn' = "nil" /\ tx' = "nil"
  /\ Then("finish")
  /\ UNCHANGED <<rx, net, opening, pc, cpc, stage, onStop, online, forwarding, signals,
                 broken, work>>

\* onConnectionCloseStage2, one step per wait: onStop.Do { set the read deadline,
Stage2 ==
  /\ closing.at = "stage2"
  /\ IF TakenOnce THEN onStop' = "running" /\ deadline' = TRUE /\ Then("rxwait")
     ELSE UNCHANGED <<onStop, deadline>> /\ Then("close")
  /\ UNCHANGED <<net, conn, connect, opening, cpc, keepAlive, buffer, pc, stage, tx, online,
                 forwarding, signals, broken, work>>

\* Mutant: the reader is not waited for.
ReaderOver_Any == TRUE

\* rx.wg.Wait()
ReaderOver == ~ReaderRuns

\* rx.shutdown,
Stage2Reader ==
  /\ closing.at = "rxwait" /\ ReaderOver /\ Then("offline")
  /\ UNCHANGED <<io, pc, stage, onStop, tx, online, forwarding, signals, broken, work>>

\* SignalOffline,
Stage2Offline ==
  /\ closing.at = "offline" /\ SignalOffline /\ Then("txquit")
  /\ UNCHANGED <<io, pc, stage, onStop, tx, forwarding, broken, work>>

\* tx.stop }
Stage2TxQuit ==
  /\ closing.at = "txquit" /\ tx # "new"
  /\ tx' = "quit" /\ Then("txwait")
  /\ UNCHANGED <<io, pc, stage, onStop, online, forwarding, signals, broken, work>>

Stage2TxWait ==
  /\ closing.at = "txwait" /\ ~WriterRuns
  /\ onStop' = "done" /\ Then("close")
  /\ UNCHANGED <<io, pc, stage, tx, online, forwarding, signals, broken, work>>

\* DISCONNECT is written if there is a reason, and the connection closed.
Stage2Close ==
  /\ closing.at = "close"
  /\ conn' = "closed" /\ Then("collect")
  /\ UNCHANGED <<rx, net, connect, opening, cpc, pc, stage, onStop, tx, online, forwarding,
                 signals, broken, work>>

\* rx.shutdown again, then getQueuedPackets takes what is left
Stage2Collect ==
  /\ closing.at = "collect" /\ ReaderOver
  /\ conn' = "nil" /\ tx' = "nil" /\ Then("signal")
  /\ UNCHANGED <<rx, net, connect, opening, cpc, pc, stage, onStop, online, forwarding,
                 signals, broken, work>>

SignalConnectionClose ==
  /\ closing.at = "signal"
  /\ signals' = [signals EXCEPT !.close = @ + 1]
  /\ Then("finish")
  /\ UNCHANGED <<io, pc, stage, onStop, tx, online, forwarding, broken, work>>

\* The function returns, and OnceWait lets the others go.
Finish ==
  /\ closing.at = "finish"
  /\ Then("done") /\ Goto(closing.by, "returned")
  /\ UNCHANGED <<io, stage, onStop, tx, online, forwarding, signals, broken, work>>

Close ==
  \/ \E x \in Actors : OnConnectionClose(x)
  \/ Stage1 \/ Stage2 \/ Stage2Reader \/ Stage2Offline \/ Stage2TxQuit \/ Stage2TxWait
  \/ Stage2Close \/ Stage2Collect \/ SignalConnectionClose \/ Finish

-----------------------------------------------------------------------------
NetDown ==
  /\ net = "up" /\ net' = "down"
  /\ UNCHANGED <<rx, conn, connect, opening, cpc, pc, stage, closing, onStop, tx, online,
                 forwarding, signals, broken, work>>

Hand ==
  \/ Accept \/ OnConnection \/ NewSession \/ Acknowledge \/ TxStart \/ RxRun
  \/ SignalOnline \/ Start \/ StopNonAck

Reader ==
  \/ ReaderBuffered \/ ReaderProcess \/ ReaderError
  \/ ReaderStop \/ ReaderOffline \/ ReaderTxQuit \/ ReaderTxWait
Writer == WriterEnds \/ WriterError

Next ==
  \/ Hand \/ ConnectionRoutine \/ ReaderPacket \/ Reader \/ Writer
  \/ Forward \/ Publish \/ Stop \/ Close \/ NetDown

Spec == Init /\ [][Next]_vars

\* Goroutines that can run do, and a read deadline that nobody moves passes.  A client
\* need not send, a message need not come, nobody need take over and the network need
\* not fail.
FairSpec ==
  /\ Spec
  /\ WF_vars(Hand) /\ WF_vars(ConnectionRoutine) /\ WF_vars(Reader) /\ WF_vars(Writer)
  /\ WF_vars(Publish) /\ SF_vars(SignalOnline) /\ SF_vars(ReaderOffline)
  /\ SF_vars(Stage2Offline) /\ WF_vars(Finish) /\ WF_vars(Stage1) /\ WF_vars(Stage2)
  /\ WF_vars(Stage2Reader) /\ WF_vars(Stage2TxQuit) /\ WF_vars(Stage2TxWait)
  /\ WF_vars(Stage2Close) /\ WF_vars(Stage2Collect) /\ WF_vars(SignalConnectionClose)
  /\ \A x \in Actors : WF_vars(OnConnectionClose(x))

-----------------------------------------------------------------------------
(* Properties.                                                             *)

\* The variables have their types.
TypeOK ==
  /\ net \in {"up", "down"} /\ conn \in {"open", "closed", "nil"}
  /\ connect \in {"open", "closed"} /\ opening \in Connects \cup {"bad", None}
  /\ DOMAIN pc = Actors /\ cpc \in {"off", "read", "send"} /\ stage \in {1, 2}
  /\ closing.by \in Actors \cup {None} /\ onStop \in {"no", "running", "done"}
  /\ tx \in {"new", "started", "quit", "nil"} /\ online \in BOOLEAN
  /\ forwarding \in BOOLEAN /\ broken \in BOOLEAN /\ early \in BOOLEAN
  /\ signals \in [offline : 0..1, close : 0..1]
  /\ published \in 0..MaxPublish
  /\ keepAlive \in BOOLEAN /\ deadline \in BOOLEAN /\ buffer \in 0..MaxBuffer

\* Whoever of the reader, the writer and a takeover ends an acknowledged
\* connection, and whoever of them comes second, the session is told that it is
\* offline exactly once, and of the close exactly once and only after that.
SignalledOnce ==
  /\ signals.offline <= 1 /\ signals.close <= signals.offline
  /\ closing.at = "done" /\ stage = 2 => signals.close = 1

\* When the packets that are left in the queues are collected for the session no
\* reader and no writer routine runs that could still take one or add one, and the
\* subscriber forwards nothing (getQueuedPackets after rx.shutdown and tx.stop), as
\* long as the connection did not end before the handshake signalled online.
CollectedQuietly ==
  ~early /\ closing.at = "signal" => ~ReaderRuns /\ ~WriterRuns /\ ~forwarding /\ ~online

\* No publication is forwarded to a connection whose writer is gone (impl.Publish
\* uses s.tx, which the close sets to nil), with the same exception.
NoNilWriter == ~early => ~broken

\* ... and without it: Acknowledge starts the routines before it signals online.
NeverNilWriter == ~broken

\* A Stop that returns has seen the close through: the session that takes over finds
\* everything persisted (OnceWait.Do).
StopCompletes == pc["stopper"] = "returned" => signals.close = 1

\* "no call to Do returns until the one call to f returns": the close goes on after
\* onStop.Do only when the writer has been stopped, by itself or by the reader.
OnceReturns == closing.at \in {"close", "collect", "signal"} => onStop = "done"

\* The client sends nothing more.
Silent == <>[][~ReaderPacket]_vars


\* "gracefully shutdown receiver by setting some small ReadDeadline": the close ends also
\* when the client goes on sending.
CloseEnds == \A x \in Actors : pc[x] \in {"close", "closing"} ~> pc[x] = "returned"
=============================================================================
