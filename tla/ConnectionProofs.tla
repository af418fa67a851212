-------------------------- MODULE ConnectionProofs --------------------------
(***************************************************************************)
(* The safety properties of Connection, for any number of publications and *)
(* packets: the session is told exactly once that a connection ended,      *)
(* whoever ends it; a Stop that returns has seen the close through; and    *)
(* what is left in the queues is collected when nobody uses them.          *)
(***************************************************************************)
EXTENDS Connection, TLAPS

HandPC == {"new", "wait", "load", "ack", "nack", "start", "run", "online", "unlock",
           "done", "stop", "close", "closing", "returned"}
ReaderPC == {"off", "read", "process", "stop", "offline", "txquit", "txwait", "close",
             "closing", "returned"}
WriterPC == {"off", "on", "close", "closing", "returned"}
StopperPC == {"idle", "close", "closing", "returned"}

Places == {"no", "stage1", "stage2", "rxwait", "offline", "txquit", "txwait", "close",
           "collect", "signal", "finish", "done"}

\* The types, by what the variables are about.
PcTypes ==
  /\ DOMAIN pc = Actors /\ pc["hand"] \in HandPC /\ pc["reader"] \in ReaderPC
  /\ pc["writer"] \in WriterPC /\ pc["stopper"] \in StopperPC

CloseTypes ==
  /\ closing \in [by : Actors \cup {None}, at : Places]
  /\ onStop \in {"no", "running", "done"} /\ stage \in {1, 2}
  /\ tx \in {"new", "started", "quit", "nil"}

SignalTypes == signals \in [offline : {0, 1}, close : {0, 1}]

FlagTypes == /\ online \in BOOLEAN /\ forwarding \in BOOLEAN
             /\ broken \in BOOLEAN /\ early \in BOOLEAN

Types == PcTypes /\ CloseTypes /\ SignalTypes /\ FlagTypes

\* One goroutine performs the close, and it is there until the close is over.
OneCloses ==
  /\ closing.by = None <=> closing.at = "no"
  /\ \A x \in Actors : pc[x] = "closing" <=> closing.by = x /\ closing.at # "done"
  /\ \A x \in {"reader", "writer", "stopper"} : pc[x] = "returned" => closing.at = "done"

\* Before the CONNACK there is only the handshake.
Stage1Inv ==
  stage = 1 =>
    /\ pc["reader"] = "off" /\ pc["writer"] = "off" /\ pc["stopper"] = "idle"
    /\ pc["hand"] \notin {"start", "run", "online", "unlock", "done"}
    /\ pc["hand"] \notin {"close", "closing", "returned"} => tx = "new" /\ closing.at = "no"
    /\ closing.at \in {"no", "stage1", "finish", "done"}
    /\ onStop = "no" /\ ~online /\ ~forwarding
    /\ signals.offline = 0 /\ signals.close = 0 /\ ~broken

\* After it the handshake starts the routines one after the other.
Stage2Inv ==
  stage = 2 =>
    /\ pc["hand"] \in {"start", "run", "online", "unlock", "done", "returned"}
    /\ closing.at # "stage1"
    /\ pc["hand"] = "start" => tx = "new" /\ pc["writer"] = "off" /\ closing.at = "no"
    /\ pc["hand"] \in {"start", "run"} => pc["reader"] = "off"
    /\ pc["hand"] = "returned" => pc["reader"] = "off" /\ early
    /\ pc["hand"] # "done" => pc["stopper"] = "idle"
    /\ pc["hand"] # "start" => tx # "new"
    /\ tx = "nil" <=> closing.at \in {"signal", "finish", "done"}

\* Who runs the function of onStop, and how far it is.
ReaderStops == pc["reader"] \in {"offline", "txquit", "txwait"}
CloseStops == closing.at \in {"rxwait", "offline", "txquit", "txwait"}
OffSignalled == \/ onStop = "done"
                \/ pc["reader"] \in {"txquit", "txwait"} \/ closing.at \in {"txquit", "txwait"}

OnStopInv ==
  /\ onStop = "running" <=> ReaderStops \/ CloseStops
  /\ ~(ReaderStops /\ CloseStops)
  /\ signals.offline = 1 <=> OffSignalled
  /\ onStop = "done" \/ pc["reader"] = "txwait" \/ closing.at = "txwait" =>
       tx \in {"quit", "nil"}
  /\ onStop = "done" => ~WriterRuns
  /\ closing.at \in {"close", "collect"} => onStop # "no"
  /\ stage = 2 /\ closing.at \in {"signal", "finish", "done"} => onStop = "done" /\ ~ReaderRuns
  /\ signals.close = 1 <=> stage = 2 /\ closing.at \in {"finish", "done"}

\* A routine that ended before the handshake was over is early.
Ended == \/ pc["reader"] \notin {"off", "read", "process"} \/ pc["writer"] \notin {"off", "on"}
         \/ pc["stopper"] # "idle"

NotEarly ==
  /\ ~early /\ Ended => pc["hand"] \in {"unlock", "done"}
  /\ (stage = 2 /\ closing.by # None) \/ onStop # "no" => Ended
  /\ ~early => ~broken
  /\ ~early /\ signals.offline = 1 => ~online /\ ~forwarding

\* The inductive invariant.  SignalledOnce is not inductive: which of the reader and the
\* close runs the function of onStop, and how far it is, has to be known (OnStopInv), and
\* that only one goroutine closes (OneCloses).
IInv == Types /\ OneCloses /\ Stage1Inv /\ Stage2Inv /\ OnStopInv /\ NotEarly

\* Ends: a routine that is not early ends after the handshake.
LEMMA EndsFacts ==
  ASSUME FlagTypes, Ends
  PROVE  /\ early' \in BOOLEAN /\ (early => early')
         /\ ~early' => pc["hand"] \in {"unlock", "done"}
BY Zenon DEF FlagTypes, Ends

-----------------------------------------------------------------------------
\* New: nothing has been started.
LEMMA InitInv == Init => IInv
<1> SUFFICES ASSUME Init PROVE IInv  OBVIOUS
<1> USE DEF Init, HandPC, ReaderPC, WriterPC, StopperPC, Places, ReaderStops, CloseStops,
    OffSignalled, Ended, WriterRuns, ReaderRuns, Actors, None
<1>1. PcTypes  BY DEF PcTypes
<1>2. CloseTypes  BY DEF CloseTypes
<1>3. SignalTypes  BY DEF SignalTypes
<1>4. FlagTypes  BY Zenon DEF FlagTypes
<1>5. OneCloses  BY DEF OneCloses
<1>6. Stage1Inv  BY DEF Stage1Inv
<1>7. Stage2Inv  BY DEF Stage2Inv
<1>8. OnStopInv  BY DEF OnStopInv
<1>9. NotEarly  BY DEF NotEarly
<1> QED BY <1>1, <1>2, <1>3, <1>4, <1>5, <1>6, <1>7, <1>8, <1>9 DEF IInv, Types

\* One case per action.  Where flags change, the cases of their types are for Zenon.
LEMMA StepInv ==
  ASSUME IInv, [Next]_vars
  PROVE  IInv'
<1> USE DEF IInv, Types, PcTypes, CloseTypes, SignalTypes, FlagTypes, OneCloses, Stage1Inv,
    Stage2Inv, OnStopInv, NotEarly,
    HandPC, ReaderPC, WriterPC, StopperPC, Places, ReaderStops, CloseStops, OffSignalled,
    Ended, WriterRuns, ReaderRuns, Actors, None,
    At, Goto, Then, io, rx, work, TakenOnce, SignalOffline, Waits, ReaderOver
<1>1. CASE Accept  BY <1>1 DEF Accept
<1>2. CASE ConnectionRoutine  BY <1>2 DEF ConnectionRoutine
<1>3. CASE OnConnection  BY <1>3 DEF OnConnection
<1>4. CASE NewSession  BY <1>4 DEF NewSession
<1>5. CASE Acknowledge
  <2>1. PcTypes'  BY <1>5 DEF Acknowledge
  <2>2. CloseTypes'  BY <1>5 DEF Acknowledge
  <2>3. SignalTypes'  BY <1>5 DEF Acknowledge
  <2>4. FlagTypes'  BY Zenon, <1>5 DEF Acknowledge
  <2>5. OneCloses'  BY <1>5 DEF Acknowledge
  <2>6. Stage1Inv'  BY <1>5 DEF Acknowledge
  <2>7. Stage2Inv'  BY <1>5 DEF Acknowledge
  <2>8. OnStopInv'  BY <1>5 DEF Acknowledge
  <2>9. NotEarly'  BY <1>5 DEF Acknowledge
  <2> QED  BY <2>1, <2>2, <2>3, <2>4, <2>5, <2>6, <2>7, <2>8, <2>9
<1>6. CASE TxStart  BY <1>6 DEF TxStart
<1>7. CASE RxRun
  <2>1. PcTypes'  BY <1>7 DEF RxRun
  <2>2. CloseTypes'  BY <1>7 DEF RxRun
  <2>3. SignalTypes'  BY <1>7 DEF RxRun
  <2>4. FlagTypes'  BY Zenon, <1>7 DEF RxRun
  <2>5. OneCloses'  BY <1>7 DEF RxRun
  <2>6. Stage1Inv'  BY <1>7 DEF RxRun
  <2>7. Stage2Inv'  BY <1>7 DEF RxRun
  <2>8. OnStopInv'  BY <1>7 DEF RxRun
  <2>9. NotEarly'  BY <1>7 DEF RxRun
  <2> QED  BY <2>1, <2>2, <2>3, <2>4, <2>5, <2>6, <2>7, <2>8, <2>9
<1>8. CASE SignalOnline
  <2>1. PcTypes'  BY <1>8 DEF SignalOnline
  <2>2. CloseTypes'  BY <1>8 DEF SignalOnline
  <2>3. SignalTypes'  BY <1>8 DEF SignalOnline
  <2>4. FlagTypes'  BY Zenon, <1>8 DEF SignalOnline
  <2>5. OneCloses'  BY <1>8 DEF SignalOnline
  <2>6. Stage1Inv'  BY <1>8 DEF SignalOnline
  <2>7. Stage2Inv'  BY <1>8 DEF SignalOnline
  <2>8. OnStopInv'  BY <1>8 DEF SignalOnline
  <2>9. NotEarly'  BY <1>8 DEF SignalOnline
  <2> QED  BY <2>1, <2>2, <2>3, <2>4, <2>5, <2>6, <2>7, <2>8, <2>9
<1>9. CASE Start  BY <1>9 DEF Start
<1>10. CASE StopNonAck  BY <1>10 DEF StopNonAck
<1>11. CASE ReaderProcess
  <2>1. PcTypes'  BY <1>11 DEF ReaderProcess
  <2>2. CloseTypes'  BY <1>11 DEF ReaderProcess
  <2>3. SignalTypes'  BY <1>11 DEF ReaderProcess
  <2>4. FlagTypes'  BY Zenon, <1>11, EndsFacts DEF ReaderProcess
  <2>5. OneCloses'  BY <1>11 DEF ReaderProcess
  <2>6. Stage1Inv'  BY <1>11 DEF ReaderProcess
  <2>7. Stage2Inv'  BY <1>11, EndsFacts DEF ReaderProcess
  <2>8. OnStopInv'  BY <1>11 DEF ReaderProcess
  <2>9. NotEarly'  BY <1>11, <2>4, EndsFacts DEF ReaderProcess
  <2> QED  BY <2>1, <2>2, <2>3, <2>4, <2>5, <2>6, <2>7, <2>8, <2>9
<1>12. CASE ReaderError
  <2>1. PcTypes'  BY <1>12 DEF ReaderError
  <2>2. CloseTypes'  BY <1>12 DEF ReaderError
  <2>3. SignalTypes'  BY <1>12 DEF ReaderError
  <2>4. FlagTypes'  BY Zenon, <1>12, EndsFacts DEF ReaderError
  <2>5. OneCloses'  BY <1>12 DEF ReaderError
  <2>6. Stage1Inv'  BY <1>12 DEF ReaderError
  <2>7. Stage2Inv'  BY <1>12, EndsFacts DEF ReaderError
  <2>8. OnStopInv'  BY <1>12 DEF ReaderError
  <2>9. NotEarly'  BY <1>12, <2>4, EndsFacts DEF ReaderError
  <2> QED  BY <2>1, <2>2, <2>3, <2>4, <2>5, <2>6, <2>7, <2>8, <2>9
<1>13. CASE ReaderStop  BY <1>13 DEF ReaderStop
<1>14. CASE ReaderOffline
  <2>1. PcTypes'  BY <1>14 DEF ReaderOffline
  <2>2. CloseTypes'  BY <1>14 DEF ReaderOffline
  <2>3. SignalTypes'  BY <1>14 DEF ReaderOffline
  <2>4. FlagTypes'  BY Zenon, <1>14 DEF ReaderOffline
  <2>5. OneCloses'  BY <1>14 DEF ReaderOffline
  <2>6. Stage1Inv'  BY <1>14 DEF ReaderOffline
  <2>7. Stage2Inv'  BY <1>14 DEF ReaderOffline
  <2>8. OnStopInv'  BY <1>14 DEF ReaderOffline
  <2>9. NotEarly'  BY <1>14 DEF ReaderOffline
  <2> QED  BY <2>1, <2>2, <2>3, <2>4, <2>5, <2>6, <2>7, <2>8, <2>9
<1>15. CASE ReaderTxQuit  BY <1>15 DEF ReaderTxQuit
<1>16. CASE ReaderTxWait  BY <1>16 DEF ReaderTxWait
<1>17. CASE WriterEnds  BY <1>17 DEF WriterEnds
<1>18. CASE WriterError
  <2>1. PcTypes'  BY <1>18 DEF WriterError
  <2>2. CloseTypes'  BY <1>18 DEF WriterError
  <2>3. SignalTypes'  BY <1>18 DEF WriterError
  <2>4. FlagTypes'  BY Zenon, <1>18, EndsFacts DEF WriterError
  <2>5. OneCloses'  BY <1>18 DEF WriterError
  <2>6. Stage1Inv'  BY <1>18 DEF WriterError
  <2>7. Stage2Inv'  BY <1>18, EndsFacts DEF WriterError
  <2>8. OnStopInv'  BY <1>18 DEF WriterError
  <2>9. NotEarly'  BY <1>18, <2>4, EndsFacts DEF WriterError
  <2> QED  BY <2>1, <2>2, <2>3, <2>4, <2>5, <2>6, <2>7, <2>8, <2>9
<1>19. CASE Forward  BY <1>19 DEF Forward
<1>20. CASE Publish
  <2>1. PcTypes'  BY <1>20 DEF Publish
  <2>2. CloseTypes'  BY <1>20 DEF Publish
  <2>3. SignalTypes'  BY <1>20 DEF Publish
  <2>4. FlagTypes'  BY Zenon, <1>20 DEF Publish
  <2>5. OneCloses'  BY <1>20 DEF Publish
  <2>6. Stage1Inv'  BY <1>20 DEF Publish
  <2>7. Stage2Inv'  BY <1>20 DEF Publish
  <2>8. OnStopInv'  BY <1>20 DEF Publish
  <2>9. NotEarly'  BY <1>20 DEF Publish
  <2> QED  BY <2>1, <2>2, <2>3, <2>4, <2>5, <2>6, <2>7, <2>8, <2>9
<1>21. CASE Stop  BY <1>21 DEF Stop
<1>22. CASE Stage1  BY <1>22 DEF Stage1
<1>23. CASE Stage2  BY <1>23 DEF Stage2
<1>24. CASE Stage2Reader  BY <1>24 DEF Stage2Reader
<1>25. CASE Stage2Offline
  <2>1. PcTypes'  BY <1>25 DEF Stage2Offline
  <2>2. CloseTypes'  BY <1>25 DEF Stage2Offline
  <2>3. SignalTypes'  BY <1>25 DEF Stage2Offline
  <2>4. FlagTypes'  BY Zenon, <1>25 DEF Stage2Offline
  <2>5. OneCloses'  BY <1>25 DEF Stage2Offline
  <2>6. Stage1Inv'  BY <1>25 DEF Stage2Offline
  <2>7. Stage2Inv'  BY <1>25 DEF Stage2Offline
  <2>8. OnStopInv'  BY <1>25 DEF Stage2Offline
  <2>9. NotEarly'  BY <1>25 DEF Stage2Offline
  <2> QED  BY <2>1, <2>2, <2>3, <2>4, <2>5, <2>6, <2>7, <2>8, <2>9
<1>26. CASE Stage2TxQuit  BY <1>26 DEF Stage2TxQuit
<1>27. CASE Stage2TxWait  BY <1>27 DEF Stage2TxWait
<1>28. CASE Stage2Close  BY <1>28 DEF Stage2Close
<1>29. CASE Stage2Collect  BY <1>29 DEF Stage2Collect
<1>30. CASE SignalConnectionClose  BY <1>30 DEF SignalConnectionClose
<1>31. CASE Finish  BY <1>31 DEF Finish
<1>32. CASE NetDown  BY <1>32 DEF NetDown
<1>35. CASE ReaderPacket  BY <1>35 DEF ReaderPacket
<1>36. CASE ReaderBuffered  BY <1>36 DEF ReaderBuffered
<1>33. ASSUME NEW x \in Actors, OnConnectionClose(x)  PROVE IInv'
  BY <1>33 DEF OnConnectionClose
<1>34. CASE UNCHANGED vars  BY <1>34 DEF vars
<1> QED  BY Zenon, <1>1, <1>2, <1>3, <1>4, <1>5, <1>6, <1>7, <1>8, <1>9, <1>10, <1>11, <1>12,
    <1>13, <1>14, <1>15, <1>16, <1>17, <1>18, <1>19, <1>20, <1>21, <1>22, <1>23, <1>24, <1>25,
    <1>26, <1>27, <1>28, <1>29, <1>30, <1>31, <1>32, <1>33, <1>34, <1>35,
    <1>36
    DEF Next, Hand, Reader, Writer, Close

\* The invariant holds in every reachable state.
THEOREM Invariance == Spec => []IInv
BY InitInv, StepInv, PTL DEF Spec

\* However an acknowledged connection ends, the session is told once that it is offline
\* and once, after that, of the close (onStop, onConnDisconnect).
THEOREM Signalled == Spec => []SignalledOnce
<1>1. IInv => SignalledOnce
  BY DEF IInv, Types, CloseTypes, SignalTypes, OnStopInv, OffSignalled, Stage1Inv, SignalledOnce
<1> QED  BY <1>1, Invariance, PTL

\* A Stop that returns has seen the close through (OnceWait.Do).
THEOREM StopSeesClose == Spec => []StopCompletes
<1>1. IInv => StopCompletes
  BY DEF IInv, Types, CloseTypes, OneCloses, Stage1Inv, OnStopInv, StopCompletes
<1> QED  BY <1>1, Invariance, PTL

\* Nobody uses the queues when getQueuedPackets empties them, unless a routine ended
\* before the handshake signalled online.
THEOREM QuietCollection == Spec => []CollectedQuietly
<1>1. IInv => CollectedQuietly
  <2> SUFFICES ASSUME IInv, ~early, closing.at = "signal"
               PROVE  ~ReaderRuns /\ ~WriterRuns /\ ~forwarding /\ ~online
    BY DEF CollectedQuietly
  <2>1. stage = 2  BY DEF IInv, Types, CloseTypes, Stage1Inv
  <2>2. onStop = "done" /\ ~ReaderRuns /\ ~WriterRuns  BY <2>1 DEF IInv, OnStopInv
  <2>3. signals.offline = 1  BY <2>2 DEF IInv, OnStopInv, OffSignalled
  <2>4. ~online /\ ~forwarding  BY <2>3 DEF IInv, NotEarly
  <2> QED  BY <2>2, <2>4
<1> QED  BY <1>1, Invariance, PTL

\* impl.Publish and rx.run find the writer and the reader, with the same exception.
THEOREM WriterThere == Spec => []NoNilWriter
<1>1. IInv => NoNilWriter  BY DEF IInv, NotEarly, NoNilWriter
<1> QED  BY <1>1, Invariance, PTL
=============================================================================
