------------------------------ MODULE Sessions ------------------------------
(***************************************************************************)
(* The session manager of clients/, seen from one client id: the map entry *)
(* of the id, the containers, session objects and subscribers behind it,   *)
(* the expiry timers, and the network connections that use the id.         *)
(*                                                                         *)
(* Each connection has two goroutines: the one of OnConnection, which      *)
(* loads the container, acknowledges the connection and takes it online    *)
(* (field pc), and the one that runs the close of the connection, which is *)
(* the reader, the taker or Manager.Stop (field life).  Timer callbacks    *)
(* and Manager.Stop are actors of their own.                               *)
(*                                                                         *)
(* A container, a session object and a subscriber are each allocated by a  *)
(* connection at most once, and are named by it.                           *)
(***************************************************************************)
EXTENDS Integers, FiniteSets

CONSTANTS
  Conns,           \* the connections that use the client id
  None,            \* nil
  Kinds,           \* the CONNECT packets the clients may send: records of
                   \*   v5, clean, durable, expire, will (see KindType)
  Ops,             \* the packets they may send later: a subset of
                   \*   {"subscribe", "unsubscribe", "disconnect"}
  Established,     \* a connection that is up and subscribed initially, or None
  SessionPreempt,  \* the settings of that option: may a new connection replace
                   \*   the old one?
  AckFails,        \* writing the CONNACK may fail
  StoreFails,      \* persistence.Create may fail
  Shutdown         \* Manager.Stop may be called

\* params.ExpireIn: absent, 0 or positive.  A Will may have a delay.
KindType == [v5 : BOOLEAN, clean : BOOLEAN, durable : BOOLEAN,
             expire : {"nil", "zero", "some"},
             will : {"none", "now", "delayed"}]

ASSUME ConstAssumption ==
  /\ None \notin Conns /\ Established \in Conns \cup {None}
  /\ "persist" \notin Conns /\ "nowhere" \notin Conns
  /\ Kinds \subseteq KindType /\ Kinds # {}
  /\ Ops \subseteq {"subscribe", "unsubscribe", "disconnect"}
  /\ SessionPreempt \subseteq BOOLEAN /\ AckFails \in BOOLEAN
  /\ StoreFails \in BOOLEAN /\ Shutdown \in BOOLEAN
  \* onConnect: params.Durable, from CleanStart (v3) or ExpireIn (v5)
  /\ \A k \in Kinds : IF k.v5 THEN k.durable = (k.expire = "some")
                      ELSE /\ k.durable = ~k.clean /\ k.expire = "nil"
                           /\ k.will # "delayed"

VARIABLES
  stored,     \* m.sessions: the container of the id, or None
  cont,       \* the containers
  con,        \* the connections with their session objects
  obj,        \* the subscribers
  persisted,  \* persistence has an entry for the id
  sessionsCount, expiryCount,   \* the wait groups of the manager
  wills,      \* the connections whose Will has been published
  mgr,        \* the manager: Stop and the option SessionPreempt
  panicked    \* why the process died, or "no"

vars == <<stored, cont, con, obj, persisted, sessionsCount, expiryCount,
          wills, mgr, panicked>>

Maybe == Conns \cup {None}

ContType == [lock : {"free", "held"}, rmLock : {"free", "held"}, ses : Maybe,
             sub : Maybe, removable : BOOLEAN, removed : BOOLEAN,
             \* expiry: "spent" has fired for the last time, or was stopped by
             \* Manager.Stop, and is still referenced by the container; "stuck" has
             \* fired while cancel holds timerLock, so its callback never runs
             timer : {"none", "armed", "fired", "spent", "stuck"},
             \* what is left to do when it fires
             due : {"will", "both", "expire"}, willOf : Maybe]

ConType == [kind : Kinds, durable : BOOLEAN, expire : {"nil", "zero", "some"},
            will : {"none", "now", "delayed"},
            pc : {"new", "acquire", "fence", "session", "stop", "wait",
                  "cancel", "hung", "look", "subscriber", "ack", "online",
                  "start", "up", "failed", "rejected"},
            life : {"new", "live", "offline", "close", "gone", "wipe", "closed"},
            cur : Maybe, old : Maybe, idLock : Maybe, sub : Maybe,
            stopReq : {"free", "taken"}, keep : BOOLEAN]

\* A subscriber: where its publisher sends a message, and whether it has topics.
ObjType == [to : Conns \cup {"persist", "nowhere"}, topics : BOOLEAN]

-----------------------------------------------------------------------------
(* Initially nothing is known of the id, or one connection is up.          *)

\* allocContainer: a container whose lock is held, with the new session in it
FreshContainer(c) ==
  [lock |-> "held", rmLock |-> "free", ses |-> c, sub |-> None,
   removable |-> TRUE, removed |-> FALSE, timer |-> "none", due |-> "will",
   willOf |-> None]

Unconnected(k) ==
  [kind |-> k, durable |-> k.durable, expire |-> k.expire, will |-> k.will,
   pc |-> "new", life |-> "new", cur |-> None, old |-> None, idLock |-> None,
   sub |-> None, stopReq |-> "free", keep |-> FALSE]

Init ==
  /\ \E kind \in [Conns -> Kinds] :
       con = [c \in Conns |->
                IF c = Established
                THEN [Unconnected(kind[c]) EXCEPT !.pc = "up", !.life = "live",
                                                  !.idLock = c, !.sub = c]
                ELSE Unconnected(kind[c])]
  /\ cont = [c \in Conns |->
               IF c = Established
               THEN [FreshContainer(c) EXCEPT !.lock = "free", !.sub = c]
               ELSE FreshContainer(c)]
  /\ obj = [c \in Conns |-> IF c = Established
                            THEN [to |-> c, topics |-> TRUE]
                            ELSE [to |-> "persist", topics |-> FALSE]]
  /\ stored = Established
  /\ persisted = (Established # None)
  /\ sessionsCount = IF Established = None THEN 0 ELSE 1
  /\ expiryCount = 0
  /\ wills = {}
  /\ \E p \in SessionPreempt :
       mgr = [pc |-> "run", k |-> None, s |-> None, preempt |-> p]
  /\ panicked = "no"

-----------------------------------------------------------------------------
(* The subscriber.                                                         *)

\* Mutant: the subscriptions are dropped whenever the session goes offline.
Offline_AlwaysQuits(o, shutdown) == [to |-> "nowhere", topics |-> FALSE]

\* Offline(FALSE): messages go to persistence.  Offline(TRUE): the subscriber
\* quits for good and drops its subscriptions; a second call returns at once.
Offline(o, shutdown) ==
  IF obj[o].to = "nowhere" THEN obj[o]
  ELSE IF shutdown THEN [to |-> "nowhere", topics |-> FALSE]
  ELSE [obj[o] EXCEPT !.to = "persist"]

\* The effect of subscriberShutdown: it looks the container up by the id.
SubscriberShutdown ==
  IF stored = None \/ cont[stored].sub = None THEN obj
  ELSE [obj EXCEPT ![cont[stored].sub] = Offline(cont[stored].sub, TRUE)]

\* Online: the publisher is replaced; a subscriber that has quit drops the
\* messages before it comes to the publisher.
Online(o, c) == IF obj[o].to = "nowhere" THEN obj[o]
                ELSE [obj[o] EXCEPT !.to = c]

-----------------------------------------------------------------------------
(* OnConnection: newSession and loadContainer.                             *)

Free(k) == cont[k].rmLock = "free"

\* sessionsCount.Add(1)
Added == sessionsCount + 1

\* The first LoadOrStore of loadContainer.
LoadOrStore(c) ==
  /\ con[c].pc = "new" /\ mgr.pc = "run"
  /\ IF stored = None
     THEN /\ stored' = c
          /\ sessionsCount' = Added
          /\ con' = [con EXCEPT ![c].pc = "subscriber", ![c].cur = c,
                                ![c].idLock = c]
          /\ UNCHANGED cont
     ELSE /\ cont' = [cont EXCEPT ![c].lock = "free"]
          /\ con' = [con EXCEPT ![c].pc = "acquire", ![c].cur = stored,
                                ![c].idLock = c]
          /\ UNCHANGED <<stored, sessionsCount>>
  /\ UNCHANGED <<obj, persisted, expiryCount, wills, mgr, panicked>>

\* Mutant: the container is used without its lock.
Acquire_NoLock(c) ==
  /\ con[c].pc = "acquire"
  /\ con' = [con EXCEPT ![c].pc = "fence"]
  /\ UNCHANGED <<stored, cont, obj, persisted, sessionsCount, expiryCount, wills,
                 mgr, panicked>>

\* currContainer.acquire()
Acquire(c) ==
  /\ con[c].pc = "acquire"
  /\ cont[con[c].cur].lock = "free"
  /\ cont' = [cont EXCEPT ![con[c].cur].lock = "held"]
  /\ con' = [con EXCEPT ![c].pc = "fence"]
  /\ UNCHANGED <<stored, obj, persisted, sessionsCount, expiryCount, wills, mgr,
                 panicked>>

\* currContainer.setRemovable(false)
Fence(c) ==
  /\ con[c].pc = "fence" /\ Free(con[c].cur)
  /\ cont' = [cont EXCEPT ![con[c].cur].removable = FALSE]
  /\ con' = [con EXCEPT ![c].pc = "session"]
  /\ UNCHANGED <<stored, obj, persisted, sessionsCount, expiryCount, wills, mgr,
                 panicked>>

\* m.Options.SessionPreempt
Preempts == mgr.preempt

\* currContainer.session(), and the rejection of the new connection when
\* replacing the current one is not allowed
Session(c) ==
  LET k == con[c].cur  current == cont[k].ses IN
  /\ con[c].pc = "session" /\ Free(k)
  /\ IF current # None /\ ~Preempts
     THEN /\ cont' = [cont EXCEPT ![k].removable = TRUE, ![k].lock = "free"]
          /\ con' = [con EXCEPT ![c].pc = "rejected", ![c].life = "closed"]
     ELSE /\ con' = [con EXCEPT ![c].pc = IF current = None THEN "cancel"
                                          ELSE "stop",
                                ![c].old = current]
          /\ UNCHANGED cont
  /\ UNCHANGED <<stored, obj, persisted, sessionsCount, expiryCount, wills, mgr,
                 panicked>>

\* session.stop: conn.Stop the first time it is called.  A connection that is
\* not acknowledged closes without telling the session; one that is up starts
\* to close; if it is closing already Stop waits for it.  One whose CONNACK or
\* entry failed has closed by stopNonAck, which is called once more and finds no
\* writer (NilWriter).
StopEffect(s) ==
  [con[s] EXCEPT !.stopReq = "taken",
                 !.life = CASE @ = "new"  -> "closed"
                            [] @ = "live" -> "offline"
                            [] OTHER      -> @]

NilWriter(s) == con[s].stopReq = "free" /\ con[s].life = "closed"

\* Mutant: the old connection is left alone.
StopCurrent_NoStop(c) ==
  /\ con[c].pc = "stop"
  /\ con' = [con EXCEPT ![c].pc = "cancel"]
  /\ UNCHANGED <<stored, cont, obj, persisted, sessionsCount, expiryCount, wills,
                 mgr, panicked>>

\* current.stop(CodeSessionTakenOver).  The panic of a nil writer is recovered by
\* OnConnection; what becomes of the taker then is not followed.
StopCurrent(c) ==
  LET s == con[c].old IN
  /\ con[c].pc = "stop"
  /\ con' = IF NilWriter(s) THEN con
            ELSE IF con[s].stopReq = "taken" THEN [con EXCEPT ![c].pc = "cancel"]
            ELSE [con EXCEPT ![s] = StopEffect(s), ![c].pc = "wait"]
  /\ panicked' = IF NilWriter(s) THEN "writer" ELSE panicked
  /\ UNCHANGED <<stored, cont, obj, persisted, sessionsCount, expiryCount, wills,
                 mgr>>

\* Mutant: the taker does not wait for the close of the old connection.
StopReturns_NoWait(c) ==
  /\ con[c].pc = "wait"
  /\ con' = [con EXCEPT ![c].pc = "cancel"]
  /\ UNCHANGED <<stored, cont, obj, persisted, sessionsCount, expiryCount, wills,
                 mgr, panicked>>

\* ... which returns when the close of the old connection has returned
StopReturns(c) ==
  /\ con[c].pc = "wait"
  /\ con[con[c].old].life = "closed"
  /\ con' = [con EXCEPT ![c].pc = "cancel"]
  /\ UNCHANGED <<stored, cont, obj, persisted, sessionsCount, expiryCount, wills,
                 mgr, panicked>>

\* Mutant: a cancelled expiry is still waited for.
Cancelled_Not == expiryCount

\* m.expiryCount.Done() after a successful cancel
Cancelled == expiryCount - 1

\* exp.cancel(): a timer that has fired, or was stopped before, leaves cancel
\* waiting for a channel nobody sends to.
CancelExpiry(c) ==
  LET k == con[c].cur IN
  /\ con[c].pc = "cancel"
  /\ \/ /\ cont[k].timer = "none"
        /\ con' = [con EXCEPT ![c].pc = "look"]
        /\ UNCHANGED <<cont, expiryCount>>
     \/ /\ cont[k].timer = "armed"
        /\ cont' = [cont EXCEPT ![k].timer = "none"]
        /\ expiryCount' = Cancelled
        /\ con' = [con EXCEPT ![c].pc = "look"]
     \/ /\ cont[k].timer \in {"fired", "spent", "stuck"}
        /\ cont' = [cont EXCEPT ![k].timer = IF @ = "fired" THEN "stuck" ELSE @]
        /\ con' = [con EXCEPT ![c].pc = "hung"]
        /\ UNCHANGED expiryCount
  /\ UNCHANGED <<stored, obj, persisted, sessionsCount, wills, mgr, panicked>>

\* Mutant: the container keeps its old session.
Swap_NoSession(k, c) == [cont EXCEPT ![k].removable = TRUE]

\* container.swap and setRemovable(true)
Swap(k, c) == [cont EXCEPT ![k].ses = c, ![k].removable = TRUE]

\* The check of removed, and then either the second LoadOrStore, with the new
\* container that was released before, or the swap of the session into the
\* current container.  Between the check and the swap nothing but the clearing
\* of ses can happen, and the swap overwrites that.
Look(c) ==
  LET k == con[c].cur IN
  /\ con[c].pc = "look" /\ Free(k)
  /\ \/ /\ cont[k].removed /\ stored # None
        /\ con' = [con EXCEPT ![c].pc = "rejected", ![c].life = "closed"]
        /\ UNCHANGED <<stored, cont, sessionsCount>>
     \/ /\ cont[k].removed /\ stored = None
        /\ stored' = c
        /\ sessionsCount' = Added
        /\ con' = [con EXCEPT ![c].pc = "subscriber", ![c].cur = c]
        /\ UNCHANGED cont
     \/ /\ ~cont[k].removed
        /\ cont' = Swap(k, c)
        /\ con' = [con EXCEPT ![c].pc = "subscriber", ![c].idLock = k]
        /\ UNCHANGED <<stored, sessionsCount>>
  /\ UNCHANGED <<obj, persisted, expiryCount, wills, mgr, panicked>>

\* container.subscriber, and then the persistence entry of the id: a clean start
\* wipes it, and it is created if there is none.  The session is configured with
\* the subscriber.  When the entry cannot be created the connection is refused;
\* its session stays in the container, and the id stays locked.
Subscriber(c) ==
  LET k == con[c].cur
      renew == cont[k].sub = None \/ con[c].kind.clean
  IN
  /\ con[c].pc = "subscriber"
  /\ IF renew
     THEN /\ obj' = [o \in Conns |->
                       CASE o = c -> [to |-> "persist", topics |-> FALSE]
                         [] o = cont[k].sub -> Offline(o, TRUE)
                         [] OTHER -> obj[o]]
          /\ cont' = [cont EXCEPT ![k].sub = c]
     ELSE UNCHANGED <<obj, cont>>
  /\ \/ /\ con' = [con EXCEPT ![c].pc = "ack",
                              ![c].sub = IF renew THEN c ELSE cont[k].sub]
        /\ persisted' = TRUE
     \/ /\ StoreFails /\ (con[c].kind.clean \/ ~persisted)
        /\ con' = [con EXCEPT ![c].pc = "rejected", ![c].life = "closed"]
        /\ persisted' = FALSE
  /\ UNCHANGED <<stored, sessionsCount, expiryCount, wills, mgr, panicked>>

\* Acknowledge up to the start of the reader.  When the CONNACK cannot be
\* written, or the connection has been stopped before (a panic, recovered),
\* the session is not started and the id stays locked.
Acknowledge(c) ==
  /\ con[c].pc = "ack"
  /\ \/ /\ con[c].life = "new"
        /\ con' = [con EXCEPT ![c].pc = "online", ![c].life = "live"]
     \/ /\ con[c].life = "closed" \/ AckFails
        /\ con' = [con EXCEPT ![c].pc = "failed", ![c].life = "closed"]
  /\ UNCHANGED <<stored, cont, obj, persisted, sessionsCount, expiryCount, wills,
                 mgr, panicked>>

\* The last step of Acknowledge: SignalOnline.  The reader runs already, and
\* when it has closed the connection the session may have no subscriber left.
SignalOnline(c) ==
  /\ con[c].pc = "online"
  /\ IF con[c].sub = None
     THEN /\ con' = [con EXCEPT ![c].pc = "failed"]
          /\ UNCHANGED obj
     ELSE /\ con' = [con EXCEPT ![c].pc = "start"]
          /\ obj' = [obj EXCEPT ![con[c].sub] = Online(con[c].sub, c)]
  /\ UNCHANGED <<stored, cont, persisted, sessionsCount, expiryCount, wills, mgr,
                 panicked>>

\* Mutant: the id stays locked.
Start_NoUnlock(c) ==
  /\ con[c].pc = "start"
  /\ con' = [con EXCEPT ![c].pc = "up"]
  /\ UNCHANGED <<stored, cont, obj, persisted, sessionsCount, expiryCount, wills,
                 mgr, panicked>>

\* ses.start() unlocks the id.  Unlocking a mutex that is not locked is fatal.
Start(c) ==
  LET k == con[c].idLock IN
  /\ con[c].pc = "start"
  /\ con' = [con EXCEPT ![c].pc = "up"]
  /\ cont' = [cont EXCEPT ![k].lock = "free"]
  /\ panicked' = IF cont[k].lock = "free" THEN "unlock" ELSE panicked
  /\ UNCHANGED <<stored, obj, persisted, sessionsCount, expiryCount, wills, mgr>>

-----------------------------------------------------------------------------
(* The client.                                                             *)

\* SUBSCRIBE.  The topics goroutine answers on a channel of the subscriber,
\* which a subscriber that has quit has closed.
SignalSubscribe(c) ==
  LET o == con[c].sub IN
  /\ "subscribe" \in Ops /\ con[c].life = "live" /\ ~obj[o].topics
  /\ obj' = [obj EXCEPT ![o].topics = obj[o].to # "nowhere"]
  /\ panicked' = IF obj[o].to = "nowhere" THEN "channel" ELSE panicked
  /\ UNCHANGED <<stored, cont, con, persisted, sessionsCount, expiryCount, wills,
                 mgr>>

SignalUnSubscribe(c) ==
  /\ "unsubscribe" \in Ops /\ con[c].life = "live" /\ obj[con[c].sub].topics
  /\ obj' = [obj EXCEPT ![con[c].sub].topics = FALSE]
  /\ UNCHANGED <<stored, cont, con, persisted, sessionsCount, expiryCount, wills,
                 mgr, panicked>>

\* DISCONNECT: the Will is dropped (v5: unless the client asks for it), and v5
\* may set the expiry, but not from zero to something else.
SignalDisconnect(c) ==
  /\ "disconnect" \in Ops /\ con[c].life = "live"
  /\ \E w \in {"none", con[c].will}, e \in {con[c].expire, "zero", "some"} :
       con' = IF con[c].kind.v5
              THEN [con EXCEPT ![c].will = w, ![c].life = "offline",
                               ![c].expire = IF @ = "zero" THEN @ ELSE e]
              ELSE [con EXCEPT ![c].will = "none", ![c].life = "offline"]
  /\ UNCHANGED <<stored, cont, obj, persisted, sessionsCount, expiryCount, wills,
                 mgr, panicked>>

\* The network connection breaks, or the keep-alive of the client runs out.
Drop(c) ==
  /\ con[c].life = "live"
  /\ con' = [con EXCEPT ![c].life = "offline"]
  /\ UNCHANGED <<stored, cont, obj, persisted, sessionsCount, expiryCount, wills,
                 mgr, panicked>>

-----------------------------------------------------------------------------
(* The close of a connection: onConnectionCloseStage2.                     *)

\* SignalOffline
SignalOffline(c) ==
  LET durable == con[c].durable /\ con[c].expire # "zero" IN
  /\ con[c].life = "offline"
  /\ con' = [con EXCEPT ![c].durable = durable, ![c].life = "close"]
  /\ obj' = [obj EXCEPT ![con[c].sub] = Offline(con[c].sub, ~durable)]
  /\ UNCHANGED <<stored, cont, persisted, sessionsCount, expiryCount, wills, mgr,
                 panicked>>

\* SignalConnectionClose up to the call of sessionOffline: a Will without
\* delay is published, and the subscriber of a container that is not kept is
\* shut down.
SignalConnectionClose(c) ==
  LET keep == \/ con[c].durable /\ obj[con[c].sub].topics
              \/ con[c].will = "delayed"
  IN
  /\ con[c].life = "close"
  /\ wills' = IF con[c].will = "now" THEN wills \cup {c} ELSE wills
  /\ obj' = IF keep THEN obj ELSE SubscriberShutdown
  /\ con' = [con EXCEPT ![c].life = "gone", ![c].keep = keep,
                        ![c].will = IF @ = "now" THEN "none" ELSE @,
                        ![c].sub = IF keep THEN @ ELSE None]
  /\ UNCHANGED <<stored, cont, persisted, sessionsCount, expiryCount, mgr,
                 panicked>>

\* What expiry.start makes of the delays: a Will that is due before the
\* session expires makes the timer fire twice.
Due(c) == CASE con[c].expire = "nil"  -> {"will"}
            [] con[c].expire = "zero" -> {"expire"}
            [] OTHER -> IF con[c].will = "delayed" THEN {"both", "expire"}
                        ELSE {"expire"}

Expires(c) == con[c].will = "delayed" \/ con[c].expire = "some"

\* m.expiryCount.Add(1) for a timer
Started(c) == IF Expires(c) THEN expiryCount + 1 ELSE expiryCount

\* The end of the close: no later stop of the session has any effect.
Closed(c) == [con EXCEPT ![c].life = "closed", ![c].stopReq = "taken"]

\* sessionOffline, on the container that has the id now.  The container is
\* kept with its expiry timer, or kept because a new connection is about to
\* take it over, or removed from the map.
SessionOffline(c) ==
  LET k == stored IN
  /\ con[c].life = "gone"
  /\ \/ /\ k = None
        /\ con' = Closed(c)
        /\ UNCHANGED <<stored, cont, sessionsCount, expiryCount, panicked>>
     \/ /\ k # None /\ Free(k) /\ (con[c].keep \/ Expires(c))
        /\ con' = Closed(c)
        /\ \E due \in Due(c) :
             cont' = IF Expires(c)
                     THEN [cont EXCEPT ![k].ses = None, ![k].timer = "armed",
                                       ![k].due = due,
                                       ![k].willOf = IF con[c].will = "delayed"
                                                     THEN c ELSE None]
                     ELSE [cont EXCEPT ![k].ses = None]
        /\ expiryCount' = Started(c)
        /\ UNCHANGED <<stored, sessionsCount, panicked>>
     \/ /\ k # None /\ Free(k) /\ ~con[c].keep /\ ~Expires(c)
        /\ ~cont[k].removable
        /\ con' = Closed(c)
        /\ cont' = [cont EXCEPT ![k].ses = None]
        /\ UNCHANGED <<stored, sessionsCount, expiryCount, panicked>>
     \/ /\ k # None /\ Free(k) /\ ~con[c].keep /\ ~Expires(c)
        /\ cont[k].removable
        /\ stored' = None
        /\ sessionsCount' = sessionsCount - 1
        /\ panicked' = IF sessionsCount = 0 THEN "count" ELSE panicked
        /\ con' = [con EXCEPT ![c].life = "wipe", ![c].cur = k]
        /\ cont' = [cont EXCEPT ![k].ses = None, ![k].rmLock = "held"]
        /\ UNCHANGED expiryCount
  /\ UNCHANGED <<obj, persisted, wills, mgr>>

\* The rest of sessionOffline after the removal from the map.
Wipe(c) ==
  /\ con[c].life = "wipe"
  /\ persisted' = (persisted /\ con[c].durable)
  /\ cont' = [cont EXCEPT ![con[c].cur].removed = TRUE,
                          ![con[c].cur].rmLock = "free"]
  /\ con' = Closed(c)
  /\ UNCHANGED <<stored, obj, sessionsCount, expiryCount, wills, mgr, panicked>>

-----------------------------------------------------------------------------
(* The expiry timer of a container.                                        *)

TimerFires(k) ==
  /\ cont[k].timer = "armed"
  /\ cont' = [cont EXCEPT ![k].timer = "fired"]
  /\ UNCHANGED <<stored, con, obj, persisted, sessionsCount, expiryCount, wills,
                 mgr, panicked>>

\* timerCallback: the Will, and then: nothing (sessionTimer(id, false)), the
\* timer again, or the end of the session (sessionTimer(id, true)).
TimerCallback(k) ==
  /\ cont[k].timer = "fired"
  /\ wills' = wills \cup ({cont[k].willOf} \ {None})
  /\ \/ /\ cont[k].due = "will"
        /\ cont' = [cont EXCEPT ![k].timer = "spent", ![k].willOf = None]
        /\ UNCHANGED <<stored, obj, persisted, sessionsCount, expiryCount, panicked>>
     \/ /\ cont[k].due = "both"
        /\ cont' = [cont EXCEPT ![k].timer = "armed", ![k].due = "expire",
                                ![k].willOf = None]
        /\ UNCHANGED <<stored, obj, persisted, sessionsCount, expiryCount, panicked>>
     \/ /\ cont[k].due = "expire"
        /\ cont' = [cont EXCEPT ![k].timer = "spent", ![k].willOf = None]
        /\ obj' = SubscriberShutdown
        /\ persisted' = FALSE
        /\ stored' = None
        /\ sessionsCount' = sessionsCount - 1
        /\ expiryCount' = expiryCount - 1
        /\ panicked' = IF sessionsCount = 0 THEN "count" ELSE panicked
  /\ UNCHANGED <<con, mgr>>

-----------------------------------------------------------------------------
(* Manager.Stop and Manager.Shutdown.                                      *)

\* Server.Shutdown closes the listeners and waits for them first: no handshake of a
\* tcp listener is in progress when it calls Stop, and none begins later. The late
\* handshake of a websocket listener (Listener!NoLateHandshake) is left out.
ListenersDone ==
  \A c \in Conns : con[c].pc \in {"new", "up", "failed", "rejected"}

\* Stop ranges over the map: the entry of the id, if there is one.
Stop ==
  /\ Shutdown /\ mgr.pc = "run" /\ ListenersDone
  /\ mgr' = [mgr EXCEPT !.pc = IF stored = None THEN "join" ELSE "session",
                        !.k = stored]
  /\ UNCHANGED <<stored, cont, con, obj, persisted, sessionsCount, expiryCount,
                 wills, panicked>>

\* Mutant: the session is not told.
StopSession_Silent ==
  LET s == cont[mgr.k].ses IN
  /\ mgr.pc = "session" /\ Free(mgr.k)
  /\ mgr' = IF s = None THEN [mgr EXCEPT !.pc = "expiry"]
            ELSE [mgr EXCEPT !.pc = "wait", !.s = s]
  /\ UNCHANGED <<stored, cont, con, obj, persisted, sessionsCount, expiryCount, wills,
                 panicked>>

\* A session is stopped; an entry without session is not waited for.
StopSession ==
  LET s == cont[mgr.k].ses IN
  /\ mgr.pc = "session" /\ Free(mgr.k)
  /\ \/ /\ s = None
        /\ sessionsCount' = sessionsCount - 1
        /\ panicked' = IF sessionsCount = 0 THEN "count" ELSE panicked
        /\ mgr' = [mgr EXCEPT !.pc = "expiry"]
        /\ UNCHANGED con
     \/ /\ s # None /\ con[s].stopReq = "taken"
        /\ mgr' = [mgr EXCEPT !.pc = "expiry"]
        /\ UNCHANGED <<con, sessionsCount, panicked>>
     \/ /\ s # None /\ NilWriter(s)
        /\ panicked' = "writer"
        /\ UNCHANGED <<con, mgr, sessionsCount>>
     \/ /\ s # None /\ con[s].stopReq = "free" /\ ~NilWriter(s)
        /\ con' = [con EXCEPT ![s] = StopEffect(s)]
        /\ mgr' = [mgr EXCEPT !.pc = "wait", !.s = s]
        /\ UNCHANGED <<sessionsCount, panicked>>
  /\ UNCHANGED <<stored, cont, obj, persisted, expiryCount, wills>>

SessionStopped ==
  /\ mgr.pc = "wait" /\ con[mgr.s].life = "closed"
  /\ mgr' = [mgr EXCEPT !.pc = "expiry"]
  /\ UNCHANGED <<stored, cont, con, obj, persisted, sessionsCount, expiryCount,
                 wills, panicked>>

\* The expiry of the container is cancelled and stays in it.
StopExpiry ==
  LET k == mgr.k IN
  /\ mgr.pc = "expiry"
  /\ \/ /\ cont[k].timer = "none"
        /\ mgr' = [mgr EXCEPT !.pc = "join"]
        /\ UNCHANGED <<cont, expiryCount>>
     \/ /\ cont[k].timer = "armed"
        /\ cont' = [cont EXCEPT ![k].timer = "spent"]
        /\ expiryCount' = Cancelled
        /\ mgr' = [mgr EXCEPT !.pc = "join"]
     \/ /\ cont[k].timer \in {"fired", "spent", "stuck"}
        /\ cont' = [cont EXCEPT ![k].timer = IF @ = "fired" THEN "stuck" ELSE @]
        /\ mgr' = [mgr EXCEPT !.pc = "hung"]
        /\ UNCHANGED expiryCount
  /\ UNCHANGED <<stored, con, obj, persisted, sessionsCount, wills, panicked>>

\* Both wait groups, and then Shutdown: the subscriber is persisted and quits.
StopReturn ==
  /\ mgr.pc = "join" /\ sessionsCount = 0 /\ expiryCount = 0
  /\ mgr' = [mgr EXCEPT !.pc = "stopped"]
  /\ obj' = SubscriberShutdown
  /\ stored' = None
  /\ UNCHANGED <<cont, con, persisted, sessionsCount, expiryCount, wills, panicked>>

-----------------------------------------------------------------------------
Connecting(c) ==
  \/ LoadOrStore(c) \/ Acquire(c) \/ Fence(c) \/ Session(c) \/ StopCurrent(c)
  \/ StopReturns(c) \/ CancelExpiry(c) \/ Look(c) \/ Subscriber(c)
  \/ Acknowledge(c) \/ SignalOnline(c) \/ Start(c)

Closing(c) ==
  SignalOffline(c) \/ SignalConnectionClose(c) \/ SessionOffline(c) \/ Wipe(c)

Client(c) ==
  SignalSubscribe(c) \/ SignalUnSubscribe(c) \/ SignalDisconnect(c) \/ Drop(c)

Stopping ==
  Stop \/ StopSession \/ SessionStopped \/ StopExpiry \/ StopReturn

Next ==
  /\ panicked = "no"
  /\ \/ \E c \in Conns : Connecting(c) \/ Closing(c) \/ Client(c)
     \/ \E k \in Conns : TimerFires(k) \/ TimerCallback(k)
     \/ Stopping

Spec == Init /\ [][Next]_vars

(* Goroutines that can run do run.  A connection need not be opened, used   *)
(* or dropped, and the server need not be stopped.                         *)
Alive(A) == panicked = "no" /\ A

FairSpec ==
  /\ Spec
  /\ \A c \in Conns :
       /\ WF_vars(Alive(con[c].pc # "new" /\ Connecting(c)))
       /\ WF_vars(Alive(Closing(c)))
       /\ SF_vars(Alive(Acquire(c)))
  /\ \A k \in Conns : WF_vars(Alive(TimerFires(k) \/ TimerCallback(k)))
  /\ WF_vars(Alive(mgr.pc # "run" /\ Stopping))
-----------------------------------------------------------------------------
(* Properties.                                                             *)

\* The shape of the manager's data, and wait groups that are not negative
\* while the process runs.
TypeOK ==
  /\ stored \in Maybe
  /\ cont \in [Conns -> ContType]
  /\ con \in [Conns -> ConType]
  /\ obj \in [Conns -> ObjType]
  /\ persisted \in BOOLEAN
  /\ sessionsCount \in Int /\ expiryCount \in Int
  /\ panicked = "no" => sessionsCount >= 0 /\ expiryCount >= 0
  /\ wills \subseteq Conns
  /\ mgr \in [pc : {"run", "session", "wait", "expiry", "join", "hung", "stopped"},
              k : Maybe, s : Maybe, preempt : BOOLEAN]
  /\ panicked \in {"no", "unlock", "channel", "count", "writer"}

\* Where a connection has the id to itself: past acquire, or with a container
\* of its own in the map, until start.
Locked == {"fence", "session", "stop", "wait", "cancel", "hung", "look",
           "subscriber", "ack", "online", "start"}
Changing == {"subscriber", "ack", "online", "start"}

\* loadContainer locks the id "to prevent other incoming connections with same
\* ID making any changes until we done": while one connection sets up its
\* container no other one holds that container.
IdLocked ==
  \A c, d \in Conns :
    c # d /\ con[c].pc \in Changing /\ con[d].pc \in Locked
      => con[c].cur # con[d].cur

\* Taking over a client id stops the old network connection before the new one
\* is acknowledged: two connections of one client id are never up together.
\* (Where a close may remove the container, a container that is put in the map
\* unlocked breaks this with four connections: README, Disagreements.)
OneOnline ==
  \A c, d \in Conns : con[c].life = "live" /\ con[d].life = "live" => c = d

\* A connection that is up is the session of the container that the map has
\* for the id, otherwise the next connection would not find it and would not
\* take it over; and the subscriber of that container sends to this connection,
\* whatever the close of its predecessor did to it.
CurrentSession ==
  \A c \in Conns :
    con[c].pc = "up" /\ con[c].life = "live" =>
      /\ stored = con[c].idLock
      /\ cont[stored].ses = c
      /\ cont[stored].sub = con[c].sub
      /\ obj[con[c].sub].to = c

\* After Online, and while the connection is up, "all publish packets [are]
\* forwarded to provided callback": the subscriber of the session sends to
\* this connection, whatever the close of its predecessor did to it.
Forwarded ==
  \A c \in Conns :
    con[c].pc \in {"start", "up"} /\ con[c].life = "live"
      => obj[con[c].sub].to = c

\* Subscriber.Publish: "online: forward message to session, offline: persist
\* message".  A subscriber does not forward to a connection that is closed.
OfflinePersists ==
  stored # None /\ cont[stored].sub # None =>
    \A c \in Conns : obj[cont[stored].sub].to = c => con[c].life # "closed"

\* When every client of the id asks for a durable session and none
\* unsubscribes, the subscription made at first survives every takeover,
\* disconnect and shutdown of connections.
SubscriptionsSurvive ==
  mgr.pc # "stopped" =>
    /\ stored # None /\ cont[stored].sub # None
    /\ obj[cont[stored].sub].topics

\* The wait groups of Manager.Stop count what they wait for: the entry in the
\* map, and the timers that are not done.  (A timer that was only for a Will
\* is never counted out.)
Accounting ==
  mgr.pc = "run" /\ panicked = "no" =>
    /\ sessionsCount = IF stored = None THEN 0 ELSE 1
    /\ expiryCount = Cardinality({k \in Conns :
                       \/ cont[k].timer \in {"armed", "fired", "stuck"}
                       \/ cont[k].timer = "spent" /\ cont[k].due = "will"})

\* A session that is kept for a delayed Will and nothing else is "completely
\* shutdown" once the Will is published.
ShutDownAfterWill ==
  \A k \in Conns : cont[k].timer = "spent" /\ cont[k].due = "will" => stored # k

\* loadContainer: "cancel expiry if set".  The cancellation ends, and the
\* connection goes on.
CancelEnds ==
  \A c \in Conns : con[c].pc = "cancel" ~> con[c].pc \notin {"cancel", "hung"}

\* Every connection that asks for the id is acknowledged or refused.
Answered ==
  \A c \in Conns :
    con[c].pc # "new" ~> con[c].pc \in {"up", "failed", "rejected"}

\* "Stop session manager. Stops any existing connections": once Stop has been
\* through the map no connection of the id is up, whichever of the connections
\* that contended for the id it found there; whether or not Stop gets past its
\* wait groups later.
StopsConnections ==
  mgr.pc \notin {"run", "session"} => \A c \in Conns : con[c].life # "live"

\* Manager.Stop returns: "Shutdown terminates the server by shutting down all
\* the client connections".
ShutdownEnds == mgr.pc # "run" ~> mgr.pc = "stopped"

\* The manager does not take the process down: no container is unlocked twice,
\* no wait group goes below zero and no connection is stopped that has no writer.
NoPanic == panicked = "no"

=============================================================================
