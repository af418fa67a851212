------------------------------ MODULE Restart ------------------------------
(***************************************************************************)
(* The broker over restarts: the clients that subscribe and their sessions *)
(* (clients/), the provider they are dispatched from (Provider), and what  *)
(* both leave in the persistence, through graceful shutdowns, crashes and  *)
(* starts.  server.NewServer starts the provider and then the manager;     *)
(* server.Shutdown stops the manager, lets it persist and then stops the   *)
(* provider.                                                               *)
(*                                                                         *)
(* Sessions has the takeovers and the races of one id; here a client has   *)
(* one connection at a time.  The steps in which a session comes up and    *)
(* goes down are kept apart, because the process may die between them.     *)
(***************************************************************************)
EXTENDS Provider

CONSTANTS
  Kinds,       \* the CONNECT packets: records of clean, durable and expires
  Filters,     \* bound on the topics the clients subscribe to
  MaxStarts,   \* bound on the starts of the process, and
  MaxEvents    \*   on its crashes and the clients' requests, taken together

ASSUME RestartAssumption ==
  /\ Kinds \subseteq [clean : BOOLEAN, durable : BOOLEAN, expires : BOOLEAN]
  /\ \A k \in Kinds : k.expires => k.durable

VARIABLES
  phase,    \* of the process
  todo,     \* what the current loop of the start or of the shutdown has left
  ses,      \* for each id: its container, subscriber, connection and timer
  preload,  \* preloadConfigs: what was decoded for each id
  count,    \* sessionsCount
  disk,     \* the entry of each id in the persistence of the sessions
  diskRet,  \* the persistence of the retained messages
  left,     \* what the bounds still allow
  \* history, not state of the broker:
  alive,    \* the ids whose clients were told of a session that is to survive
  owed,     \* pairs of an id and a publication that is to reach it
  got,      \* the same pairs once the client has acknowledged them
  latest,   \* what the last accepted publication with RETAIN leaves at each topic
  crashed   \* the process has died at least once

manager == <<phase, todo, ses, preload, count>>
persistence == <<disk, diskRet>>
history == <<alive, owed, got, latest, crashed>>
vars == <<provider, manager, persistence, left, history>>

Phases == {"off",                                  \* there is no process
           "retained", "load",                     \* NewServer
           "up", "stop", "shutdown", "drain",      \* Shutdown
           "panicked"}                             \* it died in NewServer

\* A publication in the queue of a connection or on disk; a retained copy is
\* what a SUBSCRIBE is answered with.
Item == [m : Msgs, live : BOOLEAN]
Live(m) == [m |-> m, live |-> TRUE]

\* A session.  to: where the subscriber's publisher sends a message ("nowhere"
\* once it has quit, "none" if there is none).  topics: its subscriptions.
\* queue: what the connection holds, of which the first inflight packets have been
\* sent and wait in pubOut for their PUBACK.
SesType == [container : BOOLEAN,
            to : {"none", "conn", "disk", "nowhere"}, topics : SUBSET Names,
            pc : {"off", "create", "load", "online", "up", "found", "offline",
                  "closed"},
            kind : Kinds, queue : Seq(Item), inflight : Nat,
            timer : {"none", "armed", "fired"},
            asked : Names \cup {None},   \* the topic of a SUBSCRIBE
            stopping : {"no", "close", "expiry"}]   \* how far Manager.Stop is with it

\* An entry: the encoded subscriptions and the expiry may be absent.
DiskType == [exists : BOOLEAN, topics : SUBSET Names, encoded : Nat,
             expire : BOOLEAN, packets : Seq(Item)]

Absent == [exists |-> FALSE, topics |-> {}, encoded |-> 0, expire |-> FALSE,
           packets |-> <<>>]
Created == [Absent EXCEPT !.exists = TRUE]

NoSession == [container |-> FALSE, to |-> "none", topics |-> {}, pc |-> "off",
              kind |-> CHOOSE k \in Kinds : TRUE, queue |-> <<>>,
              inflight |-> 0, timer |-> "none", asked |-> None, stopping |-> "no"]

TypeOK ==
  /\ ProviderType
  /\ phase \in Phases /\ todo \subseteq Msgs \cup Ids
  /\ ses \in [Ids -> SesType] /\ count \in Int
  /\ preload \in [Ids -> SUBSET {"sub", "exp"}]
  /\ disk \in [Ids -> DiskType] /\ diskRet \subseteq Msgs
  /\ left \in [starts : Nat, events : Nat]
  /\ alive \subseteq Ids /\ owed \subseteq Ids \X Msgs /\ got \subseteq Ids \X Msgs
  /\ latest \in [Names -> Msgs \cup {None}]
  /\ crashed \in BOOLEAN

Init ==
  /\ ProviderInit
  /\ phase = "off" /\ todo = {} /\ count = 0
  /\ ses = [i \in Ids |-> NoSession] /\ preload = [i \in Ids |-> {}]
  /\ disk = [i \in Ids |-> Absent] /\ diskRet = {}
  /\ left = [starts |-> MaxStarts, events |-> MaxEvents]
  /\ alive = {} /\ owed = {} /\ got = {} /\ crashed = FALSE
  /\ latest = [t \in Names |-> None]

Event == left.events > 0 /\ left' = [left EXCEPT !.events = @ - 1]

Serving == phase \in {"up", "stop"}

Holds(queue, item) == \E k \in DOMAIN queue : queue[k] = item

\* Of a set of pairs of an id and a publication, those that are on disk.
OnDisk(pairs) == {o \in pairs : Holds(disk[o[1]].packets, Live(o[2]))}

-----------------------------------------------------------------------------
(* A session comes up: OnConnection and Acknowledge.                       *)

\* container.subscriber: a clean start gets a new subscriber, any other one uses
\* the subscriber the container has.
Renewed(i, k) == k.clean \/ ses[i].to = "none"

\* loadContainer: a timer of the container is cancelled, and the entry of a clean
\* start is wiped.  (A CONNECT that meets a timer that has fired: Sessions.)
Connect(i, k) ==
  LET s == ses[i]  renew == Renewed(i, k) IN
  /\ phase = "up" /\ s.pc = "off" /\ s.timer # "fired" /\ Event
  /\ count' = IF s.container THEN count ELSE count + 1
  /\ ses' = [ses EXCEPT ![i] =
               [s EXCEPT !.container = TRUE, !.pc = "create", !.kind = k,
                         !.timer = "none",
                         !.to = IF renew THEN "disk" ELSE @,
                         !.topics = IF renew THEN {} ELSE @]]
  /\ disk' = IF k.clean THEN [disk EXCEPT ![i] = Absent] ELSE disk
  /\ alive' = IF k.clean THEN alive \ {i} ELSE alive
  /\ owed' = IF k.clean THEN {o \in owed : o[1] # i} ELSE owed
  /\ IF renew THEN Quit(i) ELSE UNCHANGED provider
  /\ UNCHANGED <<phase, todo, preload, diskRet, got, latest, crashed>>

\* persistence.Create, unless there is an entry
Create(i) ==
  /\ Serving /\ ses[i].pc = "create"
  /\ disk' = [disk EXCEPT ![i] = IF @.exists THEN @ ELSE Created]
  /\ ses' = [ses EXCEPT ![i].pc = "load"]
  /\ UNCHANGED <<provider, phase, todo, preload, count, diskRet, left, history>>

\* Mutant: the packets stay on disk when they are loaded.
Loaded_Kept(i) == disk

\* PacketsForEach with packetLoader, which has every packet removed
Loaded(i) == [disk EXCEPT ![i].packets = <<>>]

\* The CONNACK, and tx.start
Load(i) ==
  /\ Serving /\ ses[i].pc = "load"
  /\ ses' = [ses EXCEPT ![i].pc = "online", ![i].queue = disk[i].packets]
  /\ disk' = Loaded(i)
  /\ alive' = IF ses[i].kind.durable THEN alive \cup {i} ELSE alive \ {i}
  /\ UNCHANGED <<provider, phase, todo, preload, count, diskRet, left, owed, got, latest, crashed>>

\* SignalOnline: a subscriber that has quit stays as it is
Online(i) ==
  /\ Serving /\ ses[i].pc = "online"
  /\ ses' = [ses EXCEPT ![i].pc = "up",
                        ![i].to = IF @ = "nowhere" THEN @ ELSE "conn"]
  /\ UNCHANGED <<provider, phase, todo, preload, count, persistence, left, history>>

-----------------------------------------------------------------------------
(* The traffic of the clients.                                             *)

\* provider.subscribe: the subscription is in the tree before the retained
\* messages are looked up.
Subscribe(i, t) ==
  /\ Serving /\ ses[i].pc = "up" /\ ses[i].to # "nowhere"
  /\ t \in Filters /\ Event
  /\ SubInsert(i, t)
  /\ ses' = [ses EXCEPT ![i].pc = "found", ![i].asked = t]
  /\ UNCHANGED <<phase, todo, preload, count, persistence, history>>

\* retainSearch, the reply, and the retained message put into the queue
Subscribed(i) ==
  LET s == ses[i]  t == s.asked IN
  /\ Serving /\ s.pc = "found"
  /\ ses' = [ses EXCEPT ![i] =
               [s EXCEPT !.pc = "up", !.asked = None, !.topics = @ \cup {t},
                         !.queue = IF retained[t] = None THEN @
                                   ELSE Append(@, [m |-> retained[t],
                                                   live |-> FALSE])]]
  /\ UNCHANGED <<provider, phase, todo, preload, count, persistence, left, history>>

\* SignalUnSubscribe
UnSubscribe(i, t) ==
  /\ Serving /\ ses[i].pc = "up" /\ t \in ses[i].topics
  /\ Event
  /\ SubRemove(i, t)
  /\ ses' = [ses EXCEPT ![i].topics = @ \ {t}]
  /\ owed' = {o \in owed : ~(o[1] = i /\ Plan[o[2]].topic = t)}
  /\ UNCHANGED <<phase, todo, preload, count, persistence, alive, got, latest,
                 crashed>>

\* subscriber.Publish: to the queue of the connection, or to disk by
\* sessionPersistPublish, which needs an entry
Forward(p, i) ==
  LET item == Live(hand[p].m) IN
  /\ phase \in {"up", "stop", "shutdown", "drain"}
  /\ Handed(p, i)
  /\ ses' = [ses EXCEPT ![i].queue =
               IF ses[i].to = "conn" THEN Append(@, item) ELSE @]
  /\ disk' = [disk EXCEPT ![i].packets =
                IF ses[i].to = "disk" /\ disk[i].exists THEN Append(@, item) ELSE @]
  /\ UNCHANGED <<phase, todo, preload, count, diskRet, left, history>>

\* qos12PopPacket: the next packet goes to pubOut and is sent.  The writer is
\* stopped after SignalOffline.
Send(i) ==
  /\ Serving /\ ses[i].pc \in {"online", "up", "found", "offline"}
  /\ ses[i].inflight < Len(ses[i].queue)
  /\ ses' = [ses EXCEPT ![i].inflight = @ + 1]
  /\ UNCHANGED <<provider, phase, todo, preload, count, persistence, left, history>>

\* onAck and pubOut.release for the PUBACK of the packet that was sent first:
\* clients acknowledge in the order of the packets.  The reader is stopped before
\* SignalOffline; a PUBACK that comes later is lost.
Acknowledge(i) ==
  LET item == Head(ses[i].queue) IN
  /\ Serving /\ ses[i].pc \in {"online", "up", "found"}
  /\ ses[i].inflight > 0
  /\ ses' = [ses EXCEPT ![i].queue = Tail(@), ![i].inflight = @ - 1]
  /\ got' = IF item.live THEN got \cup {<<i, item.m>>} ELSE got
  /\ owed' = IF item.live THEN owed \ {<<i, item.m>>} ELSE owed
  /\ UNCHANGED <<provider, phase, todo, preload, count, persistence, left, alive, latest, crashed>>

\* The publishing client; what is accepted is owed to the subscribers that
\* have been told of their subscription.
ClientRetain ==
  /\ Serving /\ Retain
  /\ latest' = [latest EXCEPT ![Plan[sent + 1].topic] = Kept(sent + 1)]
  /\ UNCHANGED <<manager, persistence, left, alive, owed, got, crashed>>

ClientPublish ==
  LET t == Plan[sent + 1].topic IN
  /\ Serving /\ Publish
  /\ owed' = owed \cup {<<i, sent + 1>> : i \in {j \in Ids : /\ <<j, t>> \in subs
                                                           /\ t \in ses[j].topics}}
  /\ UNCHANGED <<manager, persistence, left, alive, got, latest, crashed>>

\* The goroutines of the provider run once NewMemProvider has started them.
Running == phase \notin {"off", "retained", "panicked"}

PublisherTakes(p) ==
  Running /\ Take(p) /\ UNCHANGED <<manager, persistence, left, history>>

RetainerTakes ==
  Running /\ Retainer /\ UNCHANGED <<manager, persistence, left, history>>

-----------------------------------------------------------------------------
(* A session goes down: the close of its connection.                       *)

\* SignalOffline: the subscriber of a durable session sends to disk, any
\* other one quits.
SignalOffline(i) ==
  LET s == ses[i]  durable == s.kind.durable IN
  /\ Serving /\ s.pc = "up"
  /\ ses' = [ses EXCEPT ![i] =
               [s EXCEPT !.pc = "offline",
                         !.to = IF durable /\ @ # "nowhere" THEN "disk" ELSE "nowhere",
                         !.topics = IF durable THEN @ ELSE {}]]
  /\ IF durable THEN UNCHANGED <<provider, owed>>
     ELSE Quit(i) /\ owed' = {o \in owed : o[1] # i}
  /\ UNCHANGED <<phase, todo, preload, count, persistence, left, alive, got,
                 latest, crashed>>

\* Mutant: PacketsStore replaces what SignalOffline has let through to disk.
Stored_Replaced(i) == ses[i].queue

\* PacketsStore adds to what is on disk.  The unacknowledged packets have a bucket
\* of their own, which is loaded before the others.
Stored(i) ==
  LET queue == ses[i].queue  n == ses[i].inflight IN
  SubSeq(queue, 1, n) \o disk[i].packets \o SubSeq(queue, n + 1, Len(queue))

\* getQueuedPackets and SignalConnectionClose up to PacketsStore or
\* PacketsDelete.  A subscriber without subscriptions quits.
ConnectionClose(i) ==
  LET s == ses[i] IN
  /\ Serving /\ s.pc = "offline"
  /\ ses' = [ses EXCEPT ![i] =
               [s EXCEPT !.pc = "closed", !.queue = <<>>, !.inflight = 0,
                         !.to = IF s.topics = {} THEN "nowhere" ELSE @]]
  /\ disk' = [disk EXCEPT ![i].packets =
                IF s.kind.durable /\ disk[i].exists THEN Stored(i) ELSE <<>>]
  /\ UNCHANGED <<provider, phase, todo, preload, count, diskRet, left, history>>

\* Mutant: the entry goes with the container.
Wiped_Always(i) == [disk EXCEPT ![i] = Absent]

\* What sessionOffline leaves on disk when it removes the container
Wiped(i) == IF ses[i].kind.durable THEN disk ELSE [disk EXCEPT ![i] = Absent]

\* sessionOffline: the container is kept for the subscriptions or for the
\* timer; without either it is removed, with the entry if it is not durable.
SessionOffline(i) ==
  LET s == ses[i] IN
  /\ Serving /\ s.pc = "closed"
  /\ IF s.topics # {} \/ s.kind.expires
     THEN /\ ses' = [ses EXCEPT ![i] = [s EXCEPT !.pc = "off",
                            !.timer = IF s.kind.expires THEN "armed" ELSE "none"]]
          /\ UNCHANGED <<count, disk>>
     ELSE /\ ses' = [ses EXCEPT ![i] = [NoSession EXCEPT !.stopping = s.stopping]]
          /\ count' = count - 1
          /\ disk' = Wiped(i)
  /\ UNCHANGED <<provider, phase, todo, preload, diskRet, left, history>>

\* The timer fires: timerCallback is about to run, in a goroutine of its own.
Fire(i) ==
  /\ Serving /\ ses[i].timer = "armed"
  /\ ses' = [ses EXCEPT ![i].timer = "fired"]
  /\ UNCHANGED <<provider, phase, todo, preload, count, persistence, left, history>>

\* sessionTimer: the session has expired.  Stop may have the container in hand.
Expire(i) ==
  LET stopping == ses[i].stopping IN
  /\ Serving /\ ses[i].container /\ ses[i].timer = "fired"
  /\ ses' = [ses EXCEPT ![i] =
               [NoSession EXCEPT !.stopping = stopping,
                                 !.timer = IF stopping = "no" THEN "none" ELSE "fired"]]
  /\ Quit(i)
  /\ disk' = [disk EXCEPT ![i] = Absent]
  /\ count' = count - 1
  /\ alive' = alive \ {i}
  /\ owed' = {o \in owed : o[1] # i}
  /\ UNCHANGED <<phase, todo, preload, diskRet, left, got, latest, crashed>>

-----------------------------------------------------------------------------
(* server.Shutdown.                                                        *)

\* The listeners are closed, which waits for connections that are being set
\* up (Listener), and Manager.Stop begins.
Stop ==
  /\ phase = "up"
  /\ \A i \in Ids : ses[i].pc \notin {"create", "load", "online"}
  /\ phase' = "stop"
  /\ todo' = {i \in Ids : ses[i].container}
  /\ UNCHANGED <<provider, ses, preload, count, persistence, left, history>>

\* Mutant: a session without a connection stays counted.
Done_Not(i) == count

\* m.sessionsCount.Done(), if Range comes to the container at all
Done(i) == IF ses[i].container THEN count - 1 ELSE count

\* Stop comes to a container without a session (or to none, when its session has
\* expired since) ...
StopOffline(i) ==
  LET found == ses[i].container IN
  /\ phase = "stop" /\ i \in todo /\ ses[i].pc = "off"
  /\ \A j \in Ids : ses[j].stopping = "no"
  /\ count' = Done(i)
  /\ ses' = [ses EXCEPT ![i].stopping = IF found THEN "expiry" ELSE @]
  /\ todo' = IF found THEN todo ELSE todo \ {i}
  /\ UNCHANGED <<provider, phase, preload, persistence, left, history>>

\* ... or to one with a session, and stops its connection.
StopOnline(i) ==
  /\ phase = "stop" /\ i \in todo /\ ses[i].pc # "off"
  /\ \A j \in Ids : ses[j].stopping = "no"
  /\ ses' = [ses EXCEPT ![i].stopping = "close"]
  /\ UNCHANGED <<provider, phase, todo, preload, count, persistence, left, history>>

\* ses.stop returns when the connection is closed; nothing is counted then.
StopReturns(i) ==
  /\ phase = "stop" /\ ses[i].stopping = "close" /\ ses[i].pc = "off"
  /\ ses' = [ses EXCEPT ![i].stopping = "expiry"]
  /\ UNCHANGED <<provider, phase, todo, preload, count, persistence, left, history>>

\* expiry.cancel returns if the timer had not fired.  Otherwise it waits, with the
\* lock of the timer, for a channel that does not exist; so ExpiryStore, which
\* Stop calls when cancel fails, is never reached.
Cancel(i) == ses[i].timer # "fired"

\* wrap.expiry, after ses.stop or Done: the timer is cancelled if there is one.
StopExpiry(i) ==
  /\ phase = "stop" /\ ses[i].stopping = "expiry" /\ ses[i].pc = "off"
  /\ Cancel(i)
  /\ ses' = [ses EXCEPT ![i].timer = "none", ![i].stopping = "no"]
  /\ todo' = todo \ {i}
  /\ UNCHANGED <<provider, phase, preload, count, persistence, left, history>>

\* sessionsCount and expiryCount are waited for; the publishing client is
\* stopped like the others, when its reader is done with SignalPublish.
StopDone ==
  /\ phase = "stop" /\ todo = {} /\ count = 0 /\ ~sending
  /\ \A i \in Ids : ses[i].timer = "none"
  /\ phase' = "shutdown"
  /\ todo' = {i \in Ids : ses[i].container}
  /\ UNCHANGED <<provider, ses, preload, count, persistence, left, history>>

\* The encoding of persistSubscriber: the version, and for each topic a length
\* of two bytes, the name (here of one byte), the options and four bytes of id.
EntrySize == 8
EncodedSize(n) == 1 + n * EntrySize

\* Manager.Shutdown for one container: persistSubscriber stores the
\* subscriptions, and its subscriber quits.
PersistSubscriber(i) ==
  LET given == {o \in owed : o[1] = i} IN
  /\ phase = "shutdown" /\ i \in todo
  /\ todo' = todo \ {i}
  /\ disk' = [disk EXCEPT ![i].topics = ses[i].topics,
                          ![i].encoded = EncodedSize(Cardinality(ses[i].topics))]
  /\ ses' = [ses EXCEPT ![i] = NoSession]
  /\ Quit(i)
  /\ owed' = owed \ (given \ OnDisk(given))
  /\ UNCHANGED <<phase, preload, count, diskRet, left, alive, got, latest, crashed>>

ManagerDown ==
  /\ phase = "shutdown" /\ todo = {}
  /\ phase' = "drain"
  /\ UNCHANGED <<provider, todo, ses, preload, count, persistence, left, history>>

\* topicsMgr.Shutdown, after the goroutines have emptied the channels.  Then
\* the process ends.
ProviderDown ==
  /\ phase = "drain" /\ Drained
  /\ diskRet' = StoreRetained(diskRet)
  /\ phase' = "off"
  /\ Fresh
  /\ UNCHANGED <<sent, todo, ses, preload, count, disk, left, history>>

-----------------------------------------------------------------------------
(* The process dies: what is in memory is lost.                            *)

Die ==
  /\ phase' = "off" /\ todo' = {} /\ count' = 0
  /\ ses' = [i \in Ids |-> NoSession] /\ preload' = [i \in Ids |-> {}]
  /\ Fresh
  /\ owed' = OnDisk(owed)
  /\ crashed' = TRUE
  /\ UNCHANGED <<sent, persistence, alive, got, latest>>

Crash ==
  /\ phase \notin {"off", "panicked"} /\ Event
  /\ Die

\* SUBSCRIBE on a subscriber that has quit: the provider answers on a closed
\* channel.  The container of an expiring session without subscriptions has
\* such a subscriber.
SubscribePanics(i) ==
  /\ Serving /\ ses[i].pc = "up" /\ ses[i].to = "nowhere"
  /\ Event
  /\ Die

\* A WaitGroup panics when it is counted below zero: sessionTimer counts a session
\* down that Stop has counted down as well.
CountPanics == count < 0 /\ Die /\ UNCHANGED left

-----------------------------------------------------------------------------
(* server.NewServer.                                                       *)

\* NewMemProvider: persist.Load
Start ==
  /\ phase = "off" /\ left.starts > 0
  /\ left' = [left EXCEPT !.starts = @ - 1]
  /\ phase' = "retained" /\ todo' = diskRet
  /\ UNCHANGED <<provider, ses, preload, count, persistence, history>>

LoadRetained(m) ==
  /\ phase = "retained" /\ m \in todo
  /\ todo' = todo \ {m}
  /\ Reload(m)
  /\ UNCHANGED <<phase, ses, preload, count, persistence, left, history>>

\* The goroutines are started; NewManager goes through the entries.
ProviderUp ==
  /\ phase = "retained" /\ todo = {}
  /\ phase' = "load" /\ todo' = {i \in Ids : disk[i].exists}
  /\ UNCHANGED <<provider, ses, preload, count, persistence, left, history>>

\* remaining, where the loop of decodeSubscriber is to end
Remaining(size) == size - 1

\* The offset is 1 after the version and grows by an entry in every turn; past
\* the last entry there is nothing to read, and the decoding fails.
Decodes(e) == \E n \in 0 .. Cardinality(e.topics) : EncodedSize(n) = Remaining(e.encoded)

\* Mutant: decodeSessionExpiry does not return early.
Delayed_Any(e) == TRUE

\* decodeSessionExpiry returns early for an entry without delays.
Delayed(e) == e.expire

\* The process may have been off for longer than the delay.
Elapsing(e) == {FALSE, Delayed(e)}

\* LoadSession: decodeSessionExpiry, which wipes the entry of an expired session,
\* and decodeSubscriber; subscriptions that cannot be decoded are deleted.
LoadSession(i) ==
  LET e == disk[i]
      fails == e.encoded > 0 /\ ~Decodes(e)
      decoded == IF e.encoded > 0 /\ Decodes(e) THEN {"sub"} ELSE {}
  IN
  /\ phase = "load" /\ i \in todo
  /\ todo' = todo \ {i}
  /\ \E elapsed \in Elapsing(e) :
       /\ disk' = [disk EXCEPT ![i] = IF elapsed THEN Absent
                                      ELSE IF fails
                                      THEN [e EXCEPT !.topics = {}, !.encoded = 0]
                                      ELSE e]
       /\ preload' = [preload EXCEPT ![i] =
                        decoded \cup IF Delayed(e) /\ ~elapsed THEN {"exp"} ELSE {}]
       /\ alive' = IF elapsed THEN alive \ {i} ELSE alive
       /\ owed' = IF elapsed THEN {o \in owed : o[1] # i} ELSE owed
  /\ UNCHANGED <<provider, phase, ses, count, diskRet, left, got, latest,
                 crashed>>

\* configurePersistedSubscribers goes through preloadConfigs and uses the field
\* sub of each, configurePersistedExpiry the field exp; either may be nil.
NilConfig == \E i \in Ids : preload[i] \in {{"sub"}, {"exp"}}

\* A restored timer is started without the id: it never wipes the session.
Configure ==
  LET known == {i \in Ids : preload[i] # {}} IN
  /\ phase = "load" /\ todo = {}
  /\ phase' = IF NilConfig THEN "panicked" ELSE "up"
  /\ ses' = [i \in Ids |->
               IF i \notin known THEN ses[i]
               ELSE [NoSession EXCEPT !.container = TRUE, !.to = "disk",
                                      !.topics = disk[i].topics]]
  /\ count' = count + Cardinality(known)
  /\ subs' = subs \cup {s \in Ids \X Names : s[1] \in known /\ s[2] \in disk[s[1]].topics}
  /\ disk' = [i \in Ids |-> IF NilConfig \/ i \notin known THEN disk[i]
                            ELSE [disk[i] EXCEPT !.topics = {}, !.encoded = 0,
                                                 !.expire = FALSE]]
  /\ preload' = [i \in Ids |-> {}]
  /\ UNCHANGED <<sent, sending, inbound, inRetained, retained, altered, hand, todo, diskRet,
                 left, history>>

-----------------------------------------------------------------------------

Next ==
  \/ \E i \in Ids : \/ \E k \in Kinds : Connect(i, k)
                    \/ Create(i) \/ Load(i) \/ Online(i)
                    \/ \E t \in Names : Subscribe(i, t) \/ UnSubscribe(i, t)
                    \/ Subscribed(i) \/ SubscribePanics(i) \/ Send(i) \/ Acknowledge(i)
                    \/ SignalOffline(i) \/ ConnectionClose(i) \/ SessionOffline(i)
                    \/ Fire(i) \/ Expire(i)
                    \/ StopOffline(i) \/ StopOnline(i) \/ StopReturns(i)
                    \/ StopExpiry(i)
                    \/ PersistSubscriber(i) \/ LoadSession(i)
                    \/ \E p \in Publishers : Forward(p, i)
  \/ \E p \in Publishers : PublisherTakes(p)
  \/ \E m \in Msgs : LoadRetained(m)
  \/ RetainerTakes \/ ClientRetain \/ ClientPublish
  \/ Stop \/ StopDone \/ ManagerDown \/ ProviderDown
  \/ Crash \/ CountPanics \/ Start \/ ProviderUp \/ Configure

\* The steps of the goroutine that runs NewServer and Shutdown
Server ==
  \/ StopDone \/ ManagerDown \/ ProviderDown \/ ProviderUp \/ Configure
  \/ \E m \in Msgs : LoadRetained(m)
  \/ \E i \in Ids : \/ StopOffline(i) \/ StopOnline(i) \/ StopReturns(i)
                    \/ StopExpiry(i) \/ PersistSubscriber(i) \/ LoadSession(i)

\* Those of a session, which end a connection that Stop closes (Connection, for a
\* client that falls silent)
Session(i) ==
  \/ Create(i) \/ Load(i) \/ Online(i) \/ Subscribed(i)
  \/ ses[i].stopping = "close" /\ SignalOffline(i)
  \/ ConnectionClose(i) \/ SessionOffline(i)

\* Some goroutine of the broker goes on while one can.  (The scheduler is fair to
\* each; this weaker assumption is enough.)  Clients, timers, the operator and
\* crashes need not.
Fairness ==
  WF_vars(\/ Server \/ RetainerTakes \/ CountPanics
          \/ sending /\ ClientPublish
          \/ \E i \in Ids : Session(i)
          \/ \E p \in Publishers : PublisherTakes(p) \/ \E i \in Ids : Forward(p, i))

Spec == Init /\ [][Next]_vars /\ Fairness

-----------------------------------------------------------------------------
(* Properties.                                                             *)

\* A publication that was accepted while a client's subscription was in force
\* is always somewhere: on its way through the provider, in the queue of the
\* client's connection or on disk, until it is acknowledged; whatever the client,
\* the manager and the publishers do at the same time.  Only the death of the
\* process loses what is in memory, and only a shutdown gives up what is still
\* in the provider.
Accounted ==
  \A o \in owed :
    \/ Holds(inbound, o[2])
    \/ \E p \in Publishers : hand[p].m = o[2] /\ o[1] \in hand[p].left
    \/ Holds(ses[o[1]].queue, Live(o[2]))
    \/ Holds(disk[o[1]].packets, Live(o[2]))

\* How often a publication is on its way to a client, outside the channel.
Copies(i, m) ==
    Cardinality({p \in Publishers : hand[p].m = m /\ i \in hand[p].left})
  + Cardinality({k \in DOMAIN ses[i].queue : ses[i].queue[k] = Live(m)})
  + Cardinality({k \in DOMAIN disk[i].packets : disk[i].packets[k] = Live(m)})

\* A publication is at one place at most on its way to a client, and at none once
\* the client has acknowledged it, over reconnects, restarts and crashes.  So it is
\* sent again only when its PUBACK did not reach the session.
DeliveredOnce ==
  \A i \in Ids, m \in Msgs :
    IF Holds(inbound, m) \/ <<i, m>> \in got THEN Copies(i, m) = 0
    ELSE Copies(i, m) <= 1

\* A client that was told of a durable session finds its entry on disk, whenever
\* the process may die.  (The entry holds the packets; the subscriptions do not
\* survive: SubscriptionsDecoded.)
SessionSurvives == \A i \in alive : disk[i].exists

\* Across graceful restarts the last publication retained at a topic stays the
\* one a new subscriber gets, unchanged, once the retainer has caught up: at every
\* topic that does not begin with $, for publications of 5.0 clients.
RetainedKept ==
  ~crashed /\ phase = "up" /\ inRetained = <<>> =>
    \A t \in Names \ Sys :
      latest[t] # None /\ Plan[latest[t]].version = "5.0"
        => retained[t] = latest[t] /\ latest[t] \notin altered

\* NewServer gets to its end, unless the process is killed before, on whatever
\* sessions a shutdown or a crash has left on disk, if the channel has room for
\* every retained message stored there.
StartEnds ==
  phase \in {"retained", "load"} /\ Cardinality(diskRet) <= ChanSize
    ~> phase \in {"up", "off"}

\* Manager.Stop has begun, and no durable session has a connection when it comes
\* to it: such a session would stay counted.
Stoppable ==
  /\ phase = "stop" /\ count = Cardinality(todo)
  /\ \A i \in todo : /\ ses[i].stopping = "no"
                     /\ ses[i].pc = "off" \/ ~ses[i].kind.durable

\* Stop has come to a session whose timer has fired, and waits in cancel.
Caught == \E i \in Ids : ses[i].stopping # "no" /\ ses[i].timer = "fired"

\* server.Shutdown then comes to its end, unless Stop meets a timer that has just
\* fired: Stop gets past its wait groups while connections close and sessions
\* expire, Shutdown persists every container, and the provider's goroutines empty
\* the channels.
ShutdownCompletes == Stoppable ~> phase = "off" \/ Caught

-----------------------------------------------------------------------------
(* What the broker does not promise.  TLC violates each of these; README     *)
(* says with which constants, and how.                                     *)

\* What Shutdown has stored for a subscriber is decoded by the next start.
SubscriptionsDecoded ==
  [][\A i \in Ids : phase = "load" /\ i \in todo \ todo' /\ disk[i].encoded > 0
                      => "sub" \in preload'[i]]_vars

\* Stop persists the delays it cancels.
ExpiryPersisted ==
  [][\A i \in Ids : /\ ses[i].timer = "armed" /\ ses'[i].timer = "none"
                    /\ phase = "stop" /\ phase' = "stop"
                      => disk'[i].expire \/ ~disk'[i].exists]_vars

\* Stop returns when it meets a timer that has fired.
ShutdownAlwaysCompletes == Stoppable ~> phase = "off"

\* NewServer gets to its end, however many retained messages are stored.
StartAlwaysEnds == phase \in {"retained", "load"} ~> phase \in {"up", "off"}

\* Every retained message survives graceful restarts, unchanged.
RetainedAlwaysKept ==
  ~crashed /\ phase = "up" /\ inRetained = <<>> =>
    \A t \in Names : latest[t] # None
                       => retained[t] = latest[t] /\ latest[t] \notin altered

\* A graceful shutdown gives up no accepted publication.
ShutdownKeeps == [][phase = "shutdown" /\ phase' # "off" => owed \subseteq owed']_vars

\* A retained message that was removed does not come back.
StaysCleared ==
  ~crashed /\ phase = "up" /\ inRetained = <<>> => retained = latest

\* A client gets publications in the order in which they were accepted.
DeliveredInOrder ==
  [][\A i \in Ids, m, n \in Msgs :
       <<i, m>> \in got /\ <<i, n>> \in got' \ got => m < n]_vars

\* Retained message m is neither in the tree nor on its way to the client, and
\* has not reached it.
Missed(i, m) ==
  /\ m # None /\ m <= sent
  /\ retained[ses[i].asked] # m /\ <<i, m>> \notin got
  /\ ~Holds(inbound, m) /\ ~Holds(ses[i].queue, Live(m))
  /\ \A p \in Publishers : hand[p].m = m => i \notin hand[p].left

\* When a SUBSCRIBE is answered, the last accepted retained message is found, or
\* is on its way to the client, or has reached it.
RetainedSeen ==
  [][\A i \in Ids : ses[i].pc = "found" /\ ses'[i].pc = "up" /\ ~crashed
                      => ~Missed(i, latest[ses[i].asked])]_vars

\* Session present is told only of a session the client was promised.
PresentMeansKept ==
  \A i \in Ids : ses[i].pc = "create" /\ disk[i].exists => i \in alive

\* A session that is up has a subscriber that can be used.
Usable == \A i \in Ids : ses[i].pc = "up" => ses[i].to # "nowhere"
=============================================================================
