--------------------------- MODULE RestartProofs ---------------------------
(***************************************************************************)
(* The properties of Restart, for any clients, topics, publications and    *)
(* any number of starts: the entry of a durable session survives crashes,  *)
(* a publication that is owed to a client is always somewhere, in one      *)
(* place and in none once the client has acknowledged it, and what a 5.0   *)
(* client has had retained stays so over graceful restarts.                *)
(*                                                                         *)
(* The parts: what a step does to a session and to its entry on disk       *)
(* (the lemmas named ...Effect); the sessions and what is owed to them     *)
(* (IInv); the packets in flight (AllInFlight); the copies of a            *)
(* publication (OnceInv); and the retained messages (RetainedInv).         *)
(***************************************************************************)
EXTENDS Restart, TLAPS

\* The fields of an entry and of a session.
IsEntry(d) == DOMAIN d = {"exists", "topics", "encoded", "expire", "packets"}

Fields == {"container", "to", "topics", "pc", "kind", "queue", "inflight",
           "timer", "asked", "stopping"}
IsSession(s) == DOMAIN s = Fields

DiskShape == disk = [i \in Ids |-> disk[i]] /\ \A i \in Ids : IsEntry(disk[i])
SesShape == ses = [i \in Ids |-> ses[i]] /\ \A i \in Ids : IsSession(ses[i])
Shape == DiskShape /\ SesShape

\* A step changes nothing of the other ids.
Frame(i) ==
  Shape' /\ \A j \in Ids : j # i => ses'[j] = ses[j] /\ disk'[j] = disk[j]

\* It changes nothing of the subscriptions and the queue of i.
SameSubscriber(i) ==
  /\ ses'[i].container = ses[i].container /\ ses'[i].kind = ses[i].kind
  /\ ses'[i].to = ses[i].to /\ ses'[i].topics = ses[i].topics
  /\ ses'[i].queue = ses[i].queue

\* Nor where its connection is.
SameSession(i) ==
  SameSubscriber(i) /\ ses'[i].pc = ses[i].pc /\ ses'[i].asked = ses[i].asked

\* There is no container any more.
GoneSession(i) ==
  /\ ses'[i].container = FALSE /\ ses'[i].to = "none" /\ ses'[i].topics = {}
  /\ ses'[i].queue = <<>> /\ ses'[i].inflight = 0 /\ ses'[i].pc = "off"

\* It leaves the entry and its packets; topics may go or come from the session.
SameEntry(i) ==
  /\ disk'[i].exists = disk[i].exists /\ disk'[i].packets = disk[i].packets
  /\ disk'[i].topics \subseteq disk[i].topics \cup ses[i].topics

-----------------------------------------------------------------------------
(* What a step does to a session and to its entry.                         *)

\* The entries that are written.
LEMMA Entries == /\ IsEntry(Absent) /\ Absent.packets = <<>> /\ Absent.exists = FALSE
                 /\ IsEntry(Created) /\ Created.packets = <<>> /\ Created.exists
                 /\ Absent.topics = {} /\ Created.topics = {}
<1>1. IsEntry(Absent) /\ Absent.packets = <<>> /\ Absent.exists = FALSE /\ Absent.topics = {}
  BY Zenon DEF IsEntry, Absent
<1>2. ASSUME NEW d, IsEntry(d), NEW e, e = [d EXCEPT !.exists = TRUE]
      PROVE  IsEntry(e) /\ e.exists /\ e.packets = d.packets /\ e.topics = d.topics
  BY <1>2, Zenon DEF IsEntry
<1>3. Created = [Absent EXCEPT !.exists = TRUE]
  BY Zenon DEF Created
<1> QED
  BY <1>1, <1>2, <1>3, Zenon

\* One session and one entry are replaced.
LEMMA Replaced ==
  ASSUME Shape, NEW i \in Ids, NEW s, IsSession(s), NEW e, IsEntry(e),
         ses' = [ses EXCEPT ![i] = s], disk' = [disk EXCEPT ![i] = e]
  PROVE  Frame(i) /\ ses'[i] = s /\ disk'[i] = e
<1>1. ses'[i] = s /\ \A j \in Ids : j # i => ses'[j] = ses[j]
  BY Zenon DEF Shape, SesShape
<1>2. disk'[i] = e /\ \A j \in Ids : j # i => disk'[j] = disk[j]
  BY Zenon DEF Shape, DiskShape
<1>3. ses' = [j \in Ids |-> ses'[j]] /\ disk' = [j \in Ids |-> disk'[j]]
  BY Zenon DEF Shape, SesShape, DiskShape
<1>4. SesShape' /\ DiskShape'
  BY <1>1, <1>2, <1>3, Zenon DEF Shape, SesShape, DiskShape
<1> QED
  BY <1>1, <1>2, <1>4, Zenon DEF Frame, Shape

\* The session only.
LEMMA ReplacedSession ==
  ASSUME Shape, NEW i \in Ids, NEW s, IsSession(s),
         ses' = [ses EXCEPT ![i] = s], disk' = disk
  PROVE  Frame(i) /\ ses'[i] = s /\ disk'[i] = disk[i]
<1>1. disk' = [disk EXCEPT ![i] = disk[i]] /\ IsEntry(disk[i])
  BY Zenon DEF Shape, DiskShape
<1> QED
  BY <1>1, Replaced, Zenon

\* A container that is removed.
LEMMA Removed ==
  ASSUME NEW x, NEW s, s = [NoSession EXCEPT !.stopping = x]
  PROVE  /\ IsSession(s) /\ s.container = FALSE /\ s.to = "none" /\ s.topics = {}
         /\ s.queue = <<>> /\ s.inflight = 0 /\ s.pc = "off"
<1>1. /\ IsSession(NoSession) /\ NoSession.container = FALSE /\ NoSession.to = "none"
      /\ NoSession.topics = {} /\ NoSession.queue = <<>> /\ NoSession.inflight = 0
      /\ NoSession.pc = "off"
  BY Zenon DEF IsSession, Fields, NoSession
<1> QED
  BY <1>1, Zenon DEF IsSession, Fields

\* An id without a container.
LEMMA NoSessionFields ==
  /\ IsSession(NoSession) /\ NoSession.container = FALSE /\ NoSession.to = "none"
  /\ NoSession.topics = {} /\ NoSession.queue = <<>> /\ NoSession.inflight = 0
  /\ NoSession.pc = "off"
  BY Zenon DEF IsSession, Fields, NoSession

\* loadContainer
LEMMA ConnectEffect ==
  ASSUME Shape, NEW i \in Ids, NEW k, Connect(i, k)
  PROVE  /\ Frame(i) /\ ses'[i].container = TRUE /\ ses'[i].pc = "create"
         /\ ses'[i].inflight = ses[i].inflight
         /\ ses'[i].kind = k /\ ses'[i].queue = ses[i].queue
         /\ ses'[i].to = IF Renewed(i, k) THEN "disk" ELSE ses[i].to
         /\ ses'[i].topics = IF Renewed(i, k) THEN {} ELSE ses[i].topics
         /\ disk'[i] = IF k.clean THEN Absent ELSE disk[i]
<1> DEFINE r == Renewed(i, k)
           s == [ses[i] EXCEPT !.container = TRUE, !.pc = "create", !.kind = k,
                               !.timer = "none", !.to = IF r THEN "disk" ELSE @,
                               !.topics = IF r THEN {} ELSE @]
           e == IF k.clean THEN Absent ELSE disk[i]
<1>1. ses' = [ses EXCEPT ![i] = s]
  BY Zenon DEF Connect
<1>2. disk' = [disk EXCEPT ![i] = e] /\ IsEntry(e)
  <2>1. IsEntry(disk[i]) /\ disk = [disk EXCEPT ![i] = disk[i]]
    BY Zenon DEF Shape, DiskShape
  <2>2. disk' = IF k.clean THEN [disk EXCEPT ![i] = Absent] ELSE disk
    BY Zenon DEF Connect
  <2> QED
    BY <2>1, <2>2, Entries, Zenon
<1> HIDE DEF r, e
<1>3. /\ IsSession(s) /\ s.container = TRUE /\ s.pc = "create" /\ s.kind = k
      /\ s.inflight = ses[i].inflight
      /\ s.queue = ses[i].queue /\ s.to = (IF r THEN "disk" ELSE ses[i].to)
      /\ s.topics = (IF r THEN {} ELSE ses[i].topics)
  <2>1. IsSession(ses[i])
    BY Zenon DEF Shape, SesShape
  <2> QED
    BY <2>1, Zenon DEF IsSession, Fields
<1> HIDE DEF s
<1>4. Frame(i) /\ ses'[i] = s /\ disk'[i] = e
  BY <1>1, <1>2, <1>3, Replaced, Zenon
<1> QED
  BY <1>3, <1>4, Zenon DEF r, e

\* persistence.Create
LEMMA CreateEffect ==
  ASSUME Shape, NEW i \in Ids, Create(i)
  PROVE  /\ Frame(i) /\ SameSubscriber(i) /\ ses'[i].pc = "load"
         /\ ses'[i].inflight = ses[i].inflight
         /\ disk'[i].exists /\ (~disk[i].exists => disk'[i].packets = <<>>)
         /\ disk[i].exists => disk'[i] = disk[i]
         /\ disk'[i].topics \subseteq disk[i].topics
<1> DEFINE s == [ses[i] EXCEPT !.pc = "load"]
           e == IF disk[i].exists THEN disk[i] ELSE Created
<1>1. ses' = [ses EXCEPT ![i] = s] /\ disk' = [disk EXCEPT ![i] = e]
  BY Zenon DEF Create, Shape, SesShape, DiskShape
<1>2. /\ IsSession(s) /\ s.pc = "load" /\ s.container = ses[i].container
      /\ s.inflight = ses[i].inflight
      /\ s.kind = ses[i].kind /\ s.to = ses[i].to /\ s.topics = ses[i].topics
      /\ s.queue = ses[i].queue
  BY Zenon DEF Shape, SesShape, IsSession, Fields
<1>3. /\ IsEntry(e) /\ e.exists /\ (~disk[i].exists => e.packets = <<>>)
      /\ disk[i].exists => e = disk[i]
      /\ e.topics \subseteq disk[i].topics
  BY Entries, Zenon DEF Shape, DiskShape
<1> HIDE DEF s, e
<1>4. Frame(i) /\ ses'[i] = s /\ disk'[i] = e
  BY <1>1, <1>2, <1>3, Replaced, Zenon
<1> QED
  BY <1>2, <1>3, <1>4, Zenon DEF SameSubscriber

\* The CONNACK: the packets on disk are the queue.
LEMMA LoadEffect ==
  ASSUME Shape, NEW i \in Ids, Load(i)
  PROVE  /\ Frame(i) /\ ses'[i].pc = "online" /\ ses'[i].queue = disk[i].packets
         /\ ses'[i].inflight = ses[i].inflight
         /\ ses'[i].container = ses[i].container /\ ses'[i].kind = ses[i].kind
         /\ ses'[i].to = ses[i].to /\ ses'[i].topics = ses[i].topics
         /\ disk'[i].exists = disk[i].exists /\ disk'[i].packets = <<>>
         /\ disk'[i].topics = disk[i].topics
<1> DEFINE x == disk[i].packets
           s == [ses[i] EXCEPT !.pc = "online", !.queue = x]
           e == [disk[i] EXCEPT !.packets = <<>>]
<1>1. ses' = [ses EXCEPT ![i] = s] /\ disk' = [disk EXCEPT ![i] = e]
  BY Zenon DEF Load, Loaded, Shape, SesShape, DiskShape
<1> HIDE DEF x
<1>2. /\ IsSession(s) /\ s.pc = "online" /\ s.queue = x
      /\ s.inflight = ses[i].inflight
      /\ s.container = ses[i].container /\ s.kind = ses[i].kind
      /\ s.to = ses[i].to /\ s.topics = ses[i].topics
  <2>1. IsSession(ses[i])
    BY Zenon DEF Shape, SesShape
  <2> QED
    BY <2>1, Zenon DEF IsSession, Fields
<1>3. /\ IsEntry(e) /\ e.exists = disk[i].exists /\ e.packets = <<>>
      /\ e.topics = disk[i].topics
  BY Zenon DEF Shape, DiskShape, IsEntry
<1> HIDE DEF s, e
<1>4. Frame(i) /\ ses'[i] = s /\ disk'[i] = e
  <2>1. IsSession(s) /\ IsEntry(e)
    BY <1>2, <1>3, Zenon
  <2> QED
    BY <1>1, <2>1, Replaced, Zenon
<1> QED
  BY <1>2, <1>3, <1>4, Zenon DEF x

\* SignalOnline
LEMMA OnlineEffect ==
  ASSUME Shape, NEW i \in Ids, Online(i)
  PROVE  /\ Frame(i) /\ disk'[i] = disk[i] /\ ses'[i].pc = "up"
         /\ ses'[i].inflight = ses[i].inflight
         /\ ses'[i].container = ses[i].container /\ ses'[i].kind = ses[i].kind
         /\ ses'[i].to = IF ses[i].to = "nowhere" THEN "nowhere" ELSE "conn"
         /\ ses'[i].topics = ses[i].topics /\ ses'[i].queue = ses[i].queue
<1> DEFINE s == [ses[i] EXCEPT !.pc = "up", !.to = IF @ = "nowhere" THEN @ ELSE "conn"]
<1>1. ses' = [ses EXCEPT ![i] = s] /\ disk' = disk
  BY Zenon DEF Online, Shape, SesShape, persistence
<1>2. /\ IsSession(s) /\ s.pc = "up" /\ s.container = ses[i].container
      /\ s.inflight = ses[i].inflight
      /\ s.kind = ses[i].kind /\ s.topics = ses[i].topics /\ s.queue = ses[i].queue
      /\ s.to = IF ses[i].to = "nowhere" THEN "nowhere" ELSE "conn"
  <2>1. IsSession(ses[i])
    BY Zenon DEF Shape, SesShape
  <2> QED
    BY <2>1, Zenon DEF IsSession, Fields
<1> HIDE DEF s
<1> QED
  BY <1>1, <1>2, ReplacedSession, Zenon

\* provider.subscribe, before the retained messages are looked up
LEMMA SubscribeEffect ==
  ASSUME Shape, NEW i \in Ids, NEW t, Subscribe(i, t)
  PROVE  /\ Frame(i) /\ disk'[i] = disk[i] /\ SameSubscriber(i)
         /\ ses'[i].inflight = ses[i].inflight
         /\ ses'[i].pc = "found" /\ ses'[i].asked = t
<1> DEFINE s == [ses[i] EXCEPT !.pc = "found", !.asked = t]
<1>1. ses' = [ses EXCEPT ![i] = s] /\ disk' = disk
  BY Zenon DEF Subscribe, Shape, SesShape, persistence
<1>2. /\ IsSession(s) /\ s.pc = "found" /\ s.asked = t /\ s.container = ses[i].container
      /\ s.inflight = ses[i].inflight
      /\ s.kind = ses[i].kind /\ s.to = ses[i].to /\ s.topics = ses[i].topics
      /\ s.queue = ses[i].queue
  <2>1. IsSession(ses[i])
    BY Zenon DEF Shape, SesShape
  <2> QED
    BY <2>1, Zenon DEF IsSession, Fields
<1> HIDE DEF s
<1>3. Frame(i) /\ ses'[i] = s /\ disk'[i] = disk[i]
  BY <1>1, <1>2, ReplacedSession, Zenon
<1> QED
  BY <1>2, <1>3, Zenon DEF SameSubscriber

\* retainSearch and the reply
LEMMA SubscribedEffect ==
  ASSUME Shape, NEW i \in Ids, Subscribed(i)
  PROVE  /\ Frame(i) /\ disk'[i] = disk[i] /\ ses'[i].pc = "up"
         /\ ses'[i].inflight = ses[i].inflight
         /\ ses'[i].container = ses[i].container /\ ses'[i].kind = ses[i].kind
         /\ ses'[i].to = ses[i].to /\ ses'[i].topics = ses[i].topics \cup {ses[i].asked}
         /\ \/ ses'[i].queue = ses[i].queue
            \/ /\ retained[ses[i].asked] # None
               /\ ses'[i].queue = Append(ses[i].queue,
                                         [m |-> retained[ses[i].asked], live |-> FALSE])
<1> DEFINE t == ses[i].asked
           x == [m |-> retained[t], live |-> FALSE]
           q == IF retained[t] = None THEN ses[i].queue ELSE Append(ses[i].queue, x)
           s == [ses[i] EXCEPT !.pc = "up", !.asked = None, !.topics = @ \cup {t},
                               !.queue = IF retained[t] = None THEN @ ELSE Append(@, x)]
<1>1. ses' = [ses EXCEPT ![i] = s] /\ disk' = disk
  BY Zenon DEF Subscribed, persistence
<1> HIDE DEF t, x
<1>2. /\ IsSession(s) /\ s.pc = "up" /\ s.container = ses[i].container
      /\ s.inflight = ses[i].inflight
      /\ s.kind = ses[i].kind /\ s.to = ses[i].to /\ s.topics = ses[i].topics \cup {t}
      /\ s.queue = q
  <2>1. IsSession(ses[i])
    BY Zenon DEF Shape, SesShape
  <2> QED
    BY <2>1, Zenon DEF IsSession, Fields
<1> HIDE DEF s
<1>3. Frame(i) /\ ses'[i] = s /\ disk'[i] = disk[i]
  BY <1>1, <1>2, ReplacedSession, Zenon
<1> QED
  BY <1>2, <1>3, Zenon DEF t, x

\* SignalUnSubscribe
LEMMA UnSubscribeEffect ==
  ASSUME Shape, NEW i \in Ids, NEW t, UnSubscribe(i, t)
  PROVE  /\ Frame(i) /\ disk'[i] = disk[i] /\ ses'[i].pc = ses[i].pc
         /\ ses'[i].inflight = ses[i].inflight
         /\ ses'[i].container = ses[i].container /\ ses'[i].kind = ses[i].kind
         /\ ses'[i].to = ses[i].to /\ ses'[i].topics = ses[i].topics \ {t}
         /\ ses'[i].queue = ses[i].queue /\ ses'[i].asked = ses[i].asked
<1> DEFINE s == [ses[i] EXCEPT !.topics = @ \ {t}]
<1>1. ses' = [ses EXCEPT ![i] = s] /\ disk' = disk
  BY Zenon DEF UnSubscribe, Shape, SesShape, persistence
<1>2. /\ IsSession(s) /\ s.pc = ses[i].pc /\ s.container = ses[i].container
      /\ s.inflight = ses[i].inflight
      /\ s.kind = ses[i].kind /\ s.to = ses[i].to /\ s.topics = ses[i].topics \ {t}
      /\ s.queue = ses[i].queue /\ s.asked = ses[i].asked
  <2>1. IsSession(ses[i])
    BY Zenon DEF Shape, SesShape
  <2> QED
    BY <2>1, Zenon DEF IsSession, Fields
<1> HIDE DEF s
<1> QED
  BY <1>1, <1>2, ReplacedSession, Zenon

\* The next packet is sent.
LEMMA SendEffect ==
  ASSUME Shape, NEW i \in Ids, Send(i)
  PROVE  /\ Frame(i) /\ SameSession(i) /\ disk'[i] = disk[i]
         /\ ses'[i].inflight = ses[i].inflight + 1
<1> DEFINE n == ses[i].inflight + 1
           s == [ses[i] EXCEPT !.inflight = n]
<1>1. ses' = [ses EXCEPT ![i] = s] /\ disk' = disk
  BY Zenon DEF Send, Shape, SesShape, persistence
<1> HIDE DEF n
<1>2. /\ IsSession(s) /\ s.pc = ses[i].pc /\ s.container = ses[i].container
      /\ s.kind = ses[i].kind /\ s.to = ses[i].to /\ s.topics = ses[i].topics
      /\ s.queue = ses[i].queue /\ s.asked = ses[i].asked /\ s.inflight = n
  <2>1. IsSession(ses[i])
    BY Zenon DEF Shape, SesShape
  <2> QED
    BY <2>1, Zenon DEF IsSession, Fields
<1> HIDE DEF s
<1>3. Frame(i) /\ ses'[i] = s /\ disk'[i] = disk[i]
  BY <1>1, <1>2, ReplacedSession, Zenon
<1> QED
  BY <1>2, <1>3, Zenon DEF n, SameSession, SameSubscriber

\* The first packet is acknowledged.
LEMMA AcknowledgeEffect ==
  ASSUME Shape, NEW i \in Ids, Acknowledge(i)
  PROVE  /\ Frame(i) /\ disk'[i] = disk[i] /\ ses'[i].pc = ses[i].pc
         /\ ses'[i].container = ses[i].container /\ ses'[i].kind = ses[i].kind
         /\ ses'[i].to = ses[i].to /\ ses'[i].topics = ses[i].topics
         /\ ses'[i].queue = Tail(ses[i].queue) /\ ses'[i].asked = ses[i].asked
         /\ ses'[i].inflight = ses[i].inflight - 1
<1> DEFINE q == Tail(ses[i].queue)
           n == ses[i].inflight - 1
           s == [ses[i] EXCEPT !.queue = q, !.inflight = n]
<1>1. ses' = [ses EXCEPT ![i] = s] /\ disk' = disk
  BY Zenon DEF Acknowledge, Shape, SesShape, persistence
<1> HIDE DEF q, n
<1>2. /\ IsSession(s) /\ s.pc = ses[i].pc /\ s.container = ses[i].container
      /\ s.kind = ses[i].kind /\ s.to = ses[i].to /\ s.topics = ses[i].topics
      /\ s.queue = q /\ s.asked = ses[i].asked /\ s.inflight = n
  <2>1. IsSession(ses[i])
    BY Zenon DEF Shape, SesShape
  <2> QED
    BY <2>1, Zenon DEF IsSession, Fields
<1> HIDE DEF s
<1>3. Frame(i) /\ ses'[i] = s /\ disk'[i] = disk[i]
  BY <1>1, <1>2, ReplacedSession, Zenon
<1> QED
  BY <1>2, <1>3, Zenon DEF q, n

\* SignalOffline
LEMMA SignalOfflineEffect ==
  ASSUME Shape, NEW i \in Ids, SignalOffline(i)
  PROVE  /\ Frame(i) /\ disk'[i] = disk[i] /\ ses'[i].pc = "offline"
         /\ ses'[i].inflight = ses[i].inflight
         /\ ses'[i].container = ses[i].container /\ ses'[i].kind = ses[i].kind
         /\ ses'[i].to = IF ses[i].kind.durable /\ ses[i].to # "nowhere" THEN "disk"
                         ELSE "nowhere"
         /\ ses'[i].topics = IF ses[i].kind.durable THEN ses[i].topics ELSE {}
         /\ ses'[i].queue = ses[i].queue
<1> DEFINE d == ses[i].kind.durable
           s == [ses[i] EXCEPT !.pc = "offline",
                               !.to = IF d /\ @ # "nowhere" THEN "disk" ELSE "nowhere",
                               !.topics = IF d THEN @ ELSE {}]
<1>1. ses' = [ses EXCEPT ![i] = s] /\ disk' = disk
  BY Zenon DEF SignalOffline, persistence
<1> HIDE DEF d
<1>2. /\ IsSession(s) /\ s.pc = "offline" /\ s.container = ses[i].container
      /\ s.inflight = ses[i].inflight
      /\ s.kind = ses[i].kind /\ s.queue = ses[i].queue
      /\ s.to = (IF d /\ ses[i].to # "nowhere" THEN "disk" ELSE "nowhere")
      /\ s.topics = (IF d THEN ses[i].topics ELSE {})
  <2>1. IsSession(ses[i])
    BY Zenon DEF Shape, SesShape
  <2> QED
    BY <2>1, Zenon DEF IsSession, Fields
<1> HIDE DEF s
<1>3. Frame(i) /\ ses'[i] = s /\ disk'[i] = disk[i]
  BY <1>1, <1>2, ReplacedSession, Zenon
<1> QED
  BY <1>2, <1>3, Zenon DEF d

\* The packets of a closed connection are stored or deleted.
LEMMA ConnectionCloseEffect ==
  ASSUME Shape, NEW i \in Ids, ConnectionClose(i)
  PROVE  /\ Frame(i) /\ ses'[i].pc = "closed" /\ ses'[i].queue = <<>> /\ ses'[i].inflight = 0
         /\ ses'[i].container = ses[i].container /\ ses'[i].kind = ses[i].kind
         /\ ses'[i].to = IF ses[i].topics = {} THEN "nowhere" ELSE ses[i].to
         /\ ses'[i].topics = ses[i].topics /\ disk'[i].exists = disk[i].exists
         /\ disk'[i].packets = IF ses[i].kind.durable /\ disk[i].exists
                               THEN Stored(i) ELSE <<>>
         /\ disk'[i].topics = disk[i].topics
<1> DEFINE b == ses[i].topics = {}
           x == IF ses[i].kind.durable /\ disk[i].exists
                THEN Stored(i) ELSE <<>>
           s == [ses[i] EXCEPT !.pc = "closed", !.queue = <<>>, !.inflight = 0,
                               !.to = IF b THEN "nowhere" ELSE @]
           e == [disk[i] EXCEPT !.packets = x]
<1>1. ses' = [ses EXCEPT ![i] = s]
  BY Zenon DEF ConnectionClose
<1>2. disk' = [disk EXCEPT ![i] = e]
  BY Zenon DEF ConnectionClose, Shape, DiskShape
<1> HIDE DEF b, x
<1>3. /\ IsSession(s) /\ s.pc = "closed" /\ s.queue = <<>> /\ s.inflight = 0
      /\ s.container = ses[i].container /\ s.kind = ses[i].kind
      /\ s.to = (IF b THEN "nowhere" ELSE ses[i].to) /\ s.topics = ses[i].topics
  <2>1. IsSession(ses[i])
    BY Zenon DEF Shape, SesShape
  <2> QED
    BY <2>1, Zenon DEF IsSession, Fields
<1>4. /\ IsEntry(e) /\ e.exists = disk[i].exists /\ e.packets = x
      /\ e.topics = disk[i].topics
  <2>1. IsEntry(disk[i])
    BY Zenon DEF Shape, DiskShape
  <2> QED
    BY <2>1, Zenon DEF IsEntry
<1> HIDE DEF s, e
<1>5. Frame(i) /\ ses'[i] = s /\ disk'[i] = e
  <2>1. IsSession(s) /\ IsEntry(e)
    BY <1>3, <1>4, Zenon
  <2> QED
    BY <1>1, <1>2, <2>1, Replaced, Zenon
<1> QED
  BY <1>3, <1>4, <1>5, Zenon DEF b, x

\* sessionOffline: the container is kept or not, and the entry is too unless the session
\* is not durable.
LEMMA SessionOfflineEffect ==
  ASSUME Shape, NEW i \in Ids, SessionOffline(i)
  PROVE  /\ Frame(i) /\ ses'[i].pc = "off"
         /\ \/ /\ SameSubscriber(i) /\ disk'[i] = disk[i]
               /\ ses'[i].inflight = ses[i].inflight
            \/ /\ ses[i].topics = {} /\ GoneSession(i)
               /\ disk'[i] = IF ses[i].kind.durable THEN disk[i] ELSE Absent
<1> DEFINE x == IF ses[i].kind.expires THEN "armed" ELSE "none"
           kept == [ses[i] EXCEPT !.pc = "off", !.timer = x]
           gone == [NoSession EXCEPT !.stopping = ses[i].stopping]
           e == IF ses[i].kind.durable THEN disk[i] ELSE Absent
<1>0. IsEntry(disk[i]) /\ IsSession(ses[i]) /\ disk = [disk EXCEPT ![i] = disk[i]]
  BY Zenon DEF Shape, SesShape, DiskShape
<1>1. \/ ses' = [ses EXCEPT ![i] = kept] /\ disk' = disk
      \/ ses' = [ses EXCEPT ![i] = gone] /\ ses[i].topics = {}
         /\ disk' = IF ses[i].kind.durable THEN disk ELSE [disk EXCEPT ![i] = Absent]
  BY Zenon DEF SessionOffline, Wiped
<1>2. CASE ses' = [ses EXCEPT ![i] = kept] /\ disk' = disk
  <2> HIDE DEF x
  <2>1. /\ IsSession(kept) /\ kept.pc = "off" /\ kept.container = ses[i].container
        /\ kept.kind = ses[i].kind /\ kept.to = ses[i].to /\ kept.topics = ses[i].topics
        /\ kept.queue = ses[i].queue /\ kept.inflight = ses[i].inflight
    BY <1>0, Zenon DEF IsSession, Fields
  <2> HIDE DEF kept
  <2>2. Frame(i) /\ ses'[i] = kept /\ disk'[i] = disk[i]
    BY <1>2, <2>1, ReplacedSession, Zenon
  <2> QED
    BY <2>1, <2>2, Zenon DEF SameSubscriber
<1>3. CASE /\ ses' = [ses EXCEPT ![i] = gone] /\ ses[i].topics = {}
           /\ disk' = IF ses[i].kind.durable THEN disk ELSE [disk EXCEPT ![i] = Absent]
  <2>1. disk' = [disk EXCEPT ![i] = e] /\ IsEntry(e)
    BY <1>0, <1>3, Entries, Zenon
  <2>2. /\ IsSession(gone) /\ gone.container = FALSE /\ gone.to = "none"
        /\ gone.topics = {} /\ gone.queue = <<>> /\ gone.inflight = 0 /\ gone.pc = "off"
    BY Removed, Zenon
  <2> HIDE DEF gone, e
  <2>3. Frame(i) /\ ses'[i] = gone /\ disk'[i] = e
    BY <1>3, <2>1, <2>2, Replaced, Zenon
  <2> QED
    BY <1>3, <2>2, <2>3, Zenon DEF GoneSession, e
<1> QED
  BY <1>1, <1>2, <1>3, Zenon

\* sessionTimer
LEMMA ExpireEffect ==
  ASSUME Shape, NEW i \in Ids, Expire(i)
  PROVE  Frame(i) /\ GoneSession(i) /\ disk'[i] = Absent
<1> DEFINE x == ses[i].stopping
           y == IF x = "no" THEN "none" ELSE "fired"
           gone == [NoSession EXCEPT !.stopping = x, !.timer = y]
<1>1. ses' = [ses EXCEPT ![i] = gone] /\ disk' = [disk EXCEPT ![i] = Absent]
  BY Zenon DEF Expire
<1> HIDE DEF x, y
<1>2. /\ IsSession(gone) /\ gone.container = FALSE /\ gone.to = "none"
      /\ gone.topics = {} /\ gone.queue = <<>> /\ gone.inflight = 0 /\ gone.pc = "off"
  BY NoSessionFields, Zenon DEF IsSession, Fields
<1> HIDE DEF gone
<1>3. IsEntry(Absent)
  BY Entries, Zenon
<1>4. Frame(i) /\ ses'[i] = gone /\ disk'[i] = Absent
  BY <1>1, <1>2, <1>3, Replaced, Zenon
<1> QED
  BY <1>2, <1>4, Zenon DEF GoneSession

\* What Manager.Stop does with a container, and a timer that fires.
StopSteps(i) ==
  StopOffline(i) \/ StopOnline(i) \/ StopReturns(i) \/ StopExpiry(i) \/ Fire(i)

\* Neither touches the subscriber and the entry.
LEMMA StopEffect ==
  ASSUME Shape, NEW i \in Ids, StopSteps(i)
  PROVE  /\ Frame(i) /\ SameSession(i) /\ disk'[i] = disk[i]
         /\ ses'[i].inflight = ses[i].inflight
<1>1. disk' = disk
  BY Zenon DEF StopSteps, StopOffline, StopOnline, StopReturns, StopExpiry, Fire, persistence
<1>2. IsSession(ses[i])
  BY Zenon DEF Shape, SesShape
<1>3. PICK s : /\ ses' = [ses EXCEPT ![i] = s] /\ IsSession(s)
               /\ s.pc = ses[i].pc /\ s.container = ses[i].container
               /\ s.kind = ses[i].kind /\ s.to = ses[i].to /\ s.topics = ses[i].topics
               /\ s.queue = ses[i].queue /\ s.asked = ses[i].asked
               /\ s.inflight = ses[i].inflight
  <2> DEFINE Like(s) == /\ IsSession(s)
                        /\ s.pc = ses[i].pc /\ s.container = ses[i].container
                        /\ s.kind = ses[i].kind /\ s.to = ses[i].to
                        /\ s.topics = ses[i].topics
                        /\ s.queue = ses[i].queue /\ s.asked = ses[i].asked
                        /\ s.inflight = ses[i].inflight
  <2>1. CASE StopOffline(i)
    <3> DEFINE x == IF ses[i].container THEN "expiry" ELSE ses[i].stopping
               s == [ses[i] EXCEPT !.stopping = x]
    <3>1. ses' = [ses EXCEPT ![i] = s]
      BY <2>1, Zenon DEF StopOffline, Shape, SesShape
    <3> HIDE DEF x
    <3>2. Like(s)
      BY <1>2, Zenon DEF IsSession, Fields
    <3> HIDE DEF s
    <3> QED
      BY <3>1, <3>2, Zenon
  <2>2. CASE StopOnline(i)
    <3> DEFINE s == [ses[i] EXCEPT !.stopping = "close"]
    <3>1. ses' = [ses EXCEPT ![i] = s]
      BY <2>2, Zenon DEF StopOnline, Shape, SesShape
    <3>2. Like(s)
      BY <1>2, Zenon DEF IsSession, Fields
    <3> HIDE DEF s
    <3> QED
      BY <3>1, <3>2, Zenon
  <2>3. CASE StopReturns(i)
    <3> DEFINE s == [ses[i] EXCEPT !.stopping = "expiry"]
    <3>1. ses' = [ses EXCEPT ![i] = s]
      BY <2>3, Zenon DEF StopReturns, Shape, SesShape
    <3>2. Like(s)
      BY <1>2, Zenon DEF IsSession, Fields
    <3> HIDE DEF s
    <3> QED
      BY <3>1, <3>2, Zenon
  <2>4. CASE StopExpiry(i)
    <3> DEFINE s == [ses[i] EXCEPT !.timer = "none", !.stopping = "no"]
    <3>1. ses' = [ses EXCEPT ![i] = s]
      BY <2>4, Zenon DEF StopExpiry, Shape, SesShape
    <3>2. Like(s)
      BY <1>2, Zenon DEF IsSession, Fields
    <3> HIDE DEF s
    <3> QED
      BY <3>1, <3>2, Zenon
  <2>5. CASE Fire(i)
    <3> DEFINE s == [ses[i] EXCEPT !.timer = "fired"]
    <3>1. ses' = [ses EXCEPT ![i] = s]
      BY <2>5, Zenon DEF Fire, Shape, SesShape
    <3>2. Like(s)
      BY <1>2, Zenon DEF IsSession, Fields
    <3> HIDE DEF s
    <3> QED
      BY <3>1, <3>2, Zenon
  <2> QED
    BY <2>1, <2>2, <2>3, <2>4, <2>5, Zenon DEF StopSteps
<1>4. Frame(i) /\ ses'[i] = s /\ disk'[i] = disk[i]
  BY <1>1, <1>3, ReplacedSession, Zenon
<1> QED
  BY <1>3, <1>4, Zenon DEF SameSession, SameSubscriber

\* persistSubscriber
LEMMA PersistEffect ==
  ASSUME Shape, NEW i \in Ids, PersistSubscriber(i)
  PROVE  Frame(i) /\ GoneSession(i) /\ SameEntry(i)
<1> DEFINE x == ses[i].topics
           y == EncodedSize(Cardinality(ses[i].topics))
           e == [disk[i] EXCEPT !.topics = x, !.encoded = y]
<1>1. disk' = [disk EXCEPT ![i] = e] /\ ses' = [ses EXCEPT ![i] = NoSession]
  BY Zenon DEF PersistSubscriber, Shape, DiskShape
<1> HIDE DEF x, y
<1>2. /\ IsEntry(e) /\ e.exists = disk[i].exists /\ e.packets = disk[i].packets
      /\ e.topics = x
  <2>1. IsEntry(disk[i])
    BY Zenon DEF Shape, DiskShape
  <2> QED
    BY <2>1, Zenon DEF IsEntry
<1> HIDE DEF e
<1>3. Frame(i) /\ ses'[i] = NoSession /\ disk'[i] = e
  BY <1>1, <1>2, NoSessionFields, Replaced, Zenon
<1>4. x \subseteq disk[i].topics \cup ses[i].topics
  BY Zenon DEF x
<1> QED
  BY <1>2, <1>3, <1>4, NoSessionFields, Zenon DEF GoneSession, SameEntry

\* LoadSession: the entry of an expired session goes.
LEMMA LoadSessionEffect ==
  ASSUME Shape, preload \in [Ids -> SUBSET {"sub", "exp"}], NEW i \in Ids, LoadSession(i)
  PROVE  /\ Frame(i) /\ SameSession(i)
         /\ \E x \in SUBSET {"sub", "exp"} : preload' = [preload EXCEPT ![i] = x]
         /\ \/ SameEntry(i) /\ alive' = alive /\ owed' = owed
            \/ /\ disk'[i] = Absent /\ "exp" \notin preload'[i]
               /\ alive' = alive \ {i} /\ owed' = {o \in owed : o[1] # i}
<1> DEFINE cut == [disk[i] EXCEPT !.topics = {}, !.encoded = 0]
           d == IF disk[i].encoded > 0 /\ Decodes(disk[i]) THEN {"sub"} ELSE {}
<1>0. IsEntry(disk[i]) /\ IsSession(ses[i]) /\ ses = [ses EXCEPT ![i] = ses[i]]
  BY Zenon DEF Shape, SesShape, DiskShape
<1>1. ses' = [ses EXCEPT ![i] = ses[i]]
  BY <1>0, Zenon DEF LoadSession
<1>2. /\ IsEntry(cut) /\ cut.exists = disk[i].exists /\ cut.packets = disk[i].packets
      /\ cut.topics = {}
  BY <1>0, Zenon DEF IsEntry
<1> HIDE DEF cut
<1>3. PICK elapsed \in Elapsing(disk[i]) :
        /\ \/ elapsed /\ disk' = [disk EXCEPT ![i] = Absent]
           \/ ~elapsed /\ disk' = [disk EXCEPT ![i] = cut]
           \/ ~elapsed /\ disk' = [disk EXCEPT ![i] = disk[i]]
        /\ preload' = [preload EXCEPT ![i] =
                         d \cup IF Delayed(disk[i]) /\ ~elapsed THEN {"exp"} ELSE {}]
        /\ alive' = IF elapsed THEN alive \ {i} ELSE alive
        /\ owed' = IF elapsed THEN {o \in owed : o[1] # i} ELSE owed
  BY Zenon DEF LoadSession, cut
<1>4. \E x \in SUBSET {"sub", "exp"} : preload' = [preload EXCEPT ![i] = x]
  <2> DEFINE y == d \cup IF Delayed(disk[i]) /\ ~elapsed THEN {"exp"} ELSE {}
  <2>1. preload' = [preload EXCEPT ![i] = y]
    BY <1>3, Zenon
  <2>2. y \in SUBSET {"sub", "exp"}
    BY Zenon
  <2> HIDE DEF y
  <2> QED
    BY <2>1, <2>2, Zenon
<1>5. CASE elapsed
  <2>1. disk' = [disk EXCEPT ![i] = Absent] /\ IsEntry(Absent)
    BY <1>3, <1>5, Entries, Zenon
  <2>2. Frame(i) /\ ses'[i] = ses[i] /\ disk'[i] = Absent
    BY <1>0, <1>1, <2>1, Replaced, Zenon
  <2>3. preload' = [preload EXCEPT ![i] = d] /\ d \subseteq {"sub"}
    BY <1>3, <1>5, Zenon
  <2> HIDE DEF d
  <2>5. "exp" \notin preload'[i]
    BY <2>3, Zenon
  <2>4. alive' = alive \ {i} /\ owed' = {o \in owed : o[1] # i}
    BY <1>3, <1>5, Zenon
  <2> QED
    BY <1>4, <2>2, <2>4, <2>5, Zenon DEF SameSession, SameSubscriber
<1>6. CASE ~elapsed
  <2>1. PICK e : /\ disk' = [disk EXCEPT ![i] = e] /\ IsEntry(e)
                 /\ e.exists = disk[i].exists /\ e.packets = disk[i].packets
                 /\ e.topics \subseteq disk[i].topics \cup ses[i].topics
    <3>1. /\ cut.topics \subseteq disk[i].topics \cup ses[i].topics
          /\ disk[i].topics \subseteq disk[i].topics \cup ses[i].topics
      BY <1>2, Zenon
    <3> QED
      BY <1>0, <1>2, <1>3, <1>6, <3>1, Zenon
  <2>2. Frame(i) /\ ses'[i] = ses[i] /\ disk'[i] = e
    BY <1>0, <1>1, <2>1, Replaced, Zenon
  <2>3. alive' = alive /\ owed' = owed
    BY <1>3, <1>6, Zenon
  <2> QED
    BY <1>4, <2>1, <2>2, <2>3, Zenon DEF SameSession, SameSubscriber, SameEntry
<1> QED
  BY <1>5, <1>6, Zenon

\* A publication goes to the queue or to disk.
LEMMA ForwardEffect ==
  ASSUME Shape, NEW i \in Ids, NEW p, Forward(p, i)
  PROVE  /\ Frame(i) /\ ses'[i].pc = ses[i].pc /\ ses'[i].asked = ses[i].asked
         /\ ses'[i].inflight = ses[i].inflight
         /\ ses'[i].container = ses[i].container /\ ses'[i].kind = ses[i].kind
         /\ ses'[i].to = ses[i].to /\ ses'[i].topics = ses[i].topics
         /\ ses'[i].queue = IF ses[i].to = "conn"
                            THEN Append(ses[i].queue, Live(hand[p].m)) ELSE ses[i].queue
         /\ disk'[i].exists = disk[i].exists
         /\ disk'[i].packets = IF ses[i].to = "disk" /\ disk[i].exists
                               THEN Append(disk[i].packets, Live(hand[p].m))
                               ELSE disk[i].packets
         /\ disk'[i].topics = disk[i].topics
<1> DEFINE item == Live(hand[p].m)
           q == IF ses[i].to = "conn" THEN Append(ses[i].queue, item) ELSE ses[i].queue
           x == IF ses[i].to = "disk" /\ disk[i].exists
                THEN Append(disk[i].packets, item) ELSE disk[i].packets
           s == [ses[i] EXCEPT !.queue = q]
           e == [disk[i] EXCEPT !.packets = x]
<1>0. IsEntry(disk[i]) /\ IsSession(ses[i])
  BY Zenon DEF Shape, SesShape, DiskShape
<1>1. ses' = [ses EXCEPT ![i] = s]
  BY Zenon DEF Forward, Shape, SesShape
<1>2. disk' = [disk EXCEPT ![i] = e]
  BY Zenon DEF Forward, Shape, DiskShape
<1> HIDE DEF item, x, q
<1>4. /\ IsSession(s) /\ s.pc = ses[i].pc /\ s.container = ses[i].container
      /\ s.inflight = ses[i].inflight
      /\ s.kind = ses[i].kind /\ s.to = ses[i].to /\ s.topics = ses[i].topics
      /\ s.queue = q /\ s.asked = ses[i].asked
  BY <1>0, Zenon DEF IsSession, Fields
<1>5. /\ IsEntry(e) /\ e.exists = disk[i].exists /\ e.packets = x
      /\ e.topics = disk[i].topics
  BY <1>0, Zenon DEF IsEntry
<1> HIDE DEF s, e
<1>6. Frame(i) /\ ses'[i] = s /\ disk'[i] = e
  BY <1>1, <1>2, <1>4, <1>5, Replaced, Zenon
<1> QED
  BY <1>4, <1>5, <1>6, Zenon DEF item, x, q

\* The sessions that were read from disk get containers.
LEMMA ConfigureEffect ==
  ASSUME Shape, Configure, NEW i \in Ids
  PROVE  /\ SameEntry(i) /\ IsEntry(disk'[i]) /\ IsSession(ses'[i])
         /\ disk'[i].topics \in {disk[i].topics, {}}
         /\ \/ preload[i] = {} /\ ses'[i] = ses[i]
            \/ /\ preload[i] # {} /\ ses'[i].container = TRUE /\ ses'[i].to = "disk"
               /\ ses'[i].topics = disk[i].topics /\ ses'[i].pc = "off"
               /\ ses'[i].queue = <<>> /\ ses'[i].inflight = 0
<1> DEFINE s == [NoSession EXCEPT !.container = TRUE, !.to = "disk",
                                  !.topics = disk[i].topics]
           e == [disk[i] EXCEPT !.topics = {}, !.encoded = 0, !.expire = FALSE]
<1>0. IsEntry(disk[i]) /\ IsSession(ses[i])
  BY Zenon DEF Shape, SesShape, DiskShape
<1>1. \/ preload[i] = {} /\ ses'[i] = ses[i]
      \/ preload[i] # {} /\ ses'[i] = s
  BY Zenon DEF Configure
<1>2. disk'[i] = disk[i] \/ disk'[i] = e
  BY Zenon DEF Configure
<1>3. /\ IsSession(s) /\ s.container = TRUE /\ s.to = "disk" /\ s.topics = disk[i].topics
      /\ s.pc = "off" /\ s.queue = <<>> /\ s.inflight = 0
  BY NoSessionFields, Zenon DEF IsSession, Fields
<1>4. /\ IsEntry(e) /\ e.exists = disk[i].exists /\ e.packets = disk[i].packets
      /\ e.topics = {}
  BY <1>0, Zenon DEF IsEntry
<1> HIDE DEF s, e
<1>5. disk'[i].topics \subseteq disk[i].topics \cup ses[i].topics
  BY <1>2, <1>4, Zenon
<1> QED
  BY <1>0, <1>1, <1>2, <1>3, <1>4, <1>5, Zenon DEF SameEntry

\* Publication m can be the one retained at t.
OfTopic(t, m) == m \in Msgs /\ Plan[m].topic = t /\ Plan[m].retain # "clear"

RetainedTypes ==
  /\ sent \in 0..Len(Plan) /\ inRetained \in Seq(Msgs)
  /\ retained \in [Names -> Msgs \cup {None}] /\ latest \in [Names -> Msgs \cup {None}]
  /\ \A t \in Names : /\ retained[t] # None => OfTopic(t, retained[t])
                      /\ latest[t] # None => OfTopic(t, latest[t])

\* What is stored is for different topics.
StoredTopics ==
  /\ \A m \in diskRet : OfTopic(Plan[m].topic, m)
  /\ \A m, n \in diskRet : Plan[m].topic = Plan[n].topic => m = n

\* Nothing is for the retainer without a process, and at a start only what is stored.
OnlyStored ==
  /\ phase = "off" => inRetained = <<>>
  /\ phase = "retained" => /\ todo \subseteq diskRet
                           /\ \A k \in 1..Len(inRetained) : inRetained[k] \in diskRet

\* Publication k for the retainer is for t, and none after it is.
LastFor(t, k) == /\ Plan[inRetained[k]].topic = t
                 /\ \A j \in k+1..Len(inRetained) : Plan[inRetained[j]].topic # t

\* m is retained at t once the retainer has caught up.
ToBe(t, m) ==
  /\ \A k \in 1..Len(inRetained) : LastFor(t, k) => inRetained[k] = m
  /\ (\A k \in 1..Len(inRetained) : Plan[inRetained[k]].topic # t) => retained[t] = m

\* It is stored, on its way to the retainer at a start, or to be retained.
Found(m, t) ==
  /\ phase = "off" => m \in diskRet
  /\ phase = "retained" => m \in todo \/ \E k \in 1..Len(inRetained) : inRetained[k] = m
  /\ phase \notin {"off", "retained"} => ToBe(t, m)

\* A publication that is stored and read as it was.
Lasting(m) == m # None /\ Plan[m].version = "5.0"

LatestFound ==
  ~crashed => \A t \in Names \ Sys : Lasting(latest[t]) => Found(latest[t], t)

\* Only the others are altered.
AlteredOnly == \A m \in altered : ~Lasting(m)

RetainedInv == RetainedTypes /\ StoredTopics /\ OnlyStored /\ LatestFound /\ AlteredOnly

-----------------------------------------------------------------------------
(* The retained messages.                                                  *)

\* The publications of the client.
LEMMA Planned ==
  /\ Len(Plan) \in Nat /\ Msgs = 1..Len(Plan)
  /\ \A m \in Msgs : Plan[m].topic \in Names /\ Plan[m].retain \in {"no", "keep", "clear"}
<1> DEFINE S == [topic : Names, retain : {"no", "keep", "clear"},
                 version : {"5.0", "3.1.1"}]
<1>1. Plan \in Seq(S)  BY ProviderAssumption, Zenon
<1> HIDE DEF S
<1>2. Len(Plan) \in Nat /\ Msgs = 1..Len(Plan) /\ \A m \in Msgs : Plan[m] \in S
  BY <1>1 DEF Msgs
<1>3. \A x \in S : x.topic \in Names /\ x.retain \in {"no", "keep", "clear"}  BY Zenon DEF S
<1> QED  BY <1>2, <1>3, Zenon

\* Steps that have nothing to do with them.
LEMMA RetainedSame ==
  ASSUME RetainedInv, UNCHANGED <<sent, inRetained, retained, altered, latest, diskRet, crashed>>,
         \/ phase' = phase /\ (phase # "retained" \/ todo' = todo)
         \/ phase \notin {"off", "retained"} /\ phase' \notin {"off", "retained"}
  PROVE  RetainedInv'
<1>1. RetainedTypes' /\ StoredTopics'
  BY Zenon DEF RetainedInv, RetainedTypes, StoredTopics, OfTopic
<1>2. OnlyStored'
  BY Zenon DEF RetainedInv, OnlyStored
<1>3. \A t, m : ToBe(t, m)' <=> ToBe(t, m)
  BY Zenon DEF ToBe, LastFor
<1>4. \A t, m : Found(m, t) => Found(m, t)'
  BY <1>3, Zenon DEF Found
<1> QED
  BY <1>1, <1>2, <1>4, Zenon DEF RetainedInv, LatestFound, AlteredOnly

\* The publication m comes to the retainer, and it may be the latest of its topic.
LEMMA RetainAppends ==
  ASSUME NEW m \in Msgs, inRetained \in Seq(Msgs), inRetained' = Append(inRetained, m)
  PROVE  /\ Len(inRetained') = Len(inRetained) + 1 /\ Len(inRetained) \in Nat
         /\ inRetained'[Len(inRetained) + 1] = m /\ inRetained' \in Seq(Msgs)
         /\ \A k \in 1..Len(inRetained) : inRetained'[k] = inRetained[k]
  OBVIOUS

\* SignalPublish hands a publication to the retainer.
LEMMA ClientRetainKeeps ==
  ASSUME RetainedInv, ClientRetain
  PROVE  RetainedInv'
<1> DEFINE m == sent + 1
           u == Plan[m].topic
<1>1. /\ m \in Msgs /\ u \in Names
      /\ Plan[m].retain \in {"no", "keep", "clear"}
  <2>1. sent \in 0..Len(Plan) /\ sent < Len(Plan)
    BY Zenon DEF ClientRetain, Retain, RetainedInv, RetainedTypes
  <2>2. m \in Msgs
    BY <2>1, Planned
  <2> QED
    BY <2>2, Planned, Zenon
<1>2. /\ inRetained' = Append(inRetained, m) /\ latest' = [latest EXCEPT ![u] = Kept(m)]
      /\ UNCHANGED <<sent, retained, altered, diskRet, crashed, phase, todo>>
      /\ phase \in {"up", "stop"}
  BY Zenon DEF ClientRetain, Retain, Serving, persistence, manager
<1> HIDE DEF m
<1>3. /\ Len(inRetained') = Len(inRetained) + 1 /\ Len(inRetained) \in Nat
      /\ inRetained'[Len(inRetained) + 1] = m /\ inRetained' \in Seq(Msgs)
      /\ \A k \in 1..Len(inRetained) : inRetained'[k] = inRetained[k]
  BY <1>1, <1>2, RetainAppends, Zenon DEF RetainedInv, RetainedTypes
<1> HIDE DEF u
<1>4. /\ latest'[u] = Kept(m) /\ \A t \in Names : t # u => latest'[t] = latest[t]
      /\ Kept(m) # None => Kept(m) = m /\ OfTopic(u, m)
  BY <1>1, <1>2, Zenon DEF Kept, OfTopic, u, RetainedInv, RetainedTypes
<1>5. RetainedTypes'
  <2>1. Kept(m) \in Msgs \cup {None}
    BY <1>1, Zenon DEF Kept
  <2>2. latest' \in [Names -> Msgs \cup {None}]
    BY <1>2, <2>1, Zenon DEF RetainedInv, RetainedTypes
  <2> QED
    BY <1>2, <1>3, <1>4, <2>2, Zenon DEF RetainedInv, RetainedTypes, OfTopic
<1>6. StoredTopics' /\ OnlyStored'
  BY <1>2, Zenon DEF RetainedInv, StoredTopics, OnlyStored, OfTopic
<1>7. ASSUME NEW t \in Names \ Sys, NEW x, x = latest'[t], Lasting(x), ~crashed
      PROVE  ToBe(t, x)'
  <2>1. CASE t = u
    <3>1. x = m
      BY <1>4, <1>7, <2>1, Zenon DEF Lasting
    <3>2. \A k \in 1..Len(inRetained') : LastFor(t, k)' => k = Len(inRetained) + 1
      BY <1>3, <2>1 DEF LastFor, u
    <3>3. Plan[inRetained'[Len(inRetained) + 1]].topic = t
      BY <1>3, <2>1, Zenon DEF u
    <3>4. Len(inRetained) + 1 \in 1..Len(inRetained')
      BY <1>3
    <3> QED
      BY <1>3, <3>1, <3>2, <3>3, <3>4, Zenon DEF ToBe
  <2>2. CASE t # u
    <3>1. ToBe(t, x)
      BY <1>2, <1>4, <1>7, <2>2, Zenon DEF RetainedInv, LatestFound, Found
    <3>2. \A k \in 1..Len(inRetained') : LastFor(t, k)' => LastFor(t, k) /\ k \in 1..Len(inRetained)
      BY <1>3, <2>2 DEF LastFor, u
    <3>3. \A k \in 1..Len(inRetained) : k \in 1..Len(inRetained')
      BY <1>3
    <3> QED
      BY <1>2, <1>3, <3>1, <3>2, <3>3, Zenon DEF ToBe
  <2> QED
    BY <2>1, <2>2, Zenon
<1>8. LatestFound'
  BY <1>2, <1>7, Zenon DEF LatestFound, Found, Lasting
<1> QED
  BY <1>2, <1>5, <1>6, <1>8, Zenon DEF RetainedInv, AlteredOnly

\* retainer takes one.
LEMMA RetainerKeeps ==
  ASSUME RetainedInv, RetainerTakes
  PROVE  RetainedInv'
<1> DEFINE h == inRetained[1]
           u == Plan[h].topic
<1>1. /\ inRetained' = Tail(inRetained) /\ inRetained # <<>> /\ inRetained \in Seq(Msgs)
      /\ h \in Msgs /\ u \in Names /\ Plan[h].retain \in {"no", "keep", "clear"}
      /\ Head(inRetained) = h
  <2>1. inRetained' = Tail(inRetained) /\ inRetained # <<>> /\ inRetained \in Seq(Msgs)
    BY Zenon DEF RetainerTakes, Retainer, RetainedInv, RetainedTypes
  <2>2. h \in Msgs /\ Head(inRetained) = h
    BY <2>1
  <2> QED
    BY <2>1, <2>2, Planned, Zenon
<1>2. /\ retained' = [retained EXCEPT ![u] = Kept(h)]
      /\ UNCHANGED <<sent, altered, latest, diskRet, crashed, phase, todo>>
      /\ phase \notin {"off", "retained"}
  BY <1>1, Zenon DEF RetainerTakes, Retainer, Running, persistence, manager, history
<1>3. /\ Len(inRetained') = Len(inRetained) - 1 /\ Len(inRetained) \in Nat
      /\ Len(inRetained) > 0 /\ inRetained' \in Seq(Msgs)
      /\ \A k \in 1..Len(inRetained') : inRetained'[k] = inRetained[k + 1]
  BY <1>1
<1> HIDE DEF u
<1>4. /\ retained'[u] = Kept(h) /\ \A t \in Names : t # u => retained'[t] = retained[t]
      /\ Kept(h) # None => Kept(h) = h /\ OfTopic(u, h)
  BY <1>1, <1>2, Zenon DEF Kept, OfTopic, u, RetainedInv, RetainedTypes
<1>5. RetainedTypes'
  <2>1. Kept(h) \in Msgs \cup {None}
    BY <1>1, Zenon DEF Kept
  <2>2. retained' \in [Names -> Msgs \cup {None}]
    BY <1>2, <2>1, Zenon DEF RetainedInv, RetainedTypes
  <2> QED
    BY <1>2, <1>3, <1>4, <2>2, Zenon DEF RetainedInv, RetainedTypes, OfTopic
<1>6. StoredTopics' /\ OnlyStored'
  BY <1>2, Zenon DEF RetainedInv, StoredTopics, OnlyStored, OfTopic
<1>7. ASSUME NEW t \in Names \ Sys, NEW x, x = latest[t], Lasting(x), ~crashed
      PROVE  ToBe(t, x)'
  <2>1. ToBe(t, x) /\ OfTopic(t, x)
    BY <1>2, <1>7, Zenon DEF RetainedInv, LatestFound, Found, RetainedTypes, Lasting
  <2>2. ASSUME NEW k \in 1..Len(inRetained'), LastFor(t, k)' PROVE LastFor(t, k + 1)
    <3>1. \A j \in k+1+1..Len(inRetained) : /\ j - 1 \in k+1..Len(inRetained')
                                           /\ inRetained'[j - 1] = inRetained[j]
      BY <1>3
    <3> QED
      BY <1>3, <2>2, <3>1, Zenon DEF LastFor
  <2>3. ASSUME NEW k \in 1..Len(inRetained'), LastFor(t, k)' PROVE inRetained'[k] = x
    <3>1. k + 1 \in 1..Len(inRetained)
      BY <1>3
    <3> QED
      BY <1>3, <2>1, <2>2, <2>3, <3>1, Zenon DEF ToBe
  <2>4. ASSUME \A k \in 1..Len(inRetained') : Plan[inRetained'[k]].topic # t
        PROVE  retained'[t] = x
    <3>1. \A k \in 2..Len(inRetained) : Plan[inRetained[k]].topic # t
      <4>1. \A k \in 2..Len(inRetained) : /\ k - 1 \in 1..Len(inRetained')
                                          /\ inRetained'[k - 1] = inRetained[k]
        BY <1>3
      <4> QED
        BY <2>4, <4>1, Zenon
    <3>2. CASE u = t
      <4>1. LastFor(t, 1)
        BY <3>1, <3>2 DEF LastFor, u
      <4>2. h = x
        BY <1>3, <2>1, <4>1 DEF ToBe
      <4> QED
        BY <1>4, <2>1, <3>2, <4>2, Zenon DEF Kept, OfTopic
    <3>3. CASE u # t
      BY <1>3, <1>4, <2>1, <3>1, <3>3 DEF ToBe, u
    <3> QED
      BY <3>2, <3>3, Zenon
  <2> QED
    BY <1>2, <2>3, <2>4, Zenon DEF ToBe
<1>8. LatestFound'
  BY <1>2, <1>7, Zenon DEF LatestFound, Found, Lasting
<1> QED
  BY <1>2, <1>5, <1>6, <1>8, Zenon DEF RetainedInv, AlteredOnly

\* NewMemProvider loads what is stored.
LEMMA LoadRetainedKeeps ==
  ASSUME RetainedInv, NEW m, LoadRetained(m)
  PROVE  RetainedInv'
<1>1. /\ phase = "retained" /\ m \in todo /\ todo' = todo \ {m}
      /\ UNCHANGED <<sent, retained, latest, diskRet, crashed, phase>>
      /\ \/ /\ inRetained' = Append(inRetained, m)
            /\ altered' = IF Plan[m].version = "5.0" THEN altered ELSE altered \cup {m}
         \/ Plan[m].version # "5.0" /\ UNCHANGED <<inRetained, altered>>
  BY Zenon DEF LoadRetained, Reload, provider, persistence, history
<1>2. m \in diskRet /\ m \in Msgs
  BY <1>1, Zenon DEF RetainedInv, OnlyStored, StoredTopics, OfTopic
<1>3. StoredTopics' /\ AlteredOnly'
  BY <1>1, Zenon DEF RetainedInv, StoredTopics, OfTopic, AlteredOnly, Lasting
<1>4. CASE inRetained' = Append(inRetained, m)
  <2>1. /\ Len(inRetained') = Len(inRetained) + 1 /\ Len(inRetained) \in Nat
        /\ inRetained'[Len(inRetained) + 1] = m /\ inRetained' \in Seq(Msgs)
        /\ \A k \in 1..Len(inRetained) : inRetained'[k] = inRetained[k]
    BY <1>2, <1>4, RetainAppends, Zenon DEF RetainedInv, RetainedTypes
  <2>2. RetainedTypes'
    BY <1>1, <2>1, Zenon DEF RetainedInv, RetainedTypes, OfTopic
  <2>3. OnlyStored'
    BY <1>1, <1>2, <2>1 DEF RetainedInv, OnlyStored
  <2>4. ASSUME NEW t, NEW x, Found(x, t) PROVE Found(x, t)'
    <3>1. \A k \in 1..Len(inRetained) : k \in 1..Len(inRetained')
      BY <2>1
    <3>2. Len(inRetained) + 1 \in 1..Len(inRetained')
      BY <2>1
    <3>3. x \in todo' \/ \E k \in 1..Len(inRetained') : inRetained'[k] = x
      BY <1>1, <2>1, <2>4, <3>1, <3>2, Zenon DEF Found
    <3> QED
      BY <1>1, <3>3, Zenon DEF Found
  <2> QED
    BY <1>1, <1>3, <2>2, <2>3, <2>4, Zenon DEF RetainedInv, LatestFound
<1>5. CASE Plan[m].version # "5.0" /\ UNCHANGED <<inRetained, altered>>
  <2>1. RetainedTypes' /\ OnlyStored'
    BY <1>1, <1>5, Zenon DEF RetainedInv, RetainedTypes, OfTopic, OnlyStored
  <2>2. ASSUME NEW t, NEW x, Lasting(x), Found(x, t) PROVE Found(x, t)'
    BY <1>1, <1>5, <2>2, Zenon DEF Found, Lasting
  <2> QED
    BY <1>1, <1>3, <2>1, <2>2, Zenon DEF RetainedInv, LatestFound
<1> QED
  BY <1>1, <1>4, <1>5, Zenon

\* A start begins, and the retainer runs when all is loaded.
LEMMA StartKeeps ==
  ASSUME RetainedInv, Start \/ ProviderUp
  PROVE  RetainedInv'
<1>1. UNCHANGED <<sent, inRetained, retained, altered, latest, diskRet, crashed>>
  BY Zenon DEF Start, ProviderUp, provider, persistence, history
<1>2. RetainedTypes' /\ StoredTopics'
  BY <1>1, Zenon DEF RetainedInv, RetainedTypes, StoredTopics, OfTopic
<1>3. OnlyStored'
  BY <1>1 DEF RetainedInv, OnlyStored, Start, ProviderUp
<1>4. ASSUME NEW t \in Names, NEW x, x = latest[t], Lasting(x), Found(x, t) PROVE Found(x, t)'
  <2>1. CASE Start
    BY <1>4, <2>1, Zenon DEF Start, Found
  <2>2. CASE ProviderUp
    <3>1. /\ phase = "retained" /\ phase' = "load"
          /\ \A k \in 1..Len(inRetained) : inRetained[k] \in diskRet
      BY <2>2, Zenon DEF ProviderUp, RetainedInv, OnlyStored
    <3>2. PICK k \in 1..Len(inRetained) : inRetained[k] = x
      BY <1>4, <2>2, Zenon DEF ProviderUp, Found
    <3>3. x \in diskRet /\ Plan[x].topic = t
      BY <1>4, <3>1, <3>2, Zenon DEF RetainedInv, RetainedTypes, OfTopic, Lasting
    <3>4. \A j \in 1..Len(inRetained) : Plan[inRetained[j]].topic = t => inRetained[j] = x
      BY <3>1, <3>3, Zenon DEF RetainedInv, StoredTopics
    <3>5. ToBe(t, x)'
      BY <1>1, <3>2, <3>3, <3>4, Zenon DEF ToBe, LastFor
    <3> QED
      BY <3>1, <3>5, Zenon DEF Found
  <2> QED
    BY <2>1, <2>2, Zenon
<1> QED
  BY <1>1, <1>2, <1>3, <1>4, Zenon DEF RetainedInv, LatestFound, AlteredOnly

\* topicsMgr.Shutdown stores what is retained.
LEMMA ProviderDownKeeps ==
  ASSUME RetainedInv, ProviderDown
  PROVE  RetainedInv'
<1>1. /\ phase = "drain" /\ phase' = "off" /\ inRetained = <<>> /\ inRetained' = <<>>
      /\ diskRet' = StoreRetained(diskRet) /\ retained' = [t \in Names |-> None]
      /\ altered' = {} /\ UNCHANGED <<sent, latest, crashed>>
  BY Zenon DEF ProviderDown, Drained, Fresh, history
<1>2. RetainedTypes'
  BY <1>1, Zenon DEF RetainedInv, RetainedTypes, OfTopic
<1>3. \A m \in Encoded : \E t \in Names : m = retained[t] /\ OfTopic(t, m)
  BY Zenon DEF Encoded, RetainedInv, RetainedTypes
<1>4. StoredTopics'
  <2>1. CASE diskRet' = diskRet
    BY <2>1, Zenon DEF RetainedInv, StoredTopics, OfTopic
  <2>2. CASE diskRet' = Encoded
    BY <1>3, <2>2 DEF StoredTopics, OfTopic
  <2> QED
    BY <1>1, <2>1, <2>2, Zenon DEF StoreRetained
<1>5. OnlyStored'
  BY <1>1, Zenon DEF OnlyStored
<1>6. ASSUME NEW t \in Names \ Sys, NEW x, x = latest[t], Lasting(x), Found(x, t)
      PROVE  Found(x, t)'
  <2>1. retained[t] = x
    BY <1>1, <1>6 DEF Found, ToBe
  <2>2. x \in Encoded
    BY <1>6, <2>1, Zenon DEF Encoded, Lasting
  <2> QED
    BY <1>1, <2>2, Zenon DEF Found, StoreRetained
<1> QED
  BY <1>1, <1>2, <1>4, <1>5, <1>6, Zenon DEF RetainedInv, LatestFound, AlteredOnly

\* After a crash nothing is promised of the retained messages until they are stored.
LEMMA DieKeeps ==
  ASSUME RetainedInv, Die
  PROVE  RetainedInv'
<1>1. /\ phase' = "off" /\ inRetained' = <<>> /\ retained' = [t \in Names |-> None]
      /\ altered' = {} /\ crashed' /\ UNCHANGED <<sent, latest, diskRet>>
  BY Zenon DEF Die, Fresh, persistence
<1>2. RetainedTypes' /\ StoredTopics'
  BY <1>1 DEF RetainedInv, RetainedTypes, StoredTopics, OfTopic
<1> QED
  BY <1>1, <1>2, Zenon DEF RetainedInv, OnlyStored, LatestFound, AlteredOnly

\* The publication that is accepted was retained before.
LEMMA PublishKeeps ==
  ASSUME RetainedInv, ClientPublish
  PROVE  RetainedInv'
<1>1. /\ sent < Len(Plan) /\ sent' = sent + 1 /\ phase \in {"up", "stop"}
      /\ UNCHANGED <<inRetained, retained, altered, latest, diskRet, crashed, phase, todo>>
  BY Zenon DEF ClientPublish, Publish, Serving, manager, persistence
<1>2. sent' \in 0..Len(Plan)
  BY <1>1, Planned DEF RetainedInv, RetainedTypes
<1>3. RetainedTypes' /\ StoredTopics' /\ OnlyStored'
  BY <1>1, <1>2, Zenon DEF RetainedInv, RetainedTypes, StoredTopics, OnlyStored, OfTopic
<1>4. \A t, m : Found(m, t) => Found(m, t)'
  BY <1>1, Zenon DEF Found, ToBe, LastFor
<1> QED
  BY <1>1, <1>3, <1>4, Zenon DEF RetainedInv, LatestFound, AlteredOnly

\* The sessions have nothing to do with what is retained.
LEMMA SessionKeeps ==
  ASSUME RetainedInv, NEW i \in Ids,
         \/ \E k \in Kinds : Connect(i, k)
         \/ Create(i) \/ Load(i) \/ Online(i)
         \/ \E t \in Names : Subscribe(i, t) \/ UnSubscribe(i, t)
         \/ Subscribed(i) \/ Send(i) \/ Acknowledge(i)
         \/ SignalOffline(i) \/ ConnectionClose(i) \/ SessionOffline(i)
         \/ Expire(i)
         \/ StopSteps(i)
         \/ PersistSubscriber(i) \/ LoadSession(i)
         \/ \E p \in Publishers : Forward(p, i)
  PROVE  RetainedInv'
<1>1. UNCHANGED <<sent, inRetained, retained, altered>>
  BY Zenon DEF Connect, Create, Load, Online, Subscribe, UnSubscribe, Subscribed, Send,
         Acknowledge, SignalOffline, ConnectionClose, SessionOffline, Fire, Expire, StopSteps,
         StopOffline, StopOnline, StopReturns, StopExpiry, PersistSubscriber, LoadSession, Forward, Quit, SubInsert, SubRemove,
         Handed, provider
<1>2. UNCHANGED <<latest, diskRet, crashed>>
  BY Zenon DEF Connect, Create, Load, Online, Subscribe, UnSubscribe, Subscribed, Send,
         Acknowledge, SignalOffline, ConnectionClose, SessionOffline, Fire, Expire, StopSteps,
         StopOffline, StopOnline, StopReturns, StopExpiry, PersistSubscriber, LoadSession, Forward, persistence, history
<1>3. phase' = phase /\ phase # "retained"
  BY Zenon DEF Connect, Create, Load, Online, Subscribe, UnSubscribe, Subscribed, Send,
         Acknowledge, SignalOffline, ConnectionClose, SessionOffline, Fire, Expire, StopSteps,
         StopOffline, StopOnline, StopReturns, StopExpiry, PersistSubscriber, LoadSession, Forward, Serving
<1> QED
  BY <1>1, <1>2, <1>3, RetainedSame, Zenon

\* Every step keeps what is said of the retained messages.
LEMMA RetainedStep == RetainedInv /\ [Next]_vars => RetainedInv'
<1> SUFFICES ASSUME RetainedInv, [Next]_vars PROVE RetainedInv'  BY Zenon
<1>1. ASSUME Crash \/ CountPanics \/ \E i \in Ids : SubscribePanics(i) PROVE Die
  BY <1>1, Zenon DEF Crash, CountPanics, SubscribePanics
<1>2. ASSUME \/ Stop \/ StopDone \/ ManagerDown \/ Configure
             \/ \E p \in Publishers : PublisherTakes(p)
             \/ UNCHANGED vars
      PROVE  RetainedInv'
  <2>1. UNCHANGED <<sent, inRetained, retained, altered, latest, diskRet, crashed>>
    BY <1>2, Zenon DEF Stop, StopDone, ManagerDown, Configure, PublisherTakes, Take, vars,
         provider, persistence, history
  <2>2. \/ phase' = phase /\ (phase # "retained" \/ todo' = todo)
        \/ phase \notin {"off", "retained"} /\ phase' \notin {"off", "retained"}
    BY <1>2, Zenon DEF Stop, StopDone, ManagerDown, Configure, PublisherTakes, Running, vars,
         manager
  <2> QED
    BY <2>1, <2>2, RetainedSame, Zenon
<1> QED
  BY <1>1, <1>2, SessionKeeps, ClientRetainKeeps, RetainerKeeps, LoadRetainedKeeps, StartKeeps,
     ProviderDownKeeps, DieKeeps, PublishKeeps, Zenon DEF Next, StopSteps

\* It holds at first.
LEMMA RetainedInit == Init => RetainedInv
<1> SUFFICES ASSUME Init PROVE RetainedInv  BY Zenon
<1>1. RetainedTypes
  BY Planned DEF Init, ProviderInit, RetainedTypes, OfTopic
<1>2. StoredTopics /\ OnlyStored /\ LatestFound /\ AlteredOnly
  BY Zenon DEF Init, ProviderInit, StoredTopics, OnlyStored, LatestFound, Lasting, AlteredOnly
<1> QED
  BY <1>1, <1>2, Zenon DEF RetainedInv

-----------------------------------------------------------------------------
(* The sessions and what is owed to them.                                  *)

\* A connection in one of these states has told its client of the session.
Told == {"online", "up", "found", "offline", "closed"}

\* The subscriptions of a session are in the tree, and its subscriber can store or send.
Subscribing(i) ==
  /\ \A t \in ses[i].topics : <<i, t>> \in subs
  /\ ses[i].topics # {} => ses[i].to \in {"conn", "disk"}
  /\ ses[i].to = "disk" /\ ses[i].topics # {} => disk[i].exists
  /\ ses[i].pc = "found" => /\ ses[i].asked \in Names /\ <<i, ses[i].asked>> \in subs
                            /\ ses[i].to = "conn"
  /\ ses[i].pc = "up" => ses[i].to \in {"conn", "nowhere"}

\* Only a session that is up has a queue; what is not durable has nothing to come.
Queueing(i) ==
  /\ ses[i].to = "conn" => ses[i].pc \in {"up", "found"}
  /\ ses[i].pc \in {"off", "create", "load", "closed"} => ses[i].queue = <<>>
  /\ ses[i].pc \in {"offline", "closed"} /\ ~ses[i].kind.durable
       => ses[i].topics = {} /\ \A m \in Msgs : <<i, m>> \notin owed

\* Where there is an entry.
Entered(i) ==
  /\ ses[i].pc \in Told \cup {"load"} => disk[i].exists
  /\ ses[i].container /\ ses[i].pc = "off" /\ phase # "panicked" => disk[i].exists
  /\ ~disk[i].exists => disk[i].topics = {} /\ disk[i].packets = <<>>
  /\ phase = "load" /\ (i \in todo \/ "exp" \in preload[i]) => disk[i].exists
  /\ phase # "load" => preload[i] = {}

\* How far a start or a shutdown is.
Phased(i) ==
  /\ ~ses[i].container => ses[i].topics = {} /\ ses[i].pc = "off"
  /\ phase = "stop" /\ ses[i].pc # "off" => i \in todo
  /\ phase \in {"shutdown", "panicked"} => ses[i].pc = "off"
  /\ phase = "shutdown" => (ses[i].container <=> i \in todo)
  /\ phase \in {"drain", "off", "retained", "load"} => ~ses[i].container

\* What the client was told.
Promised(i) ==
  /\ i \in alive => disk[i].exists
  /\ i \in alive /\ ses[i].pc \in Told => ses[i].kind.durable

\* Publisher p is to hand m to i.
InHand(p, i, m) == hand[p].m = m /\ i \in hand[p].left

\* A publication that i is owed is in its queue or on disk, or on its way, and then the
\* subscription is still in force.
Settled(i, m) ==
  \/ Holds(ses[i].queue, Live(m))
  \/ Holds(disk[i].packets, Live(m))
  \/ /\ Plan[m].topic \in ses[i].topics
     /\ Holds(inbound, m) \/ \E p \in Publishers : InHand(p, i, m)

AllSettled(i) == \A m \in Msgs : <<i, m>> \in owed => Settled(i, m)

\* The topics are topics.
Named(i) == ses[i].topics \subseteq Names /\ disk[i].topics \subseteq Names

Mine(i) ==
  /\ Subscribing(i) /\ Queueing(i) /\ Entered(i) /\ Phased(i) /\ Promised(i)
  /\ AllSettled(i) /\ Named(i)

HandTypes ==
  /\ inbound \in Seq(Msgs)
  /\ hand \in [Publishers -> [m : Msgs \cup {None}, left : SUBSET Ids]]
  /\ \A p \in Publishers : hand[p].left # {} => hand[p].m \in Msgs

QueueTypes == \A i \in Ids : ses[i].queue \in Seq(Item) /\ disk[i].packets \in Seq(Item)

PairTypes ==
  /\ owed \subseteq Ids \X Msgs /\ got \subseteq Ids \X Msgs /\ alive \subseteq Ids
  /\ preload \in [Ids -> SUBSET {"sub", "exp"}]

Types == HandTypes /\ QueueTypes /\ PairTypes

\* The inductive invariant of the sessions.
IInv == Shape /\ Types /\ \A i \in Ids : Mine(i)

\* The packets that have been sent are packets of the queue.
InFlight(i) == ses[i].inflight \in Nat /\ ses[i].inflight <= Len(ses[i].queue)

AllInFlight == \A i \in Ids : InFlight(i)

-----------------------------------------------------------------------------
(* The hands of the publishers.                                            *)

\* Who has something to come gets at most less, and only from i is it taken.
Shrinks(i) ==
  \A p \in Publishers :
    /\ hand'[p].m \in {hand[p].m, None} /\ hand'[p].left \subseteq hand[p].left
    /\ \A j \in hand[p].left : j # i => j \in hand'[p].left /\ hand'[p].m = hand[p].m

\* What one publisher has.
LEMMA OneHand ==
  ASSUME HandTypes, NEW p \in Publishers
  PROVE  hand[p].m \in Msgs \cup {None} /\ hand[p].left \subseteq Ids
  BY Zenon DEF HandTypes

\* A subscriber that quits is taken from every publisher.
LEMMA QuitShrinks ==
  ASSUME HandTypes, NEW i \in Ids, Quit(i)
  PROVE  /\ HandTypes' /\ Shrinks(i) /\ inbound' = inbound
         /\ \A j, t : j # i => (<<j, t>> \in subs' <=> <<j, t>> \in subs)
<1>1. /\ hand' = [p \in Publishers |-> IF hand[p].left \subseteq {i} THEN Idle
                                       ELSE [hand[p] EXCEPT !.left = @ \ {i}]]
      /\ inbound' = inbound /\ subs' = {s \in subs : s[1] # i}
  BY Zenon DEF Quit
<1>2. ASSUME NEW p \in Publishers
      PROVE  /\ hand'[p] \in [m : Msgs \cup {None}, left : SUBSET Ids]
             /\ hand'[p].m \in {hand[p].m, None} /\ hand'[p].left \subseteq hand[p].left
             /\ \A j \in hand[p].left : j # i => j \in hand'[p].left /\ hand'[p].m = hand[p].m
             /\ hand'[p].left # {} => hand'[p].m \in Msgs
  <2> DEFINE T == [m : Msgs \cup {None}, left : SUBSET Ids]
             h == hand[p]
  <2>1. /\ h \in T /\ h.m \in Msgs \cup {None} /\ h.left \subseteq Ids
        /\ h.left # {} => h.m \in Msgs
    BY Zenon DEF HandTypes
  <2>2. CASE h.left \subseteq {i}
    <3>1. hand'[p] = Idle
      BY <1>1, <2>2, Zenon
    <3> QED
      BY <2>1, <2>2, <3>1 DEF Idle
  <2>3. CASE ~(h.left \subseteq {i})
    <3>1. hand'[p] = [h EXCEPT !.left = @ \ {i}]
      BY <1>1, <2>3, Zenon
    <3> QED
      BY <2>1, <3>1, Zenon
  <2> QED
    BY <2>2, <2>3, Zenon
<1>3. hand' = [p \in Publishers |-> hand'[p]]
  BY <1>1, Zenon
<1>4. HandTypes'
  BY <1>1, <1>2, <1>3, Zenon DEF HandTypes
<1>5. \A j, t : j # i => (<<j, t>> \in subs' <=> <<j, t>> \in subs)
  BY <1>1, Zenon
<1> QED
  BY <1>1, <1>2, <1>4, <1>5, Zenon DEF Shrinks

\* A publisher that has handed its publication to i has it no more for i.
LEMMA HandedShrinks ==
  ASSUME HandTypes, NEW i \in Ids, NEW p \in Publishers, Handed(p, i)
  PROVE  /\ HandTypes' /\ Shrinks(i) /\ inbound' = inbound /\ subs' = subs
         /\ i \notin hand'[p].left /\ \A q \in Publishers : q # p => hand'[q] = hand[q]
<1> DEFINE T == [m : Msgs \cup {None}, left : SUBSET Ids]
           h == hand[p]
           g == IF h.left = {i} THEN Idle ELSE [m |-> h.m, left |-> h.left \ {i}]
<1>1. /\ hand' = [hand EXCEPT ![p] = g] /\ i \in h.left
      /\ inbound' = inbound /\ subs' = subs
  BY Zenon DEF Handed
<1>2. h \in T /\ h.m \in Msgs \cup {None} /\ h.left \subseteq Ids
  BY Zenon DEF HandTypes
<1>3. /\ g \in T /\ g.m \in {h.m, None} /\ g.left \subseteq h.left /\ i \notin g.left
      /\ \A j \in h.left : j # i => j \in g.left /\ g.m = h.m
  BY <1>1, <1>2, Zenon DEF Idle
<1> HIDE DEF g
<1>4. hand'[p] = g /\ \A q \in Publishers : q # p => hand'[q] = hand[q]
  BY <1>1, Zenon DEF HandTypes
<1>5. HandTypes'
  BY <1>1, <1>3, Zenon DEF HandTypes
<1> QED
  BY <1>1, <1>3, <1>4, <1>5, Zenon DEF Shrinks

-----------------------------------------------------------------------------
(* A step of one id leaves the others as they are.                         *)

\* A step of i takes nothing from the other ids and gives them nothing.
Apart(i) ==
  /\ phase' = phase /\ inbound' = inbound /\ Shrinks(i)
  /\ \A j \in Ids : j # i =>
       /\ preload'[j] = preload[j] /\ (j \in todo' <=> j \in todo)
       /\ j \in alive' => j \in alive
       /\ \A t : <<j, t>> \in subs => <<j, t>> \in subs'
       /\ \A m \in Msgs : <<j, m>> \in owed' => <<j, m>> \in owed

\* A step of i keeps what is said of the others.
LEMMA Others ==
  ASSUME IInv, NEW i \in Ids, Frame(i), Apart(i), NEW j \in Ids, j # i
  PROVE  Mine(j)'
<1>1. /\ ses'[j] = ses[j] /\ disk'[j] = disk[j] /\ preload'[j] = preload[j]
      /\ (j \in todo' <=> j \in todo) /\ phase' = phase /\ inbound' = inbound
      /\ j \in alive' => j \in alive
      /\ \A t : <<j, t>> \in subs => <<j, t>> \in subs'
      /\ \A m \in Msgs : <<j, m>> \in owed' => <<j, m>> \in owed
  BY Zenon DEF Frame, Apart
<1>2. Mine(j)
  BY Zenon DEF IInv
<1>3. Subscribing(j)' /\ Queueing(j)'
  BY <1>1, <1>2, Zenon DEF Mine, Subscribing, Queueing
<1>4. Entered(j)' /\ Phased(j)' /\ Promised(j)' /\ Named(j)'
  BY <1>1, <1>2, Zenon DEF Mine, Entered, Phased, Promised, Named
<1>5. ASSUME NEW p \in Publishers, NEW m \in Msgs, InHand(p, j, m) PROVE InHand(p, j, m)'
  BY <1>5, Zenon DEF Apart, Shrinks, InHand
<1>6. AllSettled(j)'
  BY <1>1, <1>2, <1>5, Zenon DEF Mine, AllSettled, Settled, Holds
<1> QED
  BY <1>3, <1>4, <1>6, Zenon DEF Mine

\* So only what is said of i is to be shown for a step of i.
LEMMA Stepped ==
  ASSUME IInv, NEW i \in Ids, Frame(i), Apart(i), HandTypes', PairTypes',
         ses'[i].queue \in Seq(Item), disk'[i].packets \in Seq(Item), Mine(i)'
  PROVE  IInv'
<1>1. \A j \in Ids : Mine(j)'
  BY Others, Zenon
<1>2. QueueTypes'
  BY Zenon DEF IInv, Types, QueueTypes, Frame
<1> QED
  BY <1>1, <1>2, Zenon DEF IInv, Types, Frame

\* What the steps of i do beside its session, its entry and the provider.
Bounded(i) ==
  /\ phase' = phase /\ preload' = preload /\ (todo' = todo \/ todo' = todo \ {i})
  /\ alive' \subseteq alive \cup {i} /\ owed' \subseteq owed
  /\ got' \subseteq got \cup ({i} \X Msgs)

\* A step that leaves the provider alone ...
LEMMA QuietApart ==
  ASSUME IInv, NEW i \in Ids, Bounded(i), inbound' = inbound, hand' = hand, subs' = subs
  PROVE  Apart(i) /\ HandTypes' /\ PairTypes'
<1>1. Shrinks(i)
  BY Zenon DEF Shrinks
<1>2. Apart(i)
  BY <1>1, Zenon DEF Apart, Bounded
<1>3. HandTypes' /\ PairTypes'
  BY Zenon DEF IInv, Types, HandTypes, PairTypes, Bounded
<1> QED
  BY <1>2, <1>3, Zenon

\* ... and one that has the subscriber of i quit.
LEMMA QuitApart ==
  ASSUME IInv, NEW i \in Ids, Bounded(i), Quit(i)
  PROVE  Apart(i) /\ HandTypes' /\ PairTypes'
<1>1. HandTypes' /\ Shrinks(i) /\ inbound' = inbound
  BY QuitShrinks, Zenon DEF IInv, Types
<1>2. \A j, t : j # i => (<<j, t>> \in subs' <=> <<j, t>> \in subs)
  BY QuitShrinks, Zenon DEF IInv, Types
<1>3. Apart(i)
  BY <1>1, <1>2, Zenon DEF Apart, Bounded
<1>4. PairTypes'
  BY Zenon DEF IInv, Types, PairTypes, Bounded
<1> QED
  BY <1>1, <1>3, <1>4, Zenon

-----------------------------------------------------------------------------
(* What a queue holds.                                                     *)

\* Append adds one item ...
LEMMA HoldsAppend ==
  ASSUME NEW S, NEW s \in Seq(S), NEW x \in S
  PROVE  Append(s, x) \in Seq(S) /\ \A y : Holds(Append(s, x), y) <=> Holds(s, y) \/ y = x
<1>1. /\ Append(s, x) \in Seq(S) /\ DOMAIN s = 1..Len(s) /\ Len(s) \in Nat
      /\ DOMAIN Append(s, x) = 1..(Len(s) + 1)
      /\ \A k \in 1..Len(s) : Append(s, x)[k] = s[k]
      /\ Append(s, x)[Len(s) + 1] = x
  OBVIOUS
<1>2. 1..(Len(s) + 1) = 1..Len(s) \cup {Len(s) + 1}
  BY <1>1
<1> QED
  BY <1>1, <1>2, Zenon DEF Holds

\* ... concatenation those of both ...
LEMMA HoldsConcat ==
  ASSUME NEW S, NEW s \in Seq(S), NEW u \in Seq(S)
  PROVE  s \o u \in Seq(S) /\ \A y : Holds(s \o u, y) <=> Holds(s, y) \/ Holds(u, y)
<1>1. /\ s \o u \in Seq(S) /\ DOMAIN s = 1..Len(s) /\ DOMAIN u = 1..Len(u)
      /\ Len(s) \in Nat /\ Len(u) \in Nat /\ DOMAIN (s \o u) = 1..(Len(s) + Len(u))
      /\ \A k \in 1..Len(s) : (s \o u)[k] = s[k]
      /\ \A k \in 1..Len(u) : (s \o u)[Len(s) + k] = u[k]
  OBVIOUS
<1>2. \A k \in 1..Len(s) : k \in 1..(Len(s) + Len(u))
  BY <1>1
<1>3. \A k \in 1..Len(u) : Len(s) + k \in 1..(Len(s) + Len(u))
  BY <1>1
<1>4. \A k \in 1..(Len(s) + Len(u)) : k \in 1..Len(s) \/ \E j \in 1..Len(u) : k = Len(s) + j
  <2> SUFFICES ASSUME NEW k \in 1..(Len(s) + Len(u)), k \notin 1..Len(s)
               PROVE  \E j \in 1..Len(u) : k = Len(s) + j
    BY Zenon
  <2>1. k - Len(s) \in 1..Len(u) /\ k = Len(s) + (k - Len(s))
    BY <1>1
  <2> QED
    BY <2>1, Zenon
<1>5. ASSUME NEW y, Holds(s \o u, y) PROVE Holds(s, y) \/ Holds(u, y)
  <2>1. PICK k \in 1..(Len(s) + Len(u)) : (s \o u)[k] = y
    BY <1>1, <1>5, Zenon DEF Holds
  <2> QED
    BY <1>1, <1>4, <2>1, Zenon DEF Holds
<1>6. ASSUME NEW y, Holds(s, y) PROVE Holds(s \o u, y)
  BY <1>1, <1>2, <1>6, Zenon DEF Holds
<1>7. ASSUME NEW y, Holds(u, y) PROVE Holds(s \o u, y)
  <2>1. PICK k \in 1..Len(u) : u[k] = y
    BY <1>1, <1>7, Zenon DEF Holds
  <2>2. (s \o u)[Len(s) + k] = y /\ Len(s) + k \in DOMAIN (s \o u)
    BY <1>1, <1>3, <2>1, Zenon
  <2> QED
    BY <2>2, Zenon DEF Holds
<1> QED
  BY <1>1, <1>5, <1>6, <1>7, Zenon

\* ... and Tail takes the head away.
LEMMA HoldsTail ==
  ASSUME NEW S, NEW s \in Seq(S), s # <<>>
  PROVE  /\ Tail(s) \in Seq(S) /\ Head(s) \in S
         /\ \A y : Holds(s, y) <=> y = Head(s) \/ Holds(Tail(s), y)
<1>1. /\ Tail(s) \in Seq(S) /\ Head(s) \in S /\ DOMAIN s = 1..Len(s) /\ Len(s) \in Nat
      /\ Len(s) > 0 /\ DOMAIN Tail(s) = 1..(Len(s) - 1) /\ Head(s) = s[1]
      /\ \A k \in 1..(Len(s) - 1) : Tail(s)[k] = s[k + 1]
  OBVIOUS
<1>2. 1 \in 1..Len(s) /\ \A k \in 1..(Len(s) - 1) : k + 1 \in 1..Len(s)
  BY <1>1
<1>3. \A k \in 1..Len(s) : k = 1 \/ \E j \in 1..(Len(s) - 1) : k = j + 1
  <2> SUFFICES ASSUME NEW k \in 1..Len(s), k # 1
               PROVE  \E j \in 1..(Len(s) - 1) : k = j + 1
    BY Zenon
  <2>1. k - 1 \in 1..(Len(s) - 1) /\ k = (k - 1) + 1
    BY <1>1
  <2> QED
    BY <2>1, Zenon
<1>4. ASSUME NEW y, Holds(s, y) PROVE y = Head(s) \/ Holds(Tail(s), y)
  <2>1. PICK k \in 1..Len(s) : s[k] = y
    BY <1>1, <1>4, Zenon DEF Holds
  <2> QED
    BY <1>1, <1>3, <2>1, Zenon DEF Holds
<1>5. ASSUME NEW y, Holds(Tail(s), y) PROVE Holds(s, y)
  <2>1. PICK k \in 1..(Len(s) - 1) : Tail(s)[k] = y
    BY <1>1, <1>5, Zenon DEF Holds
  <2>2. s[k + 1] = y /\ k + 1 \in DOMAIN s
    BY <1>1, <1>2, <2>1, Zenon
  <2> QED
    BY <2>2, Zenon DEF Holds
<1>6. Holds(s, Head(s))
  BY <1>1, <1>2, Zenon DEF Holds
<1> QED
  BY <1>1, <1>4, <1>5, <1>6, Zenon

\* The first part of a queue.
LEMMA FirstHalf ==
  ASSUME NEW S, NEW q \in Seq(S), NEW n \in Nat, n <= Len(q)
  PROVE  /\ SubSeq(q, 1, n) \in Seq(S) /\ DOMAIN SubSeq(q, 1, n) = 1..n
         /\ \A k \in 1..n : SubSeq(q, 1, n)[k] = q[k] /\ k \in 1..Len(q)
  OBVIOUS

\* The second part of it.
LEMMA SecondHalf ==
  ASSUME NEW S, NEW q \in Seq(S), NEW n \in Nat, n <= Len(q)
  PROVE  /\ SubSeq(q, n + 1, Len(q)) \in Seq(S)
         /\ DOMAIN SubSeq(q, n + 1, Len(q)) = 1..(Len(q) - n)
         /\ \A k \in 1..(Len(q) - n) : /\ SubSeq(q, n + 1, Len(q))[k] = q[n + k]
                                       /\ n + k \in 1..Len(q)
  OBVIOUS

\* The packets that have been sent and the others make up the queue.
LEMMA HoldsHalves ==
  ASSUME NEW S, NEW q \in Seq(S), NEW n \in Nat, n <= Len(q)
  PROVE  /\ SubSeq(q, 1, n) \in Seq(S) /\ SubSeq(q, n + 1, Len(q)) \in Seq(S)
         /\ \A y : Holds(q, y)
                    <=> Holds(SubSeq(q, 1, n), y) \/ Holds(SubSeq(q, n + 1, Len(q)), y)
<1> DEFINE a == SubSeq(q, 1, n)
           b == SubSeq(q, n + 1, Len(q))
<1>1. /\ a \in Seq(S) /\ b \in Seq(S) /\ DOMAIN q = 1..Len(q)
      /\ DOMAIN a = 1..n /\ DOMAIN b = 1..(Len(q) - n) /\ Len(q) \in Nat
      /\ \A k \in 1..n : a[k] = q[k] /\ k \in 1..Len(q)
      /\ \A k \in 1..(Len(q) - n) : b[k] = q[n + k] /\ n + k \in 1..Len(q)
  <2>1. a \in Seq(S) /\ DOMAIN a = 1..n /\ \A k \in 1..n : a[k] = q[k] /\ k \in 1..Len(q)
    BY FirstHalf, Zenon
  <2>2. /\ b \in Seq(S) /\ DOMAIN b = 1..(Len(q) - n)
        /\ \A k \in 1..(Len(q) - n) : b[k] = q[n + k] /\ n + k \in 1..Len(q)
    BY SecondHalf, Zenon
  <2>3. DOMAIN q = 1..Len(q) /\ Len(q) \in Nat
    OBVIOUS
  <2> HIDE DEF a, b
  <2> QED
    BY <2>1, <2>2, <2>3, Zenon
<1> HIDE DEF a, b
<1>2. \A k \in 1..Len(q) : k \in 1..n \/ \E j \in 1..(Len(q) - n) : k = n + j
  <2> SUFFICES ASSUME NEW k \in 1..Len(q), k \notin 1..n
               PROVE  \E j \in 1..(Len(q) - n) : k = n + j
    BY Zenon
  <2>1. k - n \in 1..(Len(q) - n) /\ k = n + (k - n)
    BY <1>1
  <2> QED
    BY <2>1, Zenon
<1>3. ASSUME NEW y, Holds(q, y) PROVE Holds(a, y) \/ Holds(b, y)
  <2>1. PICK k \in 1..Len(q) : q[k] = y
    BY <1>1, <1>3, Zenon DEF Holds
  <2> QED
    BY <1>1, <1>2, <2>1, Zenon DEF Holds
<1>4. ASSUME NEW y, Holds(a, y) PROVE Holds(q, y)
  BY <1>1, <1>4, Zenon DEF Holds
<1>5. ASSUME NEW y, Holds(b, y) PROVE Holds(q, y)
  BY <1>1, <1>5, Zenon DEF Holds
<1> QED
  BY <1>1, <1>3, <1>4, <1>5, Zenon DEF a, b

\* So a queue that is stored around what is on disk adds what it holds.
LEMMA HoldsStored ==
  ASSUME NEW S, NEW q \in Seq(S), NEW d \in Seq(S), NEW n \in Nat, n <= Len(q),
         NEW e, e = SubSeq(q, 1, n) \o d \o SubSeq(q, n + 1, Len(q))
  PROVE  e \in Seq(S) /\ \A y : Holds(e, y) <=> Holds(q, y) \/ Holds(d, y)
<1> DEFINE a == SubSeq(q, 1, n)
           b == SubSeq(q, n + 1, Len(q))
<1>2. a \in Seq(S) /\ b \in Seq(S) /\ \A y : Holds(q, y) <=> Holds(a, y) \/ Holds(b, y)
  BY HoldsHalves, Zenon
<1>3. e = (a \o d) \o b
  BY Zenon
<1> HIDE DEF a, b
<1>4. a \o d \in Seq(S) /\ \A y : Holds(a \o d, y) <=> Holds(a, y) \/ Holds(d, y)
  BY <1>2, HoldsConcat, Zenon
<1>5. /\ (a \o d) \o b \in Seq(S)
      /\ \A y : Holds((a \o d) \o b, y) <=> Holds(a \o d, y) \/ Holds(b, y)
  BY <1>2, <1>4, HoldsConcat, Zenon
<1> QED
  BY <1>2, <1>3, <1>4, <1>5, Zenon

\* As what a session stores is.
LEMMA StoredHolds ==
  ASSUME NEW i \in Ids, ses[i].queue \in Seq(Item), disk[i].packets \in Seq(Item), InFlight(i)
  PROVE  /\ Stored(i) \in Seq(Item)
         /\ \A y : Holds(Stored(i), y) <=> Holds(ses[i].queue, y) \/ Holds(disk[i].packets, y)
<1>1. PICK q, d, n : q = ses[i].queue /\ d = disk[i].packets /\ n = ses[i].inflight
  BY Zenon
<1>2. /\ q \in Seq(Item) /\ d \in Seq(Item) /\ n \in Nat /\ n <= Len(q)
      /\ Stored(i) = SubSeq(q, 1, n) \o d \o SubSeq(q, n + 1, Len(q))
  BY <1>1, Zenon DEF Stored, InFlight
<1>3. Stored(i) \in Seq(Item) /\ \A y : Holds(Stored(i), y) <=> Holds(q, y) \/ Holds(d, y)
  BY <1>2, HoldsStored, Zenon
<1> QED
  BY <1>1, <1>3, Zenon

-----------------------------------------------------------------------------
(* A session comes up.                                                     *)

\* What IInv says of one id.
LEMMA OfOne ==
  ASSUME IInv, NEW i \in Ids
  PROVE  /\ Shape /\ ses[i].queue \in Seq(Item) /\ disk[i].packets \in Seq(Item)
         /\ preload \in [Ids -> SUBSET {"sub", "exp"}]
         /\ Subscribing(i) /\ Queueing(i) /\ Entered(i) /\ Phased(i) /\ Promised(i)
         /\ AllSettled(i) /\ Named(i)
  BY Zenon DEF IInv, Types, QueueTypes, PairTypes, Mine

\* What is in the queue or on disk stays there, and what is on its way stays so.
LEMMA StillSettled ==
  ASSUME NEW i \in Ids, AllSettled(i), owed' \subseteq owed,
         \A y : Holds(ses[i].queue, y) \/ Holds(disk[i].packets, y)
                  => Holds(ses'[i].queue, y) \/ Holds(disk'[i].packets, y),
         \/ ses[i].topics = {}
         \/ /\ \A t \in ses[i].topics : t \in ses'[i].topics
            /\ inbound' = inbound /\ hand' = hand
  PROVE  AllSettled(i)'
<1> SUFFICES ASSUME NEW m \in Msgs, <<i, m>> \in owed' PROVE Settled(i, m)'
  BY Zenon DEF AllSettled
<1>1. Settled(i, m)
  BY Zenon DEF AllSettled
<1>2. CASE Holds(ses[i].queue, Live(m)) \/ Holds(disk[i].packets, Live(m))
  <2>1. Holds(ses'[i].queue, Live(m)) \/ Holds(disk'[i].packets, Live(m))
    BY <1>2, Zenon
  <2> QED
    BY <2>1, Zenon DEF Settled, Live, Holds
<1>3. CASE /\ Plan[m].topic \in ses[i].topics
           /\ Holds(inbound, m) \/ \E p \in Publishers : InHand(p, i, m)
  BY <1>3, Zenon DEF Settled, Holds, InHand
<1> QED
  BY <1>1, <1>2, <1>3, Zenon DEF Settled

\* An empty queue.
LEMMA NothingQueued == <<>> \in Seq(Item) /\ \A y : ~Holds(<<>>, y)
  BY DEF Holds

\* loadContainer: a clean start gives up what is owed with the entry.
LEMMA ConnectKeeps ==
  ASSUME IInv, NEW i \in Ids, NEW k, Connect(i, k)
  PROVE  IInv'
<1>1. /\ Shape /\ ses[i].queue \in Seq(Item) /\ disk[i].packets \in Seq(Item)
      /\ Subscribing(i) /\ Queueing(i) /\ Entered(i) /\ Phased(i) /\ Promised(i)
      /\ AllSettled(i) /\ Named(i)
  BY OfOne, Zenon
<1>2. /\ phase = "up" /\ phase' = phase /\ ses[i].pc = "off" /\ preload' = preload
      /\ alive' = (IF k.clean THEN alive \ {i} ELSE alive) /\ todo' = todo
      /\ owed' = (IF k.clean THEN {o \in owed : o[1] # i} ELSE owed)
      /\ IF Renewed(i, k) THEN Quit(i) ELSE UNCHANGED provider
      /\ got' = got
  BY Zenon DEF Connect
<1>3. /\ Frame(i) /\ ses'[i].container = TRUE /\ ses'[i].pc = "create"
      /\ ses'[i].kind = k /\ ses'[i].queue = ses[i].queue
      /\ ses'[i].to = (IF Renewed(i, k) THEN "disk" ELSE ses[i].to)
      /\ ses'[i].topics = (IF Renewed(i, k) THEN {} ELSE ses[i].topics)
      /\ disk'[i] = (IF k.clean THEN Absent ELSE disk[i])
  BY <1>1, ConnectEffect, Zenon
<1>4. Apart(i) /\ HandTypes' /\ PairTypes'
  <2>1. Bounded(i)
    BY <1>2, Zenon DEF Bounded
  <2> QED
    BY <1>2, <2>1, QuietApart, QuitApart, Zenon DEF provider
<1>5. CASE k.clean
  <2>1. /\ ses'[i].to = "disk" /\ ses'[i].topics = {} /\ disk'[i] = Absent
        /\ i \notin alive' /\ \A m : <<i, m>> \notin owed'
    BY <1>2, <1>3, <1>5, Zenon DEF Renewed
  <2>2. ses'[i].queue = <<>> /\ disk'[i].packets = <<>>
    BY <1>1, <1>2, <1>3, <2>1, Entries, Zenon DEF Queueing
  <2>3. Subscribing(i)' /\ Queueing(i)' /\ Phased(i)'
    BY <1>2, <1>3, <2>1, <2>2, Zenon DEF Subscribing, Queueing, Phased
  <2>4. Entered(i)' /\ Promised(i)' /\ Named(i)' /\ AllSettled(i)'
    BY <1>1, <1>2, <1>3, <2>1, <2>2, Entries, Zenon DEF Entered, Promised, Named, AllSettled, Told
  <2>5. Mine(i)'
    BY <2>3, <2>4, Zenon DEF Mine
  <2>6. ses'[i].queue \in Seq(Item) /\ disk'[i].packets \in Seq(Item)
    BY <2>2, NothingQueued, Zenon
  <2> QED
    BY <1>3, <1>4, <2>5, <2>6, Stepped, Zenon
<1>6. CASE ~k.clean
  <2>1. /\ disk'[i] = disk[i] /\ alive' = alive /\ owed' = owed
        /\ \/ ses'[i].topics = {} /\ ses[i].topics = {} /\ ses'[i].to = "disk"
           \/ /\ ses'[i].topics = ses[i].topics /\ ses'[i].to = ses[i].to
              /\ UNCHANGED <<subs, inbound, hand>>
    BY <1>1, <1>2, <1>3, <1>6, Zenon DEF Renewed, Subscribing, provider
  <2>2. ses'[i].queue = <<>>
    BY <1>1, <1>2, <1>3, Zenon DEF Queueing
  <2>3. Subscribing(i)' /\ Queueing(i)' /\ Phased(i)'
    BY <1>1, <1>2, <1>3, <2>1, <2>2, Zenon DEF Subscribing, Queueing, Phased
  <2>4. Entered(i)' /\ Promised(i)' /\ Named(i)'
    BY <1>1, <1>2, <1>3, <2>1, <2>2, Zenon DEF Entered, Promised, Named, Told
  <2>5. AllSettled(i)'
    BY <1>1, <1>3, <2>1, StillSettled, Zenon
  <2>6. Mine(i)'
    BY <2>3, <2>4, <2>5, Zenon DEF Mine
  <2> QED
    BY <1>1, <1>3, <1>4, <2>1, <2>6, Stepped, Zenon
<1> QED
  BY <1>5, <1>6, Zenon

\* persistence.Create: the entry is there before the CONNACK.
LEMMA CreateKeeps ==
  ASSUME IInv, NEW i \in Ids, Create(i)
  PROVE  IInv'
<1>1. /\ Shape /\ ses[i].queue \in Seq(Item) /\ disk[i].packets \in Seq(Item)
      /\ Subscribing(i) /\ Queueing(i) /\ Entered(i) /\ Phased(i) /\ Promised(i)
      /\ AllSettled(i) /\ Named(i)
  BY OfOne, Zenon
<1>2. /\ phase \in {"up", "stop"} /\ phase' = phase /\ ses[i].pc = "create"
      /\ UNCHANGED <<provider, preload, todo, alive, owed, got>>
  BY Zenon DEF Create, Serving, history
<1>3. Frame(i) /\ SameSubscriber(i) /\ ses'[i].pc = "load"
  BY <1>1, CreateEffect, Zenon
<1>4. /\ disk'[i].exists /\ (~disk[i].exists => disk'[i].packets = <<>>)
      /\ disk[i].exists => disk'[i] = disk[i]
      /\ disk'[i].topics \subseteq disk[i].topics
  BY <1>1, CreateEffect, Zenon
<1>5. disk'[i].packets = disk[i].packets /\ disk'[i].exists
  BY <1>1, <1>4, Zenon DEF Entered
<1>6. Apart(i) /\ HandTypes' /\ PairTypes'
  <2>1. Bounded(i)
    BY <1>2, Zenon DEF Bounded
  <2> QED
    BY <1>2, <2>1, QuietApart, Zenon DEF provider
<1>7. Subscribing(i)' /\ Queueing(i)' /\ Phased(i)'
  BY <1>1, <1>2, <1>3, <1>5, Zenon DEF Subscribing, Queueing, Phased, SameSubscriber, provider
<1>8. Entered(i)' /\ Promised(i)' /\ Named(i)'
  BY <1>1, <1>2, <1>3, <1>4, <1>5, Zenon DEF Entered, Promised, Named, Told, SameSubscriber
<1>9. AllSettled(i)'
  BY <1>1, <1>2, <1>3, <1>5, StillSettled, Zenon DEF SameSubscriber, provider
<1>10. Mine(i)'
  BY <1>7, <1>8, <1>9, Zenon DEF Mine
<1> QED
  BY <1>1, <1>3, <1>5, <1>6, <1>10, Stepped, Zenon DEF SameSubscriber

\* The packets go from the disk to the queue.
LEMMA LoadKeeps ==
  ASSUME IInv, NEW i \in Ids, Load(i)
  PROVE  IInv'
<1>1. /\ Shape /\ ses[i].queue \in Seq(Item) /\ disk[i].packets \in Seq(Item)
      /\ Subscribing(i) /\ Queueing(i) /\ Entered(i) /\ Phased(i) /\ Promised(i)
      /\ AllSettled(i) /\ Named(i)
  BY OfOne, Zenon
<1>2. /\ phase' = phase /\ ses[i].pc = "load"
      /\ UNCHANGED <<provider, preload, todo, owed, got>>
      /\ alive' = IF ses[i].kind.durable THEN alive \cup {i} ELSE alive \ {i}
  BY Zenon DEF Load
<1>3. /\ Frame(i) /\ ses'[i].pc = "online" /\ ses'[i].queue = disk[i].packets
      /\ ses'[i].container = ses[i].container /\ ses'[i].kind = ses[i].kind
      /\ ses'[i].to = ses[i].to /\ ses'[i].topics = ses[i].topics
      /\ disk'[i].exists = disk[i].exists /\ disk'[i].packets = <<>>
      /\ disk'[i].topics = disk[i].topics
  BY <1>1, LoadEffect, Zenon
<1>4. Apart(i) /\ HandTypes' /\ PairTypes'
  <2>1. Bounded(i)
    BY <1>2, Zenon DEF Bounded
  <2> QED
    BY <1>2, <2>1, QuietApart, Zenon DEF provider
<1>5. Subscribing(i)' /\ Queueing(i)' /\ Phased(i)'
  BY <1>1, <1>2, <1>3, Zenon DEF Subscribing, Queueing, Phased, provider
<1>6. Entered(i)' /\ Promised(i)' /\ Named(i)'
  BY <1>1, <1>2, <1>3, Zenon DEF Entered, Promised, Named, Told
<1>7. AllSettled(i)'
  <2>1. ses[i].queue = <<>>
    BY <1>1, <1>2, Zenon DEF Queueing
  <2> QED
    BY <1>1, <1>2, <1>3, <2>1, NothingQueued, StillSettled, Zenon DEF provider
<1>8. Mine(i)'
  BY <1>5, <1>6, <1>7, Zenon DEF Mine
<1> QED
  BY <1>1, <1>3, <1>4, <1>8, NothingQueued, Stepped, Zenon

\* SignalOnline: from now on the subscriber sends to the queue.
LEMMA OnlineKeeps ==
  ASSUME IInv, NEW i \in Ids, Online(i)
  PROVE  IInv'
<1>1. /\ Shape /\ ses[i].queue \in Seq(Item) /\ disk[i].packets \in Seq(Item)
      /\ Subscribing(i) /\ Queueing(i) /\ Entered(i) /\ Phased(i) /\ Promised(i)
      /\ AllSettled(i) /\ Named(i)
  BY OfOne, Zenon
<1>2. /\ phase \in {"up", "stop"} /\ phase' = phase /\ ses[i].pc = "online"
      /\ UNCHANGED <<provider, preload, todo, alive, owed, got>>
  BY Zenon DEF Online, Serving, history
<1>3. /\ Frame(i) /\ disk'[i] = disk[i] /\ ses'[i].pc = "up"
      /\ ses'[i].container = ses[i].container /\ ses'[i].kind = ses[i].kind
      /\ ses'[i].to = (IF ses[i].to = "nowhere" THEN "nowhere" ELSE "conn")
      /\ ses'[i].topics = ses[i].topics /\ ses'[i].queue = ses[i].queue
  BY <1>1, OnlineEffect, Zenon
<1>4. Apart(i) /\ HandTypes' /\ PairTypes'
  <2>1. Bounded(i)
    BY <1>2, Zenon DEF Bounded
  <2> QED
    BY <1>2, <2>1, QuietApart, Zenon DEF provider
<1>5. Subscribing(i)' /\ Queueing(i)' /\ Phased(i)'
  BY <1>1, <1>2, <1>3, Zenon DEF Subscribing, Queueing, Phased, provider
<1>6. Entered(i)' /\ Promised(i)' /\ Named(i)'
  BY <1>1, <1>2, <1>3, Zenon DEF Entered, Promised, Named, Told
<1>7. AllSettled(i)'
  BY <1>1, <1>2, <1>3, StillSettled, Zenon DEF provider
<1>8. Mine(i)'
  BY <1>5, <1>6, <1>7, Zenon DEF Mine
<1> QED
  BY <1>1, <1>3, <1>4, <1>8, Stepped, Zenon

\* The subscription is in the tree before it is told.
LEMMA SubscribeKeeps ==
  ASSUME IInv, NEW i \in Ids, NEW t \in Names, Subscribe(i, t)
  PROVE  IInv'
<1>1. /\ Shape /\ ses[i].queue \in Seq(Item) /\ disk[i].packets \in Seq(Item)
      /\ Subscribing(i) /\ Queueing(i) /\ Entered(i) /\ Phased(i) /\ Promised(i)
      /\ AllSettled(i) /\ Named(i)
  BY OfOne, Zenon
<1>2. /\ phase \in {"up", "stop"} /\ phase' = phase /\ ses[i].pc = "up"
      /\ ses[i].to # "nowhere" /\ subs' = subs \cup {<<i, t>>}
      /\ UNCHANGED <<inbound, hand, preload, todo, alive, owed, got>>
  BY Zenon DEF Subscribe, Serving, history, SubInsert
<1>3. /\ Frame(i) /\ disk'[i] = disk[i] /\ SameSubscriber(i)
      /\ ses'[i].pc = "found" /\ ses'[i].asked = t
  BY <1>1, SubscribeEffect, Zenon
<1>4. Apart(i) /\ HandTypes' /\ PairTypes'
  <2>1. Shrinks(i)
    BY <1>2, Zenon DEF Shrinks
  <2>2. Apart(i)
    BY <1>2, <2>1, Zenon DEF Apart
  <2>3. HandTypes' /\ PairTypes'
    BY <1>2, Zenon DEF IInv, Types, HandTypes, PairTypes
  <2> QED
    BY <2>2, <2>3, Zenon
<1>5. Subscribing(i)' /\ Queueing(i)' /\ Phased(i)'
  BY <1>1, <1>2, <1>3, Zenon DEF Subscribing, Queueing, Phased, SameSubscriber
<1>6. Entered(i)' /\ Promised(i)' /\ Named(i)'
  BY <1>1, <1>2, <1>3, Zenon DEF Entered, Promised, Named, Told, SameSubscriber
<1>7. AllSettled(i)'
  BY <1>1, <1>2, <1>3, StillSettled, Zenon DEF SameSubscriber
<1>8. Mine(i)'
  BY <1>5, <1>6, <1>7, Zenon DEF Mine
<1> QED
  BY <1>1, <1>3, <1>4, <1>8, Stepped, Zenon DEF SameSubscriber

\* The subscription is told; a retained message is owed to nobody.
LEMMA SubscribedKeeps ==
  ASSUME IInv, retained \in [Names -> Msgs \cup {None}], NEW i \in Ids, Subscribed(i)
  PROVE  IInv'
<1>1. /\ Shape /\ ses[i].queue \in Seq(Item) /\ disk[i].packets \in Seq(Item)
      /\ Subscribing(i) /\ Queueing(i) /\ Entered(i) /\ Phased(i) /\ Promised(i)
      /\ AllSettled(i) /\ Named(i)
  BY OfOne, Zenon
<1>2. /\ phase \in {"up", "stop"} /\ phase' = phase /\ ses[i].pc = "found"
      /\ UNCHANGED <<provider, preload, todo, alive, owed, got>>
  BY Zenon DEF Subscribed, Serving, history
<1>3. /\ Frame(i) /\ disk'[i] = disk[i] /\ ses'[i].pc = "up"
      /\ ses'[i].container = ses[i].container /\ ses'[i].kind = ses[i].kind
      /\ ses'[i].to = ses[i].to /\ ses'[i].topics = ses[i].topics \cup {ses[i].asked}
  BY <1>1, SubscribedEffect, Zenon
<1>4. Apart(i) /\ HandTypes' /\ PairTypes'
  <2>1. Bounded(i)
    BY <1>2, Zenon DEF Bounded
  <2> QED
    BY <1>2, <2>1, QuietApart, Zenon DEF provider
<1>5. /\ ses'[i].queue \in Seq(Item)
      /\ \A y : Holds(ses[i].queue, y) => Holds(ses'[i].queue, y)
  <2>1. CASE ses'[i].queue = ses[i].queue
    BY <1>1, <2>1, Zenon
  <2>2. CASE ses'[i].queue # ses[i].queue
    <3> DEFINE x == [m |-> retained[ses[i].asked], live |-> FALSE]
    <3>1. retained[ses[i].asked] # None /\ ses'[i].queue = Append(ses[i].queue, x)
      BY <1>1, <2>2, SubscribedEffect, Zenon
    <3>2. ses[i].asked \in Names
      BY <1>1, <1>2, Zenon DEF Subscribing
    <3>3. x \in Item
      BY <3>1, <3>2, Zenon DEF Item
    <3> HIDE DEF x
    <3>4. ses[i].queue \in Seq(Item)
      BY <1>1, Zenon
    <3>5. /\ Append(ses[i].queue, x) \in Seq(Item)
          /\ \A y : Holds(Append(ses[i].queue, x), y) <=> Holds(ses[i].queue, y) \/ y = x
      BY <3>3, <3>4, HoldsAppend
    <3> QED
      BY <3>1, <3>5, Zenon
  <2> QED
    BY <2>1, <2>2, Zenon
<1>6. Subscribing(i)' /\ Queueing(i)' /\ Phased(i)'
  <2>1. subs' = subs
    BY <1>2, Zenon DEF provider
  <2>2. Subscribing(i)'
    BY <1>1, <1>2, <1>3, <2>1, Zenon DEF Subscribing
  <2>3. Queueing(i)' /\ Phased(i)'
    BY <1>1, <1>2, <1>3, Zenon DEF Queueing, Phased, Subscribing
  <2> QED
    BY <2>2, <2>3, Zenon
<1>7. Entered(i)' /\ Promised(i)' /\ Named(i)'
  <2>1. ses[i].asked \in Names
    BY <1>1, <1>2, Zenon DEF Subscribing
  <2>2. Named(i)'
    BY <1>1, <1>3, <2>1, Zenon DEF Named
  <2>3. Entered(i)' /\ Promised(i)'
    BY <1>1, <1>2, <1>3, Zenon DEF Entered, Promised, Told
  <2> QED
    BY <2>2, <2>3, Zenon
<1>8. AllSettled(i)'
  BY <1>1, <1>2, <1>3, <1>5, StillSettled, Zenon DEF provider
<1>9. Mine(i)'
  BY <1>6, <1>7, <1>8, Zenon DEF Mine
<1> QED
  BY <1>1, <1>3, <1>4, <1>5, <1>9, Stepped, Zenon
-----------------------------------------------------------------------------
(* Its traffic.                                                            *)

\* What is owed for the topic is given up with the subscription.
LEMMA UnSubscribeKeeps ==
  ASSUME IInv, NEW i \in Ids, NEW t \in Names, UnSubscribe(i, t)
  PROVE  IInv'
<1>1. /\ Shape /\ ses[i].queue \in Seq(Item) /\ disk[i].packets \in Seq(Item)
      /\ Subscribing(i) /\ Queueing(i) /\ Entered(i) /\ Phased(i) /\ Promised(i)
      /\ AllSettled(i) /\ Named(i)
  BY OfOne, Zenon
<1>2. /\ phase \in {"up", "stop"} /\ phase' = phase /\ ses[i].pc = "up"
      /\ subs' = subs \ {<<i, t>>}
      /\ owed' = {o \in owed : ~(o[1] = i /\ Plan[o[2]].topic = t)}
      /\ UNCHANGED <<inbound, hand, preload, todo, alive, got>>
  BY Zenon DEF UnSubscribe, Serving, SubRemove
<1>3. /\ Frame(i) /\ disk'[i] = disk[i] /\ ses'[i].pc = ses[i].pc
      /\ ses'[i].container = ses[i].container /\ ses'[i].kind = ses[i].kind
      /\ ses'[i].to = ses[i].to /\ ses'[i].topics = ses[i].topics \ {t}
      /\ ses'[i].queue = ses[i].queue /\ ses'[i].asked = ses[i].asked
  BY <1>1, UnSubscribeEffect, Zenon
<1>4. Apart(i) /\ HandTypes' /\ PairTypes'
  <2>1. Shrinks(i)
    BY <1>2, Zenon DEF Shrinks
  <2>2. Apart(i)
    BY <1>2, <2>1, Zenon DEF Apart
  <2>3. HandTypes' /\ PairTypes'
    BY <1>2, Zenon DEF IInv, Types, HandTypes, PairTypes
  <2> QED
    BY <2>2, <2>3, Zenon
<1>5. Subscribing(i)' /\ Queueing(i)' /\ Phased(i)'
  BY <1>1, <1>2, <1>3, Zenon DEF Subscribing, Queueing, Phased
<1>6. Entered(i)' /\ Promised(i)' /\ Named(i)'
  BY <1>1, <1>2, <1>3, Zenon DEF Entered, Promised, Named, Told
<1>7. AllSettled(i)'
  <2> SUFFICES ASSUME NEW m \in Msgs, <<i, m>> \in owed' PROVE Settled(i, m)'
    BY Zenon DEF AllSettled
  <2>1. <<i, m>> \in owed /\ Plan[m].topic # t
    BY <1>2, Zenon
  <2>2. Settled(i, m)
    BY <1>1, <2>1, Zenon DEF AllSettled
  <2>3. Plan[m].topic \in ses[i].topics => Plan[m].topic \in ses'[i].topics
    BY <1>3, <2>1, Zenon
  <2> QED
    BY <1>2, <1>3, <2>2, <2>3, Zenon DEF Settled, Holds, InHand
<1>8. Mine(i)'
  BY <1>5, <1>6, <1>7, Zenon DEF Mine
<1> QED
  BY <1>1, <1>3, <1>4, <1>8, Stepped, Zenon

\* A queue of which something has been sent is not empty.
LEMMA InFlightFilled ==
  ASSUME NEW i \in Ids, ses[i].queue \in Seq(Item), InFlight(i), ses[i].inflight > 0
  PROVE  ses[i].queue # <<>>
  BY DEF InFlight

\* What is acknowledged is owed no more.
LEMMA AcknowledgeKeeps ==
  ASSUME IInv, NEW i \in Ids, InFlight(i), Acknowledge(i)
  PROVE  IInv'
<1>1. /\ Shape /\ ses[i].queue \in Seq(Item) /\ disk[i].packets \in Seq(Item)
      /\ Subscribing(i) /\ Queueing(i) /\ Entered(i) /\ Phased(i) /\ Promised(i)
      /\ AllSettled(i) /\ Named(i)
  BY OfOne, Zenon
<1> DEFINE x == Head(ses[i].queue)
<1>2. /\ phase \in {"up", "stop"} /\ phase' = phase
      /\ ses[i].pc \in {"online", "up", "found"}
      /\ got' = (IF x.live THEN got \cup {<<i, x.m>>} ELSE got)
      /\ owed' = (IF x.live THEN owed \ {<<i, x.m>>} ELSE owed)
      /\ UNCHANGED <<provider, preload, todo, alive>>
  BY Zenon DEF Acknowledge, Serving
<1>0. ses[i].queue # <<>>
  BY <1>1, InFlightFilled, Zenon DEF Acknowledge
<1>3. /\ Frame(i) /\ disk'[i] = disk[i] /\ ses'[i].pc = ses[i].pc
      /\ ses'[i].container = ses[i].container /\ ses'[i].kind = ses[i].kind
      /\ ses'[i].to = ses[i].to /\ ses'[i].topics = ses[i].topics
      /\ ses'[i].queue = Tail(ses[i].queue) /\ ses'[i].asked = ses[i].asked
  BY <1>1, AcknowledgeEffect, Zenon
<1>4. /\ ses'[i].queue \in Seq(Item) /\ x \in Item
      /\ \A y : Holds(ses[i].queue, y) <=> y = x \/ Holds(ses'[i].queue, y)
  <2>1. ses[i].queue \in Seq(Item) /\ ses[i].queue # <<>>
    BY <1>0, <1>1, Zenon
  <2>2. /\ Tail(ses[i].queue) \in Seq(Item) /\ x \in Item
        /\ \A y : Holds(ses[i].queue, y) <=> y = x \/ Holds(Tail(ses[i].queue), y)
    BY <2>1, HoldsTail, Zenon
  <2> QED
    BY <1>3, <2>2, Zenon
<1>5. x.m \in Msgs /\ x.live \in BOOLEAN /\ \A m : x = Live(m) => x.m = m /\ x.live
  BY <1>4 DEF Item, Live
<1> HIDE DEF x
<1>6. Apart(i) /\ HandTypes' /\ PairTypes'
  <2>1. owed' \subseteq owed /\ got' \subseteq got \cup ({i} \X Msgs)
    BY <1>2, <1>5
  <2>2. Bounded(i)
    BY <1>2, <2>1, Zenon DEF Bounded
  <2> QED
    BY <1>2, <2>2, QuietApart, Zenon DEF provider
<1>7. Subscribing(i)' /\ Queueing(i)' /\ Phased(i)'
  BY <1>1, <1>2, <1>3, Zenon DEF Subscribing, Queueing, Phased, provider
<1>8. Entered(i)' /\ Promised(i)' /\ Named(i)'
  BY <1>1, <1>2, <1>3, Zenon DEF Entered, Promised, Named, Told
<1>9. AllSettled(i)'
  <2> SUFFICES ASSUME NEW m \in Msgs, <<i, m>> \in owed' PROVE Settled(i, m)'
    BY Zenon DEF AllSettled
  <2>1. <<i, m>> \in owed /\ x # Live(m)
    BY <1>2, <1>5, Zenon
  <2>2. Settled(i, m)
    BY <1>1, <2>1, Zenon DEF AllSettled
  <2>3. Holds(ses[i].queue, Live(m)) => Holds(ses'[i].queue, Live(m))
    BY <1>4, <2>1, Zenon
  <2> QED
    BY <1>2, <1>3, <2>2, <2>3, Zenon DEF Settled, Holds, InHand, provider
<1>10. Mine(i)'
  BY <1>7, <1>8, <1>9, Zenon DEF Mine
<1> QED
  BY <1>1, <1>3, <1>4, <1>6, <1>10, Stepped, Zenon

\* What a publisher hands over is in the queue or on disk.
LEMMA ForwardKeeps ==
  ASSUME IInv, NEW i \in Ids, NEW p \in Publishers, Forward(p, i)
  PROVE  IInv'
<1>1. /\ Shape /\ ses[i].queue \in Seq(Item) /\ disk[i].packets \in Seq(Item)
      /\ Subscribing(i) /\ Queueing(i) /\ Entered(i) /\ Phased(i) /\ Promised(i)
      /\ AllSettled(i) /\ Named(i)
  BY OfOne, Zenon
<1> DEFINE x == Live(hand[p].m)
<1>2. /\ phase' = phase /\ Handed(p, i)
      /\ UNCHANGED <<preload, todo, alive, owed, got>>
  BY Zenon DEF Forward, history
<1>3. /\ Frame(i) /\ ses'[i].pc = ses[i].pc /\ ses'[i].asked = ses[i].asked
      /\ ses'[i].container = ses[i].container /\ ses'[i].kind = ses[i].kind
      /\ ses'[i].to = ses[i].to /\ ses'[i].topics = ses[i].topics
      /\ disk'[i].exists = disk[i].exists /\ disk'[i].topics = disk[i].topics
  BY <1>1, ForwardEffect, Zenon
<1>4. /\ ses'[i].queue = (IF ses[i].to = "conn" THEN Append(ses[i].queue, x)
                          ELSE ses[i].queue)
      /\ disk'[i].packets = (IF ses[i].to = "disk" /\ disk[i].exists
                             THEN Append(disk[i].packets, x) ELSE disk[i].packets)
  BY <1>1, ForwardEffect, Zenon
<1>5. HandTypes /\ PairTypes
  BY Zenon DEF IInv, Types
<1>6. /\ HandTypes' /\ Shrinks(i) /\ inbound' = inbound /\ subs' = subs
      /\ \A q \in Publishers : q # p => hand'[q] = hand[q]
  BY <1>2, <1>5, HandedShrinks, Zenon
<1>7. x \in Item
  BY <1>2, <1>5, Zenon DEF Handed, HandTypes, Live, Item
<1> HIDE DEF x
<1>8. /\ ses'[i].queue \in Seq(Item)
      /\ \A y : Holds(ses'[i].queue, y)
                 <=> Holds(ses[i].queue, y) \/ (ses[i].to = "conn" /\ y = x)
  <2>1. /\ Append(ses[i].queue, x) \in Seq(Item)
        /\ \A y : Holds(Append(ses[i].queue, x), y) <=> Holds(ses[i].queue, y) \/ y = x
    BY <1>1, <1>7, HoldsAppend
  <2> QED
    BY <1>1, <1>4, <2>1, Zenon
<1>9. /\ disk'[i].packets \in Seq(Item)
      /\ \A y : Holds(disk'[i].packets, y)
                 <=> \/ Holds(disk[i].packets, y)
                     \/ ses[i].to = "disk" /\ disk[i].exists /\ y = x
  <2>1. /\ Append(disk[i].packets, x) \in Seq(Item)
        /\ \A y : Holds(Append(disk[i].packets, x), y) <=> Holds(disk[i].packets, y) \/ y = x
    BY <1>1, <1>7, HoldsAppend
  <2> QED
    BY <1>1, <1>4, <2>1, Zenon
<1>10. Apart(i) /\ PairTypes'
  <2>1. Apart(i)
    BY <1>2, <1>6, Zenon DEF Apart
  <2>2. PairTypes'
    BY <1>2, <1>5, Zenon DEF PairTypes
  <2> QED
    BY <2>1, <2>2, Zenon
<1>11. Subscribing(i)' /\ Phased(i)'
  BY <1>1, <1>2, <1>3, <1>6, Zenon DEF Subscribing, Phased
<1>12. Queueing(i)'
  <2>1. ses[i].to # "conn" => ses'[i].queue = ses[i].queue
    BY <1>4, Zenon
  <2> QED
    BY <1>1, <1>2, <1>3, <2>1, Zenon DEF Queueing
<1>13. Entered(i)' /\ Promised(i)' /\ Named(i)'
  <2>1. ~disk[i].exists => disk'[i].packets = disk[i].packets
    BY <1>4, Zenon
  <2> QED
    BY <1>1, <1>2, <1>3, <2>1, Zenon DEF Entered, Promised, Named, Told
<1>14. AllSettled(i)'
  <2> SUFFICES ASSUME NEW m \in Msgs, <<i, m>> \in owed' PROVE Settled(i, m)'
    BY Zenon DEF AllSettled
  <2>1. Settled(i, m)
    BY <1>1, <1>2, Zenon DEF AllSettled
  <2>2. CASE Holds(ses[i].queue, Live(m)) \/ Holds(disk[i].packets, Live(m))
    <3>1. Holds(ses'[i].queue, Live(m)) \/ Holds(disk'[i].packets, Live(m))
      BY <1>8, <1>9, <2>2, Zenon
    <3> QED
      BY <3>1, Zenon DEF Settled, Live, Holds
  <2>3. CASE Plan[m].topic \in ses[i].topics /\ Holds(inbound, m)
    BY <1>3, <1>6, <2>3, Zenon DEF Settled, Holds
  <2>4. ASSUME NEW q \in Publishers, Plan[m].topic \in ses[i].topics, InHand(q, i, m)
        PROVE  Settled(i, m)'
    <3>1. CASE q = p
      <4>1. x = Live(m)
        BY <2>4, <3>1, Zenon DEF InHand, x
      <4>2. ses[i].to = "conn" \/ (ses[i].to = "disk" /\ disk[i].exists)
        BY <1>1, <2>4, Zenon DEF Subscribing
      <4>3. Holds(ses'[i].queue, Live(m)) \/ Holds(disk'[i].packets, Live(m))
        BY <1>8, <1>9, <4>1, <4>2, Zenon
      <4> QED
        BY <4>3, Zenon DEF Settled, Live, Holds
    <3>2. CASE q # p
      <4>1. InHand(q, i, m)'
        BY <1>6, <2>4, <3>2, Zenon DEF InHand
      <4> QED
        BY <1>3, <2>4, <4>1, Zenon DEF Settled
    <3> QED
      BY <3>1, <3>2, Zenon
  <2> QED
    BY <2>1, <2>2, <2>3, <2>4, Zenon DEF Settled
<1>15. Mine(i)'
  BY <1>11, <1>12, <1>13, <1>14, Zenon DEF Mine
<1> QED
  BY <1>3, <1>6, <1>8, <1>9, <1>10, <1>15, Stepped, Zenon
-----------------------------------------------------------------------------
(* It goes down.                                                           *)

\* From now on a durable subscriber stores, and any other one quits.
LEMMA SignalOfflineKeeps ==
  ASSUME IInv, NEW i \in Ids, SignalOffline(i)
  PROVE  IInv'
<1>1. /\ Shape /\ ses[i].queue \in Seq(Item) /\ disk[i].packets \in Seq(Item)
      /\ Subscribing(i) /\ Queueing(i) /\ Entered(i) /\ Phased(i) /\ Promised(i)
      /\ AllSettled(i) /\ Named(i)
  BY OfOne, Zenon
<1>2. /\ phase \in {"up", "stop"} /\ phase' = phase /\ ses[i].pc = "up"
      /\ \/ ses[i].kind.durable /\ UNCHANGED <<provider, owed>>
         \/ ~ses[i].kind.durable /\ Quit(i) /\ owed' = {o \in owed : o[1] # i}
      /\ UNCHANGED <<preload, todo, alive, got>>
  BY Zenon DEF SignalOffline, Serving
<1>3. /\ Frame(i) /\ disk'[i] = disk[i] /\ ses'[i].pc = "offline"
      /\ ses'[i].container = ses[i].container /\ ses'[i].kind = ses[i].kind
      /\ ses'[i].to = (IF ses[i].kind.durable /\ ses[i].to # "nowhere" THEN "disk"
                       ELSE "nowhere")
      /\ ses'[i].topics = (IF ses[i].kind.durable THEN ses[i].topics ELSE {})
      /\ ses'[i].queue = ses[i].queue
  BY <1>1, SignalOfflineEffect, Zenon
<1>4. Apart(i) /\ HandTypes' /\ PairTypes'
  <2>1. Bounded(i)
    BY <1>2, Zenon DEF Bounded
  <2> QED
    BY <1>2, <2>1, QuietApart, QuitApart, Zenon DEF provider
<1>5. Phased(i)' /\ Entered(i)' /\ Promised(i)' /\ Named(i)'
  BY <1>1, <1>2, <1>3, Zenon DEF Phased, Entered, Promised, Named, Told
<1>6. CASE ses[i].kind.durable
  <2>1. /\ UNCHANGED <<inbound, hand, subs, owed>> /\ ses'[i].topics = ses[i].topics
        /\ ses'[i].to = IF ses[i].to # "nowhere" THEN "disk" ELSE "nowhere"
    BY <1>2, <1>3, <1>6, Zenon DEF provider
  <2>2. Subscribing(i)' /\ Queueing(i)'
    BY <1>1, <1>2, <1>3, <1>6, <2>1, Zenon DEF Subscribing, Queueing, Entered, Told
  <2>3. AllSettled(i)'
    BY <1>1, <1>3, <2>1, StillSettled, Zenon
  <2> QED
    BY <1>1, <1>3, <1>4, <1>5, <2>2, <2>3, Stepped, Zenon DEF Mine
<1>7. CASE ~ses[i].kind.durable
  <2>1. /\ \A m : <<i, m>> \notin owed'
        /\ ses'[i].topics = {} /\ ses'[i].to = "nowhere"
    BY <1>2, <1>3, <1>7, Zenon
  <2>2. Subscribing(i)' /\ Queueing(i)'
    BY <1>3, <2>1, Zenon DEF Subscribing, Queueing
  <2>3. AllSettled(i)'
    BY <2>1, Zenon DEF AllSettled
  <2> QED
    BY <1>1, <1>3, <1>4, <1>5, <2>2, <2>3, Stepped, Zenon DEF Mine
<1> QED
  BY <1>6, <1>7, Zenon

\* The queue goes to disk, beside what is there.
LEMMA ConnectionCloseKeeps ==
  ASSUME IInv, NEW i \in Ids, InFlight(i), ConnectionClose(i)
  PROVE  IInv'
<1>1. /\ Shape /\ ses[i].queue \in Seq(Item) /\ disk[i].packets \in Seq(Item)
      /\ Subscribing(i) /\ Queueing(i) /\ Entered(i) /\ Phased(i) /\ Promised(i)
      /\ AllSettled(i) /\ Named(i)
  BY OfOne, Zenon
<1>2. /\ phase \in {"up", "stop"} /\ phase' = phase /\ ses[i].pc = "offline"
      /\ UNCHANGED <<provider, preload, todo, alive, owed, got>>
  BY Zenon DEF ConnectionClose, Serving, history
<1>3. /\ Frame(i) /\ ses'[i].pc = "closed" /\ ses'[i].queue = <<>>
      /\ ses'[i].container = ses[i].container /\ ses'[i].kind = ses[i].kind
      /\ ses'[i].to = (IF ses[i].topics = {} THEN "nowhere" ELSE ses[i].to)
      /\ ses'[i].topics = ses[i].topics /\ disk'[i].exists = disk[i].exists
      /\ disk'[i].packets = (IF ses[i].kind.durable /\ disk[i].exists
                             THEN Stored(i) ELSE <<>>)
      /\ disk'[i].topics = disk[i].topics
  BY <1>1, ConnectionCloseEffect, Zenon
<1>4. disk[i].exists
  BY <1>1, <1>2, Zenon DEF Entered, Told
<1>5. Apart(i) /\ HandTypes' /\ PairTypes'
  <2>1. Bounded(i)
    BY <1>2, Zenon DEF Bounded
  <2> QED
    BY <1>2, <2>1, QuietApart, Zenon DEF provider
<1>6. Subscribing(i)' /\ Queueing(i)' /\ Phased(i)'
  BY <1>1, <1>2, <1>3, Zenon DEF Subscribing, Queueing, Phased, provider
<1>7. Entered(i)' /\ Promised(i)' /\ Named(i)'
  BY <1>1, <1>2, <1>3, <1>4, Zenon DEF Entered, Promised, Named, Told
<1>8. disk'[i].packets \in Seq(Item) /\ AllSettled(i)'
  <2>1. CASE ses[i].kind.durable
    <3>1. disk'[i].packets = Stored(i)
      BY <1>3, <1>4, <2>1, Zenon
    <3>2. /\ Stored(i) \in Seq(Item)
          /\ \A y : Holds(Stored(i), y) <=> Holds(ses[i].queue, y) \/ Holds(disk[i].packets, y)
      BY <1>1, StoredHolds, Zenon
    <3>3. \A y : Holds(ses[i].queue, y) \/ Holds(disk[i].packets, y)
                  => Holds(disk'[i].packets, y)
      BY <3>1, <3>2, Zenon
    <3>4. AllSettled(i) /\ owed' = owed /\ inbound' = inbound /\ hand' = hand
      BY <1>1, <1>2, Zenon DEF provider
    <3>5. AllSettled(i)'
      BY <1>3, <3>3, <3>4, StillSettled, Zenon
    <3> QED
      BY <3>1, <3>2, <3>5, Zenon
  <2>2. CASE ~ses[i].kind.durable
    <3>1. \A m \in Msgs : <<i, m>> \notin owed'
      BY <1>1, <1>2, <2>2, Zenon DEF Queueing
    <3>2. disk'[i].packets = <<>>
      BY <1>3, <2>2, Zenon
    <3> QED
      BY <3>1, <3>2, NothingQueued, Zenon DEF AllSettled
  <2> QED
    BY <2>1, <2>2, Zenon
<1>9. Mine(i)'
  BY <1>6, <1>7, <1>8, Zenon DEF Mine
<1> QED
  BY <1>3, <1>5, <1>8, <1>9, NothingQueued, Stepped, Zenon

\* A container that is removed has nothing to come that is not on disk.
LEMMA SessionOfflineKeeps ==
  ASSUME IInv, NEW i \in Ids, SessionOffline(i)
  PROVE  IInv'
<1>1. /\ Shape /\ ses[i].queue \in Seq(Item) /\ disk[i].packets \in Seq(Item)
      /\ Subscribing(i) /\ Queueing(i) /\ Entered(i) /\ Phased(i) /\ Promised(i)
      /\ AllSettled(i) /\ Named(i)
  BY OfOne, Zenon
<1>2. /\ phase \in {"up", "stop"} /\ phase' = phase /\ ses[i].pc = "closed"
      /\ UNCHANGED <<provider, preload, todo, alive, owed, got>>
  BY Zenon DEF SessionOffline, Serving, history
<1>3. /\ Frame(i) /\ ses'[i].pc = "off"
      /\ \/ SameSubscriber(i) /\ disk'[i] = disk[i]
         \/ /\ ses[i].topics = {} /\ GoneSession(i)
            /\ disk'[i] = IF ses[i].kind.durable THEN disk[i] ELSE Absent
  BY <1>1, SessionOfflineEffect, Zenon
<1>4. Apart(i) /\ HandTypes' /\ PairTypes'
  <2>1. Bounded(i)
    BY <1>2, Zenon DEF Bounded
  <2> QED
    BY <1>2, <2>1, QuietApart, Zenon DEF provider
<1>5. ses[i].queue = <<>>
  BY <1>1, <1>2, Zenon DEF Queueing
<1>6. CASE SameSubscriber(i) /\ disk'[i] = disk[i]
  <2>1. Subscribing(i)' /\ Queueing(i)' /\ Phased(i)'
    BY <1>1, <1>2, <1>3, <1>6, Zenon DEF Subscribing, Queueing, Phased, provider, SameSubscriber
  <2>2. Entered(i)' /\ Promised(i)' /\ Named(i)'
    BY <1>1, <1>2, <1>3, <1>6, Zenon DEF Entered, Promised, Named, Told, SameSubscriber
  <2>3. AllSettled(i)'
    BY <1>1, <1>2, <1>6, StillSettled, Zenon DEF SameSubscriber, provider
  <2>4. Mine(i)'
    BY <2>1, <2>2, <2>3, Zenon DEF Mine
  <2> QED
    BY <1>1, <1>3, <1>4, <1>6, <2>4, Stepped, Zenon DEF SameSubscriber
<1>7. CASE /\ ses[i].topics = {} /\ GoneSession(i)
           /\ disk'[i] = IF ses[i].kind.durable THEN disk[i] ELSE Absent
  <2>1. /\ ses'[i].container = FALSE /\ ses'[i].to = "none" /\ ses'[i].topics = {}
        /\ ses'[i].queue = <<>> /\ ses'[i].pc = "off"
    BY <1>7, Zenon DEF GoneSession
  <2>2. Subscribing(i)' /\ Queueing(i)' /\ Phased(i)'
    BY <1>1, <1>2, <2>1, Zenon DEF Subscribing, Queueing, Phased
  <2>3. CASE ses[i].kind.durable
    <3>1. disk'[i] = disk[i]
      BY <1>7, <2>3, Zenon
    <3>2. Entered(i)' /\ Promised(i)' /\ Named(i)'
      BY <1>1, <1>2, <2>1, <3>1, Zenon DEF Entered, Promised, Named, Told
    <3>3. AllSettled(i)'
      BY <1>1, <1>2, <1>5, <1>7, <2>1, <3>1, NothingQueued, StillSettled, Zenon
    <3>4. Mine(i)'
      BY <2>2, <3>2, <3>3, Zenon DEF Mine
    <3> QED
      BY <1>1, <1>3, <1>4, <2>1, <3>1, <3>4, NothingQueued, Stepped, Zenon
  <2>4. CASE ~ses[i].kind.durable
    <3>1. disk'[i] = Absent
      BY <1>7, <2>4, Zenon
    <3>2. disk'[i].packets = <<>> /\ disk'[i].topics = {}
      BY <3>1, Entries, Zenon
    <3>3. i \notin alive /\ \A m \in Msgs : <<i, m>> \notin owed
      BY <1>1, <1>2, <2>4, Zenon DEF Promised, Named, Queueing, Told
    <3>4. Entered(i)' /\ Promised(i)' /\ Named(i)'
      BY <1>1, <1>2, <2>1, <3>2, <3>3, Zenon DEF Entered, Promised, Named, Told
    <3>5. AllSettled(i)'
      BY <1>2, <3>3, Zenon DEF AllSettled
    <3>6. Mine(i)'
      BY <2>2, <3>4, <3>5, Zenon DEF Mine
    <3> QED
      BY <1>3, <1>4, <2>1, <3>2, <3>6, NothingQueued, Stepped, Zenon
  <2> QED
    BY <2>3, <2>4, Zenon
<1> QED
  BY <1>3, <1>6, <1>7, Zenon

\* What is owed is given up with the entry.
LEMMA ExpireKeeps ==
  ASSUME IInv, NEW i \in Ids, Expire(i)
  PROVE  IInv'
<1>1. /\ Shape /\ ses[i].queue \in Seq(Item) /\ disk[i].packets \in Seq(Item)
      /\ Subscribing(i) /\ Queueing(i) /\ Entered(i) /\ Phased(i) /\ Promised(i)
      /\ AllSettled(i) /\ Named(i)
  BY OfOne, Zenon
<1>2. /\ phase \in {"up", "stop"} /\ phase' = phase /\ Quit(i)
      /\ alive' = alive \ {i} /\ owed' = {o \in owed : o[1] # i}
      /\ UNCHANGED <<preload, todo, got>>
  BY Zenon DEF Expire, Serving
<1>3. Frame(i) /\ GoneSession(i) /\ disk'[i] = Absent
  BY <1>1, ExpireEffect, Zenon
<1>4. Apart(i) /\ HandTypes' /\ PairTypes'
  <2>1. Bounded(i)
    BY <1>2, Zenon DEF Bounded
  <2> QED
    BY <1>2, <2>1, QuitApart, Zenon
<1>5. /\ ses'[i].container = FALSE /\ ses'[i].to = "none" /\ ses'[i].topics = {}
      /\ ses'[i].queue = <<>> /\ ses'[i].pc = "off"
  BY <1>3, Zenon DEF GoneSession
<1>6. disk'[i].packets = <<>> /\ disk'[i].topics = {}
  BY <1>3, Entries, Zenon
<1>7. i \notin alive' /\ \A m : <<i, m>> \notin owed'
  BY <1>2, Zenon
<1>8. Subscribing(i)' /\ Queueing(i)' /\ Phased(i)'
  BY <1>1, <1>2, <1>5, Zenon DEF Subscribing, Queueing, Phased
<1>9. Entered(i)' /\ Promised(i)' /\ Named(i)' /\ AllSettled(i)'
  BY <1>1, <1>2, <1>5, <1>6, <1>7, Zenon DEF Entered, Promised, Named, Told, AllSettled
<1>10. Mine(i)'
  BY <1>8, <1>9, Zenon DEF Mine
<1> QED
  BY <1>3, <1>4, <1>5, <1>6, <1>10, NothingQueued, Stepped, Zenon
-----------------------------------------------------------------------------
(* The steps of the process.                                               *)

\* Manager.Stop and a timer that fires touch neither queue nor disk, nor does the writer.
LEMMA StopKeeps ==
  ASSUME IInv, NEW i \in Ids, StopSteps(i) \/ Send(i)
  PROVE  IInv'
<1>1. /\ Shape /\ ses[i].queue \in Seq(Item) /\ disk[i].packets \in Seq(Item)
      /\ Subscribing(i) /\ Queueing(i) /\ Entered(i) /\ Phased(i) /\ Promised(i)
      /\ AllSettled(i) /\ Named(i)
  BY OfOne, Zenon
<1>2. /\ phase \in {"up", "stop"} /\ phase' = phase
      /\ todo' = todo \/ (todo' = todo \ {i} /\ ses[i].pc = "off")
      /\ UNCHANGED <<provider, preload, alive, owed, got>>
  BY Zenon DEF StopSteps, StopOffline, StopOnline, StopReturns, StopExpiry, Fire, Send, Serving,
    history
<1>3. Frame(i) /\ SameSession(i) /\ disk'[i] = disk[i]
  BY <1>1, StopEffect, SendEffect, Zenon
<1>4. Apart(i) /\ HandTypes' /\ PairTypes'
  <2>1. Bounded(i)
    BY <1>2, Zenon DEF Bounded
  <2> QED
    BY <1>2, <2>1, QuietApart, Zenon DEF provider
<1>5. Subscribing(i)' /\ Queueing(i)' /\ Phased(i)'
  BY <1>1, <1>2, <1>3, Zenon
  DEF Subscribing, Queueing, Phased, provider, SameSession, SameSubscriber
<1>6. Entered(i)' /\ Promised(i)' /\ Named(i)'
  BY <1>1, <1>2, <1>3, Zenon DEF Entered, Promised, Named, Told, SameSession, SameSubscriber
<1>7. AllSettled(i)'
  BY <1>1, <1>2, <1>3, StillSettled, Zenon DEF SameSession, SameSubscriber, provider
<1>8. Mine(i)'
  BY <1>5, <1>6, <1>7, Zenon DEF Mine
<1> QED
  BY <1>1, <1>3, <1>4, <1>8, Stepped, Zenon DEF SameSession, SameSubscriber

\* Manager.Shutdown: what is still in the provider is given up.
LEMMA PersistKeeps ==
  ASSUME IInv, NEW i \in Ids, PersistSubscriber(i)
  PROVE  IInv'
<1>1. /\ Shape /\ ses[i].queue \in Seq(Item) /\ disk[i].packets \in Seq(Item)
      /\ Subscribing(i) /\ Queueing(i) /\ Entered(i) /\ Phased(i) /\ Promised(i)
      /\ AllSettled(i) /\ Named(i)
  BY OfOne, Zenon
<1> DEFINE given == {o \in owed : o[1] = i}
<1>2. /\ phase = "shutdown" /\ phase' = phase /\ i \in todo /\ todo' = todo \ {i}
      /\ Quit(i) /\ owed' = owed \ (given \ OnDisk(given))
      /\ UNCHANGED <<preload, alive, got>>
  BY Zenon DEF PersistSubscriber
<1>3. Frame(i) /\ GoneSession(i) /\ SameEntry(i)
  BY <1>1, PersistEffect, Zenon
<1>4. Apart(i) /\ HandTypes' /\ PairTypes'
  <2>1. Bounded(i)
    BY <1>2, Zenon DEF Bounded
  <2> QED
    BY <1>2, <2>1, QuitApart, Zenon
<1>5. /\ ses'[i].container = FALSE /\ ses'[i].to = "none" /\ ses'[i].topics = {}
      /\ ses'[i].queue = <<>> /\ ses'[i].pc = "off"
  BY <1>3, Zenon DEF GoneSession
<1>6. disk[i].exists
  BY <1>1, <1>2, Zenon DEF Phased, Entered
<1>7. Subscribing(i)' /\ Queueing(i)' /\ Phased(i)'
  BY <1>1, <1>2, <1>5, Zenon DEF Subscribing, Queueing, Phased
<1>8. Entered(i)' /\ Promised(i)' /\ Named(i)'
  BY <1>1, <1>2, <1>3, <1>5, <1>6, Zenon DEF Entered, Promised, Named, Told, SameEntry
<1>9. AllSettled(i)'
  <2> SUFFICES ASSUME NEW m \in Msgs, <<i, m>> \in owed' PROVE Settled(i, m)'
    BY Zenon DEF AllSettled
  <2>1. Holds(disk[i].packets, Live(m))
    BY <1>2, Zenon DEF OnDisk
  <2>2. Holds(disk'[i].packets, Live(m))
    BY <1>3, <2>1, Zenon DEF SameEntry
  <2> QED
    BY <2>2, Zenon DEF Settled, Live, Holds
<1>10. Mine(i)'
  BY <1>7, <1>8, <1>9, Zenon DEF Mine
<1> QED
  BY <1>1, <1>3, <1>4, <1>5, <1>10, NothingQueued, Stepped, Zenon DEF SameEntry

\* The entry stays, unless the session has expired.
LEMMA LoadSessionKeeps ==
  ASSUME IInv, NEW i \in Ids, LoadSession(i)
  PROVE  IInv'
<1>1. /\ Shape /\ ses[i].queue \in Seq(Item) /\ disk[i].packets \in Seq(Item)
      /\ Subscribing(i) /\ Queueing(i) /\ Entered(i) /\ Phased(i) /\ Promised(i)
      /\ AllSettled(i) /\ Named(i)
  BY OfOne, Zenon
<1>2. /\ phase = "load" /\ phase' = phase /\ i \in todo /\ todo' = todo \ {i}
      /\ UNCHANGED <<provider, got>>
  BY Zenon DEF LoadSession
<1>3. preload \in [Ids -> SUBSET {"sub", "exp"}]
  BY OfOne, Zenon
<1>4. /\ Frame(i) /\ SameSession(i)
      /\ \E x \in SUBSET {"sub", "exp"} : preload' = [preload EXCEPT ![i] = x]
      /\ \/ SameEntry(i) /\ alive' = alive /\ owed' = owed
         \/ /\ disk'[i] = Absent /\ "exp" \notin preload'[i]
            /\ alive' = alive \ {i} /\ owed' = {o \in owed : o[1] # i}
  BY <1>1, <1>3, LoadSessionEffect, Zenon
<1>5. Apart(i) /\ HandTypes' /\ PairTypes'
  <2>1. Shrinks(i)
    BY <1>2, Zenon DEF Shrinks, provider
  <2>2. preload' \in [Ids -> SUBSET {"sub", "exp"}] /\ \A j \in Ids : j # i => preload'[j] = preload[j]
    BY <1>3, <1>4, Zenon
  <2>5. alive' \subseteq alive /\ owed' \subseteq owed
    BY <1>4, Zenon
  <2>3. Apart(i)
    BY <1>2, <2>1, <2>2, <2>5, Zenon DEF Apart, provider
  <2>4. HandTypes' /\ PairTypes'
    BY <1>2, <2>2, <2>5, Zenon DEF IInv, Types, HandTypes, PairTypes, provider
  <2> QED
    BY <2>3, <2>4, Zenon
<1>6. ~ses[i].container /\ ses[i].topics = {} /\ ses[i].pc = "off" /\ disk[i].exists
      /\ ses[i].queue = <<>>
  BY <1>1, <1>2, Zenon DEF Phased, Entered, Queueing
<1>7. Subscribing(i)' /\ Queueing(i)' /\ Phased(i)'
  BY <1>1, <1>2, <1>4, <1>6, Zenon
  DEF Subscribing, Queueing, Phased, SameSession, SameSubscriber
<1>8. CASE SameEntry(i) /\ alive' = alive /\ owed' = owed
  <2>1. Entered(i)' /\ Promised(i)' /\ Named(i)'
    BY <1>1, <1>2, <1>4, <1>6, <1>8, Zenon
    DEF Entered, Promised, Named, Told, SameSession, SameSubscriber, SameEntry
  <2>2. AllSettled(i)'
    BY <1>1, <1>4, <1>6, <1>8, StillSettled, Zenon DEF SameSession, SameSubscriber, SameEntry
  <2>3. Mine(i)'
    BY <1>7, <2>1, <2>2, Zenon DEF Mine
  <2> QED
    BY <1>1, <1>4, <1>5, <1>8, <2>3, Stepped, Zenon
    DEF SameSession, SameSubscriber, SameEntry
<1>9. CASE /\ disk'[i] = Absent /\ "exp" \notin preload'[i]
           /\ alive' = alive \ {i} /\ owed' = {o \in owed : o[1] # i}
  <2>1. disk'[i].packets = <<>> /\ disk'[i].topics = {}
    BY <1>9, Entries, Zenon
  <2>2. i \notin todo' /\ i \notin alive' /\ \A m : <<i, m>> \notin owed'
    BY <1>2, <1>9, Zenon
  <2>3. Entered(i)' /\ Promised(i)' /\ Named(i)' /\ AllSettled(i)'
    BY <1>2, <1>4, <1>6, <1>9, <2>1, <2>2, Zenon
    DEF Entered, Promised, Named, Told, AllSettled, SameSession, SameSubscriber
  <2>4. Mine(i)'
    BY <1>7, <2>3, Zenon DEF Mine
  <2> QED
    BY <1>1, <1>4, <1>5, <2>1, <2>4, NothingQueued, Stepped, Zenon
    DEF SameSession, SameSubscriber
<1> QED
  BY <1>4, <1>8, <1>9, Zenon

\* Steps of the process and of the retainer, which change no session.
LEMMA ProcessKeeps ==
  ASSUME IInv, \/ ClientRetain \/ RetainerTakes \/ (\E m \in Msgs : LoadRetained(m))
               \/ Stop \/ StopDone \/ ManagerDown \/ Start \/ ProviderUp
  PROVE  IInv'
<1>1. UNCHANGED <<ses, disk, preload, alive, owed, got, subs, inbound, hand>>
  BY Zenon
  DEF ClientRetain, RetainerTakes, LoadRetained, Stop, StopDone, ManagerDown, Start, ProviderUp,
      Retain, Retainer, Reload, manager, persistence, history, provider
<1>2. \/ phase' = phase /\ todo' = todo
      \/ phase = "retained" /\ phase' = phase
      \/ phase = "up" /\ phase' = "stop" /\ todo' = {i \in Ids : ses[i].container}
      \/ phase = "stop" /\ phase' = "shutdown" /\ todo = {}
         /\ todo' = {i \in Ids : ses[i].container}
      \/ phase = "shutdown" /\ phase' = "drain" /\ todo = {}
      \/ phase = "off" /\ phase' = "retained"
      \/ phase = "retained" /\ phase' = "load" /\ todo' = {i \in Ids : disk[i].exists}
  BY Zenon
  DEF ClientRetain, RetainerTakes, LoadRetained, Stop, StopDone, ManagerDown, Start, ProviderUp,
      manager
<1>3. Shape' /\ Types'
  BY <1>1, Zenon
  DEF IInv, Shape, SesShape, DiskShape, Types, HandTypes, QueueTypes, PairTypes
<1>4. ASSUME NEW i \in Ids PROVE Mine(i)'
  <2>1. /\ Subscribing(i) /\ Queueing(i) /\ Entered(i) /\ Phased(i) /\ Promised(i)
        /\ AllSettled(i) /\ Named(i)
    BY OfOne, Zenon
  <2>2. Subscribing(i)' /\ Queueing(i)' /\ Promised(i)' /\ Named(i)'
    BY <1>1, <2>1, Zenon DEF Subscribing, Queueing, Promised, Named
  <2>3. AllSettled(i)'
    BY <1>1, <2>1, StillSettled, Zenon
  <2>4. Entered(i)'
    BY <1>1, <1>2, <2>1, Zenon DEF Entered
  <2>5. Phased(i)'
    BY <1>1, <1>2, <2>1, Zenon DEF Phased
  <2> QED
    BY <2>1, <2>2, <2>3, <2>4, <2>5, Zenon DEF Mine
<1> QED
  BY <1>3, <1>4, Zenon DEF IInv

\* A publication is accepted: whoever it is owed to has a subscription.
LEMMA ClientPublishKeeps ==
  ASSUME IInv, sent \in 0..Len(Plan), ClientPublish
  PROVE  IInv'
<1> DEFINE n == sent + 1
           t == Plan[n].topic
<1>1. /\ UNCHANGED <<phase, todo, ses, disk, preload, alive, got, subs, hand>>
      /\ sent < Len(Plan) /\ inbound' = Append(inbound, n)
      /\ owed' = owed \cup {<<i, n>> : i \in {j \in Ids : /\ <<j, t>> \in subs
                                                        /\ t \in ses[j].topics}}
  BY Zenon DEF ClientPublish, Publish, manager, persistence
<1>2. n \in Msgs
  BY <1>1, Planned
<1>3. HandTypes /\ PairTypes /\ inbound \in Seq(Msgs)
  BY Zenon DEF IInv, Types, HandTypes
<1> HIDE DEF n
<1>4. /\ inbound' \in Seq(Msgs)
      /\ \A y : Holds(inbound', y) <=> Holds(inbound, y) \/ y = n
  <2>1. /\ Append(inbound, n) \in Seq(Msgs)
        /\ \A y : Holds(Append(inbound, n), y) <=> Holds(inbound, y) \/ y = n
    BY <1>2, <1>3, HoldsAppend, Zenon
  <2> QED
    BY <1>1, <2>1, Zenon
<1> HIDE DEF t
<1>5. Shape' /\ QueueTypes'
  BY <1>1, Zenon DEF IInv, Shape, SesShape, DiskShape, Types, QueueTypes
<1>6. HandTypes' /\ PairTypes'
  <2>1. HandTypes'
    BY <1>1, <1>3, <1>4, Zenon DEF HandTypes
  <2>2. owed' \subseteq Ids \X Msgs
    <3> DEFINE S == {j \in Ids : <<j, t>> \in subs /\ t \in ses[j].topics}
    <3>1. owed' = owed \cup {<<i, n>> : i \in S} /\ S \subseteq Ids
      BY <1>1, Zenon
    <3>2. owed \subseteq Ids \X Msgs
      BY <1>3, Zenon DEF PairTypes
    <3> HIDE DEF S
    <3> QED
      BY <1>2, <3>1, <3>2
  <2>3. PairTypes'
    BY <1>1, <1>3, <2>2, Zenon DEF PairTypes
  <2> QED
    BY <2>1, <2>3, Zenon
<1>7. ASSUME NEW i \in Ids PROVE Mine(i)'
  <2>1. /\ Subscribing(i) /\ Queueing(i) /\ Entered(i) /\ Phased(i) /\ Promised(i)
        /\ AllSettled(i) /\ Named(i)
    BY OfOne, Zenon
  <2>2. Subscribing(i)' /\ Entered(i)' /\ Phased(i)' /\ Promised(i)' /\ Named(i)'
    BY <1>1, <2>1, Zenon DEF Subscribing, Entered, Phased, Promised, Named
  <2>3. ASSUME NEW m, <<i, m>> \in owed', <<i, m>> \notin owed
        PROVE  m = n /\ t \in ses[i].topics
    <3>1. PICK j \in Ids : <<i, m>> = <<j, n>> /\ t \in ses[j].topics
      BY <1>1, <2>3, Zenon
    <3> QED
      BY <3>1, Zenon
  <2>4. Queueing(i)'
    <3>1. ses[i].topics = {} => \A m : <<i, m>> \in owed' => <<i, m>> \in owed
      BY <2>3, Zenon
    <3> QED
      BY <1>1, <2>1, <3>1, Zenon DEF Queueing
  <2>5. ASSUME NEW m \in Msgs, <<i, m>> \in owed' PROVE Settled(i, m)'
    <3>1. CASE <<i, m>> \in owed
      <4>1. Settled(i, m)
        BY <2>1, <3>1, Zenon DEF AllSettled
      <4>2. Holds(inbound, m) => Holds(inbound', m)
        BY <1>4, Zenon
      <4> QED
        BY <1>1, <4>1, <4>2, Zenon DEF Settled, InHand, Holds
    <3>2. CASE <<i, m>> \notin owed
      <4>1. m = n /\ t \in ses[i].topics
        BY <2>3, <2>5, <3>2, Zenon
      <4>2. Holds(inbound', m) /\ Plan[m].topic \in ses'[i].topics
        BY <1>1, <1>4, <4>1, Zenon DEF t
      <4> QED
        BY <4>2, Zenon DEF Settled, Holds
    <3> QED
      BY <3>1, <3>2, Zenon
  <2> QED
    BY <2>2, <2>4, <2>5, Zenon DEF Mine, AllSettled
<1> QED
  BY <1>5, <1>6, <1>7, Zenon DEF IInv, Types

\* A publisher receives: it finds whoever has the subscription.
LEMMA TakeKeeps ==
  ASSUME IInv, NEW p \in Publishers, PublisherTakes(p)
  PROVE  IInv'
<1> DEFINE n == Head(inbound)
           L == {i \in Ids : <<i, Plan[n].topic>> \in subs}
           h == IF L = {} THEN Idle ELSE [m |-> n, left |-> L]
           T == [m : Msgs \cup {None}, left : SUBSET Ids]
<1>1. /\ UNCHANGED <<phase, todo, ses, disk, preload, alive, owed, got, subs>>
      /\ hand[p] = Idle /\ inbound # <<>> /\ inbound' = Tail(inbound)
      /\ hand' = [hand EXCEPT ![p] = h]
  BY Zenon DEF PublisherTakes, Take, manager, persistence, history
<1>2. /\ inbound \in Seq(Msgs) /\ hand \in [Publishers -> T]
      /\ \A q \in Publishers : hand[q].left # {} => hand[q].m \in Msgs
  BY Zenon DEF IInv, Types, HandTypes
<1>3. /\ inbound' \in Seq(Msgs) /\ n \in Msgs
      /\ \A y : Holds(inbound, y) <=> y = n \/ Holds(inbound', y)
  <2>1. /\ Tail(inbound) \in Seq(Msgs) /\ n \in Msgs
        /\ \A y : Holds(inbound, y) <=> y = n \/ Holds(Tail(inbound), y)
    BY <1>1, <1>2, HoldsTail, Zenon
  <2> QED
    BY <1>1, <2>1, Zenon
<1> HIDE DEF n
<1>4. /\ h \in T /\ (h.left # {} => h.m \in Msgs)
      /\ \A i \in L : h.m = n /\ i \in h.left
  <2>1. L \subseteq Ids
    BY Zenon
  <2> HIDE DEF L
  <2>2. CASE L = {}
    BY <2>2, Zenon DEF Idle
  <2>3. CASE L # {}
    BY <1>3, <2>1, <2>3, Zenon
  <2> QED
    BY <2>2, <2>3, Zenon
<1> HIDE DEF h, T
<1>5. /\ hand' \in [Publishers -> T] /\ hand'[p] = h
      /\ \A q \in Publishers : q # p => hand'[q] = hand[q]
  BY <1>1, <1>2, <1>4, Zenon
<1>6. HandTypes'
  BY <1>2, <1>3, <1>4, <1>5, Zenon DEF HandTypes, T
<1>7. Shape' /\ QueueTypes' /\ PairTypes'
  BY <1>1, Zenon DEF IInv, Shape, SesShape, DiskShape, Types, QueueTypes, PairTypes
<1>8. ASSUME NEW i \in Ids PROVE Mine(i)'
  <2>1. /\ Subscribing(i) /\ Queueing(i) /\ Entered(i) /\ Phased(i) /\ Promised(i)
        /\ AllSettled(i) /\ Named(i)
    BY OfOne, Zenon
  <2>2. Subscribing(i)' /\ Promised(i)' /\ Named(i)' /\ Queueing(i)'
    BY <1>1, <2>1, Zenon DEF Subscribing, Promised, Named, Queueing
  <2>4. Entered(i)' /\ Phased(i)'
    BY <1>1, <2>1, Zenon DEF Entered, Phased
  <2>3. ASSUME NEW m \in Msgs, <<i, m>> \in owed' PROVE Settled(i, m)'
    <3>1. Settled(i, m)
      BY <1>1, <2>1, <2>3, Zenon DEF AllSettled
    <3>2. ASSUME Plan[m].topic \in ses[i].topics, Holds(inbound, m)
          PROVE  Holds(inbound', m) \/ InHand(p, i, m)'
      <4>1. <<i, Plan[m].topic>> \in subs
        BY <2>1, <3>2, Zenon DEF Subscribing
      <4>2. m = n => i \in L
        BY <4>1, Zenon
      <4> QED
        BY <1>3, <1>4, <1>5, <3>2, <4>2, Zenon DEF InHand
    <3>3. ASSUME NEW q \in Publishers, InHand(q, i, m) PROVE InHand(q, i, m)'
      <4>1. q # p
        BY <1>1, <3>3 DEF InHand, Idle
      <4> QED
        BY <1>5, <3>3, <4>1, Zenon DEF InHand
    <3> QED
      BY <1>1, <3>1, <3>2, <3>3, Zenon DEF Settled, Holds
  <2> QED
    BY <2>2, <2>3, <2>4, Zenon DEF Mine, AllSettled
<1> QED
  BY <1>6, <1>7, <1>8, Zenon DEF IInv, Types

\* A new provider has nothing.
LEMMA FreshHands == ASSUME Fresh PROVE HandTypes' /\ subs' = {} /\ inbound' = <<>>
<1>1. /\ inbound' = <<>> /\ subs' = {} /\ hand' = [p \in Publishers |-> Idle]
  BY Zenon DEF Fresh
<1>2. Idle \in [m : Msgs \cup {None}, left : SUBSET Ids] /\ Idle.left = {}
  BY Zenon DEF Idle
<1> QED
  BY <1>1, <1>2 DEF HandTypes

\* The provider goes down when nothing is on its way.
LEMMA ProviderDownKeepsSessions ==
  ASSUME IInv, ProviderDown
  PROVE  IInv'
<1>1. /\ phase = "drain" /\ phase' = "off" /\ Fresh
      /\ UNCHANGED <<todo, ses, preload, disk, alive, owed, got>>
  BY Zenon DEF ProviderDown, history
<1>2. HandTypes' /\ subs' = {}
  BY <1>1, FreshHands, Zenon
<1>3. Shape' /\ QueueTypes' /\ PairTypes'
  BY <1>1, Zenon DEF IInv, Shape, SesShape, DiskShape, Types, QueueTypes, PairTypes
<1>4. ASSUME NEW i \in Ids PROVE Mine(i)'
  <2>1. /\ Subscribing(i) /\ Queueing(i) /\ Entered(i) /\ Phased(i) /\ Promised(i)
        /\ AllSettled(i) /\ Named(i)
    BY OfOne, Zenon
  <2>2. ~ses[i].container /\ ses[i].topics = {} /\ ses[i].pc = "off"
    BY <1>1, <2>1, Zenon DEF Phased
  <2>3. Subscribing(i)' /\ Queueing(i)' /\ Phased(i)'
    BY <1>1, <2>1, <2>2, Zenon DEF Subscribing, Queueing, Phased
  <2>4. Entered(i)' /\ Promised(i)' /\ Named(i)'
    BY <1>1, <2>1, <2>2, Zenon DEF Entered, Promised, Named, Told
  <2>5. AllSettled(i)'
    BY <1>1, <2>1, <2>2, StillSettled, Zenon
  <2> QED
    BY <2>3, <2>4, <2>5, Zenon DEF Mine
<1> QED
  BY <1>2, <1>3, <1>4, Zenon DEF IInv, Types

\* The process dies: what is owed is what is on disk.
LEMMA DieKeepsSessions ==
  ASSUME IInv, Die
  PROVE  IInv'
<1>1. /\ phase' = "off" /\ todo' = {} /\ Fresh /\ owed' = OnDisk(owed)
      /\ ses' = [i \in Ids |-> NoSession] /\ preload' = [i \in Ids |-> {}]
      /\ UNCHANGED <<disk, alive, got>>
  BY Zenon DEF Die, persistence
<1>2. HandTypes' /\ subs' = {}
  BY <1>1, FreshHands, Zenon
<1>3. \A i \in Ids : ses'[i] = NoSession
  BY <1>1, Zenon
<1>4. Shape'
  BY <1>1, <1>3, NoSessionFields, Zenon DEF IInv, Shape, SesShape, DiskShape
<1>5. PairTypes'
  BY <1>1, Zenon DEF IInv, Types, PairTypes, OnDisk
<1>6. QueueTypes'
  BY <1>1, <1>3, NoSessionFields, NothingQueued, Zenon DEF IInv, Types, QueueTypes
<1>7. ASSUME NEW i \in Ids PROVE Mine(i)'
  <2>1. Entered(i) /\ Promised(i) /\ Named(i)
    BY OfOne, Zenon
  <2>2. /\ ses'[i].container = FALSE /\ ses'[i].to = "none" /\ ses'[i].topics = {}
        /\ ses'[i].queue = <<>> /\ ses'[i].pc = "off" /\ preload'[i] = {}
    BY <1>1, <1>3, NoSessionFields, Zenon
  <2>3. Subscribing(i)' /\ Queueing(i)' /\ Phased(i)'
    BY <1>1, <2>2, Zenon DEF Subscribing, Queueing, Phased
  <2>4. Entered(i)' /\ Promised(i)' /\ Named(i)'
    BY <1>1, <2>1, <2>2, Zenon DEF Entered, Promised, Named, Told
  <2>5. ASSUME NEW m \in Msgs, <<i, m>> \in owed' PROVE Settled(i, m)'
    <3>1. Holds(disk[i].packets, Live(m))
      BY <1>1, <2>5, Zenon DEF OnDisk
    <3>2. Holds(disk'[i].packets, Live(m))
      BY <1>1, <3>1, Zenon
    <3> QED
      BY <3>2, Zenon DEF Settled, Live, Holds
  <2> QED
    BY <2>3, <2>4, <2>5, Zenon DEF Mine, AllSettled
<1> QED
  BY <1>2, <1>4, <1>5, <1>6, <1>7, Zenon DEF IInv, Types

\* The containers of a start have entries, unless the start panics.
LEMMA ConfigureKeepsSessions ==
  ASSUME IInv, Configure
  PROVE  IInv'
<1>1. /\ phase = "load" /\ todo = {} /\ phase' = (IF NilConfig THEN "panicked" ELSE "up")
      /\ preload' = [i \in Ids |-> {}]
      /\ UNCHANGED <<inbound, hand, alive, owed, got>>
  BY Zenon DEF Configure, history
<1>2. \A i \in Ids : \A t : preload[i] # {} /\ t \in disk[i].topics /\ t \in Names
                        => <<i, t>> \in subs'
  BY Zenon DEF Configure
<1>3. Shape /\ HandTypes /\ PairTypes /\ QueueTypes
  BY Zenon DEF IInv, Types
<1>4. \A i \in Ids : IsEntry(disk'[i]) /\ IsSession(ses'[i])
  BY <1>3, ConfigureEffect, Zenon
<1>5. Shape'
  <2>1. ses' = [i \in Ids |-> ses'[i]] /\ disk' = [i \in Ids |-> disk'[i]]
    BY Zenon DEF Configure
  <2> QED
    BY <1>4, <2>1, Zenon DEF Shape, SesShape, DiskShape
<1>6. HandTypes' /\ PairTypes'
  BY <1>1, <1>3, Zenon DEF HandTypes, PairTypes
<1>7. ASSUME NEW i \in Ids
      PROVE  Mine(i)' /\ ses'[i].queue \in Seq(Item) /\ disk'[i].packets \in Seq(Item)
  <2>1. /\ Subscribing(i) /\ Queueing(i) /\ Entered(i) /\ Phased(i) /\ Promised(i)
        /\ AllSettled(i) /\ Named(i)
        /\ ses[i].queue \in Seq(Item) /\ disk[i].packets \in Seq(Item)
    BY OfOne, Zenon
  <2>2. /\ SameEntry(i) /\ disk'[i].topics \in {disk[i].topics, {}}
        /\ \/ preload[i] = {} /\ ses'[i] = ses[i]
           \/ /\ preload[i] # {} /\ ses'[i].container = TRUE /\ ses'[i].to = "disk"
              /\ ses'[i].topics = disk[i].topics /\ ses'[i].pc = "off"
              /\ ses'[i].queue = <<>>
    BY <1>3, ConfigureEffect, Zenon
  <2>3. ~ses[i].container /\ ses[i].topics = {} /\ ses[i].pc = "off" /\ ses[i].queue = <<>>
    BY <1>1, <2>1, Zenon DEF Phased, Queueing
  <2>4. /\ ses'[i].pc = "off" /\ ses'[i].queue = <<>> /\ disk'[i].exists = disk[i].exists
        /\ disk'[i].packets = disk[i].packets /\ preload'[i] = {}
        /\ phase' \in {"up", "panicked"}
    BY <1>1, <2>2, <2>3, Zenon DEF SameEntry
  <2>5. preload[i] # {} /\ phase' # "panicked" => disk[i].exists
    <3> SUFFICES ASSUME preload[i] # {}, ~NilConfig PROVE disk[i].exists
      BY <1>1, Zenon
    <3>1. preload[i] \notin {{"sub"}, {"exp"}}
      BY Zenon DEF NilConfig
    <3>2. preload[i] \subseteq {"sub", "exp"}
      BY <1>3, Zenon DEF PairTypes
    <3>3. "exp" \in preload[i]
      BY <3>1, <3>2, Zenon
    <3> QED
      BY <1>1, <2>1, <3>3, Zenon DEF Entered
  <2>6. /\ Subscribing(i)' /\ Queueing(i)' /\ Phased(i)' /\ Entered(i)'
        /\ Promised(i)' /\ Named(i)'
    <3>1. CASE preload[i] = {}
      <4>1. ses'[i] = ses[i]
        BY <2>2, <3>1, Zenon
      <4>2. Subscribing(i)' /\ Queueing(i)' /\ Phased(i)'
        BY <2>1, <2>3, <2>4, <4>1, Zenon DEF Subscribing, Queueing, Phased
      <4>3. Entered(i)' /\ Promised(i)' /\ Named(i)'
        BY <1>1, <2>1, <2>2, <2>3, <2>4, <4>1, Zenon DEF Entered, Promised, Named, Told
      <4> QED
        BY <4>2, <4>3, Zenon
    <3>2. CASE preload[i] # {}
      <4>1. /\ ses'[i].container = TRUE /\ ses'[i].to = "disk"
            /\ ses'[i].topics = disk[i].topics
        BY <2>2, <3>2, Zenon
      <4>2. Subscribing(i)'
        BY <1>2, <2>1, <2>4, <3>2, <4>1, Zenon DEF Subscribing, Entered, Named
      <4>3. Queueing(i)' /\ Phased(i)'
        BY <2>4, <4>1, Zenon DEF Queueing, Phased
      <4>4. Entered(i)' /\ Promised(i)' /\ Named(i)'
        BY <1>1, <2>1, <2>2, <2>4, <2>5, <3>2, <4>1, Zenon DEF Entered, Promised, Named, Told
      <4> QED
        BY <4>2, <4>3, <4>4, Zenon
    <3> QED
      BY <3>1, <3>2, Zenon
  <2>8. AllSettled(i)'
    BY <1>1, <2>1, <2>3, <2>4, StillSettled, Zenon
  <2>9. Mine(i)'
    BY <2>6, <2>8, Zenon DEF Mine
  <2> QED
    BY <2>1, <2>4, <2>9, NothingQueued, Zenon
<1> QED
  BY <1>5, <1>6, <1>7, Zenon DEF IInv, Types, QueueTypes

\* At first there are no sessions.
LEMMA SessionsInit == Init => IInv
<1> SUFFICES ASSUME Init PROVE IInv
  BY Zenon
<1>1. /\ phase = "off" /\ todo = {} /\ ses = [i \in Ids |-> NoSession]
      /\ preload = [i \in Ids |-> {}] /\ disk = [i \in Ids |-> Absent]
      /\ alive = {} /\ owed = {} /\ got = {}
      /\ inbound = <<>> /\ hand = [p \in Publishers |-> Idle]
  BY Zenon DEF Init, ProviderInit
<1>2. \A i \in Ids : ses[i] = NoSession /\ disk[i] = Absent /\ preload[i] = {}
  BY <1>1, Zenon
<1>3. Shape
  BY <1>1, <1>2, NoSessionFields, Entries, Zenon DEF Shape, SesShape, DiskShape
<1>4. HandTypes
  <2>1. Idle \in [m : Msgs \cup {None}, left : SUBSET Ids] /\ Idle.left = {}
    BY Zenon DEF Idle
  <2> QED
    BY <1>1, <2>1 DEF HandTypes
<1>5. PairTypes
  BY <1>1, Zenon DEF PairTypes
<1>6. QueueTypes
  BY <1>2, NoSessionFields, Entries, NothingQueued, Zenon DEF QueueTypes
<1>7. ASSUME NEW i \in Ids PROVE Mine(i)
  <2>1. /\ ses[i].container = FALSE /\ ses[i].to = "none" /\ ses[i].topics = {}
        /\ ses[i].queue = <<>> /\ ses[i].pc = "off" /\ preload[i] = {}
        /\ disk[i].topics = {} /\ disk[i].packets = <<>>
    BY <1>2, NoSessionFields, Entries, Zenon
  <2>2. Subscribing(i) /\ Queueing(i) /\ Phased(i)
    BY <1>1, <2>1, Zenon DEF Subscribing, Queueing, Phased
  <2>3. Entered(i) /\ Promised(i) /\ AllSettled(i) /\ Named(i)
    BY <1>1, <2>1, Zenon DEF Entered, Promised, Named, AllSettled, Told
  <2> QED
    BY <2>2, <2>3, Zenon DEF Mine
<1> QED
  BY <1>3, <1>4, <1>5, <1>6, <1>7, Zenon DEF IInv, Types

\* Every step keeps what is said of the sessions.
LEMMA SessionsStep ==
  ASSUME IInv, AllInFlight, RetainedTypes, [Next]_vars
  PROVE  IInv'
<1>1. ASSUME Crash \/ CountPanics \/ \E i \in Ids : SubscribePanics(i) PROVE IInv'
  <2>1. Die
    BY <1>1, Zenon DEF Crash, CountPanics, SubscribePanics
  <2> QED
    BY <2>1, DieKeepsSessions, Zenon
<1>2. ASSUME NEW i \in Ids,
             \/ \E k \in Kinds : Connect(i, k)
             \/ Create(i) \/ Load(i) \/ Online(i)
             \/ \E t \in Names : Subscribe(i, t) \/ UnSubscribe(i, t)
             \/ Subscribed(i) \/ Acknowledge(i)
      PROVE  IInv'
  <2>1. retained \in [Names -> Msgs \cup {None}]
    BY Zenon DEF RetainedTypes
  <2> QED
    BY <1>2, <2>1, ConnectKeeps, CreateKeeps, LoadKeeps, OnlineKeeps, SubscribeKeeps,
       UnSubscribeKeeps, SubscribedKeeps, AcknowledgeKeeps, Zenon DEF AllInFlight
<1>3. ASSUME NEW i \in Ids,
             \/ SignalOffline(i) \/ ConnectionClose(i) \/ SessionOffline(i) \/ Expire(i)
             \/ StopSteps(i) \/ Send(i)
             \/ PersistSubscriber(i) \/ LoadSession(i)
             \/ \E p \in Publishers : Forward(p, i)
      PROVE  IInv'
  BY <1>3, SignalOfflineKeeps, ConnectionCloseKeeps, SessionOfflineKeeps, ExpireKeeps,
     StopKeeps, PersistKeeps, LoadSessionKeeps, ForwardKeeps, Zenon DEF AllInFlight
<1>4. ASSUME \/ \E p \in Publishers : PublisherTakes(p)
             \/ ClientPublish \/ ProviderDown \/ Configure
      PROVE  IInv'
  <2>1. sent \in 0..Len(Plan)
    BY Zenon DEF RetainedTypes
  <2> QED
    BY <1>4, <2>1, TakeKeeps, ClientPublishKeeps, ProviderDownKeepsSessions,
       ConfigureKeepsSessions, Zenon
<1>5. ASSUME UNCHANGED vars PROVE IInv'
  <2>1. UNCHANGED <<phase, todo, ses, disk, preload, alive, owed, got, subs, inbound, hand>>
    BY <1>5, Zenon DEF vars, provider, manager, persistence, history
  <2>2. Shape' /\ Types'
    BY <2>1, Zenon
    DEF IInv, Shape, SesShape, DiskShape, Types, HandTypes, QueueTypes, PairTypes
  <2>3. ASSUME NEW i \in Ids PROVE Mine(i)'
    <3>1. Mine(i)
      BY Zenon DEF IInv
    <3>2. Subscribing(i)' /\ Queueing(i)' /\ Promised(i)' /\ Named(i)'
      BY <2>1, <3>1, Zenon DEF Mine, Subscribing, Queueing, Promised, Named
    <3>3. Entered(i)' /\ Phased(i)'
      BY <2>1, <3>1, Zenon DEF Mine, Entered, Phased
    <3>4. AllSettled(i)'
      BY <2>1, <3>1, Zenon DEF Mine, AllSettled, Settled, InHand, Holds
    <3> QED
      BY <3>2, <3>3, <3>4, Zenon DEF Mine
  <2> QED
    BY <2>2, <2>3, Zenon DEF IInv
<1> QED
  BY <1>1, <1>2, <1>3, <1>4, <1>5, ProcessKeeps, Zenon DEF Next, StopSteps

-----------------------------------------------------------------------------
(* The packets in flight.                                                  *)

\* What a step leaves of the queue of i, or adds to it.
Queued(i) ==
  \/ ses'[i].inflight = ses[i].inflight /\ ses'[i].queue = ses[i].queue
  \/ /\ ses'[i].inflight = ses[i].inflight
     /\ \E x \in Item : ses'[i].queue = Append(ses[i].queue, x)
  \/ ses'[i].inflight = 0 /\ ses'[i].queue \in Seq(Item)

\* Then the count stays right.
LEMMA QueuedCount ==
  ASSUME NEW i \in Ids, ses[i].queue \in Seq(Item), InFlight(i), Queued(i)
  PROVE  InFlight(i)'
<1>1. CASE ses'[i].inflight = ses[i].inflight /\ ses'[i].queue = ses[i].queue
  BY <1>1, Zenon DEF InFlight
<1>2. ASSUME NEW x \in Item, ses'[i].inflight = ses[i].inflight,
             ses'[i].queue = Append(ses[i].queue, x)
      PROVE  InFlight(i)'
  <2>1. Len(ses'[i].queue) = Len(ses[i].queue) + 1 /\ Len(ses[i].queue) \in Nat
    BY <1>2
  <2>2. ses'[i].inflight <= Len(ses'[i].queue)
    BY <1>2, <2>1 DEF InFlight
  <2> QED
    BY <1>2, <2>2, Zenon DEF InFlight
<1>3. CASE ses'[i].inflight = 0 /\ ses'[i].queue \in Seq(Item)
  <2>1. Len(ses'[i].queue) \in Nat
    BY <1>3
  <2> QED
    BY <1>3, <2>1 DEF InFlight
<1> QED
  BY <1>1, <1>2, <1>3, Zenon DEF Queued

\* A connection comes up, or goes down.
LEMMA ConnectionCounts ==
  ASSUME IInv, NEW i \in Ids, InFlight(i),
         \/ \E k \in Kinds : Connect(i, k)
         \/ Create(i) \/ Load(i) \/ Online(i)
         \/ SignalOffline(i) \/ ConnectionClose(i) \/ SessionOffline(i)
         \/ Expire(i) \/ StopSteps(i)
         \/ PersistSubscriber(i) \/ LoadSession(i)
  PROVE  Frame(i) /\ Queued(i)
<1>1. /\ Shape /\ ses[i].queue \in Seq(Item) /\ disk[i].packets \in Seq(Item)
      /\ preload \in [Ids -> SUBSET {"sub", "exp"}] /\ Queueing(i)
  BY OfOne, Zenon
<1>2. <<>> \in Seq(Item)
  OBVIOUS
<1>3. ASSUME NEW k \in Kinds, Connect(i, k) PROVE Frame(i) /\ Queued(i)
  BY <1>1, <1>3, ConnectEffect, Zenon DEF Queued
<1>4. CASE Create(i) \/ Online(i) \/ SignalOffline(i) \/ StopSteps(i)
  BY <1>1, <1>4, CreateEffect, OnlineEffect, SignalOfflineEffect, StopEffect, Zenon
  DEF Queued, SameSubscriber, SameSession
<1>5. CASE Load(i)
  <2>1. Frame(i) /\ ses'[i].queue = disk[i].packets /\ ses'[i].inflight = ses[i].inflight
    BY <1>1, <1>5, LoadEffect, Zenon
  <2>2. ses[i].queue = <<>>
    BY <1>1, <1>5, Zenon DEF Load, Queueing
  <2>3. ses[i].inflight = 0
    BY <2>2 DEF InFlight
  <2> QED
    BY <1>1, <2>1, <2>3, Zenon DEF Queued
<1>6. CASE ConnectionClose(i)
  BY <1>1, <1>2, <1>6, ConnectionCloseEffect, Zenon DEF Queued
<1>7. CASE SessionOffline(i) \/ Expire(i) \/ PersistSubscriber(i)
  BY <1>1, <1>2, <1>7, SessionOfflineEffect, ExpireEffect, PersistEffect, Zenon
  DEF Queued, SameSubscriber, GoneSession
<1>8. CASE LoadSession(i)
  <2>1. Frame(i) /\ ses' = ses
    BY <1>1, <1>8, LoadSessionEffect, Zenon DEF LoadSession
  <2> QED
    BY <2>1, Zenon DEF Queued
<1> QED
  BY <1>3, <1>4, <1>5, <1>6, <1>7, <1>8, Zenon

\* Packets come, are sent and are acknowledged.
LEMMA TrafficCounts ==
  ASSUME IInv, retained \in [Names -> Msgs \cup {None}], NEW i \in Ids, InFlight(i),
         \/ \E t \in Names : Subscribe(i, t) \/ UnSubscribe(i, t)
         \/ Subscribed(i) \/ Send(i) \/ Acknowledge(i)
         \/ \E p \in Publishers : Forward(p, i)
  PROVE  Frame(i) /\ InFlight(i)'
<1>1. Shape /\ HandTypes /\ ses[i].queue \in Seq(Item) /\ Subscribing(i)
  BY OfOne, Zenon DEF IInv, Types
<1>2. ASSUME NEW t \in Names, Subscribe(i, t) \/ UnSubscribe(i, t)
      PROVE  Frame(i) /\ Queued(i)
  BY <1>1, <1>2, SubscribeEffect, UnSubscribeEffect, Zenon DEF Queued, SameSubscriber
<1>3. ASSUME Subscribed(i) PROVE Frame(i) /\ Queued(i)
  <2> DEFINE x == [m |-> retained[ses[i].asked], live |-> FALSE]
  <2>1. /\ Frame(i) /\ ses'[i].inflight = ses[i].inflight
        /\ \/ ses'[i].queue = ses[i].queue
           \/ retained[ses[i].asked] # None /\ ses'[i].queue = Append(ses[i].queue, x)
    BY <1>1, <1>3, SubscribedEffect, Zenon
  <2>2. ses[i].asked \in Names
    BY <1>1, <1>3, Zenon DEF Subscribed, Subscribing
  <2>3. retained[ses[i].asked] # None => x \in Item
    BY <2>2, Zenon DEF Item
  <2> HIDE DEF x
  <2> QED
    BY <2>1, <2>3, Zenon DEF Queued
<1>4. ASSUME NEW p \in Publishers, Forward(p, i) PROVE Frame(i) /\ Queued(i)
  <2> DEFINE x == Live(hand[p].m)
  <2>1. /\ Frame(i) /\ ses'[i].inflight = ses[i].inflight
        /\ ses'[i].queue = ses[i].queue \/ ses'[i].queue = Append(ses[i].queue, x)
    BY <1>1, <1>4, ForwardEffect, Zenon
  <2>2. i \in hand[p].left
    BY <1>4, Zenon DEF Forward, Handed
  <2>3. hand[p].m \in Msgs
    BY <1>1, <2>2, Zenon DEF HandTypes
  <2>4. x \in Item
    BY <2>3, Zenon DEF Item, Live
  <2> HIDE DEF x
  <2> QED
    BY <2>1, <2>4, Zenon DEF Queued
<1>5. CASE Send(i)
  <2>1. /\ Frame(i) /\ ses'[i].queue = ses[i].queue
        /\ ses'[i].inflight = ses[i].inflight + 1
        /\ ses[i].inflight < Len(ses[i].queue)
    BY <1>1, <1>5, SendEffect, Zenon DEF Send, SameSession, SameSubscriber
  <2>2. Len(ses[i].queue) \in Nat /\ ses[i].inflight \in Nat
    BY <1>1 DEF InFlight
  <2>3. ses[i].inflight + 1 \in Nat /\ ses[i].inflight + 1 <= Len(ses[i].queue)
    BY <2>1, <2>2
  <2> QED
    BY <2>1, <2>3, Zenon DEF InFlight
<1>6. CASE Acknowledge(i)
  <2>1. /\ Frame(i) /\ ses'[i].queue = Tail(ses[i].queue)
        /\ ses'[i].inflight = ses[i].inflight - 1 /\ ses[i].inflight > 0
    BY <1>1, <1>6, AcknowledgeEffect, Zenon DEF Acknowledge
  <2>2. ses[i].queue # <<>>
    BY <1>1, <2>1, InFlightFilled, Zenon
  <2>3. Len(Tail(ses[i].queue)) = Len(ses[i].queue) - 1 /\ Len(ses[i].queue) \in Nat
    BY <1>1, <2>2
  <2>4. ses[i].inflight - 1 \in Nat /\ ses[i].inflight - 1 <= Len(Tail(ses[i].queue))
    BY <2>1, <2>3 DEF InFlight
  <2> QED
    BY <2>1, <2>4, Zenon DEF InFlight
<1> QED
  BY <1>1, <1>2, <1>3, <1>4, <1>5, <1>6, QueuedCount, Zenon

\* Nothing has been sent at first, nor in a process that has just begun.
LEMMA NothingInFlight ==
  ASSUME NEW i \in Ids, ses[i] = NoSession
  PROVE  InFlight(i)
<1>1. ses[i].inflight = 0 /\ ses[i].queue = <<>>
  BY NoSessionFields, Zenon
<1> QED
  BY <1>1 DEF InFlight

\* It holds at first.
LEMMA InFlightInit == Init => AllInFlight
<1> SUFFICES ASSUME Init, NEW i \in Ids PROVE InFlight(i)  BY Zenon DEF AllInFlight
<1>1. ses[i] = NoSession
  BY Zenon DEF Init
<1> QED
  BY <1>1, NothingInFlight, Zenon

\* Every step keeps the count.
LEMMA InFlightStep ==
  ASSUME IInv, AllInFlight, RetainedTypes, [Next]_vars
  PROVE  AllInFlight'
<1>1. retained \in [Names -> Msgs \cup {None}] /\ Shape /\ QueueTypes
  BY Zenon DEF RetainedTypes, IInv, Types
<1>2. ASSUME NEW i \in Ids, Frame(i), Queued(i) \/ InFlight(i)' PROVE AllInFlight'
  <2>1. InFlight(i)'
    BY <1>1, <1>2, QueuedCount, Zenon DEF QueueTypes, AllInFlight
  <2>2. ASSUME NEW j \in Ids, j # i PROVE InFlight(j)'
    BY <1>2, <2>2, Zenon DEF Frame, InFlight, AllInFlight
  <2> QED
    BY <2>1, <2>2, Zenon DEF AllInFlight
<1>3. ASSUME NEW i \in Ids,
             \/ \E k \in Kinds : Connect(i, k)
             \/ Create(i) \/ Load(i) \/ Online(i)
             \/ SignalOffline(i) \/ ConnectionClose(i) \/ SessionOffline(i)
             \/ Expire(i) \/ StopSteps(i)
             \/ PersistSubscriber(i) \/ LoadSession(i)
      PROVE  AllInFlight'
  BY <1>2, <1>3, ConnectionCounts, Zenon DEF AllInFlight
<1>4. ASSUME NEW i \in Ids,
             \/ \E t \in Names : Subscribe(i, t) \/ UnSubscribe(i, t)
             \/ Subscribed(i) \/ Send(i) \/ Acknowledge(i)
             \/ \E p \in Publishers : Forward(p, i)
      PROVE  AllInFlight'
  BY <1>1, <1>2, <1>4, TrafficCounts, Zenon DEF AllInFlight
<1>5. ASSUME ses' = ses PROVE AllInFlight'
  BY <1>5, Zenon DEF AllInFlight, InFlight
<1>6. ASSUME \/ ClientRetain \/ ClientPublish \/ RetainerTakes
             \/ \E p \in Publishers : PublisherTakes(p)
             \/ \E m \in Msgs : LoadRetained(m)
             \/ Stop \/ StopDone \/ ManagerDown \/ ProviderDown \/ Start \/ ProviderUp
             \/ UNCHANGED vars
      PROVE  AllInFlight'
  BY <1>5, <1>6, Zenon
  DEF ClientRetain, ClientPublish, RetainerTakes, PublisherTakes, LoadRetained, Stop, StopDone,
      ManagerDown, ProviderDown, Start, ProviderUp, vars, manager
<1>7. ASSUME Crash \/ CountPanics \/ \E i \in Ids : SubscribePanics(i) PROVE AllInFlight'
  <2>1. ses' = [i \in Ids |-> NoSession]
    BY <1>7, Zenon DEF Crash, CountPanics, SubscribePanics, Die
  <2>2. ASSUME NEW i \in Ids PROVE InFlight(i)'
    <3>1. ses'[i].inflight = 0 /\ ses'[i].queue = <<>>
      BY <2>1, NoSessionFields, Zenon
    <3> QED
      BY <3>1 DEF InFlight
  <2> QED
    BY <2>2, Zenon DEF AllInFlight
<1>8. ASSUME Configure PROVE AllInFlight'
  <2>1. ASSUME NEW i \in Ids PROVE InFlight(i)'
    <3>1. ses'[i] = ses[i] \/ (ses'[i].inflight = 0 /\ ses'[i].queue = <<>>)
      BY <1>1, <1>8, ConfigureEffect, Zenon
    <3>2. ses'[i].inflight = 0 /\ ses'[i].queue = <<>> => InFlight(i)'
      BY DEF InFlight
    <3> QED
      BY <3>1, <3>2, Zenon DEF AllInFlight, InFlight
  <2> QED
    BY <2>1, Zenon DEF AllInFlight
<1> QED
  BY <1>3, <1>4, <1>6, <1>7, <1>8, Zenon DEF Next, StopSteps

-----------------------------------------------------------------------------
(* The places of a publication.                                           *)

\* x is at most once in the queue s.
Single(s, x) == \A j, k \in DOMAIN s : s[j] = x /\ s[k] = x => j = k

\* A publication is in the channel once, or with one publisher.
ChannelInv ==
  /\ \A m \in Msgs : Holds(inbound, m) => m <= sent /\ Single(inbound, m)
  /\ \A p \in Publishers : hand[p].m # None => hand[p].m <= sent /\ ~Holds(inbound, hand[p].m)
  /\ \A p, q \in Publishers : hand[p].m = hand[q].m /\ hand[p].m # None => p = q

\* Publication m has come as far as the session of i.
Reached(i, m) ==
  Holds(ses[i].queue, Live(m)) \/ Holds(disk[i].packets, Live(m)) \/ <<i, m>> \in got

\* It is then nowhere else.
Alone(i, m) ==
  /\ Reached(i, m) => /\ m <= sent /\ ~Holds(inbound, m)
                      /\ \A p \in Publishers : ~InHand(p, i, m)
  /\ Single(ses[i].queue, Live(m)) /\ Single(disk[i].packets, Live(m))
  /\ ~(Holds(ses[i].queue, Live(m)) /\ Holds(disk[i].packets, Live(m)))
  /\ <<i, m>> \in got => ~Holds(ses[i].queue, Live(m)) /\ ~Holds(disk[i].packets, Live(m))

OnceInv == ChannelInv /\ \A i \in Ids, m \in Msgs : Alone(i, m)

-----------------------------------------------------------------------------
(* Once in a queue.                                                        *)

\* Append adds what is not there ...
LEMMA SingleAppend ==
  ASSUME NEW S, NEW s \in Seq(S), NEW x \in S, NEW y, Single(s, y), y = x => ~Holds(s, y)
  PROVE  Single(Append(s, x), y)
<1>1. /\ DOMAIN s = 1..Len(s) /\ Len(s) \in Nat
      /\ DOMAIN Append(s, x) = 1..(Len(s) + 1)
      /\ \A k \in 1..Len(s) : Append(s, x)[k] = s[k]
      /\ Append(s, x)[Len(s) + 1] = x
  OBVIOUS
<1>2. 1..(Len(s) + 1) = 1..Len(s) \cup {Len(s) + 1}
  BY <1>1
<1> SUFFICES ASSUME NEW j \in 1..(Len(s) + 1), NEW k \in 1..(Len(s) + 1),
                    Append(s, x)[j] = y, Append(s, x)[k] = y
             PROVE  j = k
  BY <1>1, Zenon DEF Single
<1>3. CASE y = x
  <2>1. j \notin 1..Len(s) /\ k \notin 1..Len(s)
    BY <1>1, <1>3, Zenon DEF Holds
  <2> QED
    BY <1>2, <2>1, Zenon
<1>4. CASE y # x
  <2>1. j \in 1..Len(s) /\ k \in 1..Len(s)
    BY <1>1, <1>2, <1>4, Zenon
  <2> QED
    BY <1>1, <2>1, Zenon DEF Single
<1> QED
  BY <1>3, <1>4, Zenon

\* ... concatenation what is in one of the two ...
LEMMA SingleConcat ==
  ASSUME NEW S, NEW s \in Seq(S), NEW u \in Seq(S), NEW y, Single(s, y), Single(u, y),
         ~(Holds(s, y) /\ Holds(u, y))
  PROVE  Single(s \o u, y)
<1>1. /\ DOMAIN s = 1..Len(s) /\ DOMAIN u = 1..Len(u)
      /\ Len(s) \in Nat /\ Len(u) \in Nat /\ DOMAIN (s \o u) = 1..(Len(s) + Len(u))
      /\ \A k \in 1..Len(s) : (s \o u)[k] = s[k]
      /\ \A k \in 1..Len(u) : (s \o u)[Len(s) + k] = u[k]
  OBVIOUS
<1> DEFINE w == s \o u
<1> HIDE DEF w
<1>2. ASSUME NEW k \in 1..(Len(s) + Len(u)), w[k] = y
      PROVE  \/ k \in 1..Len(s) /\ s[k] = y
             \/ k - Len(s) \in 1..Len(u) /\ u[k - Len(s)] = y
  <2>1. CASE k \in 1..Len(s)
    BY <1>1, <1>2, <2>1, Zenon DEF w
  <2>2. CASE k \notin 1..Len(s)
    <3>1. k - Len(s) \in 1..Len(u) /\ Len(s) + (k - Len(s)) = k
      BY <1>1, <2>2
    <3> QED
      BY <1>1, <1>2, <3>1, Zenon DEF w
  <2> QED
    BY <2>1, <2>2, Zenon
<1> SUFFICES ASSUME NEW j \in 1..(Len(s) + Len(u)), NEW k \in 1..(Len(s) + Len(u)),
                    w[j] = y, w[k] = y
             PROVE  j = k
  BY <1>1, Zenon DEF Single, w
<1>3. CASE j \in 1..Len(s) /\ s[j] = y
  <2>1. Holds(s, y) /\ ~Holds(u, y)
    BY <1>1, <1>3, Zenon DEF Holds
  <2>2. k \in 1..Len(s) /\ s[k] = y
    BY <1>1, <1>2, <2>1, Zenon DEF Holds
  <2> QED
    BY <1>1, <1>3, <2>2, Zenon DEF Single
<1>4. CASE j - Len(s) \in 1..Len(u) /\ u[j - Len(s)] = y
  <2>1. Holds(u, y) /\ ~Holds(s, y)
    BY <1>1, <1>4, Zenon DEF Holds
  <2>2. k - Len(s) \in 1..Len(u) /\ u[k - Len(s)] = y
    BY <1>1, <1>2, <2>1, Zenon DEF Holds
  <2>3. j - Len(s) = k - Len(s)
    BY <1>1, <1>4, <2>2, Zenon DEF Single
  <2> QED
    BY <1>1, <2>3
<1> QED
  BY <1>2, <1>3, <1>4, Zenon

\* ... as it is in a queue that is stored around what is on disk ...
LEMMA SingleStored ==
  ASSUME NEW S, NEW q \in Seq(S), NEW d \in Seq(S), NEW n \in Nat, n <= Len(q), NEW y,
         Single(q, y), Single(d, y), ~(Holds(q, y) /\ Holds(d, y)),
         NEW e, e = SubSeq(q, 1, n) \o d \o SubSeq(q, n + 1, Len(q))
  PROVE  Single(e, y)
<1> DEFINE a == SubSeq(q, 1, n)
           b == SubSeq(q, n + 1, Len(q))
<1>1. e = (a \o d) \o b
  BY Zenon
<1>2. /\ a \in Seq(S) /\ b \in Seq(S) /\ DOMAIN q = 1..Len(q)
      /\ DOMAIN a = 1..n /\ DOMAIN b = 1..(Len(q) - n) /\ Len(q) \in Nat
      /\ \A k \in 1..n : a[k] = q[k] /\ k \in 1..Len(q)
      /\ \A k \in 1..(Len(q) - n) : b[k] = q[n + k] /\ n + k \in 1..Len(q)
  <2>1. a \in Seq(S) /\ DOMAIN a = 1..n /\ \A k \in 1..n : a[k] = q[k] /\ k \in 1..Len(q)
    BY FirstHalf, Zenon
  <2>2. /\ b \in Seq(S) /\ DOMAIN b = 1..(Len(q) - n)
        /\ \A k \in 1..(Len(q) - n) : b[k] = q[n + k] /\ n + k \in 1..Len(q)
    BY SecondHalf, Zenon
  <2>3. DOMAIN q = 1..Len(q) /\ Len(q) \in Nat
    OBVIOUS
  <2> HIDE DEF a, b
  <2> QED
    BY <2>1, <2>2, <2>3, Zenon
<1> HIDE DEF a, b
<1>3. Single(a, y)
  BY <1>2, Zenon DEF Single
<1>4. Single(b, y)
  <2>1. ASSUME NEW j \in 1..(Len(q) - n), NEW k \in 1..(Len(q) - n), n + j = n + k
        PROVE  j = k
    BY <1>2, <2>1
  <2> QED
    BY <1>2, <2>1, Zenon DEF Single
<1>5. (Holds(a, y) => Holds(q, y)) /\ (Holds(b, y) => Holds(q, y))
  BY <1>2, Zenon DEF Holds
<1>6. ~(Holds(a, y) /\ Holds(b, y))
  <2>1. ASSUME NEW j \in 1..n, NEW k \in 1..(Len(q) - n) PROVE j # n + k
    BY <1>2, <2>1
  <2> QED
    BY <1>2, <2>1, Zenon DEF Holds, Single
<1>7. /\ a \o d \in Seq(S) /\ Single(a \o d, y)
      /\ Holds(a \o d, y) <=> Holds(a, y) \/ Holds(d, y)
  BY <1>2, <1>3, <1>5, SingleConcat, HoldsConcat, Zenon
<1> QED
  BY <1>1, <1>2, <1>4, <1>5, <1>6, <1>7, SingleConcat, Zenon

\* ... and Tail takes the only one away.
LEMMA SingleTail ==
  ASSUME NEW S, NEW s \in Seq(S), s # <<>>
  PROVE  /\ \A y : Single(s, y) => Single(Tail(s), y)
         /\ Single(s, Head(s)) => ~Holds(Tail(s), Head(s))
<1>1. /\ DOMAIN s = 1..Len(s) /\ Len(s) \in Nat /\ Len(s) > 0
      /\ DOMAIN Tail(s) = 1..(Len(s) - 1) /\ Head(s) = s[1]
      /\ \A k \in 1..(Len(s) - 1) : Tail(s)[k] = s[k + 1]
  OBVIOUS
<1> DEFINE v == Tail(s)
<1> HIDE DEF v
<1>2. 1 \in 1..Len(s) /\ \A k \in 1..(Len(s) - 1) : k + 1 \in 1..Len(s) /\ k + 1 # 1
  BY <1>1
<1>3. \A j, k \in 1..(Len(s) - 1) : j + 1 = k + 1 => j = k
  BY <1>1
<1>4. ASSUME NEW y, Single(s, y) PROVE Single(v, y)
  <2> SUFFICES ASSUME NEW j \in 1..(Len(s) - 1), NEW k \in 1..(Len(s) - 1), v[j] = y, v[k] = y
               PROVE  j = k
    BY <1>1, Zenon DEF Single, v
  <2>1. s[j + 1] = y /\ s[k + 1] = y
    BY <1>1, Zenon DEF v
  <2>2. j + 1 = k + 1
    BY <1>1, <1>2, <1>4, <2>1, Zenon DEF Single
  <2> QED
    BY <1>3, <2>2, Zenon
<1>5. ASSUME Single(s, Head(s)), Holds(v, Head(s)) PROVE FALSE
  <2>1. PICK k \in 1..(Len(s) - 1) : v[k] = Head(s)
    BY <1>1, <1>5, Zenon DEF Holds, v
  <2>2. s[k + 1] = s[1] /\ k + 1 \in 1..Len(s) /\ k + 1 # 1
    BY <1>1, <1>2, <2>1, Zenon DEF v
  <2> QED
    BY <1>1, <1>2, <1>5, <2>2, Zenon DEF Single
<1> QED
  BY <1>4, <1>5, Zenon DEF v

\* An empty queue has nothing twice.
LEMMA NoneSingle == \A y : Single(<<>>, y)
  BY DEF Single
-----------------------------------------------------------------------------
(* Steps that bring nothing.                                               *)

\* The publishers have at most less.
FewerHands ==
  \A p \in Publishers :
    hand'[p].m \in {hand[p].m, None} /\ hand'[p].left \subseteq hand[p].left

\* Publishers that have at most less have nothing twice.
LEMMA FewerChannel ==
  ASSUME ChannelInv, FewerHands, inbound' = inbound \/ inbound' = <<>>, sent' = sent
  PROVE  /\ ChannelInv' /\ \A m : Holds(inbound', m) => Holds(inbound, m)
         /\ \A p \in Publishers, i \in Ids, m \in Msgs : InHand(p, i, m)' => InHand(p, i, m)
<1>1. None \notin Msgs
  BY ProviderAssumption, Zenon DEF Msgs
<1>2. /\ \A m : Holds(inbound', m) => Holds(inbound, m)
      /\ \A m : Single(inbound, m) => Single(inbound', m)
  BY NothingQueued, NoneSingle, Zenon
<1>3. \A p \in Publishers : hand'[p].m # None => hand'[p].m = hand[p].m
  BY Zenon DEF FewerHands
<1>4. ASSUME NEW m \in Msgs, Holds(inbound', m) PROVE m <= sent' /\ Single(inbound', m)
  BY <1>2, <1>4, Zenon DEF ChannelInv
<1>5. ASSUME NEW p \in Publishers, hand'[p].m # None
      PROVE  hand'[p].m <= sent' /\ ~Holds(inbound', hand'[p].m)
  BY <1>2, <1>3, <1>5, Zenon DEF ChannelInv
<1>6. ASSUME NEW p \in Publishers, NEW q \in Publishers, hand'[p].m = hand'[q].m,
             hand'[p].m # None
      PROVE  p = q
  BY <1>3, <1>6, Zenon DEF ChannelInv
<1>7. ChannelInv'
  BY <1>4, <1>5, <1>6, Zenon DEF ChannelInv, Holds, Single
<1>8. ASSUME NEW p \in Publishers, NEW i \in Ids, NEW m \in Msgs, InHand(p, i, m)'
      PROVE  InHand(p, i, m)
  BY <1>1, <1>3, <1>8, Zenon DEF InHand, FewerHands
<1> QED
  BY <1>2, <1>7, <1>8, Zenon

\* Nothing comes to i.
LEMMA FewerAlone ==
  ASSUME NEW i \in Ids, NEW m \in Msgs, Alone(i, m), sent' = sent,
         ses'[i].queue = ses[i].queue \/ ses'[i].queue = <<>>,
         disk'[i].packets = disk[i].packets \/ disk'[i].packets = <<>>,
         <<i, m>> \in got' => <<i, m>> \in got,
         Holds(inbound', m) => Holds(inbound, m),
         \A p \in Publishers : InHand(p, i, m)' => InHand(p, i, m)
  PROVE  Alone(i, m)'
<1> DEFINE x == Live(m)
           q == ses[i].queue
           r == ses'[i].queue
           d == disk[i].packets
           e == disk'[i].packets
<1>1. /\ Holds(r, x) => Holds(q, x)
      /\ Holds(e, x) => Holds(d, x)
  BY NothingQueued, Zenon
<1>2. Single(q, x) /\ Single(d, x)
  BY Zenon DEF Alone
<1>3. Single(r, x) /\ Single(e, x)
  BY <1>2, NoneSingle, Zenon
<1>4. /\ Holds(q, x) \/ Holds(d, x) \/ <<i, m>> \in got
           => m <= sent /\ ~Holds(inbound, m) /\ \A p \in Publishers : ~InHand(p, i, m)
      /\ ~(Holds(q, x) /\ Holds(d, x))
      /\ <<i, m>> \in got => ~Holds(q, x) /\ ~Holds(d, x)
  BY Zenon DEF Alone, Reached
<1> HIDE DEF x, q, r, d, e
<1>5. /\ Holds(r, x) \/ Holds(e, x) \/ <<i, m>> \in got'
           => m <= sent' /\ ~Holds(inbound', m) /\ \A p \in Publishers : ~InHand(p, i, m)'
      /\ ~(Holds(r, x) /\ Holds(e, x))
      /\ <<i, m>> \in got' => ~Holds(r, x) /\ ~Holds(e, x)
  BY <1>1, <1>4, Zenon
<1> QED
  BY <1>3, <1>5, Zenon DEF Alone, Reached, x, r, e, Live, Holds, Single

\* Steps that bring nothing to any session.
LEMMA FewerOnce ==
  ASSUME OnceInv, FewerHands, inbound' = inbound \/ inbound' = <<>>, sent' = sent, got' = got,
         \A i \in Ids : /\ ses'[i].queue = ses[i].queue \/ ses'[i].queue = <<>>
                        /\ disk'[i].packets = disk[i].packets \/ disk'[i].packets = <<>>
  PROVE  OnceInv'
<1>1. /\ ChannelInv' /\ \A m : Holds(inbound', m) => Holds(inbound, m)
      /\ \A p \in Publishers, i \in Ids, m \in Msgs : InHand(p, i, m)' => InHand(p, i, m)
  BY FewerChannel, Zenon DEF OnceInv
<1>2. ASSUME NEW i \in Ids, NEW m \in Msgs PROVE Alone(i, m)'
  <2>1. Alone(i, m)
    BY Zenon DEF OnceInv
  <2> QED
    BY <1>1, <2>1, FewerAlone, Zenon
<1> QED
  BY <1>1, <1>2, Zenon DEF OnceInv

\* Steps of i that take nothing to another session.
LEMMA OneOnce ==
  ASSUME OnceInv, NEW i \in Ids, Frame(i), FewerHands, inbound' = inbound, sent' = sent,
         \A j \in Ids, m \in Msgs : j # i /\ <<j, m>> \in got' => <<j, m>> \in got,
         \A m \in Msgs : Alone(i, m)'
  PROVE  OnceInv'
<1>1. /\ ChannelInv' /\ \A m : Holds(inbound', m) => Holds(inbound, m)
      /\ \A p \in Publishers, j \in Ids, m \in Msgs : InHand(p, j, m)' => InHand(p, j, m)
  BY FewerChannel, Zenon DEF OnceInv
<1>2. ASSUME NEW j \in Ids, NEW m \in Msgs, j # i PROVE Alone(j, m)'
  <2>1. Alone(j, m)
    BY Zenon DEF OnceInv
  <2>2. ses'[j] = ses[j] /\ disk'[j] = disk[j]
    BY <1>2, Zenon DEF Frame
  <2> QED
    BY <1>1, <1>2, <2>1, <2>2, FewerAlone, Zenon
<1> QED
  BY <1>1, <1>2, Zenon DEF OnceInv

\* Which steps leave the publishers at most less.
LEMMA FewerOf ==
  /\ hand' = hand => FewerHands
  /\ \A i \in Ids : HandTypes /\ Quit(i) => FewerHands /\ inbound' = inbound /\ sent' = sent
  /\ Fresh => FewerHands /\ inbound' = <<>>
<1>1. hand' = hand => FewerHands
  BY Zenon DEF FewerHands
<1>2. ASSUME NEW i \in Ids, HandTypes, Quit(i)
      PROVE FewerHands /\ inbound' = inbound /\ sent' = sent
  <2>1. Shrinks(i)
    BY <1>2, QuitShrinks, Zenon
  <2>2. inbound' = inbound /\ sent' = sent
    BY <1>2, Zenon DEF Quit
  <2> QED
    BY <2>1, <2>2, Zenon DEF Shrinks, FewerHands
<1>3. ASSUME Fresh PROVE FewerHands /\ inbound' = <<>>
  BY <1>3, Zenon DEF FewerHands, Fresh, Idle
<1> QED
  BY <1>1, <1>2, <1>3, Zenon
-----------------------------------------------------------------------------
(* The steps of a session.                                                 *)

\* What i has is left or goes.
Less(i) ==
  /\ Frame(i) /\ (ses'[i].queue = ses[i].queue \/ ses'[i].queue = <<>>)
  /\ disk'[i].packets = disk[i].packets \/ disk'[i].packets = <<>>

\* Connections that come up or go down, timers, the start and the shutdown: no
\* publication moves.
LEMMA MovesOnce ==
  ASSUME IInv, OnceInv, NEW i \in Ids,
         \/ \E k \in Kinds : Connect(i, k)
         \/ Create(i) \/ Online(i) \/ \E t \in Names : Subscribe(i, t) \/ UnSubscribe(i, t)
         \/ SignalOffline(i) \/ SessionOffline(i) \/ Expire(i)
         \/ StopSteps(i) \/ Send(i)
         \/ PersistSubscriber(i) \/ LoadSession(i)
  PROVE  OnceInv'
<1>1. Shape /\ HandTypes /\ preload \in [Ids -> SUBSET {"sub", "exp"}]
  BY Zenon DEF IInv, Types, PairTypes
<1>2. /\ got' = got
      /\ (UNCHANGED <<hand, inbound, sent>> \/ Quit(i))
  BY Zenon
  DEF Connect, Create, Online, Subscribe, UnSubscribe, SignalOffline, SessionOffline, Expire,
      StopSteps, StopOffline, StopOnline, StopReturns, StopExpiry, Fire, Send, PersistSubscriber, LoadSession, history, provider,
      SubInsert, SubRemove
<1>3. FewerHands /\ inbound' = inbound /\ sent' = sent
  BY <1>1, <1>2, FewerOf, Zenon
<1>4. Less(i)
  <2>1. ASSUME NEW k \in Kinds, Connect(i, k) PROVE Less(i)
    <3>1. /\ Frame(i) /\ ses'[i].queue = ses[i].queue
          /\ disk'[i] = IF k.clean THEN Absent ELSE disk[i]
      BY <1>1, <2>1, ConnectEffect, Zenon
    <3> QED
      BY <3>1, Entries, Zenon DEF Less
  <2>2. ASSUME Create(i) PROVE Less(i)
    BY <1>1, <2>2, CreateEffect, Zenon DEF Less, SameSubscriber
  <2>3. ASSUME Online(i) PROVE Less(i)
    BY <1>1, <2>3, OnlineEffect, Zenon DEF Less
  <2>4. ASSUME NEW t \in Names, Subscribe(i, t) PROVE Less(i)
    BY <1>1, <2>4, SubscribeEffect, Zenon DEF Less, SameSubscriber
  <2>5. ASSUME NEW t \in Names, UnSubscribe(i, t) PROVE Less(i)
    BY <1>1, <2>5, UnSubscribeEffect, Zenon DEF Less
  <2>6. ASSUME SignalOffline(i) PROVE Less(i)
    BY <1>1, <2>6, SignalOfflineEffect, Zenon DEF Less
  <2>7. ASSUME SessionOffline(i) PROVE Less(i)
    <3>1. /\ Frame(i)
          /\ \/ SameSubscriber(i) /\ disk'[i] = disk[i]
             \/ GoneSession(i) /\ disk'[i] = IF ses[i].kind.durable THEN disk[i] ELSE Absent
      BY <1>1, <2>7, SessionOfflineEffect, Zenon
    <3> QED
      BY <3>1, Entries, Zenon DEF Less, SameSubscriber, GoneSession
  <2>8. ASSUME Expire(i) PROVE Less(i)
    BY <1>1, <2>8, ExpireEffect, Entries, Zenon DEF Less, GoneSession
  <2>9. ASSUME StopSteps(i) \/ Send(i) PROVE Less(i)
    BY <1>1, <2>9, StopEffect, SendEffect, Zenon DEF Less, SameSession, SameSubscriber
  <2>10. ASSUME PersistSubscriber(i) PROVE Less(i)
    BY <1>1, <2>10, PersistEffect, Zenon DEF Less, GoneSession, SameEntry
  <2>11. ASSUME LoadSession(i) PROVE Less(i)
    <3>1. Frame(i) /\ SameSession(i) /\ (SameEntry(i) \/ disk'[i] = Absent)
      BY <1>1, <2>11, LoadSessionEffect, Zenon
    <3> QED
      BY <3>1, Entries, Zenon DEF Less, SameSession, SameSubscriber, SameEntry
  <2> QED
    BY <2>1, <2>2, <2>3, <2>4, <2>5, <2>6, <2>7, <2>8, <2>9, <2>10, <2>11, Zenon
<1> QED
  BY <1>2, <1>3, <1>4, FewerOnce, Zenon DEF Less, Frame

\* The session gets the packets on disk, and they are removed there.
LEMMA LoadOnce ==
  ASSUME IInv, OnceInv, NEW i \in Ids, Load(i)
  PROVE  OnceInv'
<1>1. Shape /\ Queueing(i)
  BY OfOne, Zenon
<1>2. ses[i].pc = "load" /\ UNCHANGED <<hand, inbound, sent, got>>
  BY Zenon DEF Load, provider
<1>3. Frame(i) /\ ses'[i].queue = disk[i].packets /\ disk'[i].packets = <<>>
  BY <1>1, LoadEffect, Zenon
<1>4. FewerHands
  BY <1>2, FewerOf, Zenon
<1>5. ASSUME NEW m \in Msgs PROVE Alone(i, m)'
  <2>1. Alone(i, m)
    BY Zenon DEF OnceInv
  <2>2. /\ Holds(disk[i].packets, Live(m)) \/ <<i, m>> \in got
             => m <= sent /\ ~Holds(inbound, m) /\ \A p \in Publishers : ~InHand(p, i, m)
        /\ Single(disk[i].packets, Live(m))
        /\ <<i, m>> \in got => ~Holds(disk[i].packets, Live(m))
    BY <2>1, Zenon DEF Alone, Reached
  <2>3. ~Holds(disk'[i].packets, Live(m)) /\ Single(disk'[i].packets, Live(m))
    BY <1>3, NothingQueued, NoneSingle, Zenon
  <2> QED
    BY <1>2, <1>3, <2>2, <2>3, Zenon DEF Alone, Reached, InHand, Live, Holds, Single
<1> QED
  BY <1>2, <1>3, <1>4, <1>5, OneOnce, Zenon

\* The queue is added to the packets on disk.
LEMMA ConnectionCloseOnce ==
  ASSUME IInv, OnceInv, NEW i \in Ids, InFlight(i), ConnectionClose(i)
  PROVE  OnceInv'
<1>1. Shape /\ ses[i].queue \in Seq(Item) /\ disk[i].packets \in Seq(Item)
  BY OfOne, Zenon
<1>2. UNCHANGED <<hand, inbound, sent, got>>
  BY Zenon DEF ConnectionClose, provider, history
<1>3. FewerHands
  BY <1>2, FewerOf, Zenon
<1>4. /\ Frame(i) /\ ses'[i].queue = <<>>
      /\ \/ disk'[i].packets = <<>>
         \/ disk'[i].packets = Stored(i)
  BY <1>1, ConnectionCloseEffect, Zenon
<1>5. CASE disk'[i].packets = <<>>
  BY <1>2, <1>3, <1>4, <1>5, FewerOnce, Zenon DEF Frame
<1>6. CASE disk'[i].packets = Stored(i)
  <2>1. ASSUME NEW m \in Msgs PROVE Alone(i, m)'
    <3> DEFINE x == Live(m)
               q == ses[i].queue
               d == disk[i].packets
               e == disk'[i].packets
    <3>1. /\ Holds(q, x) \/ Holds(d, x) \/ <<i, m>> \in got
               => m <= sent /\ ~Holds(inbound, m) /\ \A p \in Publishers : ~InHand(p, i, m)
          /\ Single(q, x) /\ Single(d, x) /\ ~(Holds(q, x) /\ Holds(d, x))
          /\ <<i, m>> \in got => ~Holds(q, x) /\ ~Holds(d, x)
      BY Zenon DEF OnceInv, Alone, Reached
    <3>2. ~Holds(ses'[i].queue, x) /\ Single(ses'[i].queue, x)
      BY <1>4, NothingQueued, NoneSingle, Zenon
    <3> HIDE DEF x
    <3>3. Single(Stored(i), x)
      BY <1>1, <3>1, SingleStored, Zenon DEF Stored, InFlight
    <3>4. Holds(Stored(i), x) <=> Holds(d, x) \/ Holds(q, x)
      BY <1>1, StoredHolds, Zenon
    <3>5. Single(e, x) /\ (Holds(e, x) => Holds(d, x) \/ Holds(q, x))
      BY <1>6, <3>3, <3>4, Zenon
    <3> HIDE DEF q, d, e
    <3>6. /\ Holds(e, x) \/ <<i, m>> \in got
               => m <= sent /\ ~Holds(inbound, m) /\ \A p \in Publishers : ~InHand(p, i, m)
          /\ <<i, m>> \in got => ~Holds(e, x)
      BY <3>1, <3>5, Zenon
    <3> QED
      BY <1>2, <3>2, <3>5, <3>6, Zenon
      DEF Alone, Reached, InHand, Live, Holds, Single, x, e
  <2> QED
    BY <1>2, <1>3, <1>4, <2>1, OneOnce, Zenon
<1> QED
  BY <1>4, <1>5, <1>6, Zenon

\* What is acknowledged leaves the queue.
LEMMA AcknowledgeOnce ==
  ASSUME IInv, OnceInv, NEW i \in Ids, InFlight(i), Acknowledge(i)
  PROVE  OnceInv'
<1> DEFINE q == ses[i].queue
           h == Head(ses[i].queue)
<1>1. Shape /\ q \in Seq(Item)
  BY OfOne, Zenon
<1>2. /\ UNCHANGED <<hand, inbound, sent>> /\ q # <<>>
      /\ got' = IF h.live THEN got \cup {<<i, h.m>>} ELSE got
  BY <1>1, InFlightFilled, Zenon DEF Acknowledge, provider
<1>3. Frame(i) /\ ses'[i].queue = Tail(q) /\ disk'[i] = disk[i]
  BY <1>1, AcknowledgeEffect, Zenon
<1>4. FewerHands
  BY <1>2, FewerOf, Zenon
<1>5. /\ Tail(q) \in Seq(Item) /\ h \in Item
      /\ \A y : Holds(q, y) <=> y = h \/ Holds(Tail(q), y)
      /\ \A y : Single(q, y) => Single(Tail(q), y)
      /\ Single(q, h) => ~Holds(Tail(q), h)
  BY <1>1, <1>2, HoldsTail, SingleTail, Zenon
<1>6. h.live => h = Live(h.m)
  <2>1. h = [m |-> h.m, live |-> h.live] /\ h.live \in BOOLEAN
    BY <1>5, Zenon DEF Item
  <2> QED
    BY <2>1, Zenon DEF Live
<1> HIDE DEF h
<1>7. ASSUME NEW m \in Msgs PROVE Alone(i, m)'
  <2> DEFINE x == Live(m)
             r == ses'[i].queue
             d == disk[i].packets
  <2>1. /\ Holds(q, x) \/ Holds(d, x) \/ <<i, m>> \in got
             => m <= sent /\ ~Holds(inbound, m) /\ \A p \in Publishers : ~InHand(p, i, m)
        /\ Single(q, x) /\ Single(d, x) /\ ~(Holds(q, x) /\ Holds(d, x))
        /\ <<i, m>> \in got => ~Holds(q, x) /\ ~Holds(d, x)
    BY Zenon DEF OnceInv, Alone, Reached
  <2>2. /\ Holds(q, x) <=> x = h \/ Holds(r, x)
        /\ Single(r, x) /\ (x = h => ~Holds(r, x))
    BY <1>3, <1>5, <2>1, Zenon
  <2>3. <<i, m>> \in got' => <<i, m>> \in got \/ x = h
    BY <1>2, <1>6, Zenon
  <2> HIDE DEF x, q, r, d
  <2>4. /\ Holds(r, x) \/ Holds(d, x) \/ <<i, m>> \in got'
             => m <= sent /\ ~Holds(inbound, m) /\ \A p \in Publishers : ~InHand(p, i, m)
        /\ ~(Holds(r, x) /\ Holds(d, x))
        /\ <<i, m>> \in got' => ~Holds(r, x) /\ ~Holds(d, x)
    BY <2>1, <2>2, <2>3, Zenon
  <2>5. disk'[i].packets = d
    BY <1>3, Zenon DEF d
  <2> QED
    BY <1>2, <2>1, <2>2, <2>4, <2>5, Zenon
    DEF Alone, Reached, InHand, Live, Holds, Single, x, r
<1>8. \A j \in Ids, m \in Msgs : j # i /\ <<j, m>> \in got' => <<j, m>> \in got
  BY <1>2, Zenon
<1> QED
  BY <1>2, <1>3, <1>4, <1>7, <1>8, OneOnce, Zenon

\* A retained copy is not the publication itself.
LEMMA SubscribedOnce ==
  ASSUME IInv, OnceInv, RetainedTypes, NEW i \in Ids, Subscribed(i)
  PROVE  OnceInv'
<1> DEFINE q == ses[i].queue
           h == [m |-> retained[ses[i].asked], live |-> FALSE]
<1>1. Shape /\ q \in Seq(Item) /\ Subscribing(i)
  BY OfOne, Zenon
<1>2. UNCHANGED <<hand, inbound, sent, got>> /\ ses[i].pc = "found"
  BY Zenon DEF Subscribed, provider, history
<1>3. FewerHands
  BY <1>2, FewerOf, Zenon
<1>4. /\ Frame(i) /\ disk'[i] = disk[i]
      /\ \/ ses'[i].queue = q
         \/ retained[ses[i].asked] # None /\ ses'[i].queue = Append(q, h)
  BY <1>1, SubscribedEffect, Zenon
<1>5. CASE ses'[i].queue = q
  BY <1>2, <1>3, <1>4, <1>5, FewerOnce, Zenon DEF Frame
<1>6. CASE retained[ses[i].asked] # None /\ ses'[i].queue = Append(q, h)
  <2>1. h \in Item
    BY <1>1, <1>2, <1>6, Zenon DEF Item, Subscribing, RetainedTypes
  <2>2. \A m : Live(m) # h
    BY Zenon DEF Live
  <2> HIDE DEF h
  <2>3. ASSUME NEW m \in Msgs PROVE Alone(i, m)'
    <3> DEFINE x == Live(m)
               r == ses'[i].queue
    <3>1. x # h
      BY <2>2, Zenon
    <3>2. Alone(i, m)
      BY Zenon DEF OnceInv
    <3>3. Single(q, x)
      BY <3>2, Zenon DEF Alone
    <3> HIDE DEF x
    <3>4. Single(Append(q, h), x)
      BY <1>1, <2>1, <3>1, <3>3, SingleAppend, Zenon
    <3>5. Holds(Append(q, h), x) <=> Holds(q, x)
      BY <1>1, <2>1, <3>1, HoldsAppend, Zenon
    <3>6. Single(r, x) /\ (Holds(r, x) <=> Holds(q, x))
      BY <1>6, <3>4, <3>5, Zenon
    <3> HIDE DEF q, r
    <3> QED
      BY <1>2, <1>4, <3>2, <3>6, Zenon
      DEF Alone, Reached, InHand, Live, Holds, Single, x, q, r
  <2> QED
    BY <1>2, <1>3, <1>4, <2>3, OneOnce, Zenon
<1> QED
  BY <1>4, <1>5, <1>6, Zenon

\* A publisher hands a publication on.
LEMMA ForwardOnce ==
  ASSUME IInv, OnceInv, NEW i \in Ids, NEW p \in Publishers, Forward(p, i)
  PROVE  OnceInv'
<1> DEFINE n == hand[p].m
           h == Live(hand[p].m)
           q == ses[i].queue
           d == disk[i].packets
           r == ses'[i].queue
           e == disk'[i].packets
<1>1. Shape /\ q \in Seq(Item) /\ d \in Seq(Item) /\ HandTypes
  BY OfOne, Zenon DEF IInv, Types
<1>2. got' = got /\ Handed(p, i)
  BY Zenon DEF Forward, history
<1>3. /\ Frame(i)
      /\ \/ r = Append(q, h) /\ e = d
         \/ r = q /\ e = Append(d, h)
         \/ r = q /\ e = d
  <2>1. /\ Frame(i)
        /\ r = (IF ses[i].to = "conn" THEN Append(q, h) ELSE q)
        /\ e = (IF ses[i].to = "disk" /\ disk[i].exists THEN Append(d, h) ELSE d)
    BY <1>1, ForwardEffect, Zenon
  <2> QED
    BY <2>1, Zenon
<1>4. i \in hand[p].left /\ n \in Msgs /\ InHand(p, i, n) /\ h \in Item
  BY <1>1, <1>2, Zenon DEF Handed, HandTypes, Item, Live, InHand
<1>5. /\ Shrinks(i) /\ inbound' = inbound /\ i \notin hand'[p].left
      /\ \A s \in Publishers : s # p => hand'[s] = hand[s]
  BY <1>1, <1>2, HandedShrinks, Zenon
<1>6. FewerHands /\ sent' = sent
  BY <1>2, <1>5, Zenon DEF FewerHands, Shrinks, Handed
<1>7. n <= sent /\ ~Holds(inbound, n) /\ n # None
  BY <1>4, ProviderAssumption, Zenon DEF OnceInv, ChannelInv, Msgs
<1>8. ASSUME NEW s \in Publishers PROVE ~(hand'[s].m = n /\ i \in hand'[s].left)
  <2>1. CASE s = p
    BY <1>5, <2>1, Zenon
  <2>2. CASE s # p
    <3>1. hand[s].m # n
      BY <1>7, <2>2, Zenon DEF OnceInv, ChannelInv
    <3> QED
      BY <1>5, <2>2, <3>1, Zenon
  <2> QED
    BY <2>1, <2>2, Zenon
<1>9. \A s \in Publishers, m \in Msgs : InHand(s, i, m)' => InHand(s, i, m)
  BY <1>5, <1>6, FewerChannel, Zenon DEF OnceInv
<1>10. /\ Append(q, h) \in Seq(Item) /\ Append(d, h) \in Seq(Item)
       /\ \A y : Holds(Append(q, h), y) <=> Holds(q, y) \/ y = h
       /\ \A y : Holds(Append(d, h), y) <=> Holds(d, y) \/ y = h
  BY <1>1, <1>4, HoldsAppend
<1>11. \A m : Live(m) = h => m = n
  BY Zenon DEF Live
<1> HIDE DEF n, h
<1>12. ASSUME NEW m \in Msgs PROVE Alone(i, m)'
  <2> DEFINE x == Live(m)
  <2>1. /\ Holds(q, x) \/ Holds(d, x) \/ <<i, m>> \in got
             => m <= sent /\ ~Holds(inbound, m) /\ \A s \in Publishers : ~InHand(s, i, m)
        /\ Single(q, x) /\ Single(d, x) /\ ~(Holds(q, x) /\ Holds(d, x))
        /\ <<i, m>> \in got => ~Holds(q, x) /\ ~Holds(d, x)
    BY Zenon DEF OnceInv, Alone, Reached
  <2>2. x = h => m = n
    BY <1>11, Zenon
  <2>3. x = h => ~Holds(q, x) /\ ~Holds(d, x) /\ <<i, m>> \notin got
    BY <1>4, <2>1, <2>2, Zenon
  <2> HIDE DEF x, q, d
  <2>4. Single(Append(q, h), x) /\ Single(Append(d, h), x)
    BY <1>1, <1>4, <2>1, <2>3, SingleAppend, Zenon
  <2> HIDE DEF r, e
  <2>5. Single(r, x) /\ Single(e, x)
    BY <1>3, <2>1, <2>4, Zenon
  <2>6. /\ Holds(r, x) => Holds(q, x) \/ x = h
        /\ Holds(e, x) => Holds(d, x) \/ x = h
        /\ ~(Holds(r, x) /\ Holds(e, x))
    BY <1>3, <1>10, <2>1, <2>3, Zenon
  <2>7. Holds(r, x) \/ Holds(e, x) \/ <<i, m>> \in got
          => m <= sent /\ ~Holds(inbound, m) /\ \A s \in Publishers : ~InHand(s, i, m)'
    BY <1>7, <1>8, <1>9, <2>1, <2>2, <2>6, Zenon DEF InHand
  <2>8. <<i, m>> \in got => ~Holds(r, x) /\ ~Holds(e, x)
    BY <2>1, <2>3, <2>6, Zenon
  <2> QED
    BY <1>2, <1>5, <1>6, <2>5, <2>6, <2>7, <2>8, Zenon
    DEF Alone, Reached, Live, Holds, Single, x, r, e
<1> QED
  BY <1>2, <1>3, <1>5, <1>6, <1>12, OneOnce, Zenon
-----------------------------------------------------------------------------
(* The steps of the process.                                               *)

\* The publication that is accepted is a new one.
LEMMA ClientPublishOnce ==
  ASSUME IInv, OnceInv, sent \in 0..Len(Plan), ClientPublish
  PROVE  OnceInv'
<1>1. PICK n \in Msgs : /\ n = sent + 1 /\ sent' = n /\ inbound' = Append(inbound, n)
                        /\ UNCHANGED <<ses, disk, got, hand>>
  <2>1. /\ sent < Len(Plan) /\ inbound' = Append(inbound, sent + 1) /\ sent' = sent + 1
        /\ UNCHANGED <<ses, disk, got, hand>>
    BY Zenon DEF ClientPublish, Publish, manager, persistence
  <2>2. sent + 1 \in Msgs
    BY <2>1, Planned
  <2> QED
    BY <2>1, <2>2, Zenon
<1>2. \A m \in Msgs : m <= sent => m <= sent' /\ m # n
  BY <1>1, Planned
<1>3. n <= sent'
  BY <1>1, Planned
<1>4. inbound \in Seq(Msgs) /\ HandTypes
  BY Zenon DEF IInv, Types, HandTypes
<1>5. \A y : Holds(inbound', y) <=> Holds(inbound, y) \/ y = n
  BY <1>1, <1>4, HoldsAppend
<1>6. ~Holds(inbound, n)
  BY <1>2, Zenon DEF OnceInv, ChannelInv
<1>7. ASSUME NEW m \in Msgs, Holds(inbound', m) PROVE m <= sent' /\ Single(inbound', m)
  <2>1. m # n => m <= sent /\ Single(inbound, m)
    BY <1>5, <1>7, Zenon DEF OnceInv, ChannelInv
  <2>2. Single(inbound, n)
    BY <1>6, Zenon DEF Single, Holds
  <2>3. Single(Append(inbound, n), m)
    BY <1>4, <1>6, <2>1, <2>2, SingleAppend, Zenon
  <2> QED
    BY <1>1, <1>2, <1>3, <2>1, <2>3, Zenon
<1>8. ASSUME NEW p \in Publishers, hand'[p].m # None
      PROVE  hand'[p].m <= sent' /\ ~Holds(inbound', hand'[p].m)
  <2>1. hand[p].m \in Msgs /\ hand[p].m <= sent /\ ~Holds(inbound, hand[p].m)
    BY <1>1, <1>4, <1>8, OneHand, Zenon DEF OnceInv, ChannelInv
  <2> QED
    BY <1>1, <1>2, <1>5, <2>1, Zenon
<1>9. ChannelInv'
  BY <1>1, <1>7, <1>8, Zenon DEF OnceInv, ChannelInv, Holds, Single
<1>10. ASSUME NEW i \in Ids, NEW m \in Msgs PROVE Alone(i, m)'
  <2> DEFINE x == Live(m)
             q == ses[i].queue
             d == disk[i].packets
  <2>1. /\ Holds(q, x) \/ Holds(d, x) \/ <<i, m>> \in got
             => m <= sent /\ ~Holds(inbound, m) /\ \A p \in Publishers : ~InHand(p, i, m)
        /\ Single(q, x) /\ Single(d, x) /\ ~(Holds(q, x) /\ Holds(d, x))
        /\ <<i, m>> \in got => ~Holds(q, x) /\ ~Holds(d, x)
    BY Zenon DEF OnceInv, Alone, Reached
  <2> HIDE DEF x, q, d
  <2>2. Holds(q, x) \/ Holds(d, x) \/ <<i, m>> \in got
             => m <= sent' /\ ~Holds(inbound', m) /\ \A p \in Publishers : ~InHand(p, i, m)
    BY <1>2, <1>5, <2>1, Zenon
  <2>3. /\ ses'[i].queue = q /\ disk'[i].packets = d /\ got' = got
        /\ \A p \in Publishers : InHand(p, i, m)' <=> InHand(p, i, m)
    BY <1>1, Zenon DEF InHand, q, d
  <2> QED
    BY <2>1, <2>2, <2>3, Zenon DEF Alone, Reached, Live, Holds, Single, x
<1> QED
  BY <1>9, <1>10, Zenon DEF OnceInv

\* What a publisher receives has left the channel, and no other publisher has it.
LEMMA TakeOnce ==
  ASSUME IInv, OnceInv, NEW p \in Publishers, PublisherTakes(p)
  PROVE  OnceInv'
<1>1. PICK n \in Msgs : /\ inbound # <<>> /\ n = Head(inbound) /\ inbound' = Tail(inbound)
                        /\ UNCHANGED <<ses, disk, got, sent>>
                        /\ hand'[p].m \in {n, None} /\ hand'[p].left \subseteq Ids
                        /\ \A q \in Publishers : q # p => hand'[q] = hand[q]
                        /\ hand'[p].left # {} => hand'[p].m = n
  <2> DEFINE n == Head(inbound)
             L == {i \in Ids : <<i, Plan[n].topic>> \in subs}
             h == IF L = {} THEN Idle ELSE [m |-> n, left |-> L]
  <2>1. /\ UNCHANGED <<ses, disk, got, sent>>
        /\ inbound # <<>> /\ inbound' = Tail(inbound) /\ hand' = [hand EXCEPT ![p] = h]
    BY Zenon DEF PublisherTakes, Take, manager, persistence, history
  <2>2. inbound \in Seq(Msgs) /\ DOMAIN hand = Publishers
    BY Zenon DEF IInv, Types, HandTypes
  <2>3. n \in Msgs
    BY <2>1, <2>2
  <2>4. L \subseteq Ids
    BY Zenon
  <2> HIDE DEF n, L
  <2>5. h.m \in {n, None} /\ h.left \subseteq Ids /\ (h.left # {} => h.m = n)
    BY <2>4, Zenon DEF Idle
  <2> HIDE DEF h
  <2>6. hand'[p] = h /\ \A q \in Publishers : q # p => hand'[q] = hand[q]
    BY <2>1, <2>2, Zenon
  <2>7. n = Head(inbound)
    BY Zenon DEF n
  <2> QED
    BY <2>1, <2>3, <2>5, <2>6, <2>7, Zenon
<1>2. inbound \in Seq(Msgs) /\ HandTypes /\ None \notin Msgs
  BY ProviderAssumption, Zenon DEF IInv, Types, HandTypes, Msgs
<1>3. /\ \A y : Holds(inbound, y) <=> y = n \/ Holds(inbound', y)
      /\ \A y : Single(inbound, y) => Single(inbound', y)
      /\ Single(inbound, n) => ~Holds(inbound', n)
  <2>1. \A y : Holds(inbound, y) <=> y = Head(inbound) \/ Holds(Tail(inbound), y)
    BY <1>1, <1>2, HoldsTail, Zenon
  <2>2. /\ \A y : Single(inbound, y) => Single(Tail(inbound), y)
        /\ Single(inbound, Head(inbound)) => ~Holds(Tail(inbound), Head(inbound))
    BY <1>1, <1>2, SingleTail, Zenon
  <2> QED
    BY <1>1, <2>1, <2>2, Zenon
<1>4. Holds(inbound, n) /\ n <= sent /\ ~Holds(inbound', n)
  BY <1>3, Zenon DEF OnceInv, ChannelInv
<1>5. \A q \in Publishers : hand[q].m # n
  BY <1>1, <1>2, <1>4, Zenon DEF OnceInv, ChannelInv
<1>6. ASSUME NEW m \in Msgs, Holds(inbound', m) PROVE m <= sent' /\ Single(inbound', m)
  BY <1>1, <1>3, <1>6, Zenon DEF OnceInv, ChannelInv
<1>7. ASSUME NEW q \in Publishers, hand'[q].m # None
      PROVE  hand'[q].m <= sent' /\ ~Holds(inbound', hand'[q].m)
  <2>1. CASE q = p
    <3>1. hand'[q].m = n
      BY <1>1, <1>7, <2>1, Zenon
    <3> QED
      BY <1>1, <1>4, <3>1, Zenon
  <2>2. CASE q # p
    <3>1. hand'[q].m = hand[q].m
      BY <1>1, <2>2, Zenon
    <3> QED
      BY <1>1, <1>3, <1>7, <3>1, Zenon DEF OnceInv, ChannelInv
  <2> QED
    BY <2>1, <2>2, Zenon
<1>8. ASSUME NEW q \in Publishers, NEW r \in Publishers, hand'[q].m = hand'[r].m,
             hand'[q].m # None
      PROVE  q = r
  <2>1. \A s \in Publishers : s # p => hand'[s].m = hand[s].m /\ hand'[s].m # n
    BY <1>1, <1>5, Zenon
  <2>2. q = p \/ r = p => hand'[q].m = n
    BY <1>1, <1>8, Zenon
  <2>3. hand[q].m = hand[r].m /\ hand[q].m # None => q = r
    BY Zenon DEF OnceInv, ChannelInv
  <2> QED
    BY <1>8, <2>1, <2>2, <2>3, Zenon
<1>9. ChannelInv'
  BY <1>6, <1>7, <1>8, Zenon DEF ChannelInv, Holds, Single
<1>10. ASSUME NEW i \in Ids, NEW m \in Msgs PROVE Alone(i, m)'
  <2> DEFINE x == Live(m)
             q == ses[i].queue
             d == disk[i].packets
  <2>1. /\ Holds(q, x) \/ Holds(d, x) \/ <<i, m>> \in got
             => m <= sent /\ ~Holds(inbound, m) /\ \A s \in Publishers : ~InHand(s, i, m)
        /\ Single(q, x) /\ Single(d, x) /\ ~(Holds(q, x) /\ Holds(d, x))
        /\ <<i, m>> \in got => ~Holds(q, x) /\ ~Holds(d, x)
    BY Zenon DEF OnceInv, Alone, Reached
  <2> HIDE DEF x, q, d
  <2>2. ASSUME NEW s \in Publishers, InHand(s, i, m)', ~InHand(s, i, m)
        PROVE  m = n
    BY <1>1, <2>2, Zenon DEF InHand
  <2>3. Holds(q, x) \/ Holds(d, x) \/ <<i, m>> \in got
             => m <= sent /\ ~Holds(inbound', m) /\ \A s \in Publishers : ~InHand(s, i, m)'
    BY <1>3, <2>1, <2>2, Zenon
  <2>4. ses'[i].queue = q /\ disk'[i].packets = d /\ got' = got /\ sent' = sent
    BY <1>1, Zenon DEF q, d
  <2> QED
    BY <2>1, <2>3, <2>4, Zenon DEF Alone, Reached, Live, Holds, Single, x
<1> QED
  BY <1>9, <1>10, Zenon DEF OnceInv

\* The other steps of the process bring nothing to any session.
LEMMA ProcessOnce ==
  ASSUME IInv, OnceInv,
         \/ ClientRetain \/ RetainerTakes \/ (\E m \in Msgs : LoadRetained(m))
         \/ Stop \/ StopDone \/ ManagerDown \/ Start \/ ProviderUp
         \/ ProviderDown \/ Die \/ Configure \/ UNCHANGED vars
  PROVE  OnceInv'
<1>1. CASE \/ ClientRetain \/ RetainerTakes \/ (\E m \in Msgs : LoadRetained(m))
           \/ Stop \/ StopDone \/ ManagerDown \/ Start \/ ProviderUp \/ UNCHANGED vars
  <2>1. UNCHANGED <<ses, disk, got, inbound, hand, sent>>
    BY <1>1, Zenon
    DEF ClientRetain, RetainerTakes, LoadRetained, Stop, StopDone, ManagerDown, Start, ProviderUp,
        Retain, Retainer, Reload, vars, manager, persistence, history, provider
  <2> QED
    BY <2>1, FewerOf, FewerOnce, Zenon
<1>2. CASE ProviderDown
  <2>1. Fresh /\ UNCHANGED <<sent, ses, disk, got>>
    BY <1>2, Zenon DEF ProviderDown, history
  <2> QED
    BY <2>1, FewerOf, FewerOnce, Zenon
<1>3. CASE Die
  <2>1. Fresh /\ UNCHANGED <<sent, disk, got>> /\ ses' = [i \in Ids |-> NoSession]
    BY <1>3, Zenon DEF Die, persistence
  <2>2. \A i \in Ids : ses'[i].queue = <<>>
    BY <2>1, NoSessionFields, Zenon
  <2> QED
    BY <2>1, <2>2, FewerOf, FewerOnce, Zenon
<1>4. CASE Configure
  <2>1. UNCHANGED <<sent, inbound, hand, got>> /\ Shape
    BY <1>4, Zenon DEF Configure, history, IInv
  <2>2. \A i \in Ids : /\ ses'[i].queue = ses[i].queue \/ ses'[i].queue = <<>>
                       /\ disk'[i].packets = disk[i].packets
    BY <1>4, <2>1, ConfigureEffect, Zenon DEF SameEntry
  <2> QED
    BY <2>1, <2>2, FewerOf, FewerOnce, Zenon
<1> QED
  BY <1>1, <1>2, <1>3, <1>4, Zenon

\* At first nothing is anywhere.
LEMMA OnceInit == Init => OnceInv
<1> SUFFICES ASSUME Init PROVE OnceInv
  BY Zenon
<1>1. /\ ses = [i \in Ids |-> NoSession] /\ disk = [i \in Ids |-> Absent] /\ got = {}
      /\ inbound = <<>> /\ hand = [p \in Publishers |-> Idle]
  BY Zenon DEF Init, ProviderInit
<1>2. \A i \in Ids : ses[i].queue = <<>> /\ disk[i].packets = <<>>
  BY <1>1, NoSessionFields, Entries, Zenon
<1>3. \A y : ~Holds(<<>>, y)
  BY DEF Holds
<1>4. \A p \in Publishers : hand[p].m = None
  BY <1>1, Zenon DEF Idle
<1>5. ChannelInv
  BY <1>1, <1>3, <1>4, Zenon DEF ChannelInv
<1>6. ASSUME NEW i \in Ids, NEW m \in Msgs PROVE Alone(i, m)
  BY <1>1, <1>2, <1>3, NoneSingle, Zenon DEF Alone, Reached
<1> QED
  BY <1>5, <1>6, Zenon DEF OnceInv

\* No step doubles a publication.
LEMMA OnceStep ==
  ASSUME IInv, AllInFlight, OnceInv, RetainedTypes, [Next]_vars
  PROVE  OnceInv'
<1>1. ASSUME NEW i \in Ids,
             \/ \E k \in Kinds : Connect(i, k)
             \/ Create(i) \/ Online(i) \/ \E t \in Names : Subscribe(i, t) \/ UnSubscribe(i, t)
             \/ SignalOffline(i) \/ SessionOffline(i) \/ Expire(i)
             \/ StopSteps(i) \/ Send(i)
             \/ PersistSubscriber(i) \/ LoadSession(i)
      PROVE  OnceInv'
  BY <1>1, MovesOnce, Zenon
<1>2. ASSUME NEW i \in Ids,
             \/ Load(i) \/ Subscribed(i) \/ Acknowledge(i) \/ ConnectionClose(i)
             \/ \E p \in Publishers : Forward(p, i)
      PROVE  OnceInv'
  BY <1>2, LoadOnce, SubscribedOnce, AcknowledgeOnce, ConnectionCloseOnce, ForwardOnce, Zenon
  DEF AllInFlight
<1>3. ASSUME (\E p \in Publishers : PublisherTakes(p)) \/ ClientPublish PROVE OnceInv'
  <2>1. sent \in 0..Len(Plan)
    BY Zenon DEF RetainedTypes
  <2> QED
    BY <1>3, <2>1, TakeOnce, ClientPublishOnce, Zenon
<1>4. ASSUME Crash \/ CountPanics \/ \E i \in Ids : SubscribePanics(i) PROVE OnceInv'
  <2>1. Die
    BY <1>4, Zenon DEF Crash, CountPanics, SubscribePanics
  <2> QED
    BY <2>1, ProcessOnce, Zenon
<1> QED
  BY <1>1, <1>2, <1>3, <1>4, ProcessOnce, Zenon DEF Next, StopSteps

\* At most one place holds what is there once: Cardinality by its definition.
LEMMA OneCopy ==
  ASSUME NEW T, \A j, k \in T : j = k
  PROVE  Cardinality(T) \in {0, 1} /\ (T = {} => Cardinality(T) = 0)
<1> DEFINE val(f, U) == IF U = {} THEN 0 ELSE 1 + f[U \ {CHOOSE x : x \in U}]
           IsCS(f) == f = [U \in SUBSET T |-> val(f, U)]
           CS == CHOOSE f : IsCS(f)
           g == [U \in SUBSET T |-> IF U = {} THEN 0 ELSE 1]
<1>1. ASSUME NEW U \in SUBSET T, U # {} PROVE U \ {CHOOSE x : x \in U} = {}
  <2>1. (CHOOSE x : x \in U) \in U
    BY <1>1
  <2> QED
    BY <1>1, <2>1
<1>2. IsCS(g)
  <2>1. \A U \in SUBSET T : g[U] = val(g, U)
    BY <1>1
  <2> QED
    BY <2>1
<1> HIDE DEF g
<1>3. IsCS(CS)
  BY <1>2, Zenon
<1>4. Cardinality(T) = CS[T]
  BY Zenon DEF Cardinality
<1> HIDE DEF CS
<1>5. \A U \in SUBSET T : CS[U] = val(CS, U)
  BY <1>3, Zenon
<1>6. CS[{}] = 0
  BY <1>5
<1>7. T # {} => CS[T] = 1 + CS[{}]
  BY <1>1, <1>5
<1> QED
  BY <1>4, <1>6, <1>7

\* The counted copies of a publication.
LEMMA CountedOnce ==
  ASSUME OnceInv, NEW i \in Ids, NEW m \in Msgs
  PROVE  IF Holds(inbound, m) \/ <<i, m>> \in got THEN Copies(i, m) = 0
         ELSE Copies(i, m) <= 1
<1> DEFINE x == Live(m)
           q == ses[i].queue
           d == disk[i].packets
           a == Cardinality({p \in Publishers : hand[p].m = m /\ i \in hand[p].left})
           b == Cardinality({k \in DOMAIN q : q[k] = x})
           c == Cardinality({k \in DOMAIN d : d[k] = x})
<1>1. /\ Holds(q, x) \/ Holds(d, x) \/ <<i, m>> \in got
           => ~Holds(inbound, m) /\ \A p \in Publishers : ~InHand(p, i, m)
      /\ Single(q, x) /\ Single(d, x) /\ ~(Holds(q, x) /\ Holds(d, x))
      /\ <<i, m>> \in got => ~Holds(q, x) /\ ~Holds(d, x)
  BY Zenon DEF OnceInv, Alone, Reached
<1>2. m # None
  BY ProviderAssumption, Zenon DEF Msgs
<1>3. \A p, s \in Publishers : InHand(p, i, m) /\ InHand(s, i, m) => p = s
  BY <1>2, Zenon DEF InHand, OnceInv, ChannelInv
<1>4. Holds(inbound, m) => \A p \in Publishers : ~InHand(p, i, m)
  BY <1>2, Zenon DEF InHand, OnceInv, ChannelInv
<1>5. a \in {0, 1} /\ ((\A p \in Publishers : ~InHand(p, i, m)) => a = 0)
  <2> DEFINE T == {p \in Publishers : hand[p].m = m /\ i \in hand[p].left}
  <2>1. \A j, k \in T : j = k
    BY <1>3, Zenon DEF InHand
  <2>2. (\A p \in Publishers : ~InHand(p, i, m)) => T = {}
    BY Zenon DEF InHand
  <2> HIDE DEF T
  <2>3. Cardinality(T) \in {0, 1} /\ (T = {} => Cardinality(T) = 0)
    BY <2>1, OneCopy, Zenon
  <2> QED
    BY <2>2, <2>3, Zenon DEF T
<1> HIDE DEF x, q, d
<1>6. ASSUME NEW s, Single(s, x)
      PROVE  /\ Cardinality({k \in DOMAIN s : s[k] = x}) \in {0, 1}
             /\ ~Holds(s, x) => Cardinality({k \in DOMAIN s : s[k] = x}) = 0
  <2> DEFINE T == {k \in DOMAIN s : s[k] = x}
  <2>1. \A j, k \in T : j = k
    BY <1>6, Zenon DEF Single
  <2>2. ~Holds(s, x) => T = {}
    BY Zenon DEF Holds
  <2> HIDE DEF T
  <2>3. Cardinality(T) \in {0, 1} /\ (T = {} => Cardinality(T) = 0)
    BY <2>1, OneCopy, Zenon
  <2> QED
    BY <2>2, <2>3, Zenon DEF T
<1>7. /\ b \in {0, 1} /\ (~Holds(q, x) => b = 0)
      /\ c \in {0, 1} /\ (~Holds(d, x) => c = 0)
  BY <1>1, <1>6, Zenon
<1>8. Copies(i, m) = a + b + c
  BY Zenon DEF Copies, x, q, d
<1> HIDE DEF a, b, c
<1>9. Holds(inbound, m) \/ <<i, m>> \in got => a = 0 /\ b = 0 /\ c = 0
  BY <1>1, <1>4, <1>5, <1>7, Zenon
<1>10. /\ b # 0 => a = 0 /\ c = 0
       /\ c # 0 => a = 0 /\ b = 0
  BY <1>1, <1>5, <1>7, Zenon
<1>11. a + b + c <= 1 /\ (a = 0 /\ b = 0 /\ c = 0 => a + b + c = 0)
  BY <1>5, <1>7, <1>10
<1> QED
  BY <1>8, <1>9, <1>11, Zenon

-----------------------------------------------------------------------------
(* The theorems.                                                           *)

\* The inductive invariants hold of the broker: what is said of its sessions, of the
\* packets in flight and of the retained messages.
THEOREM Invariance == Spec => [](IInv /\ AllInFlight /\ RetainedInv)
<1> DEFINE Inv == IInv /\ AllInFlight /\ RetainedInv
<1>1. Init => Inv
  BY SessionsInit, InFlightInit, RetainedInit, Zenon
<1>2. ASSUME Inv, [Next]_vars PROVE Inv'
  <2>1. RetainedTypes
    BY <1>2, Zenon DEF RetainedInv
  <2>2. RetainedInv'
    BY <1>2, RetainedStep, Zenon
  <2>3. IInv'
    BY <1>2, <2>1, SessionsStep, Zenon
  <2>4. AllInFlight'
    BY <1>2, <2>1, InFlightStep, Zenon
  <2> QED
    BY <2>2, <2>3, <2>4, Zenon
<1> QED
  BY <1>1, <1>2, PTL DEF Spec

\* A client that was told of a durable session finds its entry on disk, whenever the process
\* may die (persistence.Create before the CONNACK, and every wipe of an entry).
THEOREM SessionsSurvive == Spec => []SessionSurvives
<1>1. IInv => SessionSurvives
  <2>1. IInv => alive \subseteq Ids /\ \A i \in Ids : Promised(i)
    BY Zenon DEF IInv, Types, PairTypes, Mine
  <2> QED
    BY <2>1, Zenon DEF Promised, SessionSurvives
<1> QED
  BY <1>1, Invariance, PTL

\* What is owed to a client is in a channel, with a publisher, in the client's queue or on
\* disk, whatever the client, the manager and the publishers do at the same time.
THEOREM OwedAccounted == Spec => []Accounted
<1>1. IInv => Accounted
  <2> SUFFICES ASSUME IInv, NEW o \in owed
               PROVE  \/ Holds(inbound, o[2])
                      \/ \E p \in Publishers : hand[p].m = o[2] /\ o[1] \in hand[p].left
                      \/ Holds(ses[o[1]].queue, Live(o[2]))
                      \/ Holds(disk[o[1]].packets, Live(o[2]))
    BY Zenon DEF Accounted
  <2>1. owed \subseteq Ids \X Msgs
    BY Zenon DEF IInv, Types, PairTypes
  <2>2. PICK i \in Ids, m \in Msgs : o = <<i, m>>
    BY <2>1
  <2>3. o[1] = i /\ o[2] = m
    BY <2>2, Zenon
  <2>4. Settled(i, m)
    BY <2>2, OfOne, Zenon DEF AllSettled
  <2> QED
    BY <2>3, <2>4, Zenon DEF Settled, InHand
<1> QED
  BY <1>1, Invariance, PTL

\* A publication of a 5.0 client that was retained when the broker was shut down is retained,
\* unchanged, when it is up again, for any number of graceful restarts, at every topic that
\* the filters of Shutdown find (Shutdown and NewMemProvider of memlockfree).
THEOREM RetainedSurvives == Spec => []RetainedKept
<1>1. RetainedInv => RetainedKept
  BY DEF RetainedInv, LatestFound, Found, ToBe, RetainedKept, AlteredOnly, Lasting
<1> QED
  BY <1>1, Invariance, PTL

\* The places of a publication are one at most, in every state of the broker.
THEOREM OnceInvariance == Spec => []OnceInv
<1>1. ASSUME IInv /\ AllInFlight /\ RetainedInv, OnceInv, [Next]_vars PROVE OnceInv'
  <2>1. RetainedTypes
    BY <1>1, Zenon DEF RetainedInv
  <2> QED
    BY <1>1, <2>1, OnceStep, Zenon
<1> QED
  BY <1>1, OnceInit, Invariance, PTL DEF Spec

\* A publication is at one place on its way to a client, and nowhere once the client has
\* acknowledged it, over reconnects, restarts and crashes (qos12PopPacket, ackQueue.release,
\* packetLoader, PacketsStore, SignalOffline).
THEOREM DeliveredAtMostOnce == Spec => []DeliveredOnce
<1>1. OnceInv => DeliveredOnce
  BY CountedOnce, Zenon DEF DeliveredOnce
<1> QED
  BY <1>1, OnceInvariance, PTL
=============================================================================
