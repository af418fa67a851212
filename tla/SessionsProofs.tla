--------------------------- MODULE SessionsProofs ---------------------------
(***************************************************************************)
(* A durable session that was established once, for any number of          *)
(* connections that contend for it, with and without preemption, with      *)
(* CONNACKs and stores that fail and with a manager that stops at any time. *)
(*                                                                         *)
(* The container of the session stays in the map, so its lock keeps the     *)
(* connections apart (Lock); the one that is active is the session of the   *)
(* container (Current), so a taker finds it, stops it and waits for its     *)
(* close, and then none is active (GoesTo).                                 *)
(***************************************************************************)
EXTENDS Sessions, TLAPS

\* Every client is a 3.1.1 client with a durable session, one connection is up
\* and subscribed, and nobody unsubscribes.
DurableOnly ==
  /\ Established # None
  /\ \A k \in Kinds : ~k.v5 /\ ~k.clean
  /\ "unsubscribe" \notin Ops

-----------------------------------------------------------------------------
(* The inductive invariant.                                                *)

\* From the CONNACK to the end of the close.
Active(c) == con[c].life \in {"live", "offline", "close", "gone"}

\* A taker that has stopped the session it found.
Taking == {"cancel", "look", "subscriber", "ack", "online", "start"}
Ended == {"new", "up", "failed", "rejected"}

\* What a client asked for, and that its session is kept.
Wish(r) == /\ r.durable /\ r.expire = "nil" /\ r.will # "delayed" /\ r.life # "wipe"
           /\ r.life = "gone" => r.keep

\* What stays as it is: the container, its subscriber with the subscriptions, and
\* what the clients asked for.
Kept ==
  /\ \A k \in Conns : /\ cont[k].timer = "none" /\ ~cont[k].removed
                      /\ cont[k].rmLock = "free"
  /\ persisted /\ expiryCount = 0 /\ panicked \in {"no", "writer"}
  /\ cont[Established].sub = Established
  /\ mgr.pc # "stopped" => /\ stored = Established
                           /\ obj[Established].topics /\ obj[Established].to # "nowhere"
  /\ \A c \in Conns : Wish(con[c])

\* How far a connection is.
Way(c) ==
  /\ con[c].pc \notin {"up", "failed", "rejected"} => c # Established
  /\ con[c].pc \notin Ended => con[c].cur = Established
  /\ con[c].pc \in {"subscriber", "ack", "online", "start", "up"} =>
       con[c].idLock = Established
  /\ con[c].pc \in {"ack", "online", "start", "up"} => con[c].sub = Established
  /\ con[c].pc \notin {"online", "start", "up", "failed", "rejected"} => con[c].life = "new"
  /\ con[c].pc \in {"online", "start", "up"} => con[c].life # "new"
  /\ con[c].life \in {"new", "live"} => con[c].stopReq = "free"
  /\ con[c].pc \in {"failed", "rejected"} => con[c].life = "closed"
  /\ con[c].pc # "hung"

\* The connection that is active, or about to be, is the session of the container.
Current(c) ==
  /\ Active(c) => cont[Established].ses = c /\ con[c].pc \in {"online", "start", "up"}
  /\ con[c].pc \in {"subscriber", "ack"} => cont[Established].ses = c
  /\ con[c].pc \in {"new", "acquire", "fence", "session", "stop", "wait", "cancel", "look"} =>
       cont[Established].ses # c
  /\ con[c].pc \in {"stop", "wait"} =>
       /\ con[c].old \in Conns \ {c} /\ con[con[c].old].pc \in {"up", "failed", "rejected"}
       /\ cont[Established].ses \in {con[c].old, None}
  /\ con[c].life = "live" /\ con[c].pc \in {"start", "up"} => obj[Established].to = c
  /\ Active(c) /\ con[c].stopReq = "taken" =>
       mgr.pc # "run" \/ \E d \in Conns : con[d].pc = "wait" /\ con[d].old = c

\* The lock of the container.
Lock ==
  /\ \A c, d \in Conns : con[c].pc \in Locked /\ con[d].pc \in Locked => c = d
  /\ \A c \in Conns : con[c].pc \in Locked => cont[Established].lock = "held"
  /\ \A c, d \in Conns : con[c].pc \in Taking /\ Active(d) => c = d

\* Manager.Stop counts an entry without session, that is without connection, and
\* leaves no connection up.
Stopped ==
  /\ mgr.pc # "run" => \A c \in Conns : con[c].pc \in Ended
  /\ mgr.pc \in {"run", "session", "wait"} => sessionsCount = 1
  /\ mgr.pc \in {"session", "wait", "expiry"} => mgr.k = Established
  /\ mgr.pc = "wait" => mgr.s \in Conns
  /\ mgr.pc = "stopped" => sessionsCount = 0
  /\ mgr.pc # "hung" /\ sessionsCount \in {0, 1}
  /\ sessionsCount = 0 => \A c \in Conns : ~Active(c)
  /\ mgr.pc \notin {"run", "session"} => \A c \in Conns : con[c].life # "live"

IInv ==
  /\ TypeOK /\ Kept /\ Lock /\ Stopped
  /\ \A c \in Conns : Way(c)
  /\ \A c \in Conns : Current(c)

-----------------------------------------------------------------------------
(* What a step does to the record of a connection.                          *)

SameEnd(r, s) ==
  /\ r.durable = s.durable /\ r.expire = s.expire /\ r.will = s.will
  /\ r.life = s.life /\ r.keep = s.keep /\ r.stopReq = s.stopReq

SameWay(r, s) ==
  r.cur = s.cur /\ r.old = s.old /\ r.idLock = s.idLock /\ r.sub = s.sub

Others(c) ==
  con' \in [Conns -> ConType] /\ \A x \in Conns : x # c => con'[x] = con[x]

\* A step that only goes on.
Goes(c, p) ==
  /\ Others(c) /\ con'[c].pc = p
  /\ SameEnd(con'[c], con[c]) /\ SameWay(con'[c], con[c])

\* The containers: what the lock and the session of the established one are then.
Containers(l, s) ==
  /\ cont' \in [Conns -> ContType]
  /\ \A k \in Conns : /\ cont'[k].timer = cont[k].timer /\ cont'[k].sub = cont[k].sub
                      /\ cont'[k].removed = cont[k].removed
                      /\ cont'[k].rmLock = cont[k].rmLock
  /\ cont'[Established].lock = l /\ cont'[Established].ses = s

PcType == {"new", "acquire", "fence", "session", "stop", "wait", "cancel", "hung", "look",
           "subscriber", "ack", "online", "start", "up", "failed", "rejected"}

\* A step that moves a connection and leaves the rest of its record.
LEMMA GoesOn ==
  ASSUME TypeOK, NEW c \in Conns, NEW p \in PcType, con' = [con EXCEPT ![c].pc = p]
  PROVE  Goes(c, p)
<1>1. con \in [Conns -> ConType]
  BY DEF TypeOK
<1>2. con' \in [Conns -> ConType]
  BY <1>1 DEF ConType, PcType
<1>3. \A x \in Conns : x # c => con'[x] = con[x]
  BY <1>1
<1>4. con'[c] = [con[c] EXCEPT !.pc = p]
  BY <1>1
<1>5. con[c] \in ConType
  BY <1>1
<1>6. con'[c].pc = p /\ SameEnd(con'[c], con[c]) /\ SameWay(con'[c], con[c])
  BY <1>4, <1>5 DEF ConType, SameEnd, SameWay
<1> QED
  BY <1>2, <1>3, <1>6 DEF Goes, Others

\* What the other steps write into it.
Loads(r, c) == [r EXCEPT !.pc = "acquire", !.cur = Established, !.idLock = c]
Finds(r, p, s) == [r EXCEPT !.pc = p, !.old = s]
Takes(r) == [r EXCEPT !.pc = "subscriber", !.idLock = Established]
Gets(r) == [r EXCEPT !.pc = "ack", !.sub = Established]
Ends(r, p, l) == [r EXCEPT !.pc = p, !.life = l]
Leaves(r) == [r EXCEPT !.will = "none", !.life = "offline"]
Lives(r, l) == [r EXCEPT !.life = l]
Offlined(r) == [r EXCEPT !.durable = TRUE, !.life = "close"]
Gone(r, w) == [r EXCEPT !.life = "gone", !.keep = TRUE, !.will = w, !.sub = Established]
Shut(r) == [r EXCEPT !.life = "closed", !.stopReq = "taken"]
Quits(r, l) == [r EXCEPT !.stopReq = "taken", !.life = l]

\* LoadOrStore.
LEMMA LoadsType ==
  ASSUME NEW r, r \in ConType, NEW c \in Conns, Established \in Conns
  PROVE  /\ Loads(r, c) \in ConType /\ SameEnd(Loads(r, c), r)
         /\ Loads(r, c).pc = "acquire" /\ Loads(r, c).cur = Established
<1>1. c \in Maybe /\ Established \in Maybe
  BY Zenon DEF Maybe
<1>2. Loads(r, c) \in ConType
  BY <1>1, ZenonT(120) DEF Loads, ConType
<1> QED
  BY <1>2 DEF Loads, ConType, SameEnd

\* Session.
LEMMA FindsType ==
  ASSUME NEW r, r \in ConType, NEW p \in {"cancel", "stop"}, NEW s \in Maybe
  PROVE  /\ Finds(r, p, s) \in ConType /\ SameEnd(Finds(r, p, s), r)
         /\ Finds(r, p, s).pc = p /\ Finds(r, p, s).old = s /\ Finds(r, p, s).cur = r.cur
<1>1. p \in PcType
  BY DEF PcType
<1>2. Finds(r, p, s) \in ConType
  BY <1>1, ZenonT(120) DEF Finds, ConType, PcType
<1> QED
  BY <1>2 DEF Finds, ConType, SameEnd

\* Look.
LEMMA TakesType ==
  ASSUME NEW r, r \in ConType, Established \in Conns
  PROVE  /\ Takes(r) \in ConType /\ SameEnd(Takes(r), r) /\ Takes(r).pc = "subscriber"
         /\ Takes(r).cur = r.cur /\ Takes(r).idLock = Established
<1>1. Established \in Maybe
  BY Zenon DEF Maybe
<1>2. Takes(r) \in ConType
  BY <1>1, ZenonT(120) DEF Takes, ConType
<1> QED
  BY <1>2 DEF Takes, ConType, SameEnd

\* Subscriber.
LEMMA GetsType ==
  ASSUME NEW r, r \in ConType, Established \in Conns
  PROVE  /\ Gets(r) \in ConType /\ SameEnd(Gets(r), r) /\ Gets(r).pc = "ack"
         /\ Gets(r).cur = r.cur /\ Gets(r).idLock = r.idLock /\ Gets(r).sub = Established
<1>1. Established \in Maybe
  BY Zenon DEF Maybe
<1>2. Gets(r) \in ConType
  BY <1>1, ZenonT(120) DEF Gets, ConType
<1> QED
  BY <1>2 DEF Gets, ConType, SameEnd

\* Acknowledge, and a connection that is refused.
LEMMA EndsType ==
  ASSUME NEW r, r \in ConType, NEW p \in PcType, NEW l \in {"live", "closed"}
  PROVE  /\ Ends(r, p, l) \in ConType /\ SameWay(Ends(r, p, l), r)
         /\ Ends(r, p, l).pc = p /\ Ends(r, p, l).life = l
         /\ Ends(r, p, l).durable = r.durable /\ Ends(r, p, l).expire = r.expire
         /\ Ends(r, p, l).will = r.will /\ Ends(r, p, l).stopReq = r.stopReq
<1>1. Ends(r, p, l) \in ConType
  BY ZenonT(120) DEF Ends, ConType, PcType
<1> QED
  BY <1>1 DEF Ends, ConType, SameWay

\* A step of the close, whatever it does to what the client asked for.
Closes(q, r, l) ==
  /\ q \in ConType /\ SameWay(q, r) /\ q.pc = r.pc /\ q.life = l
  /\ q.durable /\ q.expire = r.expire /\ q.will \in {"none", r.will}

\* SignalDisconnect.
LEMMA LeavesType ==
  ASSUME NEW r, r \in ConType, r.durable
  PROVE  Closes(Leaves(r), r, "offline") /\ Leaves(r).stopReq = r.stopReq
<1>1. Leaves(r) \in ConType
  BY ZenonT(120) DEF Leaves, ConType
<1> QED
  BY <1>1 DEF Leaves, Closes, ConType, SameWay

\* Drop.
LEMMA LivesType ==
  ASSUME NEW r, r \in ConType, r.durable
  PROVE  Closes(Lives(r, "offline"), r, "offline") /\ Lives(r, "offline").stopReq = r.stopReq
<1>1. Lives(r, "offline") \in ConType
  BY ZenonT(120) DEF Lives, ConType
<1> QED
  BY <1>1 DEF Lives, Closes, ConType, SameWay

\* SignalOffline.
LEMMA OfflinedType ==
  ASSUME NEW r, r \in ConType
  PROVE  Closes(Offlined(r), r, "close") /\ Offlined(r).stopReq = r.stopReq
<1>1. Offlined(r) \in ConType
  BY ZenonT(120) DEF Offlined, ConType
<1> QED
  BY <1>1 DEF Offlined, Closes, ConType, SameWay

\* SignalConnectionClose.
LEMMA GoneType ==
  ASSUME NEW r, r \in ConType, NEW w \in {"none", r.will}, r.durable, r.sub = Established,
         Established \in Conns
  PROVE  /\ Closes(Gone(r, w), r, "gone")
         /\ Gone(r, w).stopReq = r.stopReq /\ Gone(r, w).keep
<1>1. w \in {"none", "now", "delayed"} /\ Established \in Maybe
  BY DEF ConType, Maybe
<1>2. Gone(r, w) \in ConType
  BY <1>1, ZenonT(120) DEF Gone, ConType
<1> QED
  BY <1>2 DEF Gone, Closes, ConType, SameWay

\* session.stop
LEMMA QuitsType ==
  ASSUME NEW r, r \in ConType, r.durable, NEW l \in {"closed", "offline", "close", "gone"}
  PROVE  /\ Closes(Quits(r, l), r, l) /\ Quits(r, l).keep = r.keep
         /\ Quits(r, l).stopReq = "taken"
<1>1. l \in {"new", "live", "offline", "close", "gone", "wipe", "closed"}
  OBVIOUS
<1>2. Quits(r, l) \in ConType
  BY <1>1, ZenonT(120) DEF Quits, ConType
<1> QED
  BY <1>2 DEF Quits, Closes, ConType, SameWay

\* The end of the close.
LEMMA ShutType ==
  ASSUME NEW r, r \in ConType, r.durable
  PROVE  Closes(Shut(r), r, "closed")
<1>1. Shut(r) = Quits(r, "closed")
  BY ZenonT(120) DEF Shut, Quits, ConType
<1> QED
  BY <1>1, QuitsType

\* session.stop is a Quits, unless the connection is not acknowledged.
LEMMA StopEffectIs ==
  ASSUME TypeOK, NEW s \in Conns,
         con[s].life \in {"live", "offline", "close", "gone", "closed"}
  PROVE  \E l \in {"closed", "offline", "close", "gone"} :
           /\ StopEffect(s) = Quits(con[s], l)
           /\ l = IF con[s].life = "live" THEN "offline" ELSE con[s].life
<1> DEFINE l == IF con[s].life = "live" THEN "offline" ELSE con[s].life
<1>1. l \in {"closed", "offline", "close", "gone"}
  OBVIOUS
<1>2. StopEffect(s) = Quits(con[s], l)
  BY ZenonT(120) DEF StopEffect, Quits, TypeOK, ConType
<1> QED
  BY <1>1, <1>2

\* A taker stops the session and goes on to wait for it.
LEMMA TwoWrites ==
  ASSUME TypeOK, NEW c \in Conns, NEW s \in Conns \ {c}, NEW q, q \in ConType,
         con' = [con EXCEPT ![s] = q, ![c].pc = "wait"]
  PROVE  /\ con' \in [Conns -> ConType] /\ con'[s] = q
         /\ \A x \in Conns : x # c /\ x # s => con'[x] = con[x]
         /\ con'[c].pc = "wait" /\ SameEnd(con'[c], con[c]) /\ SameWay(con'[c], con[c])
<1>1. con \in [Conns -> ConType]
  BY DEF TypeOK
<1>2. con[c] \in ConType
  BY <1>1
<1>3. con'[s] = q /\ \A x \in Conns : x # c /\ x # s => con'[x] = con[x]
  BY <1>1
<1>4. con'[c] = [con[c] EXCEPT !.pc = "wait"]
  BY <1>1
<1>5. /\ con'[c].pc = "wait" /\ SameEnd(con'[c], con[c]) /\ SameWay(con'[c], con[c])
      /\ con'[c] \in ConType
  BY <1>2, <1>4 DEF ConType, SameEnd, SameWay
<1>6. con' \in [Conns -> ConType]
  BY <1>1, <1>3, <1>5
<1> QED
  BY <1>3, <1>5, <1>6

\* setRemovable leaves the rest of the container.
LEMMA Marked ==
  ASSUME DurableOnly, TypeOK, NEW b \in BOOLEAN,
         cont' = [cont EXCEPT ![Established].removable = b]
  PROVE  Containers(cont[Established].lock, cont[Established].ses)
<1>1. Established \in Conns /\ cont \in [Conns -> ContType]
  BY ConstAssumption DEF DurableOnly, TypeOK
<1>2. cont'[Established] \in ContType
  BY <1>1, Zenon DEF ContType
<1>3. cont' \in [Conns -> ContType]
  BY <1>1, <1>2
<1>4. \A k \in Conns : /\ cont'[k].timer = cont[k].timer /\ cont'[k].sub = cont[k].sub
                      /\ cont'[k].removed = cont[k].removed
                      /\ cont'[k].rmLock = cont[k].rmLock
                      /\ cont'[k].lock = cont[k].lock /\ cont'[k].ses = cont[k].ses
  BY <1>1 DEF ContType
<1> QED
  BY <1>1, <1>3, <1>4 DEF Containers

\* A lock is taken or released.
LEMMA Relocked ==
  ASSUME DurableOnly, TypeOK, NEW k \in Conns, NEW l \in {"free", "held"},
         cont' = [cont EXCEPT ![k].lock = l]
  PROVE  /\ k = Established => Containers(l, cont[Established].ses)
         /\ k # Established => Containers(cont[Established].lock, cont[Established].ses)
<1>1. Established \in Conns /\ cont \in [Conns -> ContType]
  BY ConstAssumption DEF DurableOnly, TypeOK
<1>2. cont'[k] \in ContType
  BY <1>1, Zenon DEF ContType
<1>3. cont' \in [Conns -> ContType]
  BY <1>1, <1>2
<1>4. \A x \in Conns : /\ cont'[x].timer = cont[x].timer /\ cont'[x].sub = cont[x].sub
                      /\ cont'[x].removed = cont[x].removed
                      /\ cont'[x].rmLock = cont[x].rmLock /\ cont'[x].ses = cont[x].ses
                      /\ x # k => cont'[x].lock = cont[x].lock
  BY <1>1 DEF ContType
<1>5. cont'[k].lock = l
  BY <1>1 DEF ContType
<1> QED
  BY <1>1, <1>3, <1>4, <1>5 DEF Containers

\* The swap of the session into the container.
LEMMA Swapped ==
  ASSUME DurableOnly, TypeOK, NEW c \in Conns,
         cont' = [cont EXCEPT ![Established].ses = c, ![Established].removable = TRUE]
  PROVE  Containers(cont[Established].lock, c)
<1>1. Established \in Conns /\ cont \in [Conns -> ContType]
  BY ConstAssumption DEF DurableOnly, TypeOK
<1>2. cont'[Established] \in ContType
  BY <1>1, ZenonT(120) DEF ContType, Maybe
<1>3. cont' \in [Conns -> ContType]
  BY <1>1, <1>2
<1>4. \A k \in Conns : /\ cont'[k].timer = cont[k].timer /\ cont'[k].sub = cont[k].sub
                      /\ cont'[k].removed = cont[k].removed
                      /\ cont'[k].rmLock = cont[k].rmLock /\ cont'[k].lock = cont[k].lock
  BY <1>1 DEF ContType
<1>5. cont'[Established].ses = c
  BY <1>1 DEF ContType
<1> QED
  BY <1>1, <1>3, <1>4, <1>5 DEF Containers

\* The release of the container of a taker that is refused.
LEMMA Released ==
  ASSUME DurableOnly, TypeOK,
         cont' = [cont EXCEPT ![Established].removable = TRUE, ![Established].lock = "free"]
  PROVE  Containers("free", cont[Established].ses)
<1>1. Established \in Conns /\ cont \in [Conns -> ContType]
  BY ConstAssumption DEF DurableOnly, TypeOK
<1>2. cont'[Established] \in ContType
  BY <1>1, Zenon DEF ContType
<1>3. cont' \in [Conns -> ContType]
  BY <1>1, <1>2
<1>4. \A k \in Conns : /\ cont'[k].timer = cont[k].timer /\ cont'[k].sub = cont[k].sub
                      /\ cont'[k].removed = cont[k].removed
                      /\ cont'[k].rmLock = cont[k].rmLock /\ cont'[k].ses = cont[k].ses
  BY <1>1 DEF ContType
<1>5. cont'[Established].lock = "free"
  BY <1>1 DEF ContType
<1> QED
  BY <1>1, <1>3, <1>4, <1>5 DEF Containers

\* The session is taken out of the container.
LEMMA Cleared ==
  ASSUME DurableOnly, TypeOK, cont' = [cont EXCEPT ![Established].ses = None]
  PROVE  Containers(cont[Established].lock, None)
<1>1. Established \in Conns /\ cont \in [Conns -> ContType]
  BY ConstAssumption DEF DurableOnly, TypeOK
<1>2. cont'[Established] \in ContType
  BY <1>1, ZenonT(120) DEF ContType, Maybe
<1>3. cont' \in [Conns -> ContType]
  BY <1>1, <1>2
<1>4. \A k \in Conns : /\ cont'[k].timer = cont[k].timer /\ cont'[k].sub = cont[k].sub
                      /\ cont'[k].removed = cont[k].removed
                      /\ cont'[k].rmLock = cont[k].rmLock /\ cont'[k].lock = cont[k].lock
  BY <1>1 DEF ContType
<1>5. cont'[Established].ses = None
  BY <1>1 DEF ContType
<1> QED
  BY <1>1, <1>3, <1>4, <1>5 DEF Containers

\* The connection goes to p with another life.
Turns(c, p, l) ==
  /\ Others(c) /\ con'[c].pc = p /\ con'[c].life = l /\ SameWay(con'[c], con[c])
  /\ con'[c].durable = con[c].durable /\ con'[c].expire = con[c].expire
  /\ con'[c].will = con[c].will /\ con'[c].stopReq = con[c].stopReq

\* Acknowledge and the refusals do that.
LEMMA TurnsTo ==
  ASSUME TypeOK, NEW c \in Conns, NEW p \in PcType, NEW l \in {"live", "closed"},
         con' = [con EXCEPT ![c].pc = p, ![c].life = l]
  PROVE  Turns(c, p, l)
<1>1. con \in [Conns -> ConType] /\ con[c] \in ConType
  BY Zenon DEF TypeOK
<1>2. con' = [con EXCEPT ![c] = Ends(con[c], p, l)]
  BY <1>1, Zenon DEF Ends
<1>3. Ends(con[c], p, l) \in ConType
  BY <1>1, EndsType, Zenon
<1>4. con'[c] = Ends(con[c], p, l) /\ Others(c)
  BY <1>1, <1>2, <1>3, Zenon DEF Others
<1> QED
  BY <1>1, <1>4, EndsType DEF Turns, SameWay

-----------------------------------------------------------------------------
(* A step of OnConnection.                                                 *)

\* No other connection holds the container, and no other one is active.
Only(c) == \A x \in Conns : con[x].pc \in Locked => x = c
Alone(c) == \A x \in Conns : Active(x) => x = c

\* The connection c goes on, as it may: what others rely on changes only when it holds
\* the container, and when none of them is active.
GoesTo(c, l, s) ==
  /\ Others(c) /\ Wish(con'[c]) /\ Way(c)' /\ Current(c)'
  /\ mgr.pc = "run" /\ con[c].pc \notin {"up", "failed", "rejected"}
  /\ Containers(l, s) /\ obj' \in [Conns -> ObjType]
  /\ obj'[Established].topics /\ obj'[Established].to # "nowhere"
  /\ UNCHANGED <<stored, persisted, sessionsCount, expiryCount, wills, mgr, panicked>>
  /\ \/ /\ con'[c].pc = "acquire" /\ con[c].pc = "new" /\ ~Active(c)' /\ UNCHANGED obj
        /\ l = cont[Established].lock /\ s = cont[Established].ses
     \/ /\ Only(c) /\ (con'[c].pc \in Locked => l = "held")
        /\ con'[c].pc \in Taking \/ con[c].pc = "wait" \/ Active(c)' => Alone(c)
        /\ s \in {cont[Established].ses, c}
        /\ s # cont[Established].ses \/ obj' # obj => Alone(c)

\* Such a step keeps the invariant.
LEMMA GoesStep ==
  ASSUME DurableOnly, IInv, NEW c \in Conns, NEW l, NEW s, GoesTo(c, l, s)
  PROVE  IInv'
<1> Established \in Conns /\ None \notin Conns
  BY ConstAssumption DEF DurableOnly
<1>5. TypeOK'
  BY Zenon DEF GoesTo, IInv, TypeOK, Others, Containers
<1>6. Kept'
  BY DEF GoesTo, IInv, Kept, Others, Containers
<1>7. Lock'
  BY DEF GoesTo, IInv, Lock, Others, Active, Locked, Taking, Containers, Only, Alone
<1>8. Stopped'
  BY DEF GoesTo, IInv, Stopped, Others
<1>9. ASSUME NEW x \in Conns PROVE Way(x)'
  BY DEF GoesTo, IInv, Way, Others
<1>10. ASSUME NEW x \in Conns, x # c PROVE Current(x)'
  BY <1>10 DEF GoesTo, IInv, Current, Others, Active, Locked, Containers, Only, Alone
<1> QED
  BY <1>5, <1>6, <1>7, <1>8, <1>9, <1>10, Zenon DEF IInv, GoesTo

\* What a connection that holds the container relies on.
LEMMA Holder ==
  ASSUME DurableOnly, IInv, NEW c \in Conns, con[c].pc \in Locked
  PROVE  /\ Only(c) /\ (con[c].pc \in Taking => Alone(c)) /\ c # Established
         /\ cont[Established].lock = "held" /\ con[c].cur = Established
         /\ mgr.pc = "run" /\ sessionsCount = 1
<1>1. Only(c) /\ (con[c].pc \in Taking => Alone(c)) /\ cont[Established].lock = "held"
  BY DEF IInv, Lock, Only, Alone
<1>2. con[c].cur = Established /\ c # Established
  BY DEF IInv, Way, Locked, Ended
<1>3. mgr.pc = "run" /\ sessionsCount = 1
  BY DEF IInv, Stopped, Locked, Ended
<1> QED
  BY <1>1, <1>2, <1>3, Zenon

\* Acquire: no other connection is past acquire while the lock is free.
LEMMA AcquireStep ==
  ASSUME DurableOnly, IInv, NEW c \in Conns, Acquire(c)
  PROVE  IInv'
<1> Established \in Conns /\ None \notin Conns
  BY ConstAssumption, Zenon DEF DurableOnly
<1>1. con[c].pc = "acquire"
  BY Zenon DEF Acquire
<1>2. TypeOK /\ Way(c) /\ Current(c) /\ Wish(con[c])
  BY Zenon DEF IInv, Kept
<1>3. con[c].cur = Established /\ c # Established /\ mgr.pc = "run"
  BY <1>1, <1>2, Zenon DEF IInv, Way, Stopped, Ended
<1>a. Only(c) /\ cont[Established].lock = "free"
  BY <1>3, Zenon DEF Acquire, IInv, Lock, Only
<1>4. Goes(c, "fence")
  BY <1>2, GoesOn, Zenon DEF Acquire, PcType
<1>5. Containers("held", cont[Established].ses)
  BY <1>2, <1>3, Relocked, Zenon DEF Acquire
<1>6. UNCHANGED <<stored, obj, persisted, sessionsCount, expiryCount, wills, mgr, panicked>>
  BY Zenon DEF Acquire
<1>o. obj \in [Conns -> ObjType] /\ obj[Established].topics /\ obj[Established].to # "nowhere"
  BY <1>3, Zenon DEF IInv, TypeOK, Kept
<1>7. Way(c)' /\ Wish(con'[c])
  BY <1>1, <1>2, <1>3, <1>4 DEF Way, Wish, Goes, SameEnd, SameWay, Ended
<1>8. Current(c)' /\ (Active(c)' <=> Active(c))
  BY <1>1, <1>2, <1>4, <1>5, <1>6 DEF Current, Active, Goes, Others, SameEnd, SameWay,
     Containers, Way
<1>9. GoesTo(c, "held", cont[Established].ses)
  BY <1>1, <1>2, <1>3, <1>4, <1>5, <1>6, <1>7, <1>8, <1>o, <1>a, Zenon
     DEF GoesTo, Goes, Turns, Way, Active, Locked, Taking
<1> QED
  BY <1>9, GoesStep, Zenon

\* Fence changes the mark of the container and nothing else.
LEMMA FenceStep ==
  ASSUME DurableOnly, IInv, NEW c \in Conns, Fence(c)
  PROVE  IInv'
<1> Established \in Conns /\ None \notin Conns
  BY ConstAssumption, Zenon DEF DurableOnly
<1>1. con[c].pc = "fence"
  BY Zenon DEF Fence
<1>2. TypeOK /\ Way(c) /\ Current(c) /\ Wish(con[c])
  BY Zenon DEF IInv, Kept
<1>3. /\ Only(c) /\ c # Established /\ cont[Established].lock = "held"
      /\ con[c].cur = Established /\ mgr.pc = "run"
  BY <1>1, Holder, Zenon DEF Locked
<1>a. cont' = [cont EXCEPT ![Established].removable = FALSE]
  BY <1>3, Zenon DEF Fence
<1>4. Goes(c, "session")
  BY <1>2, GoesOn, Zenon DEF Fence, PcType
<1>5. Containers(cont[Established].lock, cont[Established].ses)
  BY <1>a, <1>2, Marked, Zenon
<1>6. UNCHANGED <<stored, obj, persisted, sessionsCount, expiryCount, wills, mgr, panicked>>
  BY Zenon DEF Fence
<1>o. obj \in [Conns -> ObjType] /\ obj[Established].topics /\ obj[Established].to # "nowhere"
  BY <1>3, Zenon DEF IInv, TypeOK, Kept
<1>7. Way(c)' /\ Wish(con'[c])
  BY <1>1, <1>2, <1>3, <1>4 DEF Way, Wish, Goes, SameEnd, SameWay, Ended
<1>8. Current(c)' /\ (Active(c)' <=> Active(c))
  BY <1>1, <1>2, <1>4, <1>5, <1>6 DEF Current, Active, Goes, Others, SameEnd, SameWay,
     Containers, Way
<1>9. GoesTo(c, cont[Established].lock, cont[Established].ses)
  BY <1>1, <1>2, <1>3, <1>4, <1>5, <1>6, <1>7, <1>8, <1>o, Zenon
     DEF GoesTo, Goes, Turns, Way, Active, Locked, Taking
<1> QED
  BY <1>9, GoesStep, Zenon

\* StopReturns: the old connection is closed, so none is active.
LEMMA StopReturnsStep ==
  ASSUME DurableOnly, IInv, NEW c \in Conns, StopReturns(c)
  PROVE  IInv'
<1> Established \in Conns /\ None \notin Conns
  BY ConstAssumption, Zenon DEF DurableOnly
<1>1. con[c].pc = "wait"
  BY Zenon DEF StopReturns
<1>2. TypeOK /\ Way(c) /\ Current(c) /\ Wish(con[c])
  BY Zenon DEF IInv, Kept
<1>3. /\ Only(c) /\ c # Established /\ cont[Established].lock = "held"
      /\ con[c].cur = Established /\ mgr.pc = "run"
  BY <1>1, Holder, Zenon DEF Locked
<1>4. Goes(c, "cancel")
  BY <1>2, GoesOn, Zenon DEF StopReturns, PcType
<1>5. Containers(cont[Established].lock, cont[Established].ses)
  BY <1>2, Zenon DEF StopReturns, TypeOK, Containers
<1>6. UNCHANGED <<stored, obj, persisted, sessionsCount, expiryCount, wills, mgr, panicked>>
  BY Zenon DEF StopReturns
<1>o. obj \in [Conns -> ObjType] /\ obj[Established].topics /\ obj[Established].to # "nowhere"
  BY <1>3, Zenon DEF IInv, TypeOK, Kept
<1>7. Way(c)' /\ Wish(con'[c])
  BY <1>1, <1>2, <1>3, <1>4 DEF Way, Wish, Goes, SameEnd, SameWay, Ended
<1>8. Current(c)' /\ (Active(c)' <=> Active(c))
  BY <1>1, <1>2, <1>4, <1>5, <1>6 DEF Current, Active, Goes, Others, SameEnd, SameWay,
     Containers, Way
<1>a. ASSUME NEW x \in Conns, Active(x) PROVE x = c
  <2>1. cont[Established].ses = x /\ Current(x)
    BY <1>a, Zenon DEF IInv, Current
  <2>2. cont[Established].ses \in {con[c].old, None} /\ con[con[c].old].life = "closed"
    BY <1>1, <1>2, Zenon DEF Current, StopReturns
  <2> QED
    BY <1>a, <2>1, <2>2 DEF Active
<1>b. Alone(c)
  BY <1>a, Zenon DEF Alone
<1>9. GoesTo(c, cont[Established].lock, cont[Established].ses)
  BY <1>1, <1>2, <1>3, <1>4, <1>5, <1>6, <1>7, <1>8, <1>o, <1>b, Zenon
     DEF GoesTo, Goes, Turns, Way, Active, Locked, Taking
<1> QED
  BY <1>9, GoesStep, Zenon

\* CancelExpiry: there is no timer.
LEMMA CancelExpiryStep ==
  ASSUME DurableOnly, IInv, NEW c \in Conns, CancelExpiry(c)
  PROVE  IInv'
<1> Established \in Conns /\ None \notin Conns
  BY ConstAssumption, Zenon DEF DurableOnly
<1>1. con[c].pc = "cancel"
  BY Zenon DEF CancelExpiry
<1>2. TypeOK /\ Way(c) /\ Current(c) /\ Wish(con[c])
  BY Zenon DEF IInv, Kept
<1>3. /\ Only(c) /\ Alone(c) /\ c # Established /\ cont[Established].lock = "held"
      /\ con[c].cur = Established /\ mgr.pc = "run"
  BY <1>1, Holder, Zenon DEF Locked, Taking
<1>a. con' = [con EXCEPT ![c].pc = "look"] /\ UNCHANGED <<cont, expiryCount>>
  <2>1. cont[con[c].cur].timer = "none"
    BY <1>3, Zenon DEF IInv, Kept
  <2> QED
    BY <2>1, Zenon DEF CancelExpiry
<1>4. Goes(c, "look")
  BY <1>a, <1>2, GoesOn, Zenon DEF PcType
<1>5. Containers(cont[Established].lock, cont[Established].ses)
  BY <1>a, <1>2, Zenon DEF TypeOK, Containers
<1>6. UNCHANGED <<stored, obj, persisted, sessionsCount, expiryCount, wills, mgr, panicked>>
  BY <1>a, Zenon DEF CancelExpiry
<1>o. obj \in [Conns -> ObjType] /\ obj[Established].topics /\ obj[Established].to # "nowhere"
  BY <1>3, Zenon DEF IInv, TypeOK, Kept
<1>7. Way(c)' /\ Wish(con'[c])
  BY <1>1, <1>2, <1>3, <1>4 DEF Way, Wish, Goes, SameEnd, SameWay, Ended
<1>8. Current(c)' /\ (Active(c)' <=> Active(c))
  BY <1>1, <1>2, <1>4, <1>5, <1>6 DEF Current, Active, Goes, Others, SameEnd, SameWay,
     Containers, Way
<1>9. GoesTo(c, cont[Established].lock, cont[Established].ses)
  BY <1>1, <1>2, <1>3, <1>4, <1>5, <1>6, <1>7, <1>8, <1>o, Zenon
     DEF GoesTo, Goes, Turns, Way, Active, Locked, Taking
<1> QED
  BY <1>9, GoesStep, Zenon

\* Start unlocks a container that is locked.
LEMMA StartStep ==
  ASSUME DurableOnly, IInv, NEW c \in Conns, Start(c)
  PROVE  IInv'
<1> Established \in Conns /\ None \notin Conns
  BY ConstAssumption, Zenon DEF DurableOnly
<1>1. con[c].pc = "start"
  BY Zenon DEF Start
<1>2. TypeOK /\ Way(c) /\ Current(c) /\ Wish(con[c])
  BY Zenon DEF IInv, Kept
<1>3. /\ Only(c) /\ Alone(c) /\ c # Established /\ cont[Established].lock = "held"
      /\ con[c].cur = Established /\ mgr.pc = "run"
  BY <1>1, Holder, Zenon DEF Locked, Taking
<1>a. cont' = [cont EXCEPT ![Established].lock = "free"] /\ panicked' = panicked
  <2>1. con[c].idLock = Established /\ cont[Established].lock # "free"
    BY <1>1, <1>2, <1>3, Zenon DEF Way
  <2> QED
    BY <2>1, Zenon DEF Start
<1>4. Goes(c, "up")
  BY <1>2, GoesOn, Zenon DEF Start, PcType
<1>5. Containers("free", cont[Established].ses)
  BY <1>a, <1>2, Relocked, Zenon
<1>6. UNCHANGED <<stored, obj, persisted, sessionsCount, expiryCount, wills, mgr, panicked>>
  BY <1>a, Zenon DEF Start
<1>o. obj \in [Conns -> ObjType] /\ obj[Established].topics /\ obj[Established].to # "nowhere"
  BY <1>3, Zenon DEF IInv, TypeOK, Kept
<1>7. Way(c)' /\ Wish(con'[c])
  BY <1>1, <1>2, <1>3, <1>4 DEF Way, Wish, Goes, SameEnd, SameWay, Ended
<1>8. Current(c)' /\ (Active(c)' <=> Active(c))
  BY <1>1, <1>2, <1>4, <1>5, <1>6 DEF Current, Active, Goes, Others, SameEnd, SameWay,
     Containers, Way
<1>9. GoesTo(c, "free", cont[Established].ses)
  BY <1>1, <1>2, <1>3, <1>4, <1>5, <1>6, <1>7, <1>8, <1>o, Zenon
     DEF GoesTo, Goes, Turns, Way, Active, Locked, Taking
<1> QED
  BY <1>9, GoesStep, Zenon

\* LoadOrStore finds the established container.
LEMMA LoadOrStoreStep ==
  ASSUME DurableOnly, IInv, NEW c \in Conns, LoadOrStore(c)
  PROVE  IInv'
<1> Established \in Conns /\ None \notin Conns
  BY ConstAssumption, Zenon DEF DurableOnly
<1>1. con[c].pc = "new"
  BY Zenon DEF LoadOrStore
<1>2. TypeOK /\ Way(c) /\ Current(c) /\ Wish(con[c])
  BY Zenon DEF IInv, Kept
<1>3. c # Established /\ mgr.pc = "run" /\ stored = Established
  BY <1>1, <1>2, Zenon DEF Way, IInv, Kept, LoadOrStore
<1>a. /\ con' = [con EXCEPT ![c].pc = "acquire", ![c].cur = Established, ![c].idLock = c]
      /\ cont' = [cont EXCEPT ![c].lock = "free"] /\ UNCHANGED <<stored, sessionsCount>>
  BY <1>3, Zenon DEF LoadOrStore
<1>4. /\ Others(c) /\ SameEnd(con'[c], con[c])
      /\ con'[c].pc = "acquire" /\ con'[c].cur = Established
  <2>1. con \in [Conns -> ConType] /\ con[c] \in ConType
    BY <1>2, Zenon DEF TypeOK
  <2>2. con' = [con EXCEPT ![c] = Loads(con[c], c)]
    BY <1>a, <2>1, Zenon DEF Loads
  <2> QED
    BY <2>1, <2>2, LoadsType DEF Others
<1>5. Containers(cont[Established].lock, cont[Established].ses)
  BY <1>a, <1>2, <1>3, Relocked, Zenon
<1>6. UNCHANGED <<stored, obj, persisted, sessionsCount, expiryCount, wills, mgr, panicked>>
  BY <1>a, Zenon DEF LoadOrStore
<1>o. obj \in [Conns -> ObjType] /\ obj[Established].topics /\ obj[Established].to # "nowhere"
  BY <1>3, Zenon DEF IInv, TypeOK, Kept
<1>7. Way(c)' /\ Wish(con'[c])
  BY <1>1, <1>2, <1>3, <1>4 DEF Way, Wish, SameEnd, Ended
<1>8. Current(c)' /\ ~Active(c)'
  BY <1>1, <1>2, <1>4, <1>5 DEF Current, Active, SameEnd, Containers, Way
<1>9. GoesTo(c, cont[Established].lock, cont[Established].ses)
  BY <1>1, <1>2, <1>3, <1>4, <1>5, <1>6, <1>7, <1>8, <1>o, Zenon
     DEF GoesTo, Goes, Turns, Way, Active, Locked, Taking
<1> QED
  BY <1>9, GoesStep, Zenon

\* Session: a taker that is refused releases the container.
LEMMA RefuseStep ==
  ASSUME DurableOnly, IInv, NEW c \in Conns, Session(c), cont[Established].ses # None, ~Preempts
  PROVE  IInv'
<1> Established \in Conns /\ None \notin Conns
  BY ConstAssumption, Zenon DEF DurableOnly
<1>1. con[c].pc = "session"
  BY Zenon DEF Session
<1>2. TypeOK /\ Way(c) /\ Current(c) /\ Wish(con[c])
  BY Zenon DEF IInv, Kept
<1>3. /\ Only(c) /\ c # Established /\ cont[Established].lock = "held"
      /\ con[c].cur = Established /\ mgr.pc = "run"
  BY <1>1, Holder, Zenon DEF Locked
<1>a. /\ con' = [con EXCEPT ![c].pc = "rejected", ![c].life = "closed"]
      /\ cont' = [cont EXCEPT ![Established].removable = TRUE, ![Established].lock = "free"]
  BY <1>3, Zenon DEF Session
<1>4. Turns(c, "rejected", "closed")
  BY <1>2, <1>a, TurnsTo, Zenon DEF PcType
<1>5. Containers("free", cont[Established].ses)
  BY <1>a, <1>2, Released, Zenon
<1>6. UNCHANGED <<stored, obj, persisted, sessionsCount, expiryCount, wills, mgr, panicked>>
  BY Zenon DEF Session
<1>o. obj \in [Conns -> ObjType] /\ obj[Established].topics /\ obj[Established].to # "nowhere"
  BY <1>3, Zenon DEF IInv, TypeOK, Kept
<1>7. Way(c)' /\ Wish(con'[c])
  BY <1>1, <1>2, <1>3, <1>4 DEF Way, Wish, Turns, Ended
<1>8. Current(c)' /\ ~Active(c)'
  BY <1>4 DEF Current, Active, Turns
<1>9. GoesTo(c, "free", cont[Established].ses)
  BY <1>1, <1>2, <1>3, <1>4, <1>5, <1>6, <1>7, <1>8, <1>o, Zenon
     DEF GoesTo, Goes, Turns, Way, Active, Locked, Taking
<1> QED
  BY <1>9, GoesStep, Zenon

\* Session: a taker remembers the session it found, and when there is none, none is
\* active.
LEMMA FindStep ==
  ASSUME DurableOnly, IInv, NEW c \in Conns, Session(c),
         cont[Established].ses = None \/ Preempts
  PROVE  IInv'
<1> Established \in Conns /\ None \notin Conns
  BY ConstAssumption, Zenon DEF DurableOnly
<1>1. con[c].pc = "session"
  BY Zenon DEF Session
<1>2. TypeOK /\ Way(c) /\ Current(c) /\ Wish(con[c])
  BY Zenon DEF IInv, Kept
<1>3. /\ Only(c) /\ c # Established /\ cont[Established].lock = "held"
      /\ con[c].cur = Established /\ mgr.pc = "run"
  BY <1>1, Holder, Zenon DEF Locked
<1>p. PICK s \in Maybe, p \in {"cancel", "stop"} :
        /\ s = cont[Established].ses /\ (p = "cancel" <=> s = None)
        /\ con' = [con EXCEPT ![c].pc = p, ![c].old = s]
  <2>1. cont[Established].ses \in Maybe
    BY <1>2 DEF TypeOK, ContType
  <2>2. con' = [con EXCEPT ![c].pc = IF cont[Established].ses = None THEN "cancel" ELSE "stop",
                           ![c].old = cont[Established].ses]
    BY <1>3, Zenon DEF Session
  <2> QED
    BY <2>1, <2>2, Zenon
<1>4. /\ Others(c) /\ SameEnd(con'[c], con[c]) /\ con'[c].pc = p
      /\ con'[c].old = s /\ con'[c].cur = con[c].cur
  <2>1. con \in [Conns -> ConType] /\ con[c] \in ConType
    BY <1>2, Zenon DEF TypeOK
  <2>2. con' = [con EXCEPT ![c] = Finds(con[c], p, s)]
    BY <1>p, <2>1, Zenon DEF Finds
  <2> QED
    BY <2>1, <2>2, FindsType DEF Others
<1>5. Containers(cont[Established].lock, cont[Established].ses)
  BY <1>2, <1>3, Zenon DEF Session, TypeOK, Containers
<1>6. UNCHANGED <<stored, obj, persisted, sessionsCount, expiryCount, wills, mgr, panicked>>
  BY Zenon DEF Session
<1>o. obj \in [Conns -> ObjType] /\ obj[Established].topics /\ obj[Established].to # "nowhere"
  BY <1>3, Zenon DEF IInv, TypeOK, Kept
<1>7. Way(c)' /\ Wish(con'[c])
  BY <1>1, <1>2, <1>3, <1>4 DEF Way, Wish, SameEnd, Ended
<1>a. s # None => s \in Conns \ {c} /\ con[s].pc \in {"up", "failed", "rejected"}
  <2>1. s # c
    BY <1>1, <1>2, <1>p, Zenon DEF Current
  <2>2. ASSUME s \in Conns PROVE con[s].pc \in {"up", "failed", "rejected"}
    <3>1. con[s].pc \in PcType /\ Current(s) /\ con[s].pc \notin Locked
      BY <1>2, <1>3, <2>1, <2>2 DEF IInv, TypeOK, ConType, PcType, Only
    <3>2. con[s].pc # "hung"
      BY <2>2, Zenon DEF IInv, Way
    <3>3. con[s].pc \in {"new", "acquire", "up", "failed", "rejected"}
      BY <3>1 DEF PcType, Locked
    <3> QED
      BY <1>p, <2>2, <3>1, <3>3, Zenon DEF Current
  <2> QED
    BY <2>1, <2>2, Zenon DEF Maybe
<1>b. s = None => Alone(c)
  <2>1. \A x \in Conns : Active(x) => cont[Established].ses = x
    BY Zenon DEF IInv, Current
  <2> QED
    BY <1>p, <2>1, Zenon DEF Alone
<1>8. Current(c)' /\ ~Active(c)'
  <2>1. s # None => con'[s] = con[s]
    BY <1>4, <1>a, Zenon DEF Others
  <2> QED
    BY <1>1, <1>2, <1>4, <1>5, <1>a, <1>p, <2>1
       DEF Current, Active, SameEnd, Containers, Way
<1>9. GoesTo(c, cont[Established].lock, cont[Established].ses)
  BY <1>1, <1>2, <1>3, <1>4, <1>5, <1>6, <1>7, <1>8, <1>o, <1>p, <1>b, Zenon
     DEF GoesTo, Goes, Turns, Way, Active, Locked, Taking
<1> QED
  BY <1>9, GoesStep, Zenon

\* StopCurrent when the session has been asked to stop before: nobody but this taker
\* could have asked it, so it is closed.
LEMMA StoppedBeforeStep ==
  ASSUME DurableOnly, IInv, NEW c \in Conns, StopCurrent(c), con[con[c].old].stopReq = "taken"
  PROVE  IInv'
<1> Established \in Conns /\ None \notin Conns
  BY ConstAssumption, Zenon DEF DurableOnly
<1>1. con[c].pc = "stop"
  BY Zenon DEF StopCurrent
<1>2. TypeOK /\ Way(c) /\ Current(c) /\ Wish(con[c])
  BY Zenon DEF IInv, Kept
<1>3. /\ Only(c) /\ c # Established /\ cont[Established].lock = "held"
      /\ con[c].cur = Established /\ mgr.pc = "run"
  BY <1>1, Holder, Zenon DEF Locked
<1>n. ~NilWriter(con[c].old)
  BY Zenon DEF NilWriter
<1>a. con' = [con EXCEPT ![c].pc = "cancel"] /\ UNCHANGED cont
  BY <1>n, Zenon DEF StopCurrent
<1>4. Goes(c, "cancel")
  BY <1>a, <1>2, GoesOn, Zenon DEF PcType
<1>5. Containers(cont[Established].lock, cont[Established].ses)
  BY <1>a, <1>2, Zenon DEF TypeOK, Containers
<1>6. UNCHANGED <<stored, obj, persisted, sessionsCount, expiryCount, wills, mgr, panicked>>
  BY <1>n, Zenon DEF StopCurrent
<1>o. obj \in [Conns -> ObjType] /\ obj[Established].topics /\ obj[Established].to # "nowhere"
  BY <1>3, Zenon DEF IInv, TypeOK, Kept
<1>7. Way(c)' /\ Wish(con'[c])
  BY <1>1, <1>2, <1>3, <1>4 DEF Way, Wish, Goes, SameEnd, SameWay, Ended
<1>8. Current(c)' /\ (Active(c)' <=> Active(c))
  BY <1>1, <1>2, <1>4, <1>5, <1>6 DEF Current, Active, Goes, Others, SameEnd, SameWay,
     Containers, Way
<1>b. ASSUME NEW x \in Conns, Active(x) PROVE FALSE
  <2>1. x = con[c].old /\ Current(x)
    <3>1. Current(x) /\ cont[Established].ses = x
      BY <1>b, Zenon DEF IInv, Current
    <3>2. cont[Established].ses \in {con[c].old, None}
      BY <1>1, <1>2, Zenon DEF Current
    <3> QED
      BY <3>1, <3>2, Zenon
  <2>2. \E d \in Conns : con[d].pc = "wait"
    BY <1>3, <1>b, <2>1, Zenon DEF Current
  <2>3. con[c].pc = "wait"
    BY <1>3, <2>2 DEF Only, Locked
  <2> QED
    BY <1>1, <2>3
<1>c. Alone(c)
  BY <1>b, Zenon DEF Alone
<1>9. GoesTo(c, cont[Established].lock, cont[Established].ses)
  BY <1>1, <1>2, <1>3, <1>4, <1>5, <1>6, <1>7, <1>8, <1>o, <1>c, Zenon
     DEF GoesTo, Goes, Turns, Way, Active, Locked, Taking
<1> QED
  BY <1>9, GoesStep, Zenon

\* Look puts the session into the container, which is not removed.
LEMMA LookStep ==
  ASSUME DurableOnly, IInv, NEW c \in Conns, Look(c)
  PROVE  IInv'
<1> Established \in Conns /\ None \notin Conns
  BY ConstAssumption, Zenon DEF DurableOnly
<1>1. con[c].pc = "look"
  BY Zenon DEF Look
<1>2. TypeOK /\ Way(c) /\ Current(c) /\ Wish(con[c])
  BY Zenon DEF IInv, Kept
<1>3. /\ Only(c) /\ Alone(c) /\ c # Established /\ cont[Established].lock = "held"
      /\ con[c].cur = Established /\ mgr.pc = "run"
  BY <1>1, Holder, Zenon DEF Locked, Taking
<1>a. /\ con' = [con EXCEPT ![c].pc = "subscriber", ![c].idLock = Established]
      /\ cont' = [cont EXCEPT ![Established].ses = c, ![Established].removable = TRUE]
      /\ UNCHANGED <<stored, sessionsCount>>
  <2>1. ~cont[con[c].cur].removed
    BY <1>3, Zenon DEF IInv, Kept
  <2> QED
    BY <1>3, <2>1, Zenon DEF Look, Swap
<1>4. /\ Others(c) /\ SameEnd(con'[c], con[c]) /\ con'[c].pc = "subscriber"
      /\ con'[c].cur = con[c].cur /\ con'[c].idLock = Established
  <2>1. con \in [Conns -> ConType] /\ con[c] \in ConType
    BY <1>2, Zenon DEF TypeOK
  <2>2. con' = [con EXCEPT ![c] = Takes(con[c])]
    BY <1>a, <2>1, Zenon DEF Takes
  <2> QED
    BY <2>1, <2>2, TakesType DEF Others
<1>5. Containers(cont[Established].lock, c)
  BY <1>a, <1>2, Swapped, Zenon
<1>6. UNCHANGED <<stored, obj, persisted, sessionsCount, expiryCount, wills, mgr, panicked>>
  BY <1>a, Zenon DEF Look
<1>o. obj \in [Conns -> ObjType] /\ obj[Established].topics /\ obj[Established].to # "nowhere"
  BY <1>3, Zenon DEF IInv, TypeOK, Kept
<1>7. Way(c)' /\ Wish(con'[c])
  BY <1>1, <1>2, <1>3, <1>4 DEF Way, Wish, SameEnd, Ended
<1>8. Current(c)' /\ ~Active(c)'
  BY <1>1, <1>2, <1>4, <1>5 DEF Current, Active, SameEnd, Containers, Way
<1>9. GoesTo(c, cont[Established].lock, c)
  BY <1>1, <1>2, <1>3, <1>4, <1>5, <1>6, <1>7, <1>8, <1>o, Zenon
     DEF GoesTo, Goes, Turns, Way, Active, Locked, Taking
<1> QED
  BY <1>9, GoesStep, Zenon

\* Subscriber finds the subscriber and the persisted state.
LEMMA SubscriberStep ==
  ASSUME DurableOnly, IInv, NEW c \in Conns, Subscriber(c)
  PROVE  IInv'
<1> Established \in Conns /\ None \notin Conns
  BY ConstAssumption, Zenon DEF DurableOnly
<1>1. con[c].pc = "subscriber"
  BY Zenon DEF Subscriber
<1>2. TypeOK /\ Way(c) /\ Current(c) /\ Wish(con[c])
  BY Zenon DEF IInv, Kept
<1>3. /\ Only(c) /\ Alone(c) /\ c # Established /\ cont[Established].lock = "held"
      /\ con[c].cur = Established /\ mgr.pc = "run"
  BY <1>1, Holder, Zenon DEF Locked, Taking
<1>b. ~con[c].kind.clean /\ persisted /\ cont[Established].sub = Established
  BY <1>2 DEF DurableOnly, IInv, Kept, TypeOK, ConType
<1>a. /\ con' = [con EXCEPT ![c].pc = "ack", ![c].sub = Established]
      /\ UNCHANGED <<obj, cont, persisted>>
  <2>1. ~(cont[con[c].cur].sub = None \/ con[c].kind.clean)
    BY <1>3, <1>b, Zenon DEF DurableOnly
  <2> QED
    BY <1>3, <1>b, <2>1, Zenon DEF Subscriber
<1>4. /\ Others(c) /\ SameEnd(con'[c], con[c]) /\ con'[c].pc = "ack"
      /\ con'[c].cur = con[c].cur /\ con'[c].idLock = con[c].idLock
      /\ con'[c].sub = Established
  <2>1. con \in [Conns -> ConType] /\ con[c] \in ConType
    BY <1>2, Zenon DEF TypeOK
  <2>2. con' = [con EXCEPT ![c] = Gets(con[c])]
    BY <1>a, <2>1, Zenon DEF Gets
  <2> QED
    BY <2>1, <2>2, GetsType DEF Others
<1>5. Containers(cont[Established].lock, cont[Established].ses)
  BY <1>a, <1>2, Zenon DEF TypeOK, Containers
<1>6. UNCHANGED <<stored, obj, persisted, sessionsCount, expiryCount, wills, mgr, panicked>>
  BY <1>a, Zenon DEF Subscriber
<1>o. obj \in [Conns -> ObjType] /\ obj[Established].topics /\ obj[Established].to # "nowhere"
  BY <1>3, Zenon DEF IInv, TypeOK, Kept
<1>7. Way(c)' /\ Wish(con'[c])
  BY <1>1, <1>2, <1>3, <1>4 DEF Way, Wish, SameEnd, Ended
<1>8. Current(c)' /\ ~Active(c)'
  BY <1>1, <1>2, <1>4, <1>5 DEF Current, Active, SameEnd, Containers, Way
<1>9. GoesTo(c, cont[Established].lock, cont[Established].ses)
  BY <1>1, <1>2, <1>3, <1>4, <1>5, <1>6, <1>7, <1>8, <1>o, Zenon
     DEF GoesTo, Goes, Turns, Way, Active, Locked, Taking
<1> QED
  BY <1>9, GoesStep, Zenon

\* Acknowledge: the connection is active from now on, or the container stays locked.
LEMMA AcknowledgeStep ==
  ASSUME DurableOnly, IInv, NEW c \in Conns, Acknowledge(c)
  PROVE  IInv'
<1> Established \in Conns /\ None \notin Conns
  BY ConstAssumption, Zenon DEF DurableOnly
<1>1. con[c].pc = "ack"
  BY Zenon DEF Acknowledge
<1>2. TypeOK /\ Way(c) /\ Current(c) /\ Wish(con[c])
  BY Zenon DEF IInv, Kept
<1>3. /\ Only(c) /\ Alone(c) /\ c # Established /\ cont[Established].lock = "held"
      /\ con[c].cur = Established /\ mgr.pc = "run"
  BY <1>1, Holder, Zenon DEF Locked, Taking
<1>p. PICK p \in {"online", "failed"}, l \in {"live", "closed"} :
        /\ con' = [con EXCEPT ![c].pc = p, ![c].life = l]
        /\ p = "online" <=> l = "live"
  BY Zenon DEF Acknowledge
<1>4. Turns(c, p, l)
  <2>1. p \in PcType
    BY DEF PcType
  <2> QED
    BY <1>2, <1>p, <2>1, TurnsTo, Zenon
<1>5. Containers(cont[Established].lock, cont[Established].ses)
  BY <1>2, Zenon DEF Acknowledge, TypeOK, Containers
<1>6. UNCHANGED <<stored, obj, persisted, sessionsCount, expiryCount, wills, mgr, panicked>>
  BY Zenon DEF Acknowledge
<1>o. obj \in [Conns -> ObjType] /\ obj[Established].topics /\ obj[Established].to # "nowhere"
  BY <1>3, Zenon DEF IInv, TypeOK, Kept
<1>7. Way(c)' /\ Wish(con'[c])
  BY <1>1, <1>2, <1>3, <1>4, <1>p DEF Way, Wish, Turns, SameWay, Ended
<1>8. Current(c)'
  BY <1>1, <1>2, <1>4, <1>5, <1>p DEF Current, Active, Turns, SameWay, Containers, Way
<1>9. GoesTo(c, cont[Established].lock, cont[Established].ses)
  BY <1>1, <1>2, <1>3, <1>4, <1>5, <1>6, <1>7, <1>8, <1>o, Zenon
     DEF GoesTo, Goes, Turns, Way, Active, Locked, Taking
<1> QED
  BY <1>9, GoesStep, Zenon

\* SignalOnline directs the subscriber to the connection; no other one is active.
LEMMA SignalOnlineStep ==
  ASSUME DurableOnly, IInv, NEW c \in Conns, SignalOnline(c)
  PROVE  IInv'
<1> Established \in Conns /\ None \notin Conns
  BY ConstAssumption, Zenon DEF DurableOnly
<1>1. con[c].pc = "online"
  BY Zenon DEF SignalOnline
<1>2. TypeOK /\ Way(c) /\ Current(c) /\ Wish(con[c])
  BY Zenon DEF IInv, Kept
<1>3. /\ Only(c) /\ Alone(c) /\ c # Established /\ cont[Established].lock = "held"
      /\ con[c].cur = Established /\ mgr.pc = "run"
  BY <1>1, Holder, Zenon DEF Locked, Taking
<1>o. obj \in [Conns -> ObjType] /\ obj[Established].topics /\ obj[Established].to # "nowhere"
  BY <1>3, Zenon DEF IInv, TypeOK, Kept
<1>a. /\ con' = [con EXCEPT ![c].pc = "start"]
      /\ obj' = [obj EXCEPT ![Established] = [obj[Established] EXCEPT !.to = c]]
  <2>1. con[c].sub = Established
    BY <1>1, <1>2, Zenon DEF Way
  <2> QED
    BY <1>o, <2>1, Zenon DEF SignalOnline, Online, DurableOnly
<1>4. Goes(c, "start")
  BY <1>a, <1>2, GoesOn, Zenon DEF PcType
<1>5. Containers(cont[Established].lock, cont[Established].ses)
  BY <1>2, Zenon DEF SignalOnline, TypeOK, Containers
<1>6. UNCHANGED <<stored, persisted, sessionsCount, expiryCount, wills, mgr, panicked>>
  BY Zenon DEF SignalOnline
<1>b. /\ obj' \in [Conns -> ObjType] /\ obj'[Established].topics
      /\ obj'[Established].to = c /\ c # "nowhere"
  <2>1. obj[Established] \in ObjType /\ c # "nowhere"
    BY <1>o, ConstAssumption, Zenon
  <2>2. /\ [obj[Established] EXCEPT !.to = c] \in ObjType
        /\ [obj[Established] EXCEPT !.to = c].topics = obj[Established].topics
        /\ [obj[Established] EXCEPT !.to = c].to = c
    BY <2>1 DEF ObjType
  <2> QED
    BY <1>a, <1>o, <2>1, <2>2
<1>7. Way(c)' /\ Wish(con'[c])
  BY <1>1, <1>2, <1>3, <1>4 DEF Way, Wish, Goes, SameEnd, SameWay, Ended
<1>8. Current(c)'
  <2>1. /\ con'[c].pc = "start" /\ con'[c].life = con[c].life
        /\ con'[c].stopReq = con[c].stopReq
        /\ cont'[Established].ses = cont[Established].ses /\ mgr' = mgr
    BY <1>4, <1>5, <1>6, Zenon DEF Goes, SameEnd, Containers
  <2>2. \A d \in Conns : con[d].pc = "wait" => con'[d] = con[d]
    BY <1>1, <1>4, Zenon DEF Goes, Others
  <2> QED
    BY <1>1, <1>2, <1>b, <2>1, <2>2, ZenonT(200) DEF Current, Active
<1>9. GoesTo(c, cont[Established].lock, cont[Established].ses)
  BY <1>1, <1>2, <1>3, <1>4, <1>5, <1>6, <1>7, <1>8, <1>o, <1>b, Zenon
     DEF GoesTo, Goes, Turns, Way, Active, Locked, Taking
<1> QED
  BY <1>9, GoesStep, Zenon

\* StopCurrent asks the session to stop: it starts to close, or is closing, or closed.
LEMMA StopCurrentStep ==
  ASSUME DurableOnly, IInv, NEW c \in Conns, StopCurrent(c), con[con[c].old].stopReq # "taken",
         ~NilWriter(con[c].old)
  PROVE  IInv'
<1> Established \in Conns /\ None \notin Conns
  BY ConstAssumption, Zenon DEF DurableOnly
<1>1. con[c].pc = "stop"
  BY Zenon DEF StopCurrent
<1>2. TypeOK /\ Way(c) /\ Current(c) /\ Wish(con[c])
  BY Zenon DEF IInv, Kept
<1>3. /\ Only(c) /\ c # Established /\ cont[Established].lock = "held"
      /\ con[c].cur = Established /\ mgr.pc = "run"
  BY <1>1, Holder, Zenon DEF Locked
<1>s. PICK s : s = con[c].old
  OBVIOUS
<1>a. /\ s \in Conns \ {c} /\ con[s].pc \in {"up", "failed", "rejected"}
      /\ cont[Established].ses \in {s, None}
  BY <1>1, <1>2, <1>s, Zenon DEF Current
<1>b. Way(s) /\ Current(s) /\ Wish(con[s]) /\ con[s] \in ConType
  BY <1>a, <1>2, Zenon DEF IInv, Kept, TypeOK
<1>q. PICK l \in {"closed", "offline", "close", "gone"} :
        /\ StopEffect(s) = Quits(con[s], l)
        /\ l = IF con[s].life = "live" THEN "offline" ELSE con[s].life
  <2>1. con[s].life \in {"live", "offline", "close", "gone", "closed"}
    <3>1. con[s].life \in {"new", "live", "offline", "close", "gone", "wipe", "closed"}
      BY <1>b, Zenon DEF ConType
    <3> QED
      BY <1>a, <1>b, <3>1, Zenon DEF Way, Wish
  <2> QED
    BY <1>2, <1>a, <2>1, StopEffectIs, Zenon
<1>c. Closes(Quits(con[s], l), con[s], l) /\ Quits(con[s], l).keep = con[s].keep
  BY <1>b, QuitsType, Zenon DEF Wish
<1>4. /\ con' \in [Conns -> ConType] /\ con'[s] = Quits(con[s], l)
      /\ \A x \in Conns : x # c /\ x # s => con'[x] = con[x]
      /\ con'[c].pc = "wait" /\ SameEnd(con'[c], con[c]) /\ SameWay(con'[c], con[c])
  <2>1. con' = [con EXCEPT ![s] = Quits(con[s], l), ![c].pc = "wait"]
    BY <1>s, <1>q, Zenon DEF StopCurrent
  <2>2. Quits(con[s], l) \in ConType
    BY <1>c, Zenon DEF Closes
  <2> QED
    BY <2>1, <2>2, <1>2, <1>a, TwoWrites, Zenon
<1>5. Containers(cont[Established].lock, cont[Established].ses)
  BY <1>2, Zenon DEF StopCurrent, TypeOK, Containers
<1>6. UNCHANGED <<stored, obj, persisted, sessionsCount, expiryCount, wills, mgr, panicked>>
  BY Zenon DEF StopCurrent
<1>d. /\ Closes(con'[s], con[s], l) /\ con'[s].keep = con[s].keep
      /\ (Active(s)' => Active(s)) /\ con'[s].life # "live" /\ ~Active(c) /\ ~Active(c)'
  <2>1. con[c].life = "new" /\ con'[c].life = "new"
    BY <1>1, <1>2, <1>4, Zenon DEF Way, SameEnd
  <2>2. con'[s].life = l
    BY <1>4, <1>c, Zenon DEF Closes
  <2> QED
    BY <1>4, <1>c, <1>q, <2>1, <2>2, Zenon DEF Active
<1>e. \A x \in Conns : Active(x) => x = s
  <2>1. \A x \in Conns : Active(x) => cont[Established].ses = x
    BY Zenon DEF IInv, Current
  <2> QED
    BY <2>1, <1>a, Zenon
<1>5a. TypeOK'
  BY <1>2, <1>4, <1>5, <1>6, Zenon DEF TypeOK, Containers
<1>6a. Kept'
  <2>1. Wish(con'[c]) /\ Wish(con'[s])
    BY <1>2, <1>4, <1>b, <1>d, <1>q DEF Wish, SameEnd, Closes
  <2>2. \A x \in Conns : Wish(con'[x])
    BY <1>4, <2>1, Zenon DEF IInv, Kept
  <2> QED
    BY <1>5, <1>6, <2>2 DEF IInv, Kept, Containers
<1>7a. Lock'
  <2>1. \A x \in Conns : con'[x].pc \in Locked => x = c
    BY <1>3, <1>4, <1>a, <1>d DEF Only, Closes, Locked
  <2>2. cont'[Established].lock = "held" /\ con'[c].pc \notin Taking
    BY <1>3, <1>4, <1>5 DEF Containers, Taking
  <2>3. Taking \subseteq Locked
    BY DEF Taking, Locked
  <2> QED
    BY <2>1, <2>2, <2>3, Zenon DEF Lock
<1>8a. Stopped'
  BY <1>3, <1>6 DEF IInv, Stopped
<1>9a. ASSUME NEW x \in Conns PROVE Way(x)'
  <2>1. Way(c)'
    BY <1>1, <1>2, <1>3, <1>4 DEF Way, SameEnd, SameWay, Ended
  <2>2. Way(s)'
    BY <1>a, <1>b, <1>d, <1>q DEF Way, Closes, SameWay, Ended
  <2>3. CASE x # s /\ x # c
    <3>1. con'[x] = con[x] /\ Way(x)
      BY <1>4, <2>3, Zenon DEF IInv
    <3> QED
      BY <3>1 DEF Way
  <2> QED
    BY <2>1, <2>2, <2>3, Zenon
<1>10a. ASSUME NEW x \in Conns PROVE Current(x)'
  <2>1. con'[c].old = s /\ con'[s].pc = con[s].pc
    BY <1>s, <1>4, <1>d, Zenon DEF SameWay, Closes
  <2>2. cont'[Established].ses = cont[Established].ses
    BY <1>5, Zenon DEF Containers
  <2>3. Current(s)'
    BY <1>4, <1>a, <1>b, <1>d, <2>1, <2>2, ZenonT(60) DEF Current
  <2>4. Current(c)'
    BY <1>1, <1>2, <1>4, <1>a, <1>d, <2>1, <2>2, ZenonT(60) DEF Current, Active
  <2>5. CASE x # s /\ x # c
    <3>1. con'[x] = con[x] /\ ~Active(x) /\ Current(x) /\ con[x].pc \notin Locked
      BY <1>3, <1>4, <1>e, <2>5, Zenon DEF IInv, Only
    <3> QED
      BY <1>6, <2>2, <3>1 DEF Current, Active, Locked
  <2> QED
    BY <2>3, <2>4, <2>5, Zenon
<1> QED
  BY <1>5a, <1>6a, <1>7a, <1>8a, <1>9a, <1>10a, Zenon DEF IInv

-----------------------------------------------------------------------------
(* The close of a connection.                                              *)

\* A step of the close keeps the container and the subscriptions; its last one takes
\* the session out of the container.
CloseTo(c, l) ==
  /\ Active(c) /\ Others(c) /\ Closes(con'[c], con[c], l)
  /\ l = "gone" => con'[c].keep
  /\ l # "closed" => con'[c].stopReq = con[c].stopReq
  /\ Containers(cont[Established].lock, IF l = "closed" THEN None ELSE c)
  /\ obj' \in [Conns -> ObjType] /\ obj'[Established].topics
  /\ obj'[Established].to # "nowhere" /\ wills' \subseteq Conns
  /\ UNCHANGED <<stored, persisted, sessionsCount, expiryCount, mgr, panicked>>

\* None but this connection is active, so nobody else is told or waited for.
LEMMA CloseStep ==
  ASSUME DurableOnly, IInv, NEW c \in Conns, NEW l \in {"offline", "close", "gone", "closed"},
         CloseTo(c, l)
  PROVE  IInv'
<1> Established \in Conns /\ None \notin Conns
  BY ConstAssumption, Zenon DEF DurableOnly
<1>1. /\ Active(c) /\ Others(c) /\ Closes(con'[c], con[c], l) /\ (l = "gone" => con'[c].keep)
      /\ l # "closed" => con'[c].stopReq = con[c].stopReq
  BY Zenon DEF CloseTo
<1>2. TypeOK /\ Way(c) /\ Current(c) /\ Wish(con[c])
  BY Zenon DEF IInv, Kept
<1>3. /\ cont[Established].ses = c /\ con[c].pc \in {"online", "start", "up"}
      /\ \A x \in Conns : Active(x) => x = c
  <2>1. \A x \in Conns : Active(x) => cont[Established].ses = x
    BY Zenon DEF IInv, Current
  <2>2. con[c].pc \in {"online", "start", "up"}
    BY <1>1, <1>2, Zenon DEF Current
  <2> QED
    BY <1>1, <2>1, <2>2, Zenon
<1>4. /\ Containers(cont[Established].lock, IF l = "closed" THEN None ELSE c)
      /\ UNCHANGED <<stored, persisted, sessionsCount, expiryCount, mgr, panicked>>
  BY Zenon DEF CloseTo
<1>5. TypeOK'
  BY <1>1, <1>2, <1>4, Zenon DEF CloseTo, TypeOK, Others, Containers
<1>6. Kept'
  <2>1. Wish(con'[c])
    BY <1>1, <1>2 DEF Wish, Closes
  <2>2. \A x \in Conns : Wish(con'[x])
    BY <1>1, <2>1, Zenon DEF IInv, Kept, Others
  <2> QED
    BY <1>4, <2>2 DEF IInv, Kept, Containers, CloseTo
<1>7. Lock'
  BY <1>1, <1>3, <1>4 DEF IInv, Lock, Others, Closes, Active, Containers
<1>8. Stopped'
  BY <1>1, <1>3, <1>4 DEF IInv, Stopped, Others, Closes, Active
<1>9. ASSUME NEW x \in Conns PROVE Way(x)'
  <2>1. Way(c)'
    BY <1>1, <1>2, <1>3 DEF Way, Closes, SameWay, Active, Ended
  <2>2. CASE x # c
    <3>1. con'[x] = con[x] /\ Way(x)
      BY <1>1, <2>2, Zenon DEF IInv, Others
    <3> QED
      BY <3>1 DEF Way
  <2> QED
    BY <2>1, <2>2, Zenon
<1>10. ASSUME NEW x \in Conns PROVE Current(x)'
  <2>1. Current(c)'
    <3>1. /\ con'[c].pc = con[c].pc /\ con'[c].life = l /\ l # "live" /\ mgr' = mgr
          /\ cont'[Established].ses = IF l = "closed" THEN None ELSE c
      BY <1>1, <1>4, Zenon DEF Closes, Containers
    <3>2. \A d \in Conns : con[d].pc = "wait" => con'[d].pc = "wait" /\ con'[d].old = con[d].old
      BY <1>1, Zenon DEF Others, Closes, SameWay
    <3>3. con'[c].pc \in {"online", "start", "up"} /\ (Active(c)' => l # "closed")
      BY <1>3, <3>1, Zenon DEF Active
    <3>4. Active(c)' /\ con'[c].stopReq = "taken" =>
            mgr'.pc # "run" \/ \E d \in Conns : con'[d].pc = "wait" /\ con'[d].old = c
      <4>1. Active(c) /\ con[c].stopReq = "taken" =>
              mgr.pc # "run" \/ \E d \in Conns : con[d].pc = "wait" /\ con[d].old = c
        BY <1>2, Zenon DEF Current
      <4>2. Active(c)' => con'[c].stopReq = con[c].stopReq
        BY <1>1, <3>3, Zenon
      <4> QED
        BY <1>1, <3>1, <3>2, <4>1, <4>2, Zenon
    <3> QED
      BY <3>1, <3>3, <3>4, Zenon DEF Current
  <2>2. CASE x # c
    <3>1. con'[x] = con[x] /\ Current(x) /\ ~Active(x)
      BY <1>1, <1>3, <2>2, Zenon DEF IInv, Others
    <3>2. cont'[Established].ses \in {c, None}
      BY <1>4, Zenon DEF Containers
    <3>3. \A d \in Conns : con'[d].pc = con[d].pc
      BY <1>1, Zenon DEF Others, Closes
    <3> QED
      BY <1>3, <2>2, <3>1, <3>2, <3>3, ZenonT(60) DEF Current, Active
  <2> QED
    BY <2>1, <2>2, Zenon
<1> QED
  BY <1>5, <1>6, <1>7, <1>8, <1>9, <1>10, Zenon DEF IInv

\* The record of one connection changes.
LEMMA Becomes ==
  ASSUME TypeOK, NEW c \in Conns, NEW r, r \in ConType, con' = [con EXCEPT ![c] = r]
  PROVE  Others(c) /\ con'[c] = r
<1>1. con \in [Conns -> ConType]
  BY Zenon DEF TypeOK
<1> QED
  BY <1>1 DEF Others

\* The connection that is active has the subscriber that was there at first.
LEMMA Acting ==
  ASSUME DurableOnly, IInv, NEW c \in Conns, Active(c)
  PROVE  /\ TypeOK /\ Wish(con[c]) /\ con[c] \in ConType /\ wills \subseteq Conns
         /\ con[c].sub = Established /\ stored = Established
         /\ cont[Established].ses = c /\ cont[Established].rmLock = "free"
         /\ obj \in [Conns -> ObjType] /\ obj[Established].topics
         /\ obj[Established].to # "nowhere" /\ obj[Established] \in ObjType
<1> Established \in Conns /\ None \notin Conns
  BY ConstAssumption, Zenon DEF DurableOnly
<1>1. /\ TypeOK /\ Wish(con[c]) /\ con[c] \in ConType /\ Way(c) /\ Current(c)
      /\ wills \subseteq Conns /\ obj \in [Conns -> ObjType] /\ obj[Established] \in ObjType
      /\ cont[Established].rmLock = "free"
  BY Zenon DEF IInv, Kept, TypeOK
<1>2. mgr.pc # "stopped"
  BY Zenon DEF IInv, Stopped
<1>3. /\ stored = Established /\ obj[Established].topics
      /\ obj[Established].to # "nowhere"
  BY <1>2, Zenon DEF IInv, Kept
<1>4. cont[Established].ses = c /\ con[c].pc \in {"online", "start", "up"}
  BY <1>1, Zenon DEF Current
<1>5. con[c].sub = Established
  BY <1>1, <1>4 DEF Way
<1> QED
  BY <1>1, <1>3, <1>4, <1>5, Zenon

\* DISCONNECT of a 3.1.1 client drops the Will.
LEMMA SignalDisconnectStep ==
  ASSUME DurableOnly, IInv, NEW c \in Conns, SignalDisconnect(c)
  PROVE  IInv'
<1> Established \in Conns /\ None \notin Conns
  BY ConstAssumption, Zenon DEF DurableOnly
<1>1. Active(c) /\ con[c].life = "live"
  BY DEF SignalDisconnect, Active
<1>2. /\ TypeOK /\ Wish(con[c]) /\ con[c] \in ConType /\ wills \subseteq Conns
      /\ con[c].sub = Established /\ stored = Established
      /\ cont[Established].ses = c /\ cont[Established].rmLock = "free"
      /\ obj \in [Conns -> ObjType] /\ obj[Established].topics
      /\ obj[Established].to # "nowhere" /\ obj[Established] \in ObjType
  BY <1>1, Acting, Zenon
<1>3. con' = [con EXCEPT ![c] = Leaves(con[c])]
  <2>1. con[c].kind \in Kinds
    BY <1>2, Zenon DEF ConType
  <2>2. con' = [con EXCEPT ![c].will = "none", ![c].life = "offline"]
    BY <2>1, Zenon DEF SignalDisconnect, DurableOnly
  <2> QED
    BY <1>2, <2>2, Zenon DEF Leaves, TypeOK
<1>4. Closes(Leaves(con[c]), con[c], "offline") /\ Leaves(con[c]).stopReq = con[c].stopReq
  BY <1>2, LeavesType, Zenon DEF Wish
<1>5. Others(c) /\ con'[c] = Leaves(con[c])
  BY <1>2, <1>3, <1>4, Becomes, Zenon DEF Closes
<1>6. UNCHANGED <<stored, cont, obj, persisted, sessionsCount, expiryCount, wills, mgr, panicked>>
  BY Zenon DEF SignalDisconnect
<1>c. Containers(cont[Established].lock, c)
  BY <1>2, <1>6, Zenon DEF TypeOK, Containers
<1>9. CloseTo(c, "offline")
  BY <1>1, <1>2, <1>4, <1>5, <1>6, <1>c, Zenon DEF CloseTo
<1> QED
  BY <1>9, CloseStep, Zenon

\* The network connection breaks.
LEMMA DropStep ==
  ASSUME DurableOnly, IInv, NEW c \in Conns, Drop(c)
  PROVE  IInv'
<1> Established \in Conns /\ None \notin Conns
  BY ConstAssumption, Zenon DEF DurableOnly
<1>1. Active(c) /\ con[c].life = "live"
  BY DEF Drop, Active
<1>2. /\ TypeOK /\ Wish(con[c]) /\ con[c] \in ConType /\ wills \subseteq Conns
      /\ con[c].sub = Established /\ stored = Established
      /\ cont[Established].ses = c /\ cont[Established].rmLock = "free"
      /\ obj \in [Conns -> ObjType] /\ obj[Established].topics
      /\ obj[Established].to # "nowhere" /\ obj[Established] \in ObjType
  BY <1>1, Acting, Zenon
<1>3. con' = [con EXCEPT ![c] = Lives(con[c], "offline")]
  BY <1>2 DEF Lives, TypeOK, Drop
<1>4. /\ Closes(Lives(con[c], "offline"), con[c], "offline")
      /\ Lives(con[c], "offline").stopReq = con[c].stopReq
  BY <1>2, LivesType, Zenon DEF Wish
<1>5. Others(c) /\ con'[c] = Lives(con[c], "offline")
  BY <1>2, <1>3, <1>4, Becomes, Zenon DEF Closes
<1>6. UNCHANGED <<stored, cont, obj, persisted, sessionsCount, expiryCount, wills, mgr, panicked>>
  BY Zenon DEF Drop
<1>c. Containers(cont[Established].lock, c)
  BY <1>2, <1>6, Zenon DEF TypeOK, Containers
<1>9. CloseTo(c, "offline")
  BY <1>1, <1>2, <1>4, <1>5, <1>6, <1>c, Zenon DEF CloseTo
<1> QED
  BY <1>9, CloseStep, Zenon

\* SignalOffline: the subscriber persists what comes from now on.
LEMMA SignalOfflineStep ==
  ASSUME DurableOnly, IInv, NEW c \in Conns, SignalOffline(c)
  PROVE  IInv'
<1> Established \in Conns /\ None \notin Conns
  BY ConstAssumption, Zenon DEF DurableOnly
<1>1. Active(c)
  BY DEF SignalOffline, Active
<1>2. /\ TypeOK /\ Wish(con[c]) /\ con[c] \in ConType /\ wills \subseteq Conns
      /\ con[c].sub = Established /\ stored = Established
      /\ cont[Established].ses = c /\ cont[Established].rmLock = "free"
      /\ obj \in [Conns -> ObjType] /\ obj[Established].topics
      /\ obj[Established].to # "nowhere" /\ obj[Established] \in ObjType
  BY <1>1, Acting, Zenon
<1>3. con' = [con EXCEPT ![c] = Offlined(con[c])]
  <2>1. con[c].durable /\ con[c].expire # "zero" /\ con[c].durable = TRUE
    BY <1>2 DEF Wish, ConType
  <2>2. con' = [con EXCEPT ![c].durable = TRUE, ![c].life = "close"]
    BY <2>1, Zenon DEF SignalOffline
  <2> QED
    BY <1>2, <2>2, Zenon DEF Offlined, TypeOK
<1>4. Closes(Offlined(con[c]), con[c], "close") /\ Offlined(con[c]).stopReq = con[c].stopReq
  BY <1>2, OfflinedType, Zenon
<1>5. Others(c) /\ con'[c] = Offlined(con[c])
  BY <1>2, <1>3, <1>4, Becomes, Zenon DEF Closes
<1>6. UNCHANGED <<stored, cont, persisted, sessionsCount, expiryCount, wills, mgr, panicked>>
  BY Zenon DEF SignalOffline
<1>7. obj' = [obj EXCEPT ![Established] = [obj[Established] EXCEPT !.to = "persist"]]
  <2>1. con[c].durable /\ con[c].expire # "zero"
    BY <1>2 DEF Wish
  <2> QED
    BY <1>2, <2>1, Zenon DEF SignalOffline, Offline
<1>8. /\ obj' \in [Conns -> ObjType] /\ obj'[Established].topics
      /\ obj'[Established].to # "nowhere"
  <2>1. /\ [obj[Established] EXCEPT !.to = "persist"] \in ObjType
        /\ [obj[Established] EXCEPT !.to = "persist"].topics = obj[Established].topics
        /\ [obj[Established] EXCEPT !.to = "persist"].to = "persist"
    BY <1>2, Zenon DEF ObjType
  <2> QED
    BY <1>2, <1>7, <2>1
<1>c. Containers(cont[Established].lock, c)
  BY <1>2, <1>6, Zenon DEF TypeOK, Containers
<1>9. CloseTo(c, "close")
  BY <1>1, <1>2, <1>4, <1>5, <1>6, <1>c, <1>8, Zenon DEF CloseTo
<1> QED
  BY <1>9, CloseStep, Zenon

\* SignalConnectionClose: the container is kept.
LEMMA SignalConnectionCloseStep ==
  ASSUME DurableOnly, IInv, NEW c \in Conns, SignalConnectionClose(c)
  PROVE  IInv'
<1> Established \in Conns /\ None \notin Conns
  BY ConstAssumption, Zenon DEF DurableOnly
<1>1. Active(c)
  BY DEF SignalConnectionClose, Active
<1>2. /\ TypeOK /\ Wish(con[c]) /\ con[c] \in ConType /\ wills \subseteq Conns
      /\ con[c].sub = Established /\ stored = Established
      /\ cont[Established].ses = c /\ cont[Established].rmLock = "free"
      /\ obj \in [Conns -> ObjType] /\ obj[Established].topics
      /\ obj[Established].to # "nowhere" /\ obj[Established] \in ObjType
  BY <1>1, Acting, Zenon
<1>p. PICK w \in {"none", con[c].will} :
        con' = [con EXCEPT ![c].life = "gone", ![c].keep = TRUE, ![c].will = w,
                           ![c].sub = con[c].sub]
  <2>1. (con[c].durable /\ obj[con[c].sub].topics) = TRUE /\ con[c].will # "delayed"
    BY <1>2, Zenon DEF Wish
  <2> QED
    BY <1>2, <2>1, Zenon DEF SignalConnectionClose
<1>3. con' = [con EXCEPT ![c] = Gone(con[c], w)]
  BY <1>2, <1>p, Zenon DEF Gone, TypeOK
<1>4. /\ Closes(Gone(con[c], w), con[c], "gone") /\ Gone(con[c], w).keep
      /\ Gone(con[c], w).stopReq = con[c].stopReq
  BY <1>2, GoneType, Zenon DEF Wish
<1>5. Others(c) /\ con'[c] = Gone(con[c], w)
  BY <1>2, <1>3, <1>4, Becomes, Zenon DEF Closes
<1>6. UNCHANGED <<stored, cont, obj, persisted, sessionsCount, expiryCount, mgr, panicked>>
  BY <1>2, Zenon DEF SignalConnectionClose, Wish
<1>7. wills' \subseteq Conns
  BY <1>2, Zenon DEF SignalConnectionClose
<1>c. Containers(cont[Established].lock, c)
  BY <1>2, <1>6, Zenon DEF TypeOK, Containers
<1>9. CloseTo(c, "gone")
  BY <1>1, <1>2, <1>4, <1>5, <1>6, <1>c, <1>7, Zenon DEF CloseTo
<1> QED
  BY <1>9, CloseStep, Zenon

\* SessionOffline: the container stays, without session and without timer.
LEMMA SessionOfflineStep ==
  ASSUME DurableOnly, IInv, NEW c \in Conns, SessionOffline(c)
  PROVE  IInv'
<1> Established \in Conns /\ None \notin Conns
  BY ConstAssumption, Zenon DEF DurableOnly
<1>1. Active(c) /\ con[c].life = "gone"
  BY Zenon DEF SessionOffline, Active
<1>2. /\ TypeOK /\ Wish(con[c]) /\ con[c] \in ConType /\ wills \subseteq Conns
      /\ con[c].sub = Established /\ stored = Established
      /\ cont[Established].ses = c /\ cont[Established].rmLock = "free"
      /\ obj \in [Conns -> ObjType] /\ obj[Established].topics
      /\ obj[Established].to # "nowhere" /\ obj[Established] \in ObjType
  BY <1>1, Acting, Zenon
<1>a. stored # None /\ con[c].keep /\ ~Expires(c)
  BY <1>1, <1>2 DEF Wish, Expires
<1>b. /\ con' = Closed(c) /\ cont' = [cont EXCEPT ![Established].ses = None]
      /\ UNCHANGED <<stored, sessionsCount, expiryCount, panicked>>
  BY <1>a, <1>2, Zenon DEF SessionOffline, Started
<1>3. con' = [con EXCEPT ![c] = Shut(con[c])]
  BY <1>2, <1>b, Zenon DEF Shut, Closed, TypeOK
<1>4. Closes(Shut(con[c]), con[c], "closed")
  BY <1>2, ShutType, Zenon DEF Wish
<1>5. Others(c) /\ con'[c] = Shut(con[c])
  BY <1>2, <1>3, <1>4, Becomes, Zenon DEF Closes
<1>6. UNCHANGED <<stored, obj, persisted, sessionsCount, expiryCount, wills, mgr, panicked>>
  BY <1>b, Zenon DEF SessionOffline
<1>7. Containers(cont[Established].lock, None)
  BY <1>b, <1>2, Cleared, Zenon
<1>9. CloseTo(c, "closed")
  BY <1>1, <1>2, <1>4, <1>5, <1>6, <1>7, Zenon DEF CloseTo
<1> QED
  BY <1>9, CloseStep, Zenon

-----------------------------------------------------------------------------
(* What cannot happen to a durable session.                                *)

\* Nobody subscribes again or unsubscribes, no container is wiped and no timer runs.
LEMMA Disabled ==
  ASSUME DurableOnly, IInv, NEW c \in Conns
  PROVE  /\ ~SignalSubscribe(c) /\ ~SignalUnSubscribe(c) /\ ~Wipe(c)
         /\ ~TimerFires(c) /\ ~TimerCallback(c)
<1>1. ~SignalSubscribe(c)
  <2> SUFFICES ASSUME SignalSubscribe(c) PROVE FALSE
    OBVIOUS
  <2>1. Active(c)
    BY DEF SignalSubscribe, Active
  <2>2. con[c].sub = Established /\ obj[Established].topics
    BY <2>1, Acting, Zenon
  <2> QED
    BY <2>2, Zenon DEF SignalSubscribe
<1>2. ~SignalUnSubscribe(c)
  BY Zenon DEF DurableOnly, SignalUnSubscribe
<1>3. ~Wipe(c)
  BY Zenon DEF IInv, Kept, Wish, Wipe
<1>4. ~TimerFires(c) /\ ~TimerCallback(c)
  <2>1. cont[c].timer = "none"
    BY Zenon DEF IInv, Kept
  <2> QED
    BY <2>1 DEF TimerFires, TimerCallback
<1> QED
  BY <1>1, <1>2, <1>3, <1>4, Zenon

-----------------------------------------------------------------------------
(* Manager.Stop.                                                           *)

MgrPC == {"run", "session", "wait", "expiry", "join", "hung", "stopped"}
MgrType == [pc : MgrPC, k : Maybe, s : Maybe, preempt : BOOLEAN]

\* The manager goes on, with nothing but the count of the sessions changed.
LEMMA ManagerStep ==
  ASSUME DurableOnly, IInv, Stopped', mgr' \in MgrType, mgr'.pc \notin {"run", "stopped"},
         mgr.pc # "stopped",
         UNCHANGED <<stored, cont, con, obj, persisted, expiryCount, wills, panicked>>
  PROVE  IInv'
<1>1. TypeOK'
  <2>1. sessionsCount' \in Int /\ sessionsCount' >= 0
    BY DEF Stopped
  <2>2. expiryCount = 0 /\ TypeOK
    BY Zenon DEF IInv, Kept
  <2>3. expiryCount' \in Int /\ expiryCount' >= 0
    BY <2>2
  <2> QED
    BY <2>1, <2>2, <2>3, Zenon DEF TypeOK, MgrType, MgrPC
<1>2. Kept' /\ Lock'
  BY Zenon DEF IInv, Kept, Lock, Active
<1>3. \A c \in Conns : Way(c)'
  BY Zenon DEF IInv, Way
<1>4. \A c \in Conns : Current(c)'
  <2>1. ASSUME NEW c \in Conns, Current(c) PROVE Current(c)'
    BY <2>1 DEF Current, Active
  <2> QED
    BY <2>1, Zenon DEF IInv
<1> QED
  BY <1>1, <1>2, <1>3, <1>4, Zenon DEF IInv

\* Stop finds the entry of the id.
LEMMA StopStep ==
  ASSUME DurableOnly, IInv, Stop
  PROVE  IInv'
<1> Established \in Conns /\ None \notin Conns
  BY ConstAssumption, Zenon DEF DurableOnly
<1>1. mgr \in MgrType /\ mgr.pc = "run" /\ stored = Established /\ sessionsCount = 1
  BY Zenon DEF IInv, TypeOK, MgrType, MgrPC, Stop, Kept, Stopped
<1>2. mgr' = [mgr EXCEPT !.pc = "session", !.k = Established]
  BY <1>1, Zenon DEF Stop
<1>3. mgr' \in MgrType /\ mgr'.pc = "session" /\ mgr'.k = Established
  BY <1>1, <1>2, Zenon DEF MgrType, MgrPC, Maybe
<1>4. UNCHANGED <<stored, cont, con, obj, persisted, sessionsCount, expiryCount, wills, panicked>>
  BY Zenon DEF Stop
<1>5. \A c \in Conns : con[c].pc \in Ended
  BY Zenon DEF Stop, ListenersDone, Ended
<1>6. Stopped'
  BY <1>1, <1>3, <1>4, <1>5 DEF Stopped
<1> QED
  BY <1>1, <1>3, <1>4, <1>6, ManagerStep

\* What StopSession finds.
LEMMA AtSession ==
  ASSUME DurableOnly, IInv, StopSession
  PROVE  /\ mgr \in MgrType /\ mgr.pc = "session" /\ mgr.k = Established
         /\ sessionsCount = 1 /\ \A c \in Conns : con[c].pc \in Ended
<1>1. mgr.pc = "session" /\ mgr \in MgrType
  BY Zenon DEF StopSession, IInv, TypeOK, MgrType, MgrPC
<1> QED
  BY <1>1 DEF IInv, Stopped

\* A nil writer ends the process and leaves everything else as it is.
LEMMA PanicStep ==
  ASSUME DurableOnly, IInv, panicked' = "writer",
         UNCHANGED <<stored, cont, con, obj, persisted, sessionsCount, expiryCount, wills, mgr>>
  PROVE  IInv'
<1>1. TypeOK'
  <2>1. TypeOK
    BY Zenon DEF IInv
  <2> QED
    BY <2>1 DEF TypeOK
<1>2. Kept' /\ Lock' /\ Stopped'
  BY Zenon DEF IInv, Kept, Lock, Stopped, Active
<1>3. \A c \in Conns : Way(c)'
  BY Zenon DEF IInv, Way
<1>4. \A c \in Conns : Current(c)'
  <2>1. ASSUME NEW c \in Conns, Current(c) PROVE Current(c)'
    BY <2>1 DEF Current, Active
  <2> QED
    BY <2>1, Zenon DEF IInv
<1> QED
  BY <1>1, <1>2, <1>3, <1>4, Zenon DEF IInv

\* StopSession, when there is no session, or one that was stopped before.
LEMMA NothingToStopStep ==
  ASSUME DurableOnly, IInv, StopSession,
         cont[Established].ses = None \/ con[cont[Established].ses].stopReq = "taken"
  PROVE  IInv'
<1> Established \in Conns /\ None \notin Conns
  BY ConstAssumption, Zenon DEF DurableOnly
<1>1. /\ mgr \in MgrType /\ mgr.pc = "session" /\ mgr.k = Established
      /\ sessionsCount = 1 /\ \A c \in Conns : con[c].pc \in Ended
  BY AtSession, Zenon
<1>2. \A c \in Conns : Active(c) => cont[Established].ses = c
  BY Zenon DEF IInv, Current
<1>3. /\ mgr' = [mgr EXCEPT !.pc = "expiry"] /\ UNCHANGED <<con, panicked>>
      /\ \/ sessionsCount' = 0 /\ \A c \in Conns : ~Active(c)
         \/ sessionsCount' = 1
  <2>1. cont[Established].ses = None \/ ~NilWriter(cont[Established].ses)
    BY Zenon DEF NilWriter
  <2> QED
    BY <1>1, <1>2, <2>1 DEF StopSession
<1>4. mgr' \in MgrType /\ mgr'.pc = "expiry" /\ mgr'.k = Established
  BY <1>1, <1>3 DEF MgrType, MgrPC
<1>5. UNCHANGED <<stored, cont, con, obj, persisted, expiryCount, wills, panicked>>
  BY <1>3, Zenon DEF StopSession
<1>7. \A c \in Conns : con[c].life # "live"
  <2> SUFFICES ASSUME NEW c \in Conns, con[c].life = "live" PROVE FALSE
    OBVIOUS
  <2>1. cont[Established].ses = c
    BY <1>2 DEF Active
  <2>2. con[c].stopReq = "free"
    BY Zenon DEF IInv, Way
  <2> QED
    BY <2>1, <2>2
<1>6. Stopped'
  BY <1>1, <1>3, <1>4, <1>5, <1>7 DEF Stopped, Active
<1> QED
  BY <1>1, <1>4, <1>5, <1>6, ManagerStep

\* StopSession stops the session: only that one is active.
LEMMA StopSessionStep ==
  ASSUME DurableOnly, IInv, StopSession, NEW s \in Conns, s = cont[Established].ses,
         con[s].stopReq # "taken", ~NilWriter(s)
  PROVE  IInv'
<1> Established \in Conns /\ None \notin Conns
  BY ConstAssumption, Zenon DEF DurableOnly
<1>1. /\ mgr \in MgrType /\ mgr.pc = "session" /\ mgr.k = Established
      /\ sessionsCount = 1 /\ \A c \in Conns : con[c].pc \in Ended
  BY AtSession, Zenon
<1>2. TypeOK /\ Way(s) /\ Current(s) /\ Wish(con[s]) /\ con[s] \in ConType
  BY Zenon DEF IInv, Kept, TypeOK
<1>3. /\ con' = [con EXCEPT ![s] = StopEffect(s)] /\ UNCHANGED <<sessionsCount, panicked>>
      /\ mgr' = [mgr EXCEPT !.pc = "wait", !.s = s]
  BY <1>1, Zenon DEF StopSession
<1>4. mgr' \in MgrType /\ mgr'.pc = "wait" /\ mgr'.k = Established /\ mgr'.s = s
  BY <1>1, <1>3, Zenon DEF MgrType, MgrPC, Maybe
<1>5. UNCHANGED <<stored, cont, obj, persisted, sessionsCount, expiryCount, wills, panicked>>
  BY <1>3, Zenon DEF StopSession
<1>a. con[s].pc \in {"up", "failed", "rejected"}
  BY <1>1, <1>2 DEF Current, Ended
<1>b. \A x \in Conns : Active(x) => x = s
  BY Zenon DEF IInv, Current
<1>q. PICK l \in {"closed", "offline", "close", "gone"} :
        /\ StopEffect(s) = Quits(con[s], l)
        /\ l = IF con[s].life = "live" THEN "offline" ELSE con[s].life
  <2>1. con[s].life \in {"live", "offline", "close", "gone", "closed"}
    <3>1. con[s].life \in {"new", "live", "offline", "close", "gone", "wipe", "closed"}
      BY <1>2, Zenon DEF ConType
    <3> QED
      BY <1>2, <1>a, <3>1, Zenon DEF Way, Wish
  <2> QED
    BY <1>2, <2>1, StopEffectIs, Zenon
<1>c. Closes(Quits(con[s], l), con[s], l) /\ Quits(con[s], l).keep = con[s].keep
  BY <1>2, QuitsType, Zenon DEF Wish
<1>d. Others(s) /\ con'[s] = Quits(con[s], l)
  <2>1. con' = [con EXCEPT ![s] = Quits(con[s], l)]
    BY <1>3, <1>q, Zenon
  <2> QED
    BY <1>2, <1>c, <2>1, Becomes, ZenonT(60) DEF Closes
<1>e. /\ Closes(con'[s], con[s], l) /\ con'[s].keep = con[s].keep
      /\ (Active(s)' => Active(s)) /\ con'[s].life # "live"
  BY <1>c, <1>d, <1>q, Zenon DEF Closes, Active
<1>f. \A x \in Conns : con'[x].pc = con[x].pc /\ (x # s => con'[x] = con[x])
  BY <1>d, <1>e, Zenon DEF Others, Closes
<1>6. TypeOK'
  BY <1>2, <1>4, <1>5, <1>d, Zenon DEF TypeOK, Others, MgrType, MgrPC
<1>7. Kept'
  <2>1. Wish(con'[s])
    BY <1>2, <1>e, <1>q, Zenon DEF Wish, Closes
  <2>2. \A x \in Conns : Wish(con'[x])
    BY <1>f, <2>1, Zenon DEF IInv, Kept
  <2> QED
    BY <1>1, <1>4, <1>5, <2>2 DEF IInv, Kept
<1>8. Lock'
  <2>1. \A x \in Conns : con'[x].pc \notin Locked /\ con'[x].pc \notin Taking
    BY <1>1, <1>f DEF Ended, Locked, Taking
  <2> QED
    BY <2>1, Zenon DEF Lock
<1>9. Stopped'
  <2>1. \A x \in Conns : con'[x].life # "live"
    <3> SUFFICES ASSUME NEW x \in Conns, x # s, con[x].life = "live" PROVE FALSE
      BY <1>e, <1>f, Zenon
    <3> QED
      BY <1>b DEF Active
  <2> QED
    BY <1>1, <1>4, <1>5, <1>f, <2>1 DEF Stopped
<1>10. ASSUME NEW x \in Conns PROVE Way(x)'
  <2>1. Way(s)'
    BY <1>2, <1>a, <1>e, <1>q, Zenon DEF Way, Closes, SameWay, Ended
  <2>2. CASE x # s
    <3>1. con'[x] = con[x] /\ Way(x)
      BY <1>f, <2>2, Zenon DEF IInv
    <3> QED
      BY <3>1 DEF Way
  <2> QED
    BY <2>1, <2>2, Zenon
<1>11. ASSUME NEW x \in Conns PROVE Current(x)'
  <2>1. Current(s)'
    BY <1>2, <1>4, <1>5, <1>a, <1>e, <1>f, Zenon DEF Current
  <2>2. CASE x # s
    <3>1. con'[x] = con[x] /\ ~Active(x) /\ Current(x) /\ con[x].pc \in Ended
      BY <1>1, <1>b, <1>f, <2>2, Zenon DEF IInv
    <3> QED
      BY <1>4, <1>5, <3>1 DEF Current, Active, Ended
  <2> QED
    BY <2>1, <2>2, Zenon
<1> QED
  BY <1>6, <1>7, <1>8, <1>9, <1>10, <1>11, Zenon DEF IInv

\* The session is stopped.
LEMMA SessionStoppedStep ==
  ASSUME DurableOnly, IInv, SessionStopped
  PROVE  IInv'
<1> Established \in Conns /\ None \notin Conns
  BY ConstAssumption, Zenon DEF DurableOnly
<1>1. mgr \in MgrType /\ mgr.pc = "wait" /\ Stopped
  BY Zenon DEF IInv, TypeOK, MgrType, MgrPC, SessionStopped
<1>2. mgr' = [mgr EXCEPT !.pc = "expiry"]
  BY Zenon DEF SessionStopped
<1>3. mgr' \in MgrType /\ mgr'.pc = "expiry" /\ mgr'.k = mgr.k
  BY <1>1, <1>2 DEF MgrType, MgrPC
<1>4. UNCHANGED <<stored, cont, con, obj, persisted, sessionsCount, expiryCount, wills, panicked>>
  BY Zenon DEF SessionStopped
<1>5. Stopped'
  BY <1>1, <1>3, <1>4 DEF Stopped, Active
<1> QED
  BY <1>1, <1>3, <1>4, <1>5, ManagerStep

\* There is no timer to cancel.
LEMMA StopExpiryStep ==
  ASSUME DurableOnly, IInv, StopExpiry
  PROVE  IInv'
<1> Established \in Conns /\ None \notin Conns
  BY ConstAssumption, Zenon DEF DurableOnly
<1>1. mgr \in MgrType /\ mgr.pc = "expiry" /\ Stopped
  BY Zenon DEF IInv, TypeOK, MgrType, MgrPC, StopExpiry
<1>2. mgr' = [mgr EXCEPT !.pc = "join"] /\ UNCHANGED <<cont, expiryCount>>
  <2>1. mgr.k = Established
    BY <1>1, Zenon DEF Stopped
  <2>2. cont[mgr.k].timer = "none"
    BY <2>1, Zenon DEF IInv, Kept
  <2> QED
    BY <2>2 DEF StopExpiry
<1>3. mgr' \in MgrType /\ mgr'.pc = "join"
  BY <1>1, <1>2 DEF MgrType, MgrPC
<1>4. UNCHANGED <<stored, cont, con, obj, persisted, sessionsCount, expiryCount, wills, panicked>>
  BY <1>2, Zenon DEF StopExpiry
<1>5. Stopped'
  BY <1>1, <1>3, <1>4 DEF Stopped, Active
<1> QED
  BY <1>1, <1>3, <1>4, <1>5, ManagerStep

\* Stop returns when no connection is active, and the subscriber quits.
LEMMA StopReturnStep ==
  ASSUME DurableOnly, IInv, StopReturn
  PROVE  IInv'
<1> Established \in Conns /\ None \notin Conns
  BY ConstAssumption, Zenon DEF DurableOnly
<1>1. /\ TypeOK /\ mgr \in MgrType /\ mgr.pc = "join" /\ Stopped /\ sessionsCount = 0
      /\ stored = Established /\ cont[Established].sub = Established
  BY Zenon DEF IInv, TypeOK, MgrType, MgrPC, StopReturn, Kept
<1>2. mgr' \in MgrType /\ mgr'.pc = "stopped"
  BY <1>1 DEF MgrType, MgrPC, StopReturn
<1>3. UNCHANGED <<cont, con, persisted, sessionsCount, expiryCount, wills, panicked>>
  BY Zenon DEF StopReturn
<1>4. stored' = None /\ obj' \in [Conns -> ObjType]
  <2>1. obj \in [Conns -> ObjType]
    BY <1>1, Zenon DEF TypeOK
  <2>2. Offline(Established, TRUE) \in ObjType
    BY <2>1 DEF Offline, ObjType
  <2>3. obj' = [obj EXCEPT ![Established] = Offline(Established, TRUE)]
    BY <1>1, Zenon DEF StopReturn, SubscriberShutdown
  <2>4. stored' = None
    BY Zenon DEF StopReturn
  <2> QED
    BY <2>1, <2>2, <2>3, <2>4, Zenon
<1>5. \A x \in Conns : ~Active(x) /\ ~Active(x)'
  BY <1>1, <1>3, Zenon DEF Stopped, Active
<1>6. TypeOK'
  BY <1>1, <1>2, <1>3, <1>4, Zenon DEF TypeOK, MgrType, MgrPC, Maybe
<1>7. Kept'
  BY <1>2, <1>3, Zenon DEF IInv, Kept
<1>8. Lock'
  BY <1>3, Zenon DEF IInv, Lock, Active
<1>9. Stopped'
  BY <1>1, <1>2, <1>3, <1>5 DEF Stopped
<1>10. \A x \in Conns : Way(x)'
  BY <1>3, Zenon DEF IInv, Way
<1>11. ASSUME NEW x \in Conns PROVE Current(x)'
  <2>1. con'[x] = con[x] /\ Current(x) /\ ~Active(x)
    BY <1>3, <1>5, Zenon DEF IInv
  <2> QED
    BY <1>3, <2>1 DEF Current, Active
<1> QED
  BY <1>6, <1>7, <1>8, <1>9, <1>10, <1>11, Zenon DEF IInv

-----------------------------------------------------------------------------
(* The theorems.                                                           *)

\* One connection is up, the others have not begun.
LEMMA InitInv ==
  ASSUME DurableOnly, Init
  PROVE  IInv
<1> Established \in Conns /\ None \notin Conns
  BY ConstAssumption, Zenon DEF DurableOnly
<1>1. PICK kind \in [Conns -> Kinds] :
        con = [c \in Conns |->
                 IF c = Established
                 THEN [Unconnected(kind[c]) EXCEPT !.pc = "up", !.life = "live",
                                                   !.idLock = c, !.sub = c]
                 ELSE Unconnected(kind[c])]
  BY Zenon DEF Init
<1>2. PICK b \in BOOLEAN : mgr = [pc |-> "run", k |-> None, s |-> None, preempt |-> b]
  BY ConstAssumption, Zenon DEF Init
<1>3. ASSUME NEW k \in Kinds
      PROVE  /\ Unconnected(k) \in ConType /\ Wish(Unconnected(k))
             /\ Unconnected(k).pc = "new" /\ Unconnected(k).life = "new"
             /\ Unconnected(k).stopReq = "free"
  <2>1. k \in KindType /\ k.durable = TRUE /\ k.expire = "nil" /\ k.will \in {"none", "now"}
    BY ConstAssumption DEF DurableOnly, KindType
  <2>2. Unconnected(k) \in ConType
    BY <2>1, ZenonT(120) DEF Unconnected, ConType, Maybe
  <2> QED
    BY <2>1, <2>2 DEF Unconnected, Wish
<1>4. ASSUME NEW c \in Conns
      PROVE  /\ con[c] \in ConType /\ Wish(con[c]) /\ con[c].stopReq = "free"
             /\ c # Established => con[c].pc = "new" /\ con[c].life = "new"
             /\ c = Established => /\ con[c].pc = "up" /\ con[c].life = "live"
                                   /\ con[c].idLock = c /\ con[c].sub = c
  <2>1. CASE c # Established
    BY <1>1, <1>3, <2>1, Zenon
  <2>2. CASE c = Established
    <3>1. PICK r \in ConType :
            /\ r = Unconnected(kind[c]) /\ Wish(r) /\ r.stopReq = "free"
            /\ con[c] = [r EXCEPT !.pc = "up", !.life = "live", !.idLock = c, !.sub = c]
      BY <1>1, <1>3, <2>2, Zenon
    <3>2. con[c] \in ConType
      <4>1. c \in Maybe
        BY DEF Maybe
      <4> QED
        BY <3>1, <4>1, ZenonT(200) DEF ConType
    <3>3. /\ con[c].pc = "up" /\ con[c].life = "live" /\ con[c].idLock = c /\ con[c].sub = c
          /\ con[c].durable = r.durable /\ con[c].expire = r.expire /\ con[c].will = r.will
          /\ con[c].stopReq = r.stopReq
      BY <3>1 DEF ConType
    <3> QED
      BY <3>1, <3>2, <3>3, <2>2 DEF Wish
  <2> QED
    BY <2>1, <2>2, Zenon
<1>5. /\ cont \in [Conns -> ContType]
      /\ \A k \in Conns : /\ cont[k].timer = "none" /\ ~cont[k].removed
                          /\ cont[k].rmLock = "free"
      /\ cont[Established].lock = "free" /\ cont[Established].sub = Established
      /\ cont[Established].ses = Established
  BY ZenonT(120) DEF Init, FreshContainer, ContType, Maybe
<1>6. /\ obj \in [Conns -> ObjType] /\ obj[Established].topics
      /\ obj[Established].to = Established /\ Established # "nowhere"
  BY ConstAssumption, Zenon DEF Init, ObjType
<1>7. /\ stored = Established /\ persisted = TRUE /\ sessionsCount = 1 /\ expiryCount = 0
      /\ wills = {} /\ panicked = "no"
  BY Zenon DEF Init, DurableOnly
<1>8. TypeOK
  <2>1. con \in [Conns -> ConType]
    BY <1>1, <1>4, Zenon
  <2>2. mgr \in MgrType
    BY <1>2 DEF MgrType, MgrPC, Maybe
  <2>3. sessionsCount \in Int /\ expiryCount \in Int /\ sessionsCount >= 0 /\ expiryCount >= 0
    BY <1>7
  <2> QED
    BY <1>5, <1>6, <1>7, <2>1, <2>2, <2>3, Zenon DEF TypeOK, MgrType, MgrPC, Maybe
<1>9. Kept
  BY <1>4, <1>5, <1>6, <1>7 DEF Kept
<1>10. Lock /\ Stopped
  BY <1>2, <1>4, <1>7 DEF Lock, Stopped, Locked, Taking, Ended
<1>11. ASSUME NEW c \in Conns PROVE Way(c) /\ Current(c)
  <2>1. /\ con[c].stopReq = "free"
        /\ c # Established => con[c].pc = "new" /\ con[c].life = "new"
        /\ c = Established => /\ con[c].pc = "up" /\ con[c].life = "live"
                              /\ con[c].idLock = c /\ con[c].sub = c
    BY <1>4, Zenon
  <2>2. Way(c)
    BY <2>1, Zenon DEF Way, Ended
  <2>3. Current(c)
    BY <1>5, <1>6, <2>1, Zenon DEF Current, Active
  <2> QED
    BY <2>2, <2>3, Zenon
<1> QED
  BY <1>8, <1>9, <1>10, <1>11, Zenon DEF IInv

\* Every step keeps the invariant.
LEMMA StepInv ==
  ASSUME DurableOnly, IInv, [Next]_vars
  PROVE  IInv'
<1> Established \in Conns /\ None \notin Conns
  BY ConstAssumption, Zenon DEF DurableOnly
<1>1. ASSUME NEW c \in Conns, Connecting(c) PROVE IInv'
  <2>1. CASE Session(c)
    BY <2>1, RefuseStep, FindStep, Zenon
  <2>2. CASE StopCurrent(c)
    <3>1. CASE NilWriter(con[c].old)
      <4>1. /\ panicked' = "writer"
            /\ UNCHANGED <<stored, cont, con, obj, persisted, sessionsCount, expiryCount, wills, mgr>>
        BY <2>2, <3>1, Zenon DEF StopCurrent
      <4> QED
        BY <4>1, PanicStep
    <3>2. CASE ~NilWriter(con[c].old)
      BY <2>2, <3>2, StoppedBeforeStep, StopCurrentStep, Zenon
    <3> QED
      BY <3>1, <3>2
  <2> QED
    BY <1>1, <2>1, <2>2, LoadOrStoreStep, AcquireStep, FenceStep, StopReturnsStep,
       CancelExpiryStep, LookStep, SubscriberStep, AcknowledgeStep, SignalOnlineStep,
       StartStep, Zenon DEF Connecting
<1>2. ASSUME NEW c \in Conns, Closing(c) \/ Client(c) PROVE IInv'
  BY <1>2, SignalOfflineStep, SignalConnectionCloseStep, SessionOfflineStep,
     SignalDisconnectStep, DropStep, Disabled, Zenon DEF Closing, Client
<1>3. ASSUME NEW k \in Conns, TimerFires(k) \/ TimerCallback(k) PROVE IInv'
  BY <1>3, Disabled, Zenon
<1>4. CASE StopSession
  <2>1. cont[Established].ses \in Maybe
    BY DEF IInv, TypeOK, ContType
  <2>2. CASE cont[Established].ses = None \/ con[cont[Established].ses].stopReq = "taken"
    BY <1>4, <2>2, NothingToStopStep, Zenon
  <2>3. CASE ~(cont[Established].ses = None \/ con[cont[Established].ses].stopReq = "taken")
    <3> DEFINE s == cont[Established].ses
    <3>1. s \in Conns /\ con[s].stopReq # "taken"
      BY <2>1, <2>3, Zenon DEF Maybe
    <3>2. CASE NilWriter(s)
      <4>1. mgr.k = Established
        BY <1>4, AtSession, Zenon
      <4>2. /\ panicked' = "writer"
            /\ UNCHANGED <<stored, cont, con, obj, persisted, sessionsCount, expiryCount, wills, mgr>>
        BY <1>4, <2>3, <3>2, <4>1, Zenon DEF StopSession
      <4> QED
        BY <4>2, PanicStep
    <3>3. CASE ~NilWriter(s)
      BY <1>4, <3>1, <3>3, StopSessionStep, Zenon
    <3> QED
      BY <3>2, <3>3
  <2> QED
    BY <2>2, <2>3, Zenon
<1>5. CASE Stopping
  BY <1>4, <1>5, StopStep, SessionStoppedStep, StopExpiryStep, StopReturnStep, Zenon
     DEF Stopping
<1>6. CASE UNCHANGED vars
  <2>1. UNCHANGED <<stored, cont, con, obj, persisted, sessionsCount, expiryCount, wills, mgr,
                    panicked>>
    BY <1>6, Zenon DEF vars
  <2>2. TypeOK' /\ Kept' /\ Lock' /\ Stopped'
    BY <2>1, Zenon DEF IInv, TypeOK, Kept, Lock, Stopped, Active
  <2>3. \A c \in Conns : Way(c)'
    BY <2>1, Zenon DEF IInv, Way
  <2>4. ASSUME NEW c \in Conns PROVE Current(c)'
    <3>1. Current(c)
      BY Zenon DEF IInv
    <3> QED
      BY <2>1, <3>1 DEF Current, Active
  <2> QED
    BY <2>2, <2>3, <2>4, Zenon DEF IInv
<1> QED
  BY <1>1, <1>2, <1>3, <1>5, <1>6, Zenon DEF Next

\* The invariant holds in every reachable state.
THEOREM Invariance == ASSUME DurableOnly PROVE Spec => []IInv
<1>1. Init => IInv
  BY InitInv
<1>2. IInv /\ [Next]_vars => IInv'
  BY StepInv
<1> QED
  BY <1>1, <1>2, PTL DEF Spec

\* While one connection sets up the container of a durable session no other one holds it
\* (the lock that loadContainer takes and session.start releases).
THEOREM Locking == ASSUME DurableOnly PROVE Spec => []IdLocked
<1>1. IInv => IdLocked
  BY DEF IInv, Lock, IdLocked, Locked, Changing
<1> QED
  BY <1>1, Invariance, PTL

\* Two connections of one id are never up together, however many contend for it, and also
\* when the manager stops (current.stop in loadContainer returns after the close).
THEOREM OneAtATime == ASSUME DurableOnly PROVE Spec => []OneOnline
<1>1. IInv => OneOnline
  <2>1. IInv => \A c \in Conns : con[c].life = "live" => cont[Established].ses = c
    BY DEF IInv, Current, Active
  <2> QED
    BY <2>1, Zenon DEF OneOnline
<1> QED
  BY <1>1, Invariance, PTL

\* The connection that is up is the session of the container in the map, and the subscriber
\* sends to it, whatever the close of its predecessor did (SignalOffline, sessionOffline).
THEOREM Takeover == ASSUME DurableOnly PROVE Spec => [](CurrentSession /\ Forwarded)
<1>1. IInv => CurrentSession /\ Forwarded
  <2> SUFFICES ASSUME IInv PROVE CurrentSession /\ Forwarded
    OBVIOUS
  <2>1. ASSUME NEW c \in Conns, con[c].life = "live"
        PROVE  /\ con[c].sub = Established /\ stored = Established
               /\ cont[Established].ses = c
    <3>1. Active(c)
      BY <2>1 DEF Active
    <3> QED
      BY <3>1, Acting, Zenon
  <2>2. ASSUME NEW c \in Conns
        PROVE  /\ con[c].life = "live" /\ con[c].pc \in {"start", "up"} =>
                    obj[Established].to = c
               /\ con[c].pc = "up" => con[c].idLock = Established
               /\ cont[Established].sub = Established
    BY DEF IInv, Current, Way, Kept
  <2> QED
    BY <2>1, <2>2 DEF CurrentSession, Forwarded
<1> QED
  BY <1>1, Invariance, PTL

\* The subscription made at first survives every takeover, refusal, disconnect and failed
\* CONNACK, until the manager is stopped (SignalOffline, SignalConnectionClose,
\* sessionOffline keep what is durable).
THEOREM Subscribed == ASSUME DurableOnly PROVE Spec => []SubscriptionsSurvive
<1>1. IInv => SubscriptionsSurvive
  BY ConstAssumption, Zenon DEF IInv, Kept, SubscriptionsSurvive, DurableOnly
<1> QED
  BY <1>1, Invariance, PTL

\* No timer, by the definition of Cardinality.
LEMMA EmptySize == Cardinality({}) = 0
<1> DEFINE val(f, U) == IF U = {} THEN 0 ELSE 1 + f[U \ {CHOOSE x : x \in U}]
           IsCS(f) == f = [U \in SUBSET {} |-> val(f, U)]
           CS == CHOOSE f : IsCS(f)
           g == [U \in SUBSET {} |-> 0]
<1>1. IsCS(g)
  OBVIOUS
<1> HIDE DEF g
<1>2. IsCS(CS)
  BY <1>1, Zenon
<1>3. Cardinality({}) = CS[{}]
  BY Zenon DEF Cardinality
<1> HIDE DEF CS
<1>4. \A U \in SUBSET {} : CS[U] = val(CS, U)
  BY <1>2, Zenon
<1> QED
  BY <1>3, <1>4

\* The wait group counts the entry, and no timer is counted.
THEOREM Counted == ASSUME DurableOnly PROVE Spec => []Accounting
<1>1. IInv => Accounting
  <2> SUFFICES ASSUME IInv, mgr.pc = "run", panicked = "no" PROVE Accounting
    BY Zenon DEF Accounting
  <2>1. sessionsCount = 1 /\ stored # None /\ expiryCount = 0
    BY ConstAssumption DEF IInv, Stopped, Kept, DurableOnly
  <2>2. {k \in Conns : \/ cont[k].timer \in {"armed", "fired", "stuck"}
                       \/ cont[k].timer = "spent" /\ cont[k].due = "will"} = {}
    BY DEF IInv, Kept
  <2>3. Cardinality({}) = 0
    BY EmptySize
  <2> QED
    BY <2>1, <2>2, <2>3, Zenon DEF Accounting
<1> QED
  BY <1>1, Invariance, PTL

\* Once Manager.Stop has stopped the session of an entry, whether it then waits for
\* that session or had nothing to stop, no connection is up.
THEOREM Disconnects == ASSUME DurableOnly PROVE Spec => []StopsConnections
<1>1. IInv => StopsConnections
  BY Zenon DEF IInv, Stopped, StopsConnections
<1> QED
  BY <1>1, Invariance, PTL

\* The lock is not released twice and no wait group goes below zero: what may take
\* the process down is only a second stop of a connection that has no writer.
THEOREM OtherPanics == ASSUME DurableOnly PROVE Spec => [](panicked \in {"no", "writer"})
<1>1. IInv => panicked \in {"no", "writer"}
  BY Zenon DEF IInv, Kept
<1> QED
  BY <1>1, Invariance, PTL
=============================================================================
