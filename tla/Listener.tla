------------------------------ MODULE Listener ------------------------------
(***************************************************************************)
(* The listeners of a server, the goroutine pool they share, and           *)
(* server.Shutdown.  A tcp listener hands one task at a time to the pool:  *)
(* it accepts one connection and carries out its handshake; the result     *)
(* comes back on the listener's channel accept.  A websocket listener      *)
(* leaves accepting to net/http, which runs ServeHTTP in a goroutine for   *)
(* every request; the handshake gets a goroutine of its own.               *)
(***************************************************************************)
EXTENDS Naturals, Sequences, FiniteSets

CONSTANTS
  Listeners,   \* the ports of the tcp listeners,
  WsPorts,     \*   of the websocket listeners
  Size,        \* Acceptor.MaxIncoming: the workers of the pool
  Spawn,       \* Acceptor.PreSpawn: the workers started at once
  QueueSize,   \* the tasks the channel work holds
  MaxClients,  \* bound: the clients that connect
  Temporary    \* may Accept fail with a temporary error?

Ids == 1..Size
None == "none"

\* NewPool panics otherwise.
ASSUME PoolAssumption ==
  /\ Size \in Nat /\ QueueSize \in Nat /\ Spawn \in 0..Size
  /\ Spawn = 0 => QueueSize = 0
  /\ MaxClients \in Nat /\ Temporary \in BOOLEAN
  /\ None \notin Listeners \cup WsPorts /\ Listeners \cap WsPorts = {}

VARIABLES
  sem,      \* tokens in p.sem
  work,     \* tasks in p.work: the listeners that sent them
  pool,     \* p.quit: "open", "closed"
  worker,   \* the goroutines of the pool
  lst,      \* the listeners
  came,     \* how many clients came
  waiting,  \* how many of them a tcp listener has not accepted yet,
  pending,  \*   or not shaken hands with
  ws,       \* the websocket listeners: the http server and onConnection
  req,      \* their requests
  srv,      \* where Shutdown is, the listeners it has left and the one it closes
  broken    \* why the process died, or "no"

web == <<ws, req>>
tcp == <<sem, work, pool, worker, lst, came, waiting, pending>>
vars == <<tcp, web, srv, broken>>

\* A request of a client to a websocket listener
Requests == WsPorts \X (1..MaxClients)

NoTask == [pc |-> "none", l |-> None]

\* NewPool, ListenAndServe
Init ==
  /\ sem = Spawn /\ work = <<>> /\ pool = "open"
  /\ worker = [i \in Ids |-> IF i <= Spawn THEN [NoTask EXCEPT !.pc = "idle"]
                             ELSE NoTask]
  /\ lst = [l \in Listeners |-> [pc |-> "schedule", listener |-> "open",
                                 quit |-> FALSE, accept |-> None]]
  /\ came = 0 /\ waiting = [l \in Listeners |-> 0] /\ pending = waiting
  /\ ws = [w \in WsPorts |-> [http |-> "open", onConnection |-> 0]]
  /\ req = [r \in Requests |-> "none"]
  /\ srv = [pc |-> "run", left |-> Listeners \cup WsPorts, at |-> None]
  /\ broken = "no"

-----------------------------------------------------------------------------
(* tcp.Serve and the pool's Schedule.  A schedule that timed out is tried   *)
(* again, which changes nothing.                                           *)

Client(l) ==
  /\ came < MaxClients /\ lst[l].listener = "open"
  /\ came' = came + 1 /\ pending' = [pending EXCEPT ![l] = @ + 1]
  /\ waiting' = [waiting EXCEPT ![l] = @ + 1]
  /\ UNCHANGED <<sem, work, pool, worker, lst, web, srv, broken>>

\* ScheduleTimeout: a closed pool ends Serve.
ScheduleTimeout(l) ==
  /\ lst[l].pc = "schedule"
  /\ lst' = [lst EXCEPT ![l].pc = IF pool = "closed" THEN "ended" ELSE "select"]
  /\ UNCHANGED <<sem, work, pool, worker, came, waiting, pending, web, srv, broken>>

\* p.sem <- struct{}{}
Token == sem + 1

\* p.work <- task
Room == Len(work) < QueueSize

\* schedule: the queue or a new worker, whichever is ready; a send on a closed
\* channel panics
Schedule(l) ==
  /\ lst[l].pc = "select"
  /\ lst' = [lst EXCEPT ![l].pc = "wait"]
  /\ broken' = (IF pool = "closed" THEN "send" ELSE broken)
  /\ \/ /\ Room
        /\ work' = Append(work, l)
        /\ UNCHANGED <<sem, worker>>
     \/ /\ sem < Size
        /\ sem' = Token
        /\ worker' = [worker EXCEPT ![CHOOSE i \in Ids : worker[i].pc = "none"] =
                        [pc |-> "task", l |-> l]]
        /\ UNCHANGED work
  /\ UNCHANGED <<pool, came, waiting, pending, web, srv>>

\* Mutant: every error ends Serve.
Ends_Any(r) == r # "ok"

Ends(r) == r = "error"

\* err = <-accept: a temporary error is slept over, another one ends Serve.
Accepted(l) ==
  /\ lst[l].pc = "wait" /\ lst[l].accept # None
  /\ lst' = [lst EXCEPT ![l].accept = None,
                        ![l].pc = IF Ends(lst[l].accept) THEN "ended" ELSE "schedule"]
  /\ UNCHANGED <<sem, work, pool, worker, came, waiting, pending, web, srv, broken>>

-----------------------------------------------------------------------------
(* A worker of the pool.                                                   *)

\* The task reads l.listener,
Task(i) ==
  LET l == worker[i].l IN
  /\ worker[i].pc = "task"
  /\ broken' = (IF lst[l].listener = "nil" THEN "nil" ELSE broken)
  /\ worker' = [worker EXCEPT ![i].pc = "accept"]
  /\ UNCHANGED <<sem, work, pool, lst, came, waiting, pending, web, srv>>

\* accept <- er, deferred to the end of the task: nothing while a connection is
\* handled
Reply(l, r) == lst' = IF r = "conn" THEN lst ELSE [lst EXCEPT ![l].accept = r]

Done(i) == worker' = [worker EXCEPT ![i] = [NoTask EXCEPT !.pc = "idle"]]

\* and waits in Accept for a client, or until the listener is closed.
AcceptConn(i) ==
  LET l == worker[i].l IN
  /\ worker[i].pc = "accept"
  /\ \/ /\ lst[l].listener = "open" /\ waiting[l] > 0
        /\ waiting' = [waiting EXCEPT ![l] = @ - 1]
        /\ IF lst[l].quit THEN Reply(l, "error") /\ Done(i)
           ELSE Reply(l, "conn") /\ worker' = [worker EXCEPT ![i].pc = "handle"]
     \/ /\ lst[l].listener # "open"
        /\ Reply(l, "error") /\ Done(i) /\ UNCHANGED waiting
     \/ /\ Temporary /\ lst[l].listener = "open"
        /\ Reply(l, "temporary") /\ Done(i) /\ UNCHANGED waiting
  /\ UNCHANGED <<sem, work, pool, came, pending, web, srv, broken>>

\* handleConnection: the handshake, which ends
HandleConnection(i) ==
  LET l == worker[i].l IN
  /\ worker[i].pc = "handle" /\ lst[l].accept = None
  /\ pending' = [pending EXCEPT ![l] = @ - 1]
  /\ Reply(l, "ok") /\ Done(i)
  /\ UNCHANGED <<sem, work, pool, came, waiting, web, srv, broken>>

\* The next task of the queue; when it is closed and empty the worker ends.
NextTask(i) ==
  /\ worker[i].pc = "idle"
  /\ \/ /\ work # <<>>
        /\ worker' = [worker EXCEPT ![i] = [pc |-> "task", l |-> Head(work)]]
        /\ work' = Tail(work) /\ UNCHANGED sem
     \/ /\ work = <<>> /\ pool = "closed"
        /\ worker' = [worker EXCEPT ![i] = NoTask]
        /\ sem' = sem - 1 /\ UNCHANGED work
  /\ UNCHANGED <<pool, lst, came, waiting, pending, web, srv, broken>>

-----------------------------------------------------------------------------
(* The websocket listeners.                                                *)

WsClient(r) ==
  /\ came < MaxClients /\ req[r] = "none" /\ ws[r[1]].http = "open"
  /\ came' = came + 1 /\ req' = [req EXCEPT ![r] = "request"]
  /\ UNCHANGED <<sem, work, pool, worker, lst, waiting, pending, ws, srv, broken>>

\* ServeHTTP: the protocol is refused, or Upgrade fails, or it takes the
\* connection out of the hands of the http server;
ServeHTTP(r) ==
  /\ req[r] = "request"
  /\ req' \in {[req EXCEPT ![r] = to] : to \in {"refused", "upgraded"}}
  /\ UNCHANGED <<tcp, ws, srv, broken>>

\* then onConnection.Add(1) and the goroutine of the handshake.  It is late when
\* Close has come to its end already.
OnConnection(r) ==
  LET w == r[1] IN
  /\ req[r] = "upgraded"
  /\ req' = [req EXCEPT ![r] = IF w \in srv.left THEN "handle" ELSE "late"]
  /\ ws' = [ws EXCEPT ![w].onConnection = @ + 1]
  /\ UNCHANGED <<tcp, srv, broken>>

HandleWs(r) ==
  /\ req[r] \in {"handle", "late"}
  /\ req' = [req EXCEPT ![r] = "served"]
  /\ ws' = [ws EXCEPT ![r[1]].onConnection = @ - 1]
  /\ UNCHANGED <<tcp, srv, broken>>

-----------------------------------------------------------------------------
(* server.Shutdown                                                         *)

Shutdown ==
  /\ srv.pc = "run" /\ srv' = [srv EXCEPT !.pc = "close"]
  /\ UNCHANGED <<tcp, web, broken>>

\* The loop over the listeners comes to one, and is done with it.
Begin(l) == srv.at = None /\ srv' = [srv EXCEPT !.at = l]
End(l) == srv.at = l /\ srv' = [srv EXCEPT !.at = None, !.left = @ \ {l}]

\* Mutant: the listener itself is not closed.
CloseListener_OnlyQuit(l) ==
  /\ srv.pc = "close" /\ l \in srv.left
  /\ lst' = [lst EXCEPT ![l].quit = TRUE]
  /\ srv' = [srv EXCEPT !.left = @ \ {l}]
  /\ UNCHANGED <<sem, work, pool, worker, came, waiting, pending, web, broken>>

\* tcp.Close: quit, listener.Close(), nil
CloseListener(l) ==
  /\ srv.pc = "close" /\ l \in srv.left
  /\ \/ /\ Begin(l)
        /\ lst' = [lst EXCEPT ![l].quit = TRUE]
     \/ /\ srv.at = l /\ lst[l].listener = "open" /\ UNCHANGED srv
        /\ lst' = [lst EXCEPT ![l].listener = "closed"]
     \/ /\ lst[l].listener = "closed" /\ End(l)
        /\ lst' = [lst EXCEPT ![l].listener = "nil"]
  /\ UNCHANGED <<sem, work, pool, worker, came, waiting, pending, web, broken>>

\* ws.Close: http.Shutdown returns when no request is in ServeHTTP or after five
\* seconds, so it may return at any time; then onConnection is waited for.
\* Serve returns when http.Shutdown has begun.
CloseWs(w) ==
  /\ srv.pc = "close" /\ w \in srv.left
  /\ \/ /\ Begin(w)
        /\ ws' = [ws EXCEPT ![w].http = "closed"]
     \/ /\ ws[w].onConnection = 0
        /\ End(w) /\ UNCHANGED ws
  /\ UNCHANGED <<tcp, req, broken>>

\* Mutant: the listeners are not waited for.
ListenersDone_Any == TRUE

\* s.transports.wg.Wait()
ListenersDone == /\ \A l \in Listeners : lst[l].pc = "ended"
                 /\ \A w \in WsPorts : ws[w].http = "closed"

\* Then it calls Stop of the sessions manager, and stops the metrics and the topics
\* manager when that returns;
StopManagers ==
  /\ srv.pc = "close" /\ srv.left = {} /\ ListenersDone
  /\ srv' = [srv EXCEPT !.pc = "stop"]
  /\ UNCHANGED <<tcp, web, broken>>

\* when all have returned the pool is closed.  The Stop of the sessions manager need
\* not return (Sessions!ShutdownEnds).
ClosePool ==
  /\ srv.pc = "stop" /\ pool' = "closed"
  /\ srv' = [srv EXCEPT !.pc = "done"]
  /\ UNCHANGED <<sem, work, worker, lst, came, waiting, pending, web, broken>>

-----------------------------------------------------------------------------
Serve(l) == ScheduleTimeout(l) \/ Schedule(l) \/ Accepted(l)
Work(i) == Task(i) \/ AcceptConn(i) \/ HandleConnection(i) \/ NextTask(i)
Web(r) == ServeHTTP(r) \/ OnConnection(r) \/ HandleWs(r)
Stopping == \/ \E l \in Listeners : CloseListener(l)
            \/ \E w \in WsPorts : CloseWs(w)
            \/ StopManagers

Next ==
  /\ broken = "no"
  /\ \/ \E l \in Listeners : Client(l) \/ Serve(l)
     \/ \E i \in Ids : Work(i)
     \/ \E r \in Requests : WsClient(r) \/ Web(r)
     \/ Shutdown \/ Stopping \/ ClosePool

Spec == Init /\ [][Next]_vars

\* Goroutines that can run do; a goroutine that waits to send on a channel is
\* queued; and Accept does not fail for ever.  Clients need not come, the server need
\* not be shut down, and the managers need not return from their Stop.
FairSpec ==
  /\ Spec
  /\ \A l \in Listeners : /\ WF_vars(broken = "no" /\ Serve(l))
                          /\ SF_vars(broken = "no" /\ Schedule(l))
  /\ \A i \in Ids : /\ WF_vars(broken = "no" /\ Work(i))
                    /\ SF_vars(broken = "no" /\ AcceptConn(i) /\ waiting' # waiting)
  /\ \A r \in Requests : WF_vars(broken = "no" /\ Web(r))
  /\ WF_vars(broken = "no" /\ Stopping)

-----------------------------------------------------------------------------
(* Properties.                                                             *)

\* The variables have their types; the channels work and sem stay within their
\* capacities.
TypeOK ==
  /\ sem \in 0..Size /\ work \in Seq(Listeners) /\ Len(work) <= QueueSize
  /\ pool \in {"open", "closed"}
  /\ worker \in [Ids -> [pc : {"none", "idle", "task", "accept", "handle"},
                         l : Listeners \cup {None}]]
  /\ lst \in [Listeners -> [pc : {"schedule", "select", "wait", "ended"},
                             listener : {"open", "closed", "nil"}, quit : BOOLEAN,
                             accept : {None, "ok", "temporary", "error"}]]
  /\ ws \in [WsPorts -> [http : {"open", "closed"}, onConnection : Nat]]
  /\ req \in [Requests -> {"none", "request", "refused", "upgraded", "handle",
                            "late", "served"}]
  /\ srv \in [pc : {"run", "close", "stop", "done"}, left : SUBSET (Listeners \cup WsPorts),
               at : Listeners \cup WsPorts \cup {None}]
  /\ broken \in {"no", "send", "nil"}

\* Shutdown takes each part down when nobody uses it any more.  When it stops the
\* sessions manager, and later the pool, no handshake is in progress and none can
\* begin on a tcp listener; every handshake that a websocket listener has counted
\* is over; and no task is sent to the pool once it is closed.
ShutdownOrder ==
  /\ srv.pc \in {"stop", "done"} =>
       /\ \A i \in Ids : worker[i].pc \notin {"task", "accept", "handle"}
       /\ \A r \in Requests : req[r] # "handle"
  /\ broken # "send"

\* The same of every handshake of a websocket listener: Shutdown has "all of
\* listeners finished" when it goes on to the managers.
NoLateHandshake == srv.pc \in {"stop", "done"} => \A r \in Requests : req[r] # "late"

\* "We then close all net.Listener, which will force Accept() to return": a task
\* that is about to accept meets a closed listener, not a nil one.
ListenerNotNil == broken # "nil"

\* A client that connects is served, or the server is shut down: a task that the
\* pool accepted gets a worker, whatever the other listeners wait for.
ClientServed ==
  \A l \in Listeners : pending[l] > 0 ~> pending[l] = 0 \/ srv.pc # "run"

\* Shutdown gets every listener closed, tcp or websocket, and comes to the managers:
\* no Serve and no handshake it waits for holds it up, unless the process dies of the
\* nil listener (ListenerNotNil).  What follows is up to the managers.
ShutdownProceeds == srv.pc = "close" ~> srv.pc = "stop" \/ broken # "no"
=============================================================================
