--------------------------- MODULE ListenerProofs ---------------------------
(***************************************************************************)
(* ShutdownOrder of Listener, for any number of listeners, workers and     *)
(* clients.  It rests on two facts: each tcp listener has at most one task *)
(* in the pool, and only while Serve waits for it; and onConnection counts *)
(* the handshakes of a websocket listener.                                 *)
(***************************************************************************)
EXTENDS Listener, FiniteSetTheorems, TLAPS

Active == {"task", "accept", "handle"}

ListenerType == [pc : {"schedule", "select", "wait", "ended"},
                 listener : {"open", "closed", "nil"}, quit : BOOLEAN,
                 accept : {None, "ok", "temporary", "error"}]

Types ==
  /\ work \in Seq(Listeners)
  /\ worker \in [Ids -> [pc : {"none", "idle", "task", "accept", "handle"},
                         l : Listeners \cup {None}]]
  /\ lst \in [Listeners -> ListenerType]

\* Serve of listener l waits for a task that has not replied.
Waits(l) == l \in Listeners /\ lst[l].pc = "wait" /\ lst[l].accept = None

\* A listener has one task, in the queue or with a worker, while Serve waits.
OnlyWhileWaiting == \A l \in Listeners : lst[l].accept # None => lst[l].pc = "wait"
WorkersWaitedFor == \A i \in Ids : worker[i].pc \in Active => Waits(worker[i].l)
QueuedWaitedFor == \A k \in 1..Len(work) : Waits(work[k])
OneWorker == \A i, j \in Ids : worker[i].pc \in Active /\ worker[j].pc \in Active
                                /\ worker[i].l = worker[j].l => i = j
NotQueued == \A i \in Ids, k \in 1..Len(work) :
               worker[i].pc \in Active => work[k] # worker[i].l
QueuedOnce == \A j, k \in 1..Len(work) : work[j] = work[k] => j = k

OneTask == /\ OnlyWhileWaiting /\ WorkersWaitedFor /\ QueuedWaitedFor
           /\ OneWorker /\ NotQueued /\ QueuedOnce

\* What Shutdown has behind it.
Order ==
  /\ pool = "closed" => srv.pc = "done"
  /\ srv.pc \in {"stop", "done"} => \A l \in Listeners : lst[l].pc = "ended"
  /\ broken # "send"

\* The handshakes that listener w has counted.
Counted(w) == {r \in Requests : r[1] = w /\ req[r] \in {"handle", "late"}}

WebTypes ==
  /\ ws \in [WsPorts -> [http : {"open", "closed"}, onConnection : Nat]]
  /\ req \in [Requests -> {"none", "request", "refused", "upgraded", "handle",
                           "late", "served"}]
  /\ srv \in [pc : {"run", "close", "stop", "done"},
              left : SUBSET (Listeners \cup WsPorts),
              at : Listeners \cup WsPorts \cup {None}]

WebOrder ==
  /\ srv.pc \in {"stop", "done"} => srv.left = {}
  /\ \A r \in Requests : req[r] = "handle" => r[1] \in srv.left
  /\ \A w \in WsPorts : ws[w].onConnection = Cardinality(Counted(w))

IInv == Types /\ OneTask /\ Order /\ WebTypes /\ WebOrder

-----------------------------------------------------------------------------
(* The initial state.                                                      *)

\* The invariant holds when NewPool and ListenAndServe have returned.
LEMMA InitInv == Init => IInv
<1> SUFFICES ASSUME Init PROVE IInv  OBVIOUS
<1>1. Types  BY DEF Init, Types, ListenerType, NoTask
<1>2. OneTask  BY DEF Init, OneTask, OnlyWhileWaiting, WorkersWaitedFor, QueuedWaitedFor, OneWorker,
                 NotQueued, QueuedOnce, Active, NoTask
<1>3. Order  BY DEF Init, Order
<1>4. WebTypes  BY DEF Init, WebTypes
<1>5. WebOrder
  <2>1. \A w \in WsPorts : Counted(w) = {}  BY DEF Init, Counted
  <2>2. Cardinality({}) = 0  BY FS_EmptySet
  <2>3. \A w \in WsPorts : ws[w].onConnection = 0  BY DEF Init
  <2>4. \A w \in WsPorts : ws[w].onConnection = Cardinality(Counted(w))
    BY <2>1, <2>2, <2>3
  <2> QED  BY <2>4 DEF Init, WebOrder
<1> QED  BY <1>1, <1>2, <1>3, <1>4, <1>5 DEF IInv

-----------------------------------------------------------------------------
(* The tcp listeners and the pool.                                         *)

\* A step that changes neither the pool nor the tcp listeners.
LEMMA TasksStutter ==
  ASSUME Types, OneTask, UNCHANGED <<work, worker, lst>>
  PROVE  Types' /\ OneTask'
BY DEF Types, OneTask, OnlyWhileWaiting, WorkersWaitedFor, QueuedWaitedFor,
       OneWorker, NotQueued, QueuedOnce, Waits

\* A step that gives nobody a task, and leaves those who are waited for so.
LEMMA TasksKept ==
  ASSUME Types, OneTask, UNCHANGED <<work>>, OnlyWhileWaiting',
         \A l \in Listeners : Waits(l) => Waits(l)',
         \A i \in Ids : worker'[i].pc \in Active =>
                          worker[i].pc \in Active /\ worker'[i].l = worker[i].l
  PROVE  OneTask'
<1>1. \A l : Waits(l) => Waits(l)'  BY DEF Waits
<1>2. WorkersWaitedFor'  BY <1>1 DEF OneTask, WorkersWaitedFor
<1>3. QueuedWaitedFor'  BY <1>1 DEF OneTask, QueuedWaitedFor
<1>4. OneWorker'  BY DEF OneTask, OneWorker
<1>5. NotQueued'  BY DEF OneTask, NotQueued
<1>6. QueuedOnce'  BY DEF OneTask, QueuedOnce
<1> QED  BY <1>2, <1>3, <1>4, <1>5, <1>6 DEF OneTask

\* A listener about to schedule has no task in the pool.
LEMMA Scheduled ==
  ASSUME Types, OneTask, NEW l \in Listeners, Schedule(l)
  PROVE  Types' /\ OneTask'
<1>1. lst[l].pc = "select" /\ lst' = [lst EXCEPT ![l].pc = "wait"]
  BY DEF Schedule
<1>2. \A i \in Ids : worker[i].pc \in Active => worker[i].l # l
  BY <1>1 DEF OneTask, WorkersWaitedFor, Waits
<1>3. \A k \in 1..Len(work) : work[k] # l
  BY <1>1 DEF OneTask, QueuedWaitedFor, Waits
<1>4. lst[l].accept = None  BY <1>1 DEF OneTask, OnlyWhileWaiting
<1>5. Waits(l)' /\ \A m : Waits(m) => Waits(m)'
  BY <1>1, <1>4 DEF Types, Waits
<1>6. OnlyWhileWaiting'  BY <1>1 DEF OneTask, OnlyWhileWaiting, Types
<1>7. lst' \in [Listeners -> ListenerType]
  <2>1. lst[l] \in ListenerType  BY DEF Types
  <2>2. [lst[l] EXCEPT !.pc = "wait"] \in ListenerType
    BY <2>1 DEF ListenerType
  <2> HIDE DEF ListenerType
  <2>3. lst' = [lst EXCEPT ![l] = [lst[l] EXCEPT !.pc = "wait"]]  BY <1>1
  <2> QED  BY <2>2, <2>3 DEF Types
<1>8. CASE work' = Append(work, l) /\ UNCHANGED worker
  <2>1. /\ Len(work) \in Nat /\ work' \in Seq(Listeners) /\ Len(work') = Len(work) + 1
        /\ work'[Len(work) + 1] = l
        /\ \A k \in 1..Len(work') : k # Len(work) + 1 => k \in 1..Len(work) /\ work'[k] = work[k]
    BY <1>8 DEF Types
  <2>2. Types'  BY <1>7, <1>8, <2>1 DEF Types
  <2>3. WorkersWaitedFor'
    BY <1>5, <1>8 DEF OneTask, WorkersWaitedFor
  <2>4. QueuedWaitedFor'
    BY <1>5, <2>1 DEF OneTask, QueuedWaitedFor
  <2>5. OneWorker'  BY <1>8 DEF OneTask, OneWorker
  <2>6. NotQueued'
    BY <1>2, <1>8, <2>1 DEF OneTask, NotQueued
  <2>7. QueuedOnce'
    BY <1>3, <2>1 DEF OneTask, QueuedOnce
  <2> QED  BY <1>6, <2>2, <2>3, <2>4, <2>5, <2>6, <2>7 DEF OneTask
<1>9. CASE UNCHANGED work /\ worker' = [worker EXCEPT ![CHOOSE i \in Ids : worker[i].pc = "none"] =
                                           [pc |-> "task", l |-> l]]
  <2> DEFINE new == CHOOSE i \in Ids : worker[i].pc = "none"
  <2>1. \A i \in Ids : IF i = new THEN worker'[i] = [pc |-> "task", l |-> l]
                        ELSE worker'[i] = worker[i]
    BY <1>9 DEF Types
  <2>2. worker' \in [Ids -> [pc : {"none", "idle", "task", "accept", "handle"},
                             l : Listeners \cup {None}]]
    BY <1>9, Zenon DEF Types
  <2> HIDE DEF new
  <2>3. Types'  BY <1>7, <1>9, <2>2 DEF Types
  <2>4. WorkersWaitedFor'
    BY <1>5, <2>1 DEF OneTask, WorkersWaitedFor
  <2>5. QueuedWaitedFor'
    BY <1>5, <1>9 DEF OneTask, QueuedWaitedFor
  <2>6. OneWorker'  BY <1>2, <2>1 DEF OneTask, OneWorker
  <2>7. NotQueued'
    BY <1>3, <1>9, <2>1 DEF OneTask, NotQueued
  <2>8. QueuedOnce'  BY <1>9 DEF OneTask, QueuedOnce
  <2> QED  BY <1>6, <2>3, <2>4, <2>5, <2>6, <2>7, <2>8 DEF OneTask
<1> QED  BY <1>8, <1>9 DEF Schedule

\* Serve goes on when its task has replied.
LEMMA Served ==
  ASSUME Types, OneTask, NEW l \in Listeners, ScheduleTimeout(l) \/ Accepted(l)
  PROVE  Types' /\ OneTask'
<1>1. UNCHANGED <<work, worker>>  BY DEF ScheduleTimeout, Accepted
<1>2. PICK to \in {"ended", "select", "schedule"} :
        lst' = [lst EXCEPT ![l] = [lst[l] EXCEPT !.pc = to, !.accept = None]]
  <2>1. CASE ScheduleTimeout(l)
    <3>1. lst[l].accept = None
      BY <2>1 DEF ScheduleTimeout, OneTask, OnlyWhileWaiting
    <3> QED  BY <2>1, <3>1, Zenon DEF ScheduleTimeout, Types
  <2>2. CASE Accepted(l)
    BY <2>2, Zenon DEF Accepted, Types
  <2> QED  BY <2>1, <2>2
<1>3. ~Waits(l)  BY DEF ScheduleTimeout, Accepted, Waits
<1>4. Types'
  <2>1. lst[l] \in ListenerType  BY DEF Types
  <2>2. [lst[l] EXCEPT !.pc = to, !.accept = None] \in ListenerType
    BY <2>1, Zenon DEF ListenerType
  <2> QED  BY <1>1, <1>2, <2>2 DEF Types
<1>5. OnlyWhileWaiting'  BY <1>2 DEF OneTask, OnlyWhileWaiting, Types
<1>6. \A m \in Listeners : Waits(m) => Waits(m)'  BY <1>2, <1>3 DEF Types, Waits
<1> QED  BY <1>1, <1>4, <1>5, <1>6, TasksKept

\* The reply of a task is its last step.
LEMMA Replied ==
  ASSUME Types, OneTask, NEW i \in Ids, worker[i].pc \in Active,
         NEW r \in {"ok", "temporary", "error"},
         lst' = [lst EXCEPT ![worker[i].l].accept = r], Done(i), UNCHANGED work
  PROVE  Types' /\ OneTask'
<1> DEFINE w == worker[i].l
<1>1. Waits(w)  BY DEF OneTask, WorkersWaitedFor
<1>2. worker' = [worker EXCEPT ![i] = [pc |-> "idle", l |-> None]]
  <2>1. [NoTask EXCEPT !.pc = "idle"] = [pc |-> "idle", l |-> None]  BY DEF NoTask
  <2> QED  BY <2>1, Zenon DEF Done
<1>3. w \in Listeners /\ lst[w].pc = "wait"  BY <1>1 DEF Waits
<1>4. Types'
  <2>1. worker' \in [Ids -> [pc : {"none", "idle", "task", "accept", "handle"},
                             l : Listeners \cup {None}]]
    BY <1>2 DEF Types
  <2>2. lst' \in [Listeners -> ListenerType]
    <3>1. lst[w] \in ListenerType  BY <1>3 DEF Types
    <3>2. [lst[w] EXCEPT !.accept = r] \in ListenerType  BY <3>1 DEF ListenerType
    <3> QED  BY <1>3, <3>2 DEF Types
  <2> QED  BY <2>1, <2>2 DEF Types
<1>5. \A j \in Ids : worker'[j].pc \in Active =>
                       j # i /\ worker'[j] = worker[j] /\ worker[j].l # w
  BY <1>2 DEF Types, Active, OneTask, OneWorker
<1>6. \A k \in 1..Len(work) : work[k] # w
  BY DEF OneTask, NotQueued
<1>7. \A m : Waits(m) /\ m # w => Waits(m)'
  BY <1>3 DEF Types, Waits
<1>8. OnlyWhileWaiting'
  BY <1>3 DEF OneTask, OnlyWhileWaiting, Types
<1> HIDE DEF w
<1>9. WorkersWaitedFor'
  BY <1>5, <1>7 DEF OneTask, WorkersWaitedFor
<1>10. QueuedWaitedFor'
  BY <1>6, <1>7 DEF OneTask, QueuedWaitedFor
<1>11. OneWorker'  BY <1>5 DEF OneTask, OneWorker
<1>12. NotQueued'  BY <1>5 DEF OneTask, NotQueued
<1>13. QueuedOnce'  BY DEF OneTask, QueuedOnce
<1> QED  BY <1>4, <1>8, <1>9, <1>10, <1>11, <1>12, <1>13 DEF OneTask

\* A worker goes on with its task.
LEMMA GoesOn ==
  ASSUME Types, OneTask, NEW i \in Ids, worker[i].pc \in Active,
         NEW to \in Active \cup {"none", "idle"},
         worker' = [worker EXCEPT ![i].pc = to], UNCHANGED <<lst, work>>
  PROVE  Types' /\ OneTask'
<1>1. Types'  BY DEF Types, Active
<1>2. OnlyWhileWaiting'  BY DEF OneTask, OnlyWhileWaiting
<1>3. \A m \in Listeners : Waits(m) => Waits(m)'  BY DEF Waits
<1>4. \A j \in Ids : worker'[j].pc \in Active =>
                       worker[j].pc \in Active /\ worker'[j].l = worker[j].l
  BY DEF Types
<1> QED  BY <1>1, <1>2, <1>3, <1>4, TasksKept

\* A worker takes the next task of the queue, or ends.
LEMMA NextTasks ==
  ASSUME Types, OneTask, NEW i \in Ids, NextTask(i)
  PROVE  Types' /\ OneTask'
<1>1. worker[i].pc = "idle" /\ UNCHANGED lst  BY DEF NextTask
<1>2. OnlyWhileWaiting'  BY <1>1 DEF OneTask, OnlyWhileWaiting
<1>3. \A m : Waits(m) => Waits(m)'  BY <1>1 DEF Waits
<1>4. CASE /\ work # <<>> /\ work' = Tail(work)
           /\ worker' = [worker EXCEPT ![i] = [pc |-> "task", l |-> Head(work)]]
  <2>1. /\ Len(work) \in Nat \ {0} /\ Head(work) = work[1] /\ 1 \in 1..Len(work)
        /\ Len(work') = Len(work) - 1
        /\ \A k \in 1..Len(work') : work'[k] = work[k + 1] /\ k + 1 \in 1..Len(work)
                                     /\ k + 1 # 1
        /\ work' \in Seq(Listeners) /\ work[1] \in Listeners
    BY <1>4 DEF Types
  <2>2. \A j \in Ids : IF j = i THEN worker'[j] = [pc |-> "task", l |-> work[1]]
                        ELSE worker'[j] = worker[j]
    BY <1>4, <2>1 DEF Types
  <2>3. Types'
    BY <1>1, <1>4, <2>1 DEF Types
  <2>4. WorkersWaitedFor'
    BY <1>3, <2>1, <2>2 DEF OneTask, WorkersWaitedFor, QueuedWaitedFor
  <2>5. QueuedWaitedFor'
    BY <1>3, <2>1 DEF OneTask, QueuedWaitedFor
  <2>6. OneWorker'
    BY <2>1, <2>2 DEF OneTask, OneWorker, NotQueued
  <2>7. NotQueued'
    BY <2>1, <2>2 DEF OneTask, NotQueued, QueuedOnce
  <2>8. QueuedOnce'
    <3> SUFFICES ASSUME NEW j \in 1..Len(work'), NEW k \in 1..Len(work'), work'[j] = work'[k]
                 PROVE  j = k
      BY DEF QueuedOnce
    <3>1. j + 1 = k + 1  BY <2>1 DEF OneTask, QueuedOnce
    <3> QED  BY <2>1, <3>1
  <2> QED  BY <1>2, <2>3, <2>4, <2>5, <2>6, <2>7, <2>8 DEF OneTask
<1>5. CASE UNCHANGED work /\ worker' = [worker EXCEPT ![i] = NoTask]
  <2>1. Types'  BY <1>1, <1>5 DEF Types, NoTask
  <2>2. \A j \in Ids : worker'[j].pc \in Active =>
                         worker[j].pc \in Active /\ worker'[j].l = worker[j].l
    BY <1>5 DEF Types, NoTask, Active
  <2> QED  BY <1>2, <1>3, <1>5, <2>1, <2>2, TasksKept
<1> QED  BY <1>4, <1>5 DEF NextTask

\* A worker keeps its task until it has replied.
LEMMA Worked ==
  ASSUME Types, OneTask, NEW i \in Ids, Work(i)
  PROVE  Types' /\ OneTask'
<1>1. CASE Task(i)
  <2>1. /\ worker[i].pc \in Active /\ worker' = [worker EXCEPT ![i].pc = "accept"]
        /\ UNCHANGED <<lst, work>>
    BY <1>1 DEF Task, Active
  <2> QED  BY <2>1, GoesOn, Zenon DEF Active
<1>2. CASE AcceptConn(i)
  <2>1. worker[i].pc \in Active /\ UNCHANGED work  BY <1>2 DEF AcceptConn, Active
  <2>2. CASE lst' = lst /\ worker' = [worker EXCEPT ![i].pc = "handle"]
    BY <2>1, <2>2, GoesOn, Zenon DEF Active
  <2>3. CASE \E r \in {"temporary", "error"} :
               lst' = [lst EXCEPT ![worker[i].l].accept = r] /\ Done(i)
    BY <2>1, <2>3, Replied, Zenon
  <2> QED  BY <1>2, <2>2, <2>3 DEF AcceptConn, Reply
<1>3. CASE HandleConnection(i)
  <2>1. /\ worker[i].pc \in Active /\ UNCHANGED work /\ Done(i)
        /\ lst' = [lst EXCEPT ![worker[i].l].accept = "ok"]
    BY <1>3 DEF HandleConnection, Reply, Active
  <2> QED  BY <2>1, Replied, Zenon
<1> QED  BY <1>1, <1>2, <1>3, NextTasks DEF Work

\* Close changes neither the place of Serve nor the reply.
LEMMA Closed ==
  ASSUME Types, OneTask, NEW l \in Listeners, CloseListener(l)
  PROVE  /\ Types' /\ OneTask'
         /\ \A m \in Listeners : lst'[m].pc = lst[m].pc
<1>1. UNCHANGED <<work, worker>>  BY DEF CloseListener
<1>2. PICK new \in {[lst[l] EXCEPT !.quit = TRUE], [lst[l] EXCEPT !.listener = "closed"],
                     [lst[l] EXCEPT !.listener = "nil"]} :
        lst' = [lst EXCEPT ![l] = new]
  BY DEF CloseListener
<1>3. new \in ListenerType /\ new.pc = lst[l].pc /\ new.accept = lst[l].accept
  <2>1. lst[l] \in ListenerType  BY DEF Types
  <2> QED  BY <2>1, Zenon DEF ListenerType
<1>4. Types'  BY <1>1, <1>2, <1>3 DEF Types
<1>5. \A m \in Listeners : lst'[m].pc = lst[m].pc /\ lst'[m].accept = lst[m].accept
  BY <1>2, <1>3 DEF Types
<1>6. OnlyWhileWaiting'  BY <1>5 DEF OneTask, OnlyWhileWaiting
<1>7. \A m \in Listeners : Waits(m) => Waits(m)'  BY <1>5 DEF Waits
<1> QED  BY <1>1, <1>4, <1>5, <1>6, <1>7, TasksKept

\* Every step keeps the one task of each listener.
LEMMA TasksInv ==
  ASSUME Types, OneTask, [Next]_vars
  PROVE  Types' /\ OneTask'
<1>1. CASE \E l \in Listeners : Schedule(l)  BY <1>1, Scheduled
<1>2. CASE \E l \in Listeners : ScheduleTimeout(l) \/ Accepted(l)  BY <1>2, Served
<1>3. CASE \E i \in Ids : Work(i)  BY <1>3, Worked
<1>4. CASE \E l \in Listeners : CloseListener(l)  BY <1>4, Closed
<1>5. CASE UNCHANGED <<work, worker, lst>>  BY <1>5, TasksStutter
<1>6. ASSUME NEW l \in Listeners, Client(l) PROVE UNCHANGED <<work, worker, lst>>
  BY <1>6 DEF Client
<1>7. ASSUME NEW r \in Requests, WsClient(r) \/ Web(r) PROVE UNCHANGED <<work, worker, lst>>
  BY <1>7 DEF WsClient, Web, ServeHTTP, OnConnection, HandleWs, tcp
<1>8. ASSUME NEW w \in WsPorts, CloseWs(w) PROVE UNCHANGED <<work, worker, lst>>
  BY <1>8 DEF CloseWs, tcp
<1>9. ASSUME Shutdown \/ StopManagers \/ ClosePool PROVE UNCHANGED <<work, worker, lst>>
  BY <1>9 DEF Shutdown, StopManagers, ClosePool, tcp
<1>10. ASSUME UNCHANGED vars PROVE UNCHANGED <<work, worker, lst>>
  BY <1>10 DEF vars, tcp
<1> QED
  BY <1>1, <1>2, <1>3, <1>4, <1>5, <1>6, <1>7, <1>8, <1>9, <1>10
  DEF Next, Serve, Stopping

-----------------------------------------------------------------------------
(* Shutdown.                                                               *)

\* Serve of a listener that has ended stays so, and the pool is closed last.
LEMMA OrderInv ==
  ASSUME Types, WebTypes, Order, [Next]_vars
  PROVE  Order'
<1> USE DEF Order
<1>1. CASE \E l \in Listeners : Serve(l)
  <2> PICK l \in Listeners : Serve(l)  BY <1>1
  <2>1. lst[l].pc # "ended" /\ UNCHANGED <<pool, srv>>
    BY DEF Serve, ScheduleTimeout, Schedule, Accepted
  <2>2. srv.pc \notin {"stop", "done"} /\ pool # "closed"  BY <2>1
  <2>3. broken' = broken
    BY <2>2 DEF Serve, ScheduleTimeout, Schedule, Accepted
  <2> QED  BY <2>1, <2>2, <2>3
<1>2. CASE \E i \in Ids : Work(i)
  <2> PICK i \in Ids : Work(i)  BY <1>2
  <2>1. UNCHANGED <<pool, srv>> /\ broken' \in {broken, "nil"}
    BY DEF Work, Task, AcceptConn, HandleConnection, NextTask
  <2>2. \/ lst' = lst
        \/ \E r : lst' = [lst EXCEPT ![worker[i].l].accept = r]
    BY Zenon DEF Work, Task, AcceptConn, HandleConnection, NextTask, Reply
  <2>3. \A l \in Listeners : lst'[l].pc = lst[l].pc
    <3> TAKE l \in Listeners
    <3>1. lst[l] \in ListenerType  BY DEF Types
    <3>2. CASE lst' # lst
      <4>1. PICK r : lst' = [lst EXCEPT ![worker[i].l].accept = r]  BY <2>2, <3>2, Zenon
      <4>2. lst \in [Listeners -> ListenerType]  BY DEF Types
      <4>3. CASE l = worker[i].l
        <5>1. lst'[l] = [lst[l] EXCEPT !.accept = r]  BY <4>1, <4>2, <4>3
        <5> QED  BY <3>1, <5>1 DEF ListenerType
      <4>4. CASE l # worker[i].l  BY <4>1, <4>2, <4>4
      <4> QED  BY <4>3, <4>4
    <3> QED  BY <3>2
  <2> QED  BY <2>1, <2>3
<1>3. CASE \E l \in Listeners : CloseListener(l)
  <2> PICK l \in Listeners : CloseListener(l)  BY <1>3
  <2>1. srv.pc = "close" /\ srv'.pc = srv.pc /\ UNCHANGED <<pool, broken>>
    BY Zenon DEF CloseListener, Begin, End, WebTypes
  <2> QED  BY <2>1
<1>4. CASE \E w \in WsPorts : CloseWs(w)
  <2> PICK w \in WsPorts : CloseWs(w)  BY <1>4
  <2>1. srv.pc = "close" /\ srv'.pc = srv.pc /\ UNCHANGED <<lst, pool, broken>>
    BY Zenon DEF CloseWs, Begin, End, tcp, WebTypes
  <2> QED  BY <2>1
<1>5. CASE Shutdown
  <2>1. srv.pc = "run" /\ srv'.pc = "close" /\ UNCHANGED <<lst, pool, broken>>
    BY <1>5 DEF Shutdown, tcp
  <2> QED  BY <2>1
<1>6. CASE StopManagers
  <2>1. /\ srv.pc = "close" /\ srv'.pc = "stop" /\ UNCHANGED <<lst, pool, broken>>
        /\ \A l \in Listeners : lst[l].pc = "ended"
    BY <1>6 DEF StopManagers, ListenersDone, tcp
  <2> QED  BY <2>1
<1>7. CASE ClosePool
  <2>1. srv.pc = "stop" /\ srv'.pc = "done" /\ UNCHANGED <<lst, broken>>
    BY <1>7 DEF ClosePool
  <2> QED  BY <2>1
<1>8. CASE UNCHANGED <<pool, srv, lst, broken>>  BY <1>8
<1>9. ASSUME NEW l \in Listeners, Client(l) PROVE UNCHANGED <<pool, srv, lst, broken>>
  BY <1>9 DEF Client
<1>10. ASSUME NEW r \in Requests, WsClient(r) \/ Web(r)
       PROVE  UNCHANGED <<pool, srv, lst, broken>>
  BY <1>10 DEF WsClient, Web, ServeHTTP, OnConnection, HandleWs, tcp
<1>11. ASSUME UNCHANGED vars PROVE UNCHANGED <<pool, srv, lst, broken>>
  BY <1>11 DEF vars, tcp
<1> QED
  BY <1>1, <1>2, <1>3, <1>4, <1>5, <1>6, <1>7, <1>8, <1>9, <1>10, <1>11
  DEF Next, Stopping

-----------------------------------------------------------------------------
(* The websocket listeners.                                                *)

\* A websocket listener has finitely many handshakes.
LEMMA CountedFinite == ASSUME NEW w \in WsPorts PROVE IsFiniteSet(Counted(w))
<1>1. IsFiniteSet({w})  BY FS_Singleton, Zenon
<1>2. IsFiniteSet(1..MaxClients)  BY FS_Interval, PoolAssumption
<1>3. IsFiniteSet({w} \X (1..MaxClients))  BY <1>1, <1>2, FS_Product, Zenon
<1>4. Counted(w) \subseteq {w} \X (1..MaxClients)
  BY DEF Counted, Requests
<1> QED  BY <1>3, <1>4, FS_Subset

\* A step that leaves the websocket listeners alone may take Shutdown on.
LEMMA WebKept ==
  ASSUME WebTypes, WebOrder, UNCHANGED web, WebTypes',
         srv'.left = srv.left \/ \E l \in Listeners : srv'.left = srv.left \ {l},
         srv'.pc \in {"stop", "done"} => srv'.left = {}
  PROVE  WebOrder'
<1>1. UNCHANGED <<ws, req>>  BY DEF web
<1>2. \A w \in WsPorts : Counted(w)' = Counted(w)  BY <1>1 DEF Counted
<1>3. \A r \in Requests : r[1] \in WsPorts /\ r[1] \notin Listeners
  BY PoolAssumption DEF Requests
<1>4. \A r \in Requests : req'[r] = "handle" => r[1] \in srv'.left
  BY <1>1, <1>3 DEF WebOrder
<1>5. \A w \in WsPorts : (ws[w].onConnection = Cardinality(Counted(w)))'
  BY <1>1, <1>2 DEF WebOrder
<1> QED  BY <1>4, <1>5 DEF WebOrder

\* Shutdown of the tcp listeners and of the server.
LEMMA SrvInv ==
  ASSUME WebTypes, WebOrder,
         (\E l \in Listeners : CloseListener(l)) \/ Shutdown \/ StopManagers \/ ClosePool
  PROVE  WebTypes' /\ WebOrder'
<1>1. UNCHANGED web
  BY DEF CloseListener, Shutdown, StopManagers, ClosePool
<1>2. UNCHANGED <<ws, req>>  BY <1>1 DEF web
<1>3. CASE \E l \in Listeners : CloseListener(l)
  <2> PICK l \in Listeners : CloseListener(l)  BY <1>3
  <2>1. srv.pc = "close" /\ (Begin(l) \/ End(l) \/ UNCHANGED srv)  BY DEF CloseListener
  <2>2. WebTypes'
    <3>1. CASE Begin(l)  BY <1>2, <3>1 DEF WebTypes, Begin
    <3>2. CASE End(l)  BY <1>2, <3>2, Zenon DEF WebTypes, End
    <3> QED  BY <1>2, <2>1, <3>1, <3>2 DEF WebTypes
  <2>3. /\ srv'.pc = "close"
        /\ srv'.left = srv.left \/ srv'.left = srv.left \ {l}
    BY <2>1, Zenon DEF WebTypes, Begin, End
  <2> QED  BY <1>1, <2>2, <2>3, WebKept
<1>4. CASE Shutdown \/ StopManagers \/ ClosePool
  <2>1. PICK to \in {"close", "stop", "done"} : srv' = [srv EXCEPT !.pc = to]
    BY <1>4 DEF Shutdown, StopManagers, ClosePool
  <2>2. WebTypes'  BY <1>2, <2>1 DEF WebTypes
  <2>3. srv'.left = srv.left /\ srv'.pc = to  BY <2>1 DEF WebTypes
  <2>4. to \in {"stop", "done"} => srv.left = {}
    BY <1>4, <2>1, <2>3 DEF Shutdown, StopManagers, ClosePool, WebTypes, WebOrder
  <2> QED  BY <1>1, <2>2, <2>3, <2>4, WebKept, Zenon
<1> QED  BY <1>3, <1>4

\* A request that is neither counted nor becomes so.
LEMMA Uncounted ==
  ASSUME WebTypes, WebOrder, NEW q \in Requests, UNCHANGED <<ws, srv>>,
         NEW to \in {"request", "refused", "upgraded"},
         req[q] \in {"none", "request"}, req' = [req EXCEPT ![q] = to]
  PROVE  WebTypes' /\ WebOrder'
<1>1. WebTypes'  BY DEF WebTypes
<1>2. \A r \in Requests : req'[r] \in {"handle", "late"} <=> req[r] \in {"handle", "late"}
  BY DEF WebTypes
<1>3. \A w \in WsPorts : Counted(w)' = Counted(w)  BY <1>2 DEF Counted
<1>4. \A r \in Requests : req'[r] = "handle" => r[1] \in srv'.left
  BY DEF WebTypes, WebOrder
<1>5. \A w \in WsPorts : (ws[w].onConnection = Cardinality(Counted(w)))'
  BY <1>3 DEF WebOrder
<1> QED  BY <1>1, <1>4, <1>5 DEF WebOrder

\* onConnection.Add(1)
LEMMA Added ==
  ASSUME WebTypes, WebOrder, NEW q \in Requests, OnConnection(q)
  PROVE  WebTypes' /\ WebOrder'
<1> DEFINE p == q[1]
<1>1. p \in WsPorts  BY DEF Requests
<1>2. /\ req[q] = "upgraded" /\ UNCHANGED srv
      /\ req' = [req EXCEPT ![q] = IF p \in srv.left THEN "handle" ELSE "late"]
      /\ ws' = [ws EXCEPT ![p].onConnection = @ + 1]
  BY DEF OnConnection
<1>3. WebTypes'  BY <1>1, <1>2 DEF WebTypes
<1>4. \A r \in Requests : req'[r] = "handle" => r[1] \in srv'.left
  BY <1>2 DEF WebTypes, WebOrder
<1>5. req'[q] \in {"handle", "late"} /\ \A r \in Requests : r # q => req'[r] = req[r]
  BY <1>2 DEF WebTypes
<1>6. Counted(p)' = Counted(p) \cup {q} /\ q \notin Counted(p)
  BY <1>2, <1>5 DEF Counted
<1>7. \A w \in WsPorts : w # p => Counted(w)' = Counted(w)
  BY <1>5 DEF Counted
<1>8. Cardinality(Counted(p) \cup {q}) = Cardinality(Counted(p)) + 1
  BY <1>1, <1>6, CountedFinite, FS_AddElement, Zenon
<1>9. /\ ws'[p].onConnection = ws[p].onConnection + 1
      /\ \A w \in WsPorts : w # p => ws'[w] = ws[w]
  BY <1>1, <1>2 DEF WebTypes
<1>10. ws[p].onConnection = Cardinality(Counted(p))  BY <1>1 DEF WebOrder
<1> HIDE DEF p
<1>11. ws'[p].onConnection = Cardinality(Counted(p)')
  BY <1>6, <1>8, <1>9, <1>10
<1>12. \A w \in WsPorts : ws'[w].onConnection = Cardinality(Counted(w)')
  BY <1>7, <1>9, <1>11 DEF WebOrder
<1>13. \A w \in WsPorts : (ws[w].onConnection = Cardinality(Counted(w)))'
  BY <1>12
<1> QED  BY <1>2, <1>3, <1>4, <1>13 DEF WebOrder

\* onConnection.Done()
LEMMA Finished ==
  ASSUME WebTypes, WebOrder, NEW q \in Requests, HandleWs(q)
  PROVE  WebTypes' /\ WebOrder'
<1> DEFINE p == q[1]
<1>1. p \in WsPorts  BY DEF Requests
<1>2. /\ req[q] \in {"handle", "late"} /\ UNCHANGED srv
      /\ req' = [req EXCEPT ![q] = "served"]
      /\ ws' = [ws EXCEPT ![p].onConnection = @ - 1]
  BY DEF HandleWs
<1>3. q \in Counted(p)  BY <1>2 DEF Counted
<1>4. IsFiniteSet(Counted(p)) /\ Cardinality(Counted(p)) \in Nat
  BY <1>1, CountedFinite, FS_CardinalityType
<1>5. ws[p].onConnection = Cardinality(Counted(p)) /\ Cardinality(Counted(p)) # 0
  BY <1>1, <1>3, <1>4, FS_EmptySet DEF WebOrder
<1>6. WebTypes'
  <2>1. ws[p].onConnection - 1 \in Nat  BY <1>4, <1>5
  <2> QED  BY <1>1, <1>2, <2>1 DEF WebTypes
<1>7. req'[q] = "served" /\ \A r \in Requests : r # q => req'[r] = req[r]
  BY <1>2 DEF WebTypes
<1>8. \A r \in Requests : req'[r] = "handle" => r[1] \in srv'.left
  BY <1>2, <1>7 DEF WebOrder
<1>9. Counted(p)' = Counted(p) \ {q}  BY <1>7 DEF Counted
<1>10. \A w \in WsPorts : w # p => Counted(w)' = Counted(w)
  BY <1>7 DEF Counted
<1>11. Cardinality(Counted(p) \ {q}) = Cardinality(Counted(p)) - 1
  BY <1>3, <1>4, FS_RemoveElement, Zenon
<1>12. /\ ws'[p].onConnection = ws[p].onConnection - 1
       /\ \A w \in WsPorts : w # p => ws'[w] = ws[w]
  BY <1>1, <1>2 DEF WebTypes
<1> HIDE DEF p
<1>13. ws'[p].onConnection = Cardinality(Counted(p)')
  BY <1>5, <1>9, <1>11, <1>12
<1>14. \A w \in WsPorts : ws'[w].onConnection = Cardinality(Counted(w)')
  BY <1>10, <1>12, <1>13 DEF WebOrder
<1>15. \A w \in WsPorts : (ws[w].onConnection = Cardinality(Counted(w)))'
  BY <1>14
<1> QED  BY <1>2, <1>6, <1>8, <1>15 DEF WebOrder

\* ws.Close returns when no handshake is counted.
LEMMA WsClosed ==
  ASSUME WebTypes, WebOrder, NEW p \in WsPorts, CloseWs(p)
  PROVE  WebTypes' /\ WebOrder'
<1>1. srv.pc = "close" /\ UNCHANGED req  BY DEF CloseWs
<1>2. \A w \in WsPorts : Counted(w)' = Counted(w)  BY <1>1 DEF Counted
<1>3. CASE Begin(p) /\ ws' = [ws EXCEPT ![p].http = "closed"]
  <2>1. WebTypes'  BY <1>1, <1>3 DEF WebTypes, Begin
  <2>2. srv'.pc = "close" /\ srv'.left = srv.left  BY <1>1, <1>3 DEF Begin, WebTypes
  <2>3. \A w \in WsPorts : ws'[w].onConnection = ws[w].onConnection  BY <1>3 DEF WebTypes
  <2>4. \A w \in WsPorts : (ws[w].onConnection = Cardinality(Counted(w)))'
    BY <1>2, <2>3 DEF WebOrder
  <2> QED  BY <1>1, <2>1, <2>2, <2>4 DEF WebOrder
<1>4. CASE ws[p].onConnection = 0 /\ End(p) /\ UNCHANGED ws
  <2>1. WebTypes'  BY <1>1, <1>4, Zenon DEF WebTypes, End
  <2>2. srv'.pc = "close" /\ srv'.left = srv.left \ {p}  BY <1>1, <1>4 DEF End, WebTypes
  <2>3. Counted(p) = {}  BY <1>4, CountedFinite, FS_EmptySet DEF WebOrder
  <2>4. \A r \in Requests : req[r] = "handle" => r[1] # p  BY <2>3 DEF Counted
  <2>5. \A r \in Requests : req'[r] = "handle" => r[1] \in srv'.left
    BY <1>1, <2>2, <2>4 DEF WebOrder
  <2>6. \A w \in WsPorts : (ws[w].onConnection = Cardinality(Counted(w)))'
    BY <1>2, <1>4 DEF WebOrder
  <2> QED  BY <2>1, <2>2, <2>5, <2>6 DEF WebOrder
<1> QED  BY <1>3, <1>4 DEF CloseWs

\* Every step keeps the count of the handshakes.
LEMMA WebInv ==
  ASSUME WebTypes, WebOrder, [Next]_vars
  PROVE  WebTypes' /\ WebOrder'
<1>1. CASE UNCHANGED <<web, srv>>
  <2>1. WebTypes'  BY <1>1 DEF web, WebTypes
  <2> QED  BY <1>1, <2>1, WebKept DEF WebOrder
<1>2. ASSUME NEW l \in Listeners, Client(l) \/ Serve(l) PROVE UNCHANGED <<web, srv>>
  BY <1>2 DEF Client, Serve, ScheduleTimeout, Schedule, Accepted
<1>3. ASSUME NEW i \in Ids, Work(i) PROVE UNCHANGED <<web, srv>>
  <2>1. CASE Task(i)  BY <2>1, Zenon DEF Task
  <2>2. CASE AcceptConn(i)  BY <2>2, Zenon DEF AcceptConn
  <2>3. CASE HandleConnection(i)  BY <2>3, Zenon DEF HandleConnection
  <2>4. CASE NextTask(i)  BY <2>4, Zenon DEF NextTask
  <2> QED  BY <1>3, <2>1, <2>2, <2>3, <2>4, Zenon DEF Work
<1>4. ASSUME NEW q \in Requests, WsClient(q) \/ ServeHTTP(q) PROVE WebTypes' /\ WebOrder'
  <2>1. /\ UNCHANGED <<ws, srv>> /\ req[q] \in {"none", "request"}
        /\ \E to \in {"request", "refused", "upgraded"} : req' = [req EXCEPT ![q] = to]
    BY <1>4 DEF WsClient, ServeHTTP
  <2> QED  BY <2>1, Uncounted, Zenon
<1>5. ASSUME UNCHANGED vars PROVE UNCHANGED <<web, srv>>  BY <1>5 DEF vars
<1> QED
  BY <1>1, <1>2, <1>3, <1>4, <1>5, Added, Finished, WsClosed, SrvInv
  DEF Next, Stopping, Web

-----------------------------------------------------------------------------
(* The theorems.                                                           *)

\* The inductive invariant: one task for each tcp listener, what Shutdown has
\* behind it, and onConnection.
THEOREM Invariance == Spec => []IInv
<1>1. IInv /\ [Next]_vars => IInv'
  <2> SUFFICES ASSUME IInv, [Next]_vars PROVE IInv'  OBVIOUS
  <2>1. Types /\ OneTask /\ Order /\ WebTypes /\ WebOrder  BY DEF IInv
  <2>2. Types' /\ OneTask'  BY <2>1, TasksInv
  <2>3. Order'  BY <2>1, OrderInv
  <2>4. WebTypes' /\ WebOrder'  BY <2>1, WebInv
  <2> QED  BY <2>2, <2>3, <2>4 DEF IInv
<1> QED  BY InitInv, <1>1, PTL DEF Spec

\* Shutdown stops the managers and closes the pool when no tcp handshake is in
\* progress or can begin and every counted websocket handshake is over; nothing is
\* sent to the closed pool.
THEOREM OrderedShutdown == Spec => []ShutdownOrder
<1>1. IInv => ShutdownOrder
  <2> SUFFICES ASSUME IInv PROVE ShutdownOrder  OBVIOUS
  <2>1. broken # "send"  BY DEF IInv, Order
  <2>2. ASSUME srv.pc \in {"stop", "done"} PROVE \A i \in Ids : worker[i].pc \notin Active
    BY <2>2 DEF IInv, Order, OneTask, WorkersWaitedFor, Waits
  <2>3. ASSUME srv.pc \in {"stop", "done"} PROVE \A r \in Requests : req[r] # "handle"
    BY <2>3 DEF IInv, WebOrder
  <2> QED  BY <2>1, <2>2, <2>3 DEF ShutdownOrder, Active
<1> QED  BY Invariance, <1>1, PTL
=============================================================================
