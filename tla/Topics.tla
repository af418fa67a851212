------------------------------- MODULE Topics -------------------------------
(***************************************************************************)
(* The subscription tree of topics/memlockfree: nodes with atomic counters *)
(* and lock-free maps, changed at once by two subscriber goroutines, two   *)
(* unSubscriber goroutines and the retainer, one request each at a time.   *)
(* A topic or a filter is the sequence of its levels.                      *)
(***************************************************************************)
EXTENDS Integers, Sequences, FiniteSets

CONSTANTS
  Subs,          \* the subscribers
  Filters,       \* the topic filters they use
  Names,         \* the topic names that are published
  RetainNames,   \* those among them that retained messages are sent to
  Sys,           \* the levels that start with $
  Subscribers, UnSubscribers, Retainers,   \* the goroutines
  RetainKinds,   \* retained messages: "keep", "qos0", "clear" (no payload)
  Racing,        \* bound: the filters whose requests may be in progress at once,
  Together,      \*   and the goroutines that may then be busy
  MaxOps,        \* bound: requests, one fewer when some are outside Racing
  MaxNodes       \* bound: nodes allocated

Paths == Filters \cup Names
Levels == UNION {{p[i] : i \in DOMAIN p} : p \in Paths} \cup {"+", "#"}
Workers == Subscribers \cup UnSubscribers \cup Retainers
Nodes == 1..MaxNodes
Root == 1
Nil == 0

ASSUME TopicsAssumption ==
  /\ Together \subseteq Workers /\ Racing \subseteq Paths /\ MaxOps \in Nat /\ MaxNodes \in Nat \ {0}
  /\ RetainNames \subseteq Names /\ Sys \subseteq Levels
  /\ RetainKinds \subseteq {"keep", "qos0", "clear"}
  /\ \A p \in Paths : Len(p) > 0

VARIABLES
  node,        \* the nodes
  next,        \* the nodes allocated are 1..next
  w,           \* the requests in progress
  subscribed,  \* ghost: the subscriptions that are acknowledged
  kept,        \* ghost: the topics with a retained message
  raced,       \* ghost: a removal has been in progress beside another request
  ops          \* what the requests so far count

vars == <<node, next, w, subscribed, kept, raced, ops>>

NewNode(parent) ==
  [parent |-> parent, children |-> [l \in Levels |-> Nil], subs |-> {},
   retained |-> <<>>, kidsCount |-> 0, subsCount |-> 0, remove |-> FALSE,
   wgDeleted |-> 0]

Idle == [pc |-> "idle", op |-> "", path |-> <<>>, s |-> {}, at |-> Root, i |-> 1,
         n |-> Nil]

Init ==
  /\ node = [n \in Nodes |-> NewNode(Nil)]
  /\ next = Root
  /\ w = [p \in Workers |-> Idle]
  /\ subscribed = {} /\ kept = {}
  /\ raced = FALSE
  /\ ops = 0

-----------------------------------------------------------------------------
(* Requests.  A subscriber waits for the answer to one before it sends the *)
(* next.                                                                   *)

Pending == {p \in Workers : w[p].pc # "idle"}

Insertions == {"subscribe", "keep"}

\* Any goroutine of its kind that is idle may take a request off the channel.
\* They are all in the same state, so one stands for the others.
Takes(p) ==
  LET kind == CHOOSE k \in {Subscribers, UnSubscribers, Retainers} : p \in k
  IN p = CHOOSE q \in kind : w[q].pc = "idle"

Effort(path) == IF path \in Racing THEN MaxOps - 1 ELSE MaxOps

Request(p, op, path, s) ==
  /\ w[p].pc = "idle" /\ Takes(p) /\ ops + Effort(path) <= MaxOps * (MaxOps - 1)
  /\ \/ Pending = {}
     \/ /\ Pending \cup {p} \subseteq Together
        /\ {path} \cup {w[q].path : q \in Pending} \subseteq Racing
  /\ \A q \in Pending : s = {} \/ w[q].s # s
  /\ ops' = ops + Effort(path)
  /\ raced' = \/ raced
              \/ /\ Pending # {}
                 /\ ~({op} \cup {w[q].op : q \in Pending} \subseteq Insertions)
  /\ w' = [w EXCEPT ![p] = [Idle EXCEPT
             !.pc = IF op \in Insertions THEN "insert" ELSE "search",
             !.op = op, !.path = path, !.s = s]]
  /\ UNCHANGED <<node, next>>

Subscribe(p) ==
  \E f \in Filters, s \in Subs :
    Request(p, "subscribe", f, {s}) /\ UNCHANGED <<subscribed, kept>>

UnSubscribe(p) ==
  \E f \in Filters, s \in Subs :
    /\ Request(p, "unsubscribe", f, {s})
    /\ subscribed' = subscribed \ {<<f, s>>} /\ UNCHANGED kept

\* retain: without payload, and with QoS 0, the message is removed first.
Retain(p) ==
  \E t \in RetainNames, op \in RetainKinds :
    /\ Request(p, op, t, {})
    /\ kept' = IF op = "clear" THEN kept \ {t} ELSE kept \cup {t}
    /\ UNCHANGED subscribed

-----------------------------------------------------------------------------
(* leafInsertNode: one level at a time.                                    *)

Step(p, r) == w' = [w EXCEPT ![p] = r]

\* Down to node n, which is the leaf after the last level.
Down(p, n) ==
  [w[p] EXCEPT !.at = n, !.i = @ + 1, !.n = Nil,
               !.pc = IF w[p].i = Len(w[p].path) THEN "leaf" ELSE "insert"]

InsertCount(p) ==
  /\ w[p].pc = "insert"
  /\ node' = [node EXCEPT ![w[p].at].kidsCount = @ + 1]
  /\ Step(p, [w[p] EXCEPT !.pc = "load"])
  /\ UNCHANGED <<next, subscribed, kept, raced, ops>>

\* children.LoadOrStore
InsertLoad(p) ==
  LET at == w[p].at  l == w[p].path[w[p].i]  n == node[at].children[l] IN
  /\ w[p].pc = "load"
  /\ \/ /\ n = Nil /\ next < MaxNodes
        /\ next' = next + 1
        /\ node' = [node EXCEPT ![at].children[l] = next + 1,
                                ![next + 1] = NewNode(at)]
        /\ Step(p, Down(p, next + 1))
     \/ /\ n # Nil
        /\ Step(p, [w[p] EXCEPT !.pc = "back", !.n = n])
        /\ UNCHANGED <<node, next>>
  /\ UNCHANGED <<subscribed, kept, raced, ops>>

BackCount(c) == c - 1

InsertBack(p) ==
  /\ w[p].pc = "back"
  /\ node' = [node EXCEPT ![w[p].at].kidsCount = BackCount(@)]
  /\ Step(p, [w[p] EXCEPT !.pc = "check"])
  /\ UNCHANGED <<next, subscribed, kept, raced, ops>>

\* Mutant: the mark is read the wrong way round.
Marked_Not(n) == ~node[n].remove

\* The node that was found is being removed.
Marked(n) == node[n].remove

InsertCheck(p) ==
  LET n == w[p].n IN
  /\ w[p].pc = "check"
  /\ Step(p, IF Marked(n) THEN [w[p] EXCEPT !.pc = "wait"] ELSE Down(p, n))
  /\ UNCHANGED <<node, next, subscribed, kept, raced, ops>>

\* n.wgDeleted.Wait()
Deleted(n) == node[n].wgDeleted = 0

InsertWait(p) ==
  /\ w[p].pc = "wait" /\ Deleted(w[p].n)
  /\ Step(p, [w[p] EXCEPT !.pc = "insert"])
  /\ UNCHANGED <<node, next, subscribed, kept, raced, ops>>

\* subscriptionInsert and retainInsert at the leaf
Leaf(p) ==
  LET at == w[p].at IN
  /\ w[p].pc = "leaf"
  /\ \/ /\ w[p].op = "subscribe"
        /\ node' = [node EXCEPT ![at].subs = @ \cup w[p].s]
        /\ Step(p, [w[p] EXCEPT !.pc = IF w[p].s \subseteq node[at].subs
                                       THEN "reply" ELSE "count"])
     \/ /\ w[p].op \in {"keep", "qos0"}
        /\ node' = [node EXCEPT ![at].retained = w[p].path]
        /\ Step(p, [w[p] EXCEPT !.pc = "count"])
  /\ UNCHANGED <<next, subscribed, kept, raced, ops>>

\* The counter of the leaf: retainInsert counts it down.
LeafCount(p) ==
  /\ w[p].pc = "count"
  /\ node' = [node EXCEPT ![w[p].at].subsCount =
                @ + IF w[p].op = "subscribe" THEN 1 ELSE -1]
  /\ Step(p, [w[p] EXCEPT !.pc = "reply"])
  /\ UNCHANGED <<next, subscribed, kept, raced, ops>>

Reply(p) ==
  /\ w[p].pc = "reply"
  /\ Step(p, Idle)
  /\ subscribed' = IF w[p].op # "subscribe" THEN subscribed
                   ELSE subscribed \cup {<<w[p].path, s>> : s \in w[p].s}
  /\ UNCHANGED <<node, next, kept, raced, ops>>

-----------------------------------------------------------------------------
(* subscriptionRemove, retainRemove and nodesCleanup.                      *)

\* What follows the removal: a QoS 0 message is now inserted.
Removed(p) == [w[p] EXCEPT !.pc = IF w[p].op = "qos0" THEN "insert" ELSE "reply",
                           !.at = Root, !.i = 1]

\* leafSearchNode: one level down; a level that is not there ends the request.
SearchNode(p) ==
  LET n == node[w[p].at].children[w[p].path[w[p].i]] IN
  /\ w[p].pc = "search"
  /\ Step(p, IF n = Nil THEN Removed(p)
             ELSE IF w[p].i < Len(w[p].path)
                  THEN [w[p] EXCEPT !.at = n, !.i = @ + 1]
                  ELSE [w[p] EXCEPT !.at = n, !.pc = "remove"])
  /\ UNCHANGED <<node, next, subscribed, kept, raced, ops>>

\* At the leaf.  Nobody else changes the entry of subscriber s, so the load of it
\* and the counter are one step.
Remove(p) ==
  LET at == w[p].at  IN
  /\ w[p].pc = "remove"
  /\ \/ /\ w[p].op = "unsubscribe" /\ w[p].s \subseteq node[at].subs
        /\ node' = [node EXCEPT ![at].subsCount = @ - 1]
        /\ Step(p, [w[p] EXCEPT !.pc = "delete"])
     \/ /\ w[p].op = "unsubscribe" /\ ~(w[p].s \subseteq node[at].subs)
        /\ Step(p, [w[p] EXCEPT !.pc = "clean"])
        /\ UNCHANGED node
     \/ /\ w[p].op \in {"clear", "qos0"}
        /\ node' = [node EXCEPT ![at].retained = <<>>]
        /\ Step(p, [w[p] EXCEPT !.pc = "clean"])
  /\ UNCHANGED <<next, subscribed, kept, raced, ops>>

\* leaf.subs.Delete
Without(subs, s) == subs \ s

RemoveDelete(p) ==
  /\ w[p].pc = "delete"
  /\ node' = [node EXCEPT ![w[p].at].subs = Without(@, w[p].s)]
  /\ Step(p, [w[p] EXCEPT !.pc = "clean"])
  /\ UNCHANGED <<next, subscribed, kept, raced, ops>>

\* Mutant: nodes below do not keep a node.
NoKids_Any(n) == TRUE

NoKids(n) == node[n].kidsCount = 0

\* nodesCleanup: three loads, one after the other, and the mark on the node
CleanSubs(p) ==
  /\ w[p].pc = "clean"
  /\ Step(p, IF node[w[p].at].subsCount = 0 THEN [w[p] EXCEPT !.pc = "kids"]
             ELSE Removed(p))
  /\ UNCHANGED <<node, next, subscribed, kept, raced, ops>>

CleanKids(p) ==
  /\ w[p].pc = "kids"
  /\ Step(p, IF NoKids(w[p].at) THEN [w[p] EXCEPT !.pc = "mark"] ELSE Removed(p))
  /\ UNCHANGED <<node, next, subscribed, kept, raced, ops>>

CleanMark(p) ==
  LET at == w[p].at IN
  /\ w[p].pc = "mark"
  /\ IF node[at].retained = <<>>
     THEN /\ node' = [node EXCEPT ![at].wgDeleted = @ + 1, ![at].remove = TRUE]
          /\ Step(p, [w[p] EXCEPT !.pc = "unlink"])
     ELSE /\ Step(p, Removed(p))
          /\ UNCHANGED node
  /\ UNCHANGED <<next, subscribed, kept, raced, ops>>

\* The parent forgets the node, by its name; the root has no parent.
CleanUnlink(p) ==
  LET up == node[w[p].at].parent IN
  /\ w[p].pc = "unlink"
  /\ node' = IF up = Nil THEN node
             ELSE [node EXCEPT ![up].children[w[p].path[w[p].i]] = Nil]
  /\ Step(p, [w[p] EXCEPT !.pc = "done"])
  /\ UNCHANGED <<next, subscribed, kept, raced, ops>>

\* The counter of the parent, wgDeleted.Done(), and up to the parent
CleanDone(p) ==
  LET at == w[p].at  up == node[at].parent IN
  /\ w[p].pc = "done"
  /\ IF up = Nil
     THEN /\ node' = [node EXCEPT ![at].wgDeleted = @ - 1]
          /\ Step(p, Removed(p))
     ELSE /\ node' = [node EXCEPT ![up].kidsCount = @ - 1, ![at].wgDeleted = @ - 1]
          /\ Step(p, [w[p] EXCEPT !.pc = "clean", !.at = up, !.i = @ - 1])
  /\ UNCHANGED <<next, subscribed, kept, raced, ops>>

-----------------------------------------------------------------------------
Work(p) ==
  \/ InsertCount(p) \/ InsertLoad(p) \/ InsertBack(p) \/ InsertCheck(p)
  \/ InsertWait(p) \/ Leaf(p) \/ LeafCount(p) \/ Reply(p)
  \/ SearchNode(p) \/ Remove(p) \/ RemoveDelete(p)
  \/ CleanSubs(p) \/ CleanKids(p) \/ CleanMark(p) \/ CleanUnlink(p) \/ CleanDone(p)

Next ==
  \/ \E p \in Subscribers : Subscribe(p)
  \/ \E p \in UnSubscribers : UnSubscribe(p)
  \/ \E p \in Retainers : Retain(p)
  \/ \E p \in Workers : Work(p)

Spec == Init /\ [][Next]_vars

\* Every goroutine that can run does.
FairSpec == Spec /\ \A p \in Workers : WF_vars(Work(p))

-----------------------------------------------------------------------------
(* Searches.  Each is a walk over the tree; node Nil is "not there".       *)

Child(n, l) == IF n = Nil THEN Nil ELSE node[n].children[l]
SubsOf(n) == IF n = Nil THEN {} ELSE node[n].subs

\* leafSearchNode: the node of a path
LeafSearchNode(path) ==
  LET Walk[i \in 0..Len(path)] ==
        IF i = 0 THEN Root ELSE Child(Walk[i - 1], path[i])
  IN Walk[Len(path)]

\* Mutant: # at the level below the last is left out.
RecurseSearch_NoParent(t, from, first) ==
  LET F[n \in Nodes \cup {Nil}, k \in 1..Len(t) + 1] ==
        IF n = Nil THEN {}
        ELSE IF k > Len(t) THEN SubsOf(n)
        ELSE (IF t[k] = "" THEN {} ELSE SubsOf(Child(n, "#")))
             \cup F[Child(n, t[k]), k + 1] \cup F[Child(n, "+"), k + 1]
  IN F[from, first]

\* subscriptionRecurseSearch from a node, at level first of topic t
RecurseSearch(t, from, first) ==
  LET F[n \in Nodes \cup {Nil}, k \in 1..Len(t) + 1] ==
        IF n = Nil THEN {}
        ELSE IF k > Len(t) THEN SubsOf(n) \cup SubsOf(Child(n, "#"))
        ELSE (IF t[k] = "" THEN {} ELSE SubsOf(Child(n, "#")))
             \cup F[Child(n, t[k]), k + 1] \cup F[Child(n, "+"), k + 1]
  IN F[from, first]

SubscriptionSearch(t) ==
  IF t[1] \in Sys THEN RecurseSearch(t, Child(Root, t[1]), 2)
  ELSE RecurseSearch(t, Root, 1)

Kids(n) == {node[n].children[l] : l \in Levels} \ {Nil}

\* getRetained and allRetained: the messages at a node, and at it and below
GetRetained(n) == IF node[n].retained = <<>> THEN {} ELSE {node[n].retained}

AllRetained(n) ==
  LET Below[d \in 0..MaxNodes] ==
        IF d = 0 THEN {n}
        ELSE LET above == Below[d - 1] IN above \cup UNION {Kids(m) : m \in above}
  IN UNION {GetRetained(m) : m \in Below[MaxNodes]}

\* Mutant: # does not match the level it stands at.
RetainRecurseSearch_Below(f) ==
  LET F[n \in Nodes \cup {Nil}, k \in 1..Len(f) + 1] ==
        IF n = Nil THEN {}
        ELSE IF k > Len(f) THEN GetRetained(n)
        ELSE IF f[k] = "#" THEN UNION {AllRetained(m) : m \in Kids(n)}
        ELSE IF f[k] = "+" THEN UNION {F[m, k + 1] : m \in Kids(n)}
        ELSE F[Child(n, f[k]), k + 1]
  IN F[Root, 1]

\* retainRecurseSearch from the root; no topic name has a level #, so nothing
\* is retained at or below a node of that name.
RetainRecurseSearch(f) ==
  LET F[n \in Nodes \cup {Nil}, k \in 1..Len(f) + 1] ==
        IF n = Nil THEN {}
        ELSE IF k > Len(f) THEN GetRetained(n)
        ELSE IF f[k] = "#" THEN AllRetained(n)
        ELSE IF f[k] = "+" THEN UNION {F[m, k + 1] : m \in Kids(n)}
        ELSE F[Child(n, f[k]), k + 1]
  IN F[Root, 1]

\* retainSearch, for a filter whose first level, if it is a system level, exists
\* (Searched)
RetainSearch(f) ==
  IF f[1] = "#"
  THEN UNION {AllRetained(Child(Root, l)) :
                l \in {l \in Levels \ ({""} \cup Sys) : Child(Root, l) # Nil}}
  ELSE RetainRecurseSearch(f)
-----------------------------------------------------------------------------
(* Properties.                                                             *)

Quiet == Pending = {}

\* The nodes that are linked from the root.
Tree ==
  LET Below[d \in 0..MaxNodes] ==
        IF d = 0 THEN {Root}
        ELSE LET above == Below[d - 1] IN above \cup UNION {Kids(m) : m \in above}
  IN Below[MaxNodes]

\* What a filter matches, level by level: + any one level, # its parent and all
\* levels below.  A system level is matched only by itself, and # alone does not
\* match a name that starts with a separator.
Matches(f, t) ==
  LET hash == f[Len(f)] = "#"
      n == IF hash THEN Len(f) - 1 ELSE Len(f) IN
  /\ IF hash THEN Len(t) >= n ELSE Len(t) = n
  /\ \A i \in 1..n : f[i] = "+" \/ f[i] = t[i]
  /\ t[1] \in Sys => f[1] = t[1]
  /\ n = 0 => t[1] # ""

\* The variables have their types.
TypeOK ==
  /\ node \in [Nodes ->
       [parent : Nodes \cup {Nil}, children : [Levels -> Nodes \cup {Nil}],
        subs : SUBSET Subs, retained : Names \cup {<<>>}, kidsCount : Int,
        subsCount : Int, remove : BOOLEAN, wgDeleted : Nat]]
  /\ next \in Nodes /\ ops \in Nat /\ raced \in BOOLEAN
  /\ subscribed \subseteq Filters \X Subs /\ kept \subseteq Names

\* A subscription that was acknowledged, and that its subscriber has not asked to
\* remove, stays where a search finds it, whatever else the goroutines do: a node
\* goes only when nothing needs it (nodesCleanup).  As long as no removal runs
\* beside another request; see AlwaysThere.
StillThere ==
  ~raced => \A e \in subscribed : e[2] \in SubsOf(LeafSearchNode(e[1]))

\* The same without that condition, as the comment of nodesCleanup has it.
AlwaysThere ==
  \A e \in subscribed : e[2] \in SubsOf(LeafSearchNode(e[1]))

\* When no request is in progress a publication reaches exactly the subscribers
\* with a filter that matches its topic (subscriptionSearch).
Delivery ==
  Quiet /\ ~raced => \A t \in Names :
    SubscriptionSearch(t) = {e[2] : e \in {d \in subscribed : Matches(d[1], t)}}

\* The retained search starts at the node of a system level: subscribe puts it there
\* before it searches.
Searched == {f \in Filters : f[1] \in Sys => Child(Root, f[1]) # Nil}

\* When no request is in progress a subscription gets every retained message its
\* filter matches, and no other (retainSearch), but for those under a system level
\* that a filter with + at the first level gets as well; see RetainedExact.
RetainedFound ==
  Quiet /\ ~raced => \A f \in Searched :
    LET matched == {t \in kept : Matches(f, t)} IN
    /\ matched \subseteq RetainSearch(f)
    /\ \A t \in RetainSearch(f) \ matched : t \in kept /\ t[1] \in Sys /\ f[1] = "+"

\* The same without that exception: retainRecurseSearch for + ranges over the system
\* levels too, which retainSearch leaves out for # (and subscriptionSearch for both).
RetainedExact ==
  Quiet /\ ~raced => \A f \in Searched :
    RetainSearch(f) = {t \in kept : Matches(f, t)}

\* Nodes that nothing needs are removed, as far up as nothing needs them
\* (nodesCleanup): no branch of the tree ends in an empty node.
NoEmptyLeaf ==
  Quiet => \A n \in Tree \ {Root} :
             Kids(n) # {} \/ node[n].subs # {} \/ node[n].retained # <<>>

\* A goroutine that inserts ends its request: an insertion that meets a node being
\* removed does not wait for ever.
RequestsEnd ==
  \A p \in Subscribers \cup Retainers : w[p].pc # "idle" ~> w[p].pc = "idle"
=============================================================================
