------------------------------ MODULE Provider ------------------------------
(***************************************************************************)
(* The pipeline of the topics provider of topics/memlockfree: its channels *)
(* and the goroutines that serve them.  A publication of a client goes     *)
(* through inRetained, when it has the RETAIN flag, and then through       *)
(* inbound.  One retainer and several publishers take it from there.  The  *)
(* tree itself is the module Topics; here it is the set of subscriptions   *)
(* and the message retained at each topic.                                 *)
(*                                                                         *)
(* The publications come from one client, which sends them in order and    *)
(* waits for each to be accepted; all have QoS 1.  The subscribers and the *)
(* life of the process are in Restart.                                     *)
(***************************************************************************)
EXTENDS Integers, Sequences, FiniteSets

CONSTANTS
  Ids,         \* the ids of the clients that subscribe
  Names,       \* the topics, and
  Sys,         \*   those that begin with $
  None,        \* nil
  Plan,        \* what the publishing client sends: a sequence of records of
               \*   topic; retain: "no", "keep" or "clear" (an empty payload); and
               \*   the version of MQTT that the client uses
  Publishers,  \* the publisher goroutines
  ChanSize     \* the capacity of a channel

ASSUME ProviderAssumption ==
  /\ Plan \in Seq([topic : Names, retain : {"no", "keep", "clear"},
                   version : {"5.0", "3.1.1"}])
  /\ Sys \subseteq Names
  /\ ChanSize \in Nat \ {0}
  /\ None \notin DOMAIN Plan /\ None \notin Ids

VARIABLES
  sent,        \* how many publications have been accepted
  sending,     \* the next one is in inRetained, but not yet in inbound
  inbound, inRetained,   \* the channels, of publications
  retained,    \* the publication retained at each topic, or None
  altered,     \* the retained publications that are not what was published
  subs,        \* the tree: pairs of an id and a topic
  hand         \* the publication each publisher has, and who is still to get it

provider == <<sent, sending, inbound, inRetained, retained, altered, subs, hand>>

Msgs == DOMAIN Plan

Idle == [m |-> None, left |-> {}]

ProviderType ==
  /\ sent \in 0 .. Len(Plan) /\ sending \in BOOLEAN
  /\ inbound \in Seq(Msgs) /\ Len(inbound) <= ChanSize
  /\ inRetained \in Seq(Msgs) /\ Len(inRetained) <= ChanSize
  /\ retained \in [Names -> Msgs \cup {None}]
  /\ altered \subseteq Msgs /\ subs \subseteq Ids \X Names
  /\ hand \in [Publishers -> [m : Msgs \cup {None}, left : SUBSET Ids]]

\* NewMemProvider: empty channels and an empty tree
Fresh ==
  /\ inbound' = <<>> /\ inRetained' = <<>> /\ sending' = FALSE
  /\ retained' = [t \in Names |-> None]
  /\ altered' = {} /\ subs' = {}
  /\ hand' = [p \in Publishers |-> Idle]

ProviderInit ==
  /\ sent = 0 /\ sending = FALSE
  /\ inbound = <<>> /\ inRetained = <<>>
  /\ retained = [t \in Names |-> None]
  /\ altered = {} /\ subs = {}
  /\ hand = [p \in Publishers |-> Idle]

-----------------------------------------------------------------------------
(* SignalPublish of the publishing session, in the goroutine of its reader *)

\* messenger.Retain comes first, and waits while the channel is full.
Retain ==
  /\ ~sending /\ sent < Len(Plan)
  /\ Plan[sent + 1].retain # "no"
  /\ Len(inRetained) < ChanSize
  /\ inRetained' = Append(inRetained, sent + 1)
  /\ sending' = TRUE
  /\ UNCHANGED <<sent, inbound, retained, altered, subs, hand>>

\* messenger.Publish; then the PUBACK
Publish ==
  /\ sent < Len(Plan)
  /\ sending \/ Plan[sent + 1].retain = "no"
  /\ Len(inbound) < ChanSize
  /\ inbound' = Append(inbound, sent + 1)
  /\ sending' = FALSE
  /\ sent' = sent + 1
  /\ UNCHANGED <<inRetained, retained, altered, subs, hand>>

-----------------------------------------------------------------------------
(* The goroutines of the provider.                                         *)

\* publisher: receive from inbound, and subscriptionSearch.  The publishers
\* are alike: the first idle one stands for all.
Take(p) ==
  LET m == Head(inbound) IN
  /\ hand[p] = Idle /\ inbound # <<>>
  /\ p = CHOOSE q \in Publishers : hand[q] = Idle
  /\ LET left == {i \in Ids : <<i, Plan[m].topic>> \in subs} IN
       hand' = [hand EXCEPT ![p] = IF left = {} THEN Idle
                                   ELSE [m |-> m, left |-> left]]
  /\ inbound' = Tail(inbound)
  /\ UNCHANGED <<sent, sending, inRetained, retained, altered, subs>>

\* e.s.Publish for one of the subscribers that were found
Handed(p, i) ==
  /\ i \in hand[p].left
  /\ hand' = [hand EXCEPT ![p] = IF @.left = {i} THEN Idle
                                 ELSE [m |-> @.m, left |-> @.left \ {i}]]
  /\ UNCHANGED <<sent, sending, inbound, inRetained, retained, altered, subs>>

\* retain: a message with an empty payload removes the one of its topic.
Kept(m) == IF Plan[m].retain = "clear" THEN None ELSE m

\* retainer
Retainer ==
  /\ inRetained # <<>>
  /\ retained' = [retained EXCEPT ![Plan[Head(inRetained)].topic] =
                    Kept(Head(inRetained))]
  /\ inRetained' = Tail(inRetained)
  /\ UNCHANGED <<sent, sending, inbound, altered, subs, hand>>

\* subscriptionInsert and subscriptionRemove, run by the goroutines subscriber
\* and unSubscriber
SubInsert(i, t) ==
  /\ subs' = subs \cup {<<i, t>>}
  /\ UNCHANGED <<sent, sending, inbound, inRetained, retained, altered, hand>>

SubRemove(i, t) ==
  /\ subs' = subs \ {<<i, t>>}
  /\ UNCHANGED <<sent, sending, inbound, inRetained, retained, altered, hand>>

\* subscriber.Offline(true): the subscriber has quit, so a publisher that found
\* it before hands it nothing, and its topics are removed one by one.
Quit(i) ==
  /\ subs' = {s \in subs : s[1] # i}
  /\ hand' = [p \in Publishers |->
                IF hand[p].left \subseteq {i} THEN Idle
                ELSE [hand[p] EXCEPT !.left = @ \ {i}]]
  /\ UNCHANGED <<sent, sending, inbound, inRetained, retained, altered>>

-----------------------------------------------------------------------------
(* Shutdown and start.                                                     *)

\* The channels are closed: the goroutines empty them and return.
Drained ==
  /\ inbound = <<>> /\ inRetained = <<>>
  /\ \A p \in Publishers : hand[p] = Idle

\* What retainSearch finds for Shutdown to encode: the filters # and /# match no
\* topic that begins with $.
Encoded == {retained[t] : t \in Names \ Sys} \ {None}

\* Mutant: nothing is stored.
StoreRetained_Not(before) == before

\* persist.Store replaces what was stored; it is called only if there is
\* something to store.
StoreRetained(before) == IF Encoded # {} THEN Encoded ELSE before

\* NewMemProvider decodes a stored message and hands it to Retain, before the
\* retainer runs.  mqttp.Encode has written it in the version of its publisher, and
\* mqttp.Decode reads it as one of 5.0: where 3.1.1 has no properties the payload
\* is taken for them, so the outcome is another message or an error.
Reload(m) ==
  \/ /\ Len(inRetained) < ChanSize
     /\ inRetained' = Append(inRetained, m)
     /\ altered' = IF Plan[m].version = "5.0" THEN altered ELSE altered \cup {m}
     /\ UNCHANGED <<sent, sending, inbound, retained, subs, hand>>
  \/ Plan[m].version # "5.0" /\ UNCHANGED provider
=============================================================================
