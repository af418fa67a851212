----------------------------- MODULE FlowControl -----------------------------
(***************************************************************************)
(* The flow control of one connection (connection/flowControl.go): the send *)
(* quota and the packet ids of the QoS 1 and 2 exchanges under way. One     *)
(* goroutine acquires (the writer routine), one releases (the reader), and  *)
(* they interleave at every atomic and every sync.Map operation.            *)
(*                                                                         *)
(* The caller is part of the model only as far as it starts and ends        *)
(* exchanges: it releases an id at most once, and only one it was given.    *)
(***************************************************************************)
EXTENDS Integers, FiniteSets

CONSTANTS
  SendQuota,   \* Receive Maximum of the client, the initial quota
  MaxID        \* largest packet id: 0xFFFF in the code

ASSUME FlowAssumption == /\ SendQuota \in Nat \ {0}
                         /\ MaxID \in Nat
                         /\ SendQuota <= MaxID

Ids == 1..MaxID

VARIABLES
  inUse, counter, quota,  \* the fields of flow; inUse as a set of ids
  apc, turns,             \* pc of acquire and the turns its loop has made
  kpc,                    \* pc of release, "inc" before the quota is returned
  exchanges,              \* ids of the exchanges under way, as the caller sees them
  excess                  \* how many ids of a resumed session reAcquire has refused

vars == <<inUse, counter, quota, apc, turns, kpc, exchanges, excess>>

\* newWriter, wrQuota.
Init ==
  /\ inUse = {} /\ counter = 0 /\ quota = SendQuota
  /\ apc = "idle" /\ turns = 0 /\ kpc = "idle"
  /\ exchanges = {} /\ excess = 0

Idle == apc = "idle" /\ kpc = "idle"

\* reAcquire of the ids S of the packets of a resumed session, before any other
\* call and in any order. It fails once the quota is used up (errQuotaExceeded),
\* which the caller only logs: the exchanges that go on under their old id are
\* any of S, reserved (held) or not.
ReAcquire(S) ==
  /\ Idle /\ inUse = {} /\ quota = SendQuota /\ counter = 0
  /\ exchanges = {} /\ excess = 0
  /\ \E held \in SUBSET S :
       /\ Cardinality(held) <= SendQuota
       /\ held = S \/ Cardinality(held) = SendQuota
       /\ inUse' = held
       /\ quota' = SendQuota - Cardinality(held)
       /\ excess' = Cardinality(S \ held)
  /\ exchanges' \in SUBSET S
  /\ UNCHANGED <<counter, apc, turns, kpc>>

\* Mutant: the decrement is lost.
AcquireQuota_NoDec ==
  /\ apc = "idle" /\ quota > 0
  /\ apc' = "loop"
  /\ turns' = 0
  /\ UNCHANGED <<inUse, counter, quota, kpc, exchanges, excess>>

\* acquire: atomicDecNZ, not called with an exhausted quota.
AcquireQuota ==
  /\ apc = "idle" /\ quota > 0
  /\ quota' = quota - 1
  /\ apc' = "loop"
  /\ turns' = 0
  /\ UNCHANGED <<inUse, counter, kpc, exchanges, excess>>

\* The counter is a uint32 cut to 16 bits; 0 is skipped.
NextID == IF counter = MaxID THEN 1 ELSE counter + 1

\* Mutant: the loop gives up one turn after the first id in use.
AcquireTurn_GivesUp ==
  /\ apc = "loop"
  /\ counter' = NextID
  /\ \/ /\ NextID \in inUse /\ turns < 1
        /\ turns' = turns + 1
        /\ UNCHANGED <<inUse, apc, exchanges>>
     \/ /\ NextID \notin inUse \/ turns >= 1
        /\ inUse' = inUse \cup {NextID}
        /\ exchanges' = exchanges \cup {NextID}
        /\ apc' = "idle"
        /\ turns' = 0
  /\ UNCHANGED <<quota, kpc, excess>>

\* Mutant: the counter stays where it met an id in use, and the turns are counted
\* from the start again.
AcquireTurn_Stays ==
  /\ apc = "loop"
  /\ \/ /\ NextID \in inUse
        /\ turns' = 1 - turns
        /\ UNCHANGED <<inUse, counter, apc, exchanges>>
     \/ /\ NextID \notin inUse
        /\ counter' = NextID
        /\ inUse' = inUse \cup {NextID}
        /\ exchanges' = exchanges \cup {NextID}
        /\ apc' = "idle"
        /\ turns' = 0
  /\ UNCHANGED <<quota, kpc, excess>>

\* One turn of the loop. It ends with the first id not in use, or after
\* 0xFFFF + 1 turns with whatever id it has reached.
AcquireTurn ==
  /\ apc = "loop"
  /\ counter' = NextID
  /\ \/ /\ NextID \in inUse /\ turns < MaxID
        /\ turns' = turns + 1
        /\ UNCHANGED <<inUse, apc, exchanges>>
     \/ /\ NextID \notin inUse \/ turns >= MaxID
        /\ inUse' = inUse \cup {NextID}
        /\ exchanges' = exchanges \cup {NextID}
        /\ apc' = "idle"
        /\ turns' = 0
  /\ UNCHANGED <<quota, kpc, excess>>

\* release: inUse.Delete, which has no effect for an id that was not reserved ...
ReleaseID(i) ==
  /\ kpc = "idle" /\ i \in exchanges
  /\ inUse' = inUse \ {i}
  /\ exchanges' = exchanges \ {i}
  /\ kpc' = "inc"
  /\ UNCHANGED <<counter, quota, apc, turns, excess>>

\* ... and the increment of the quota.
ReleaseQuota ==
  /\ kpc = "inc"
  /\ quota' = quota + 1
  /\ kpc' = "idle"
  /\ UNCHANGED <<inUse, counter, apc, turns, exchanges, excess>>

\* An acknowledgement that finds no entry in the ackQueue: the exchange is over for
\* the caller without a release, and its id stays in use.
Forget(i) ==
  /\ i \in exchanges
  /\ exchanges' = exchanges \ {i}
  /\ UNCHANGED <<inUse, counter, quota, apc, turns, kpc, excess>>

\* The connection is closed; the next one has a writer and a flow of its own.
Reset ==
  /\ Idle
  /\ inUse' = {} /\ counter' = 0 /\ quota' = SendQuota
  /\ turns' = 0 /\ exchanges' = {} /\ excess' = 0
  /\ UNCHANGED <<apc, kpc>>

Next ==
  \/ \E S \in SUBSET Ids : ReAcquire(S)
  \/ AcquireQuota \/ AcquireTurn
  \/ \E i \in Ids : ReleaseID(i) \/ Forget(i)
  \/ ReleaseQuota
  \/ Reset

Spec == Init /\ [][Next]_vars
FairSpec == Spec /\ WF_vars(AcquireTurn)

-----------------------------------------------------------------------------
(* Properties.                                                               *)

\* The fields of flow keep their ranges: the counter stays within the 16 bits of
\* a packet id and the quota, an int32 in the code, never below 0 nor above the
\* number of ids.
TypeOK ==
  /\ inUse \in SUBSET Ids /\ counter \in 0..MaxID /\ quota \in 0..MaxID
  /\ apc \in {"idle", "loop"} /\ turns \in 0..MaxID /\ kpc \in {"idle", "inc"}
  /\ exchanges \in SUBSET Ids /\ excess \in 0..(MaxID - SendQuota)

\* What is left of the quota, what the ids in use stand for and what acquire and
\* release have in hand.
Total ==
  quota + Cardinality(inUse) + (IF apc = "loop" THEN 1 ELSE 0) + (IF kpc = "inc" THEN 1 ELSE 0)

\* acquire and release lose no quota, and they invent none but for the ids that
\* reAcquire has refused: one each, when such an exchange ends.
QuotaConserved ==
  /\ SendQuota <= Total
  /\ Total + Cardinality(exchanges \ inUse) <= SendQuota + excess

\* There are never more exchanges under way than the client allows, apart from
\* those a resumed session had too many: with a Receive Maximum that is not
\* below what is resumed, never more than the Receive Maximum.
ReceiveMaximum == Cardinality(exchanges) <= SendQuota + excess

\* acquire never gives out an id that is in use, although it would after its
\* last turn and although release runs beside it.
FreshId ==
  [][apc = "loop" /\ apc' # "loop" => \E i \in Ids \ inUse : inUse' = inUse \cup {i}]_vars

\* Every acquire comes to an end: whatever the reader releases meanwhile.
AcquireEnds == apc = "loop" ~> apc = "idle"

-----------------------------------------------------------------------------
(* What flow does not promise: TLC violates it with any constants that allow *)
(* more ids than quota.                                                      *)

\* A client that resumes with a smaller Receive Maximum gets no more exchanges at
\* a time than that.
SmallerMaximum == Cardinality(exchanges) <= SendQuota
=============================================================================
