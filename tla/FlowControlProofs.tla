-------------------------- MODULE FlowControlProofs --------------------------
(***************************************************************************)
(* Proofs about FlowControl for every quota, every range of ids and every   *)
(* resumed session, one with more ids than quota included.                  *)
(*                                                                         *)
(* The inductive invariant adds three facts to the properties: the id that  *)
(* acquire will find lies within the turns its loop still has (Reachable),  *)
(* the bounds of QuotaConserved, and that quota and refused ids together    *)
(* are no more than there are ids (in TypeOK), from which it follows that   *)
(* not all ids are in use when a loop starts.                               *)
(***************************************************************************)
EXTENDS FlowControl, FiniteSetTheorems, TLAPS

\* The id the loop will try j turns from now.
Ahead(j) == IF counter + j > MaxID THEN counter + j - MaxID ELSE counter + j

\* A loop under way meets a free id before its turns are used up.
Reachable == apc = "loop" => \E j \in 1..(MaxID - turns) : Ahead(j) \notin inUse

IInv == TypeOK /\ QuotaConserved /\ Reachable

\* The ids in use are finitely many, at most MaxID, and all of them only when
\* their number is MaxID.
LEMMA IdsFinite ==
  ASSUME NEW S \in SUBSET Ids
  PROVE  /\ IsFiniteSet(S) /\ Cardinality(S) \in Nat
         /\ Cardinality(S) <= MaxID
         /\ Cardinality(S) < MaxID => \E i \in Ids : i \notin S
<1>1. IsFiniteSet(Ids) /\ Cardinality(Ids) = MaxID
  BY FS_Interval, FlowAssumption DEF Ids
<1>2. IsFiniteSet(S) /\ Cardinality(S) <= Cardinality(Ids)
  BY <1>1, FS_Subset
<1>3. Cardinality(S) \in Nat
  BY <1>2, FS_CardinalityType
<1>4. ASSUME Cardinality(S) < MaxID PROVE \E i \in Ids : i \notin S
  <2>1. S # Ids BY <1>1, <1>3, <1>4, FlowAssumption
  <2> QED BY <2>1
<1> QED BY <1>1, <1>2, <1>3, <1>4

\* What is under way without a reserved id is finite too, and loses at most what
\* is taken away.
LEMMA Unreserved ==
  ASSUME NEW S \in SUBSET Ids, NEW T \in SUBSET Ids
  PROVE  /\ IsFiniteSet(S \ T) /\ Cardinality(S \ T) \in Nat
         /\ \A R \in SUBSET (S \ T) : Cardinality(R) \in Nat /\ Cardinality(R) <= Cardinality(S \ T)
<1>1. S \ T \in SUBSET Ids OBVIOUS
<1>2. IsFiniteSet(S \ T) /\ Cardinality(S \ T) \in Nat BY <1>1, IdsFinite
<1>3. ASSUME NEW R \in SUBSET (S \ T)
      PROVE  Cardinality(R) \in Nat /\ Cardinality(R) <= Cardinality(S \ T)
  <2>1. R \in SUBSET Ids BY <1>1
  <2> QED BY <1>2, <2>1, FS_Subset, IdsFinite
<1> QED BY <1>2, <1>3

\* newWriter establishes the invariant.
LEMMA InitIInv == Init => IInv
<1> SUFFICES ASSUME Init PROVE IInv OBVIOUS
<1>1. Cardinality({}) = 0 BY FS_EmptySet
<1>2. exchanges \ inUse = {} BY DEF Init
<1>3. QuotaConserved
  BY <1>1, <1>2, FlowAssumption DEF Init, QuotaConserved, Total
<1>4. TypeOK /\ Reachable
  BY FlowAssumption DEF Init, TypeOK, Reachable, Ids
<1> QED BY <1>3, <1>4 DEF IInv

\* reAcquire, with or without the quota for all ids.
LEMMA ReAcquireIInv ==
  ASSUME IInv, NEW S \in SUBSET Ids, ReAcquire(S)
  PROVE  IInv'
<1> USE FlowAssumption
<1>1. PICK held \in SUBSET S :
        /\ Cardinality(held) <= SendQuota
        /\ held = S \/ Cardinality(held) = SendQuota
        /\ inUse' = held
        /\ quota' = SendQuota - Cardinality(held)
        /\ excess' = Cardinality(S \ held)
  BY Zenon DEF ReAcquire
<1>2. /\ apc = "idle" /\ kpc = "idle" /\ exchanges' \in SUBSET S
      /\ UNCHANGED <<counter, apc, turns, kpc>>
  BY DEF ReAcquire, Idle
<1>3. /\ IsFiniteSet(S) /\ Cardinality(S) \in Nat /\ Cardinality(S) <= MaxID
      /\ Cardinality(held) \in Nat
  BY <1>1, IdsFinite
<1>4. Cardinality(S \ held) = Cardinality(S) - Cardinality(held)
  <2>1. S \cap held = held BY <1>1
  <2>2. IsFiniteSet(held) BY <1>1, IdsFinite
  <2> QED BY <1>3, <2>1, FS_Difference
<1>5. Cardinality(exchanges' \ held) \in Nat
      /\ Cardinality(exchanges' \ held) <= Cardinality(S \ held)
  <2>1. exchanges' \ held \in SUBSET (S \ held) BY <1>2
  <2> QED BY <1>1, <2>1, Unreserved, Zenon
<1>6. excess' \in 0..(MaxID - SendQuota)
  <2>1. CASE held = S
    <3>1. Cardinality(S \ held) = 0 BY <1>3, <1>4, <2>1
    <3> QED BY <1>1, <3>1
  <2>2. CASE Cardinality(held) = SendQuota
    <3>1. Cardinality(S \ held) \in Nat BY <1>1, Unreserved, Zenon
    <3> QED BY <1>1, <1>3, <1>4, <2>2, <3>1
  <2> QED BY <1>1, <2>1, <2>2
<1>7. TypeOK'
  BY <1>1, <1>2, <1>3, <1>6 DEF IInv, TypeOK
<1>8. QuotaConserved'
  <2>1. /\ apc' = "idle" /\ kpc' = "idle"
        /\ quota' = SendQuota - Cardinality(held)
    BY <1>1, <1>2
  <2>2. Total' = SendQuota
    <3>1. Cardinality(inUse') = Cardinality(held) BY <1>1
    <3> QED BY <1>3, <2>1, <3>1 DEF Total
  <2>3. Cardinality(exchanges' \ inUse') = Cardinality(exchanges' \ held) BY <1>1
  <2>4. excess' = Cardinality(S \ held) /\ Cardinality(S \ held) \in Nat BY <1>1, Unreserved, Zenon
  <2> QED BY <1>5, <2>2, <2>3, <2>4 DEF QuotaConserved
<1> QED BY <1>2, <1>7, <1>8 DEF IInv, Reachable

\* Every step of the flow control preserves the invariant.
LEMMA NextIInv == IInv /\ [Next]_vars => IInv'
<1> SUFFICES ASSUME IInv, [Next]_vars PROVE IInv'
  OBVIOUS
<1> USE FlowAssumption DEF IInv, TypeOK, QuotaConserved, Total
<1>0. /\ IsFiniteSet(inUse) /\ Cardinality(inUse) \in Nat
      /\ Cardinality(inUse) < MaxID => \E i \in Ids : i \notin inUse
      /\ IsFiniteSet(exchanges \ inUse) /\ Cardinality(exchanges \ inUse) \in Nat
  BY IdsFinite, Unreserved
<1>1. ASSUME NEW S \in SUBSET Ids, ReAcquire(S) PROVE IInv'
  BY <1>1, ReAcquireIInv
<1>2. CASE AcquireQuota
  <2>1. TypeOK' /\ QuotaConserved' BY <1>0, <1>2 DEF AcquireQuota
  <2>2. PICK i \in Ids : i \notin inUse BY <1>0, <1>2 DEF AcquireQuota
  <2> DEFINE j == IF i > counter THEN i - counter ELSE i - counter + MaxID
  <2>3. j \in 1..MaxID /\ Ahead(j) = i BY DEF Ids, Ahead
  <2>4. Reachable'
    <3>1. counter' = counter /\ inUse' = inUse /\ turns' = 0 BY <1>2 DEF AcquireQuota
    <3>2. j \in 1..(MaxID - turns') /\ (counter' + j > MaxID => counter' + j - MaxID = i)
          /\ (~(counter' + j > MaxID) => counter' + j = i)
      BY <2>3, <3>1 DEF Ahead
    <3> HIDE DEF j
    <3> QED BY <2>2, <3>1, <3>2 DEF Reachable, Ahead
  <2> QED BY <2>1, <2>4
<1>3. CASE AcquireTurn
  <2>0. NextID \in Ids BY <1>3 DEF AcquireTurn, NextID, Ids
  <2>1. CASE NextID \in inUse /\ turns < MaxID
    <3>0. apc = "loop" /\ counter' = NextID /\ turns' = turns + 1
          /\ UNCHANGED <<inUse, apc, exchanges, quota, kpc, excess>>
      BY <1>3, <2>1 DEF AcquireTurn
    <3>1. TypeOK' /\ QuotaConserved' BY <2>0, <2>1, <3>0 DEF Ids
    <3>2. PICK j \in 1..(MaxID - turns) : Ahead(j) \notin inUse BY <3>0 DEF Reachable
    <3>3. j # 1 BY <2>1, <3>2 DEF Ahead, NextID
    <3>4. j - 1 \in 1..(MaxID - turns') /\ Ahead(j - 1)' = Ahead(j)
      BY <3>0, <3>2, <3>3 DEF Ahead, NextID
    <3>5. Reachable' BY <3>0, <3>2, <3>4 DEF Reachable
    <3> QED BY <3>1, <3>5
  <2>2. CASE NextID \notin inUse
    <3>1. Cardinality(inUse \cup {NextID}) = Cardinality(inUse) + 1
      BY <1>0, <2>2, FS_AddElement, Zenon
    <3>2. /\ inUse' = inUse \cup {NextID} /\ exchanges' = exchanges \cup {NextID}
          /\ apc = "loop" /\ apc' = "idle" /\ turns' = 0 /\ counter' = NextID
          /\ UNCHANGED <<quota, kpc, excess>>
      BY <1>3, <2>2 DEF AcquireTurn
    <3>3. TypeOK' BY <2>0, <3>2 DEF Ids
    <3>4. Cardinality(exchanges' \ inUse') \in Nat
          /\ Cardinality(exchanges' \ inUse') <= Cardinality(exchanges \ inUse)
      <4>1. exchanges' \ inUse' \in SUBSET (exchanges \ inUse) BY <3>2
      <4> QED BY <4>1, Unreserved, Zenon
    <3>5. QuotaConserved' BY <1>0, <3>1, <3>2, <3>4
    <3> QED BY <3>2, <3>3, <3>5 DEF Reachable
  <2>3. turns < MaxID
    BY <1>3 DEF AcquireTurn, Reachable
  <2> QED BY <2>1, <2>2, <2>3
<1>4. ASSUME NEW i \in Ids, ReleaseID(i) PROVE IInv'
  <2>0. /\ i \in exchanges /\ kpc = "idle" /\ kpc' = "inc"
        /\ inUse' = inUse \ {i} /\ exchanges' = exchanges \ {i}
        /\ UNCHANGED <<counter, quota, apc, turns, excess>>
    BY <1>4 DEF ReleaseID
  <2>1. ASSUME i \in inUse PROVE QuotaConserved'
    <3>1. Cardinality(inUse \ {i}) = Cardinality(inUse) - 1
      BY <1>0, <2>1, FS_RemoveElement, Zenon
    <3>2. exchanges' \ inUse' = exchanges \ inUse BY <2>0, <2>1
    <3>3. Cardinality(inUse') = Cardinality(inUse) - 1 BY <2>0, <3>1
    <3>4. Cardinality(exchanges' \ inUse') = Cardinality(exchanges \ inUse) BY <3>2
    <3>5. Total' = Total BY <1>0, <2>0, <3>3
    <3> HIDE DEF Total
    <3> QED BY <2>0, <3>4, <3>5
  <2>2. ASSUME i \notin inUse PROVE QuotaConserved'
    <3>1. inUse' = inUse BY <2>0, <2>2
    <3>2. exchanges' \ inUse' = (exchanges \ inUse) \ {i} BY <2>0, <2>2
    <3>3. Cardinality((exchanges \ inUse) \ {i}) = Cardinality(exchanges \ inUse) - 1
      <4>1. i \in exchanges \ inUse BY <2>0, <2>2
      <4> QED BY <1>0, <4>1, FS_RemoveElement, Zenon
    <3>4. Cardinality(exchanges' \ inUse') = Cardinality(exchanges \ inUse) - 1 BY <3>2, <3>3, Zenon
    <3>5. Total' = Total + 1 /\ Total \in Int
      <4>1. Cardinality(inUse') = Cardinality(inUse) /\ Cardinality(inUse) \in Nat BY <1>0, <3>1
      <4>2. quota \in Int /\ quota' = quota /\ apc' = apc /\ kpc = "idle" /\ kpc' = "inc" BY <2>0
      <4> HIDE DEF IInv, TypeOK, QuotaConserved
      <4> QED BY <4>1, <4>2
    <3> HIDE DEF Total
    <3> QED BY <1>0, <2>0, <3>4, <3>5
  <2>3. TypeOK' BY <2>0
  <2>4. QuotaConserved' BY <2>1, <2>2
  <2>5. Reachable' BY <2>0 DEF Reachable, Ahead
  <2> QED BY <2>3, <2>4, <2>5
<1>5. ASSUME NEW i \in Ids, Forget(i) PROVE IInv'
  <2>0. exchanges' = exchanges \ {i} /\ UNCHANGED <<inUse, counter, quota, apc, turns, kpc, excess>>
    BY <1>5 DEF Forget
  <2>1. Cardinality(exchanges' \ inUse') \in Nat
        /\ Cardinality(exchanges' \ inUse') <= Cardinality(exchanges \ inUse)
    <3>1. exchanges' \ inUse' \in SUBSET (exchanges \ inUse) BY <2>0
    <3> QED BY <3>1, Unreserved, Zenon
  <2>2. TypeOK' /\ QuotaConserved' BY <1>0, <2>0, <2>1
  <2>3. Reachable' BY <2>0 DEF Reachable, Ahead
  <2> QED BY <2>2, <2>3
<1>6. CASE ReleaseQuota
  <2>0. kpc = "inc" /\ quota' = quota + 1 /\ kpc' = "idle"
        /\ UNCHANGED <<inUse, counter, apc, turns, exchanges, excess>>
    BY <1>6 DEF ReleaseQuota
  <2>1. TypeOK' /\ QuotaConserved' BY <1>0, <2>0
  <2>2. Reachable' BY <2>0 DEF Reachable, Ahead
  <2> QED BY <2>1, <2>2
<1>7. CASE Reset
  <2>1. Cardinality({}) = 0 BY FS_EmptySet
  <2>2. exchanges' \ inUse' = {} BY <1>7 DEF Reset
  <2> QED BY <1>7, <2>1, <2>2 DEF Reset, Idle, Reachable
<1>8. CASE UNCHANGED vars
  BY <1>8 DEF vars, Reachable, Ahead
<1> QED BY <1>1, <1>2, <1>3, <1>4, <1>5, <1>6, <1>7, <1>8 DEF Next

\* The inductive invariant holds in every reachable state.
THEOREM Invariance == Spec => []IInv
BY InitIInv, NextIInv, PTL DEF Spec

\* The fields of flow keep their types: the quota never goes below 0 nor above the
\* number of ids, so the int32 neither goes negative nor overflows.
THEOREM TypeCorrect == Spec => []TypeOK
<1>1. IInv => TypeOK BY DEF IInv
<1> QED BY <1>1, Invariance, PTL

\* acquire and release lose no quota, however they interleave, and invent no more
\* than reAcquire has refused.
THEOREM Conservation == Spec => []QuotaConserved
<1>1. IInv => QuotaConserved BY DEF IInv
<1> QED BY <1>1, Invariance, PTL

\* The client's Receive Maximum is respected, up to what a resumed session had
\* too many.
THEOREM WithinReceiveMaximum == Spec => []ReceiveMaximum
<1>1. ASSUME IInv PROVE ReceiveMaximum
  <2> DEFINE held == exchanges \cap inUse
             rest == exchanges \ inUse
  <2>1. /\ inUse \in SUBSET Ids /\ exchanges \in SUBSET Ids
        /\ held \in SUBSET Ids /\ rest \in SUBSET Ids
    BY <1>1 DEF IInv, TypeOK
  <2>2. /\ IsFiniteSet(inUse) /\ Cardinality(inUse) \in Nat
        /\ IsFiniteSet(held) /\ Cardinality(held) \in Nat
        /\ IsFiniteSet(rest) /\ Cardinality(rest) \in Nat
    BY <2>1, IdsFinite
  <2>3. Cardinality(held) <= Cardinality(inUse) BY <2>2, FS_Subset
  <2>4. Cardinality(exchanges) = Cardinality(held) + Cardinality(rest)
    <3>1. held \cap rest = {} /\ held \cup rest = exchanges OBVIOUS
    <3>2. Cardinality(held \cup rest) = Cardinality(held) + Cardinality(rest) - Cardinality(held \cap rest)
      BY <2>2, FS_Union
    <3> HIDE DEF held, rest
    <3>3. Cardinality(held \cap rest) = 0 BY <3>1, FS_EmptySet
    <3>4. Cardinality(held \cup rest) = Cardinality(exchanges) BY <3>1
    <3> QED BY <2>2, <3>2, <3>3, <3>4
  <2>5. Total + Cardinality(rest) <= SendQuota + excess BY <1>1 DEF IInv, QuotaConserved
  <2>6. quota \in Nat /\ excess \in Int BY <1>1, FlowAssumption DEF IInv, TypeOK
  <2> HIDE DEF held, rest
  <2> QED BY <2>2, <2>3, <2>4, <2>5, <2>6, FlowAssumption DEF Total, ReceiveMaximum
<1> QED BY <1>1, Invariance, PTL

\* acquire never hands out an id that is in use.
THEOREM Freshness == Spec => FreshId
<1>1. ASSUME IInv, [Next]_vars
      PROVE  [apc = "loop" /\ apc' # "loop" => \E i \in Ids \ inUse : inUse' = inUse \cup {i}]_vars
  <2> SUFFICES ASSUME apc = "loop", apc' # "loop", Next
               PROVE  \E i \in Ids \ inUse : inUse' = inUse \cup {i}
    BY <1>1 DEF vars
  <2>1. AcquireTurn
    BY DEF Next, ReAcquire, AcquireQuota, ReleaseID, Forget, ReleaseQuota, Reset
  <2>2. NextID \in Ids
    BY <1>1, FlowAssumption DEF IInv, TypeOK, NextID, Ids
  <2>3. turns < MaxID
    BY <1>1, FlowAssumption DEF IInv, TypeOK, Reachable
  <2> QED BY <2>1, <2>2, <2>3, <1>1, FlowAssumption DEF AcquireTurn, IInv, TypeOK
<1> QED BY <1>1, Invariance, PTL DEF Spec, FreshId
=============================================================================
