-------------------------------- MODULE Fifo --------------------------------
(***************************************************************************)
(* What the users of types.Queue rely on: an unbounded first-in first-out   *)
(* list. ret is the result of the last call, with its index for Get and as  *)
(* the first of a pair for Length.                                          *)
(***************************************************************************)
EXTENDS Integers, Sequences

CONSTANTS Elems, Nil, Panic, MaxLen

VARIABLES items, ret

Init == items = <<>> /\ ret = Nil

Add(e) == Len(items) < MaxLen /\ items' = Append(items, e) /\ ret' = Nil

Remove ==
  \/ items = <<>> /\ ret' = Nil /\ UNCHANGED items
  \/ items # <<>> /\ ret' = Head(items) /\ items' = Tail(items)

Peek == ret' = (IF items = <<>> THEN Nil ELSE Head(items)) /\ UNCHANGED items

Length == ret' = <<Len(items), Nil>> /\ UNCHANGED items

\* i counts from 0 at the front, or from -1 backwards at the end.
Get(i) ==
  /\ LET k == IF i < 0 THEN Len(items) + i ELSE i
     IN  ret' = <<i, IF k \in 0..(Len(items) - 1) THEN items[k + 1] ELSE Panic>>
  /\ UNCHANGED items

Next ==
  \/ \E e \in Elems : Add(e)
  \/ Remove \/ Peek \/ Length
  \/ \E i \in -MaxLen..MaxLen : Get(i)

Spec == Init /\ [][Next]_<<items, ret>>
=============================================================================
