-------------------------------- MODULE Queue --------------------------------
(***************************************************************************)
(* The ring buffer of types/queue.go. Each call holds the lock of the queue *)
(* from beginning to end and is one step; ret is the result of the last     *)
(* call. buf is a sequence: slot i of the slice is buf[i + 1]. The bitwise  *)
(* modulus x & (n - 1) is written x % n; MCQueue checks that they agree.     *)
(***************************************************************************)
EXTENDS Integers, Sequences

CONSTANTS
  Elems, Nil, Panic,
  MinQueueLen,  \* minQueueLen: 16 in the code
  MaxLen        \* bound: elements a caller keeps in the queue

ASSUME QueueAssumption == /\ Nil \notin Elems
                          /\ MinQueueLen \in Nat \ {0}
                          /\ MaxLen \in Nat

VARIABLES buf, head, tail, count, ret
vars == <<buf, head, tail, count, ret>>

\* NewQueue.
Init ==
  /\ buf = [i \in 1..MinQueueLen |-> Nil]
  /\ head = 0 /\ tail = 0 /\ count = 0 /\ ret = Nil

\* Mutant: a full ring (head = tail) is taken for an empty one.
Resized_FullIsEmpty(b, h, t, n) ==
  LET first == Len(b) - h
  IN  [i \in 1..(2 * n) |->
         IF t >= h THEN (IF i <= t - h THEN b[h + i] ELSE Nil)
         ELSE IF i <= first THEN b[h + i]
         ELSE IF i - first <= t THEN b[i - first] ELSE Nil]

\* resize: the slots copied to the front of a buffer of size 2 * n, n elements
\* of the ring b that starts at h and ends before t.
Resized(b, h, t, n) ==
  LET first == Len(b) - h   \* slots of b[h:]
  IN  [i \in 1..(2 * n) |->
         IF t > h THEN (IF i <= t - h THEN b[h + i] ELSE Nil)
         ELSE IF i <= first THEN b[h + i]
         ELSE IF i - first <= t THEN b[i - first] ELSE Nil]

\* Add, with the resize of a full buffer.
Add(e) ==
  /\ count < MaxLen
  /\ \/ /\ count = Len(buf)
        /\ buf' = [Resized(buf, head, tail, count) EXCEPT ![count + 1] = e]
        /\ head' = 0
        /\ tail' = (count + 1) % (2 * count)
     \/ /\ count # Len(buf)
        /\ buf' = [buf EXCEPT ![tail + 1] = e]
        /\ tail' = (tail + 1) % Len(buf)
        /\ UNCHANGED head
  /\ count' = count + 1
  /\ ret' = Nil

\* Remove: the slot is cleared, then a buffer that is a quarter full is halved.
Remove ==
  \/ count = 0 /\ ret' = Nil /\ UNCHANGED <<buf, head, tail, count>>
  \/ /\ count > 0
     /\ ret' = buf[head + 1]
     /\ count' = count - 1
     /\ LET cleared == [buf EXCEPT ![head + 1] = Nil]
            next == (head + 1) % Len(buf)
        IN  \/ /\ Len(buf) > MinQueueLen /\ 4 * (count - 1) = Len(buf)
               /\ buf' = Resized(cleared, next, tail, count - 1)
               /\ head' = 0
               /\ tail' = count - 1
            \/ /\ ~(Len(buf) > MinQueueLen /\ 4 * (count - 1) = Len(buf))
               /\ buf' = cleared
               /\ head' = next
               /\ UNCHANGED tail

Peek ==
  /\ ret' = IF count = 0 THEN Nil ELSE buf[head + 1]
  /\ UNCHANGED <<buf, head, tail, count>>

Length == ret' = <<count, Nil>> /\ UNCHANGED <<buf, head, tail, count>>

\* Mutant: a negative index is not counted from the end.
Get_NoNegative(i) ==
  /\ ret' = <<i, IF i < 0 \/ i >= count THEN Panic ELSE buf[((head + i) % Len(buf)) + 1]>>
  /\ UNCHANGED <<buf, head, tail, count>>

Get(i) ==
  /\ LET k == IF i < 0 THEN i + count ELSE i
     IN  ret' = <<i, IF k < 0 \/ k >= count THEN Panic ELSE buf[((head + k) % Len(buf)) + 1]>>
  /\ UNCHANGED <<buf, head, tail, count>>

Next ==
  \/ \E e \in Elems : Add(e)
  \/ Remove \/ Peek \/ Length
  \/ \E i \in -MaxLen..MaxLen : Get(i)

Spec == Init /\ [][Next]_vars

-----------------------------------------------------------------------------

\* The i-th element of the queue, i from 1.
Slot(i) == ((head + i - 1) % Len(buf)) + 1

\* The fields are those of a ring: tail is where head and count put it, and the
\* slots outside the window from head to tail are cleared, so that a removed
\* packet is not kept alive by the buffer (Remove, resize).
RingOK ==
  /\ buf \in Seq(Elems \cup {Nil}) /\ Len(buf) > 0
  /\ head \in 0..(Len(buf) - 1) /\ count \in 0..Len(buf)
  /\ tail = (head + count) % Len(buf)
  /\ \A i \in 1..Len(buf) : i <= count <=> buf[Slot(i)] # Nil

\* Queue implements Fifo through every wrap, growth and shrinking of the buffer.
items == [i \in 1..count |-> buf[Slot(i)]]
F == INSTANCE Fifo
IsFifo == F!Spec

\* Peek and Remove of an empty queue panic, as their comments say.
EmptyPanics == [][count = 0 /\ (Peek \/ Remove) => ret' = Panic]_vars
=============================================================================
