----------------------------- MODULE QueueProofs -----------------------------
(***************************************************************************)
(* For every minimal length and every content, the ring buffer keeps its    *)
(* shape (RingOK, which is inductive) and implements Fifo. The modulus is    *)
(* eliminated first (ModOnce, Step, RingForm): an index passes the end of   *)
(* the buffer at most once.                                                 *)
(***************************************************************************)
EXTENDS Queue, SequenceTheorems, TLAPS

V == Elems \cup {Nil}

\* Position x of a buffer of length n, x at most one round too large.
Wrap(x, n) == IF x < n THEN x ELSE x - n

\* Slot of the k-th element of a ring of length n that starts at h, k from 1.
At(h, k, n) == Wrap(h + k - 1, n) + 1

\* RingOK without the modulus.
Ring(b, h, t, c) ==
  /\ b \in Seq(V) /\ Len(b) > 0
  /\ h \in 0..(Len(b) - 1) /\ c \in 0..Len(b)
  /\ t = Wrap(h + c, Len(b))
  /\ \A i \in 1..Len(b) : i <= c <=> b[At(h, i, Len(b))] # Nil

\* The modulus of an index that has passed the end of the buffer at most once.
LEMMA ModOnce ==
  ASSUME NEW n \in Nat \ {0}, NEW x \in Nat, x < 2 * n
  PROVE  x % n = Wrap(x, n)
BY Z3 DEF Wrap

\* The slots seen from one index, and from the next one.
LEMMA SlotFacts ==
  ASSUME NEW n \in Nat \ {0}, NEW h \in 0..(n - 1)
  PROVE  /\ \A k \in 1..n : At(h, k, n) \in 1..n
         /\ \A k, l \in 1..n : At(h, k, n) = At(h, l, n) => k = l
         /\ Wrap(h + 1, n) \in 0..(n - 1)
         /\ \A k \in 1..(n - 1) : At(Wrap(h + 1, n), k, n) = At(h, k + 1, n)
         /\ At(Wrap(h + 1, n), n, n) = h + 1
         /\ At(h, 1, n) = h + 1
BY DEF At, Wrap

\* The buffer r has the c elements of a ring at its front, in order, and is empty
\* behind them.
Moved(r, b, h, c) ==
  /\ r \in Seq(V) /\ Len(r) = 2 * c
  /\ \A k \in 1..c : r[k] = b[At(h, k, Len(b))]
  /\ \A k \in (c + 1)..(2 * c) : r[k] = Nil

\* resize moves the c elements of a ring to the front of the new buffer.
LEMMA ResizedRing ==
  ASSUME NEW b \in Seq(V), Len(b) > 0,
         NEW h \in 0..(Len(b) - 1), NEW c \in 1..Len(b), NEW t, t = Wrap(h + c, Len(b))
  PROVE  Moved(Resized(b, h, t, c), b, h, c)
<1> DEFINE r == Resized(b, h, t, c)
           L == Len(b)
           val(k) == IF t > h THEN (IF k <= t - h THEN b[h + k] ELSE Nil)
                     ELSE IF k <= L - h THEN b[h + k]
                     ELSE IF k - (L - h) <= t THEN b[k - (L - h)] ELSE Nil
<1>1. L \in Nat \ {0} /\ h \in 0..(L - 1) /\ c \in 1..L /\ t = Wrap(h + c, L) BY LenProperties
<1>2. \A k \in 1..L : b[k] \in V BY ElementOfSeq, Zenon
<1>3. r = [k \in 1..(2 * c) |-> val(k)] BY Zenon DEF Resized
<1> HIDE DEF L
<1>4. ASSUME NEW k \in 1..c PROVE val(k) = b[At(h, k, L)] /\ At(h, k, L) \in 1..L
  <2>1. CASE t > h BY <1>1, <2>1 DEF At, Wrap
  <2>2. CASE ~(t > h) BY <1>1, <2>2 DEF At, Wrap
  <2> QED BY <2>1, <2>2, Zenon
<1>5. ASSUME NEW k \in (c + 1)..(2 * c) PROVE val(k) = Nil
  BY <1>1 DEF Wrap
<1> HIDE DEF val
<1>6. ASSUME NEW k \in 1..(2 * c) PROVE val(k) \in V
  <2>1. CASE k \in 1..c BY <1>2, <1>4, <2>1, Zenon
  <2>2. CASE k \in (c + 1)..(2 * c) BY <1>5, <2>2, Zenon DEF V
  <2> QED BY <1>1, <2>1, <2>2
<1>7. r \in Seq(V) /\ Len(r) = 2 * c
  <2>1. 2 * c \in Nat BY <1>1
  <2>2. r \in [1..(2 * c) -> V] BY <1>3, <1>6, Zenon
  <2>3. r \in Seq(V) BY <2>1, <2>2, IsASeq
  <2> QED BY <2>1, <2>2, <2>3, LenProperties
<1>8. \A k \in 1..c : r[k] = b[At(h, k, L)] BY <1>1, <1>3, <1>4
<1>9. \A k \in (c + 1)..(2 * c) : r[k] = Nil BY <1>1, <1>3, <1>5
<1> QED BY <1>7, <1>8, <1>9, Zenon DEF L, Moved

\* The elements of a ring in the order in which they came.
Contents(b, h, c) == [i \in 1..c |-> b[At(h, i, Len(b))]]

\* The contents of a ring are a sequence of elements, none of them nil.
LEMMA ContentsSeq ==
  ASSUME NEW b, NEW h, NEW t, NEW c, Ring(b, h, t, c)
  PROVE  /\ Contents(b, h, c) \in Seq(Elems) /\ Len(Contents(b, h, c)) = c
         /\ \A i \in 1..c : Contents(b, h, c)[i] = b[At(h, i, Len(b))]
<1>1. Len(b) \in Nat \ {0} /\ h \in 0..(Len(b) - 1) /\ c \in Nat /\ c <= Len(b)
  BY LenProperties DEF Ring
<1>2. ASSUME NEW i \in 1..c PROVE b[At(h, i, Len(b))] \in Elems
  <2>1. At(h, i, Len(b)) \in 1..Len(b) BY <1>1 DEF At, Wrap
  <2>2. b[At(h, i, Len(b))] \in V BY <2>1, ElementOfSeq, Zenon DEF Ring
  <2> QED BY <1>1, <2>2 DEF Ring, V
<1>3. Contents(b, h, c) \in [1..c -> Elems] BY <1>2, Zenon DEF Contents
<1> DEFINE s == Contents(b, h, c)
<1> HIDE DEF s
<1>4. s \in [1..c -> Elems] BY <1>3, Zenon DEF s
<1>5. s \in Seq(Elems) /\ Len(s) = c BY <1>1, <1>4
<1>6. \A i \in 1..c : s[i] = b[At(h, i, Len(b))] BY Zenon DEF s, Contents
<1> QED BY <1>5, <1>6, Zenon DEF s

\* A buffer with e stored behind position t.
Put(b, t, e) == [b EXCEPT ![t + 1] = e]

\* Add with a free slot.
LEMMA AddToRing ==
  ASSUME NEW b, NEW h, NEW t, NEW c, Ring(b, h, t, c), c # Len(b), NEW e \in Elems,
         NEW d, d = Put(b, t, e)
  PROVE  /\ Ring(d, h, Wrap(t + 1, Len(b)), c + 1)
         /\ Contents(d, h, c + 1)[c + 1] = e
         /\ \A i \in 1..c : Contents(d, h, c + 1)[i] = Contents(b, h, c)[i]
<1> DEFINE L == Len(b)
<1>1. L \in Nat \ {0} /\ h \in 0..(L - 1) /\ c \in 0..(L - 1) /\ t = Wrap(h + c, L)
  BY LenProperties DEF Ring
<1>2. t + 1 = At(h, c + 1, L) /\ t + 1 \in 1..L BY <1>1 DEF At, Wrap
<1>3. e \in V /\ e # Nil BY QueueAssumption, Zenon DEF V
<1>4. d \in Seq(V) /\ Len(d) = L /\ \A j \in 1..L : d[j] = IF j = t + 1 THEN e ELSE b[j]
  BY <1>2, <1>3, ExceptSeq DEF Ring, Put
<1> HIDE DEF L
<1>5. ASSUME NEW i \in 1..L PROVE d[At(h, i, L)] = IF i = c + 1 THEN e ELSE b[At(h, i, L)]
  <2>1. /\ \A k \in 1..L : At(h, k, L) \in 1..L
        /\ \A k, l \in 1..L : At(h, k, L) = At(h, l, L) => k = l
    BY <1>1, SlotFacts, Zenon
  <2>2. At(h, i, L) \in 1..L /\ (At(h, i, L) = t + 1 <=> i = c + 1)
    <3>1. c + 1 \in 1..L BY <1>1
    <3> QED BY <1>2, <2>1, <3>1, Zenon
  <2> QED BY <1>4, <2>2, Zenon
<1>6. \A i \in 1..L : i <= c <=> b[At(h, i, L)] # Nil BY Zenon DEF Ring, L
<1>7. Ring(d, h, Wrap(t + 1, L), c + 1)
  <2>1. Wrap(t + 1, L) = Wrap(h + c + 1, L) BY <1>1 DEF Wrap
  <2>2. \A i \in 1..L : i <= c + 1 <=> d[At(h, i, L)] # Nil BY <1>1, <1>3, <1>5, <1>6
  <2> QED BY <1>1, <1>4, <2>1, <2>2 DEF Ring
<1>8. /\ \A i \in 1..(c + 1) : Contents(d, h, c + 1)[i] = d[At(h, i, L)]
      /\ \A i \in 1..c : Contents(b, h, c)[i] = b[At(h, i, L)]
  BY <1>4, Zenon DEF Contents, L
<1>9. ASSUME NEW i \in 1..(c + 1)
      PROVE  Contents(d, h, c + 1)[i] = IF i = c + 1 THEN e ELSE b[At(h, i, L)]
  <2>1. i \in 1..L BY <1>1
  <2> QED BY <1>5, <1>8, <2>1, Zenon
<1>10. c + 1 \in 1..(c + 1) /\ \A i \in 1..c : i \in 1..(c + 1) /\ i # c + 1 BY <1>1
<1> QED BY <1>7, <1>8, <1>9, <1>10, Zenon DEF L

\* A sequence that agrees with s and has e behind it is Append(s, e).
LEMMA IsAppend ==
  ASSUME NEW s \in Seq(Elems), NEW e \in Elems, NEW u \in Seq(Elems), Len(u) = Len(s) + 1,
         u[Len(s) + 1] = e, \A i \in 1..Len(s) : u[i] = s[i]
  PROVE  u = Append(s, e)
<1>1. Len(s) \in Nat BY LenProperties, Zenon
<1>2. /\ Append(s, e) \in Seq(Elems) /\ Len(Append(s, e)) = Len(s) + 1
      /\ \A i \in 1..Len(s) : Append(s, e)[i] = s[i]
      /\ Append(s, e)[Len(s) + 1] = e
  BY AppendProperties
<1>3. \A i \in 1..Len(u) : u[i] = Append(s, e)[i] BY <1>1, <1>2
<1> QED BY <1>2, <1>3, SeqEqual, Zenon

\* resize keeps the ring and its contents.
LEMMA ResizeRing ==
  ASSUME NEW b, NEW h, NEW t, NEW c, Ring(b, h, t, c), c > 0
  PROVE  /\ Ring(Resized(b, h, t, c), 0, c, c)
         /\ Len(Resized(b, h, t, c)) = 2 * c
         /\ Contents(Resized(b, h, t, c), 0, c) = Contents(b, h, c)
<1> DEFINE L == Len(b)
           r == Resized(b, h, t, c)
<1>1. /\ L \in Nat \ {0} /\ L > 0 /\ h \in 0..(L - 1) /\ c \in 1..L
      /\ b \in Seq(V) /\ t = Wrap(h + c, L)
  BY LenProperties DEF Ring
<1>2. /\ r \in Seq(V) /\ Len(r) = 2 * c
      /\ \A k \in 1..c : r[k] = b[At(h, k, L)]
      /\ \A k \in (c + 1)..(2 * c) : r[k] = Nil
  <2>1. Moved(Resized(b, h, t, c), b, h, c) BY <1>1, ResizedRing, Zenon
  <2> QED BY <2>1, Zenon DEF Moved
<1>3. \A i \in 1..L : i <= c <=> b[At(h, i, L)] # Nil BY Zenon DEF Ring
<1> HIDE DEF L, r
<1>4. \A i \in 1..(2 * c) : At(0, i, 2 * c) = i BY <1>1 DEF At, Wrap
<1>5. ASSUME NEW i \in 1..(2 * c) PROVE i <= c <=> r[At(0, i, 2 * c)] # Nil
  <2>1. r[At(0, i, 2 * c)] = r[i] BY <1>4, Zenon
  <2>2. CASE i \in 1..c
    <3>1. i \in 1..L /\ i <= c BY <1>1, <2>2
    <3> QED BY <1>2, <1>3, <2>1, <2>2, <3>1, Zenon
  <2>3. CASE i \in (c + 1)..(2 * c)
    <3>1. ~(i <= c) BY <1>1, <2>3
    <3> QED BY <1>2, <2>1, <2>3, <3>1, Zenon
  <2>4. i \in 1..c \/ i \in (c + 1)..(2 * c) BY <1>1
  <2> QED BY <2>2, <2>3, <2>4, Zenon
<1>6. Ring(r, 0, c, c)
  <2>1. c = Wrap(0 + c, 2 * c) BY <1>1 DEF Wrap
  <2>2. /\ Len(r) > 0 /\ 0 \in 0..(Len(r) - 1) /\ c \in 0..Len(r)
        /\ c = Wrap(0 + c, Len(r))
    BY <1>1, <1>2, <2>1
  <2>3. \A i \in 1..Len(r) : i <= c <=> r[At(0, i, Len(r))] # Nil BY <1>2, <1>5, Zenon
  <2> QED BY <1>2, <2>2, <2>3, Zenon DEF Ring
<1>7. Contents(r, 0, c) = Contents(b, h, c) BY <1>1, <1>2, <1>4 DEF Contents, L
<1> QED BY <1>2, <1>6, <1>7, Zenon DEF r

\* Remove of the first element, before a resize.
LEMMA RemoveFromRing ==
  ASSUME NEW b, NEW h, NEW t, NEW c, Ring(b, h, t, c), c > 0
  PROVE  /\ Ring([b EXCEPT ![h + 1] = Nil], Wrap(h + 1, Len(b)), t, c - 1)
         /\ Contents([b EXCEPT ![h + 1] = Nil], Wrap(h + 1, Len(b)), c - 1) = Tail(Contents(b, h, c))
         /\ b[h + 1] = Head(Contents(b, h, c))
         /\ Len([b EXCEPT ![h + 1] = Nil]) = Len(b)
<1> DEFINE L == Len(b)
           d == [b EXCEPT ![h + 1] = Nil]
           g == Wrap(h + 1, L)
<1>1. L \in Nat \ {0} /\ h \in 0..(L - 1) /\ c \in 1..L /\ t = Wrap(h + c, L)
  BY LenProperties DEF Ring
<1>2. h + 1 = At(h, 1, L) /\ h + 1 \in 1..L BY <1>1 DEF At, Wrap
<1>3. d \in Seq(V) /\ Len(d) = L /\ \A j \in 1..L : d[j] = IF j = h + 1 THEN Nil ELSE b[j]
  BY <1>2, ExceptSeq DEF Ring, V
<1>4. \A i \in 1..L : i <= c <=> b[At(h, i, L)] # Nil BY Zenon DEF Ring
<1> HIDE DEF L, d, g
<1>5. /\ \A k \in 1..L : At(h, k, L) \in 1..L
      /\ \A k, l \in 1..L : At(h, k, L) = At(h, l, L) => k = l
      /\ g \in 0..(L - 1)
      /\ \A k \in 1..(L - 1) : At(g, k, L) = At(h, k + 1, L)
      /\ At(g, L, L) = h + 1
  BY <1>1, SlotFacts, Zenon DEF g
<1>6. ASSUME NEW i \in 1..(L - 1) PROVE d[At(g, i, L)] = b[At(h, i + 1, L)]
  <2>1. i + 1 \in 1..L /\ 1 \in 1..L /\ i + 1 # 1 BY <1>1
  <2>2. At(h, i + 1, L) # h + 1 /\ At(h, i + 1, L) \in 1..L BY <1>2, <1>5, <2>1, Zenon
  <2> QED BY <1>3, <1>5, <2>2
<1>7. d[At(g, L, L)] = Nil BY <1>1, <1>2, <1>3, <1>5, Zenon
<1>8. Ring(d, g, t, c - 1)
  <2>1. t = Wrap(g + (c - 1), L) BY <1>1 DEF Wrap, g
  <2>2. ASSUME NEW i \in 1..L PROVE i <= c - 1 <=> d[At(g, i, L)] # Nil
    <3>1. CASE i = L BY <1>1, <1>7, <3>1
    <3>2. CASE i \in 1..(L - 1) BY <1>1, <1>4, <1>6, <3>2
    <3> QED BY <1>1, <3>1, <3>2
  <2>3. Len(d) > 0 /\ g \in 0..(Len(d) - 1) /\ c - 1 \in 0..Len(d) /\ t = Wrap(g + (c - 1), Len(d))
    BY <1>1, <1>3, <1>5, <2>1
  <2>4. \A i \in 1..Len(d) : i <= c - 1 <=> d[At(g, i, Len(d))] # Nil BY <1>3, <2>2, Zenon
  <2> QED BY <1>3, <2>3, <2>4, Zenon DEF Ring
<1>9. /\ Contents(b, h, c) \in Seq(Elems) /\ Len(Contents(b, h, c)) = c
      /\ \A i \in 1..c : Contents(b, h, c)[i] = b[At(h, i, L)]
  BY ContentsSeq DEF L
<1>10. b[h + 1] = Head(Contents(b, h, c)) BY <1>1, <1>2, <1>9
<1>11. Contents(d, g, c - 1) = Tail(Contents(b, h, c))
  <2>1. /\ Contents(d, g, c - 1) \in Seq(Elems) /\ Len(Contents(d, g, c - 1)) = c - 1
        /\ \A i \in 1..(c - 1) : Contents(d, g, c - 1)[i] = d[At(g, i, L)]
    BY <1>3, <1>8, ContentsSeq
  <2>2. /\ Tail(Contents(b, h, c)) \in Seq(Elems) /\ Len(Tail(Contents(b, h, c))) = c - 1
        /\ \A i \in 1..(c - 1) : Tail(Contents(b, h, c))[i] = Contents(b, h, c)[i + 1]
    <3>1. Contents(b, h, c) # <<>> BY <1>1, <1>9
    <3> QED BY <1>1, <1>9, <3>1, HeadTailProperties, Zenon
  <2>3. ASSUME NEW i \in 1..(c - 1) PROVE Contents(d, g, c - 1)[i] = Tail(Contents(b, h, c))[i]
    <3>1. i \in 1..(L - 1) /\ i + 1 \in 1..c BY <1>1
    <3>2. Contents(d, g, c - 1)[i] = b[At(h, i + 1, L)] BY <1>6, <2>1, <3>1, Zenon
    <3> QED BY <1>9, <2>2, <3>1, <3>2, Zenon
  <2> QED BY <2>1, <2>2, <2>3, SeqEqual, Zenon
<1> QED BY <1>3, <1>8, <1>10, <1>11, Zenon DEF d, g, L

\* The slots of RingOK and items are those of Ring and Contents.
LEMMA Slots ==
  ASSUME NEW b, NEW h, NEW c,
         b \in Seq(V), Len(b) > 0, h \in 0..(Len(b) - 1), c \in 0..Len(b)
  PROVE  /\ (h + c) % Len(b) = Wrap(h + c, Len(b))
         /\ \A i \in 1..Len(b) : ((h + i - 1) % Len(b)) + 1 = At(h, i, Len(b))
<1> DEFINE L == Len(b)
<1>1. L \in Nat \ {0} /\ h \in 0..(L - 1) /\ c \in 0..L BY LenProperties
<1> HIDE DEF L
<1>2. (h + c) % L = Wrap(h + c, L)
  <2> DEFINE x == h + c
  <2>1. x \in Nat /\ x < 2 * L BY <1>1
  <2> HIDE DEF x
  <2> QED BY <1>1, <2>1, ModOnce, Zenon DEF x
<1>3. ASSUME NEW i \in 1..L PROVE ((h + i - 1) % L) + 1 = At(h, i, L)
  <2> DEFINE x == h + i - 1
  <2>1. x \in Nat /\ x < 2 * L BY <1>1, <1>3
  <2> HIDE DEF x
  <2>2. x % L = Wrap(x, L) BY <1>1, <2>1, ModOnce, Zenon
  <2> QED BY <2>2, Zenon DEF x, At
<1> QED BY <1>2, <1>3, Zenon DEF L

\* RingOK is Ring of the fields, before and after a step.
LEMMA RingForm ==
  /\ RingOK <=> Ring(buf, head, tail, count)
  /\ RingOK => items = Contents(buf, head, count)
<1> DEFINE typed == /\ buf \in Seq(V) /\ Len(buf) > 0
                    /\ head \in 0..(Len(buf) - 1) /\ count \in 0..Len(buf)
<1>1. typed => /\ (head + count) % Len(buf) = Wrap(head + count, Len(buf))
               /\ \A i \in 1..Len(buf) : Slot(i) = At(head, i, Len(buf))
  BY Slots, Zenon DEF Slot
<1>2. RingOK => typed BY Zenon DEF RingOK, V
<1>3. Ring(buf, head, tail, count) => typed BY Zenon DEF Ring
<1>4. ASSUME typed PROVE RingOK <=> Ring(buf, head, tail, count)
  BY <1>1, <1>4, Zenon DEF RingOK, Ring, V
<1>5. ASSUME RingOK PROVE items = Contents(buf, head, count)
  <2>1. \A i \in 1..count : i \in 1..Len(buf) BY <1>2, <1>5, LenProperties
  <2> QED BY <1>1, <1>2, <1>5, <2>1, Zenon DEF items, Contents
<1> QED BY <1>2, <1>3, <1>4, <1>5, Zenon

\* A step of the queue keeps the ring and is a step of Fifo.
LEMMA StepImplements ==
  ASSUME RingOK, [Next]_vars
  PROVE  RingOK' /\ [F!Next]_<<items, ret>>
<1> DEFINE c == Contents(buf, head, count)
           cn == Contents(buf', head', count')
<1>1. Ring(buf, head, tail, count) /\ items = c BY RingForm, Zenon
<1>2. c \in Seq(Elems) /\ Len(c) = count /\ count \in Nat
      /\ \A i \in 1..count : c[i] = buf[At(head, i, Len(buf))]
  <2>1. count \in Nat BY <1>1, LenProperties DEF Ring
  <2> QED BY <1>1, <2>1, ContentsSeq
<1>3. Len(buf) \in Nat \ {0} /\ head \in 0..(Len(buf) - 1) /\ count \in 0..Len(buf)
      /\ tail \in 0..(Len(buf) - 1)
  BY <1>1, LenProperties DEF Ring, Wrap
<1>4. Ring(buf', head', tail', count') => RingOK' /\ items' = cn
  <2>1. /\ (RingOK <=> Ring(buf, head, tail, count))'
        /\ (RingOK => items = Contents(buf, head, count))'
    BY RingForm, PTL
  <2> QED BY <2>1, Zenon
<1> HIDE DEF c, cn
<1>5. ASSUME NEW e \in Elems, Add(e) PROVE RingOK' /\ F!Add(e)
  <2>1. /\ Ring(buf', head', tail', count') /\ count' = count + 1
        /\ cn[count + 1] = e /\ \A i \in 1..count : cn[i] = c[i]
    <3>1. CASE count # Len(buf)
      <4>1. tail' = Wrap(tail + 1, Len(buf)) BY <1>3, <1>5, <3>1, ModOnce DEF Add
      <4>2. buf' = Put(buf, tail, e) /\ head' = head /\ count' = count + 1
        BY <1>5, <3>1, Zenon DEF Add, Put
      <4>3. /\ Ring(buf', head, Wrap(tail + 1, Len(buf)), count + 1)
            /\ Contents(buf', head, count + 1)[count + 1] = e
            /\ \A i \in 1..count : Contents(buf', head, count + 1)[i] = Contents(buf, head, count)[i]
        BY <1>1, <3>1, <4>2, AddToRing
      <4> QED BY <4>1, <4>2, <4>3, Zenon DEF c, cn
    <3>2. CASE count = Len(buf)
      <4> DEFINE r == Resized(buf, head, tail, count)
      <4>1. Ring(r, 0, count, count) /\ Len(r) = 2 * count /\ Contents(r, 0, count) = c
        BY <1>1, <1>3, <3>2, ResizeRing DEF c
      <4>2. /\ buf' = Put(r, count, e) /\ head' = 0 /\ count' = count + 1
            /\ tail' = (count + 1) % (2 * count)
        BY <1>5, <3>2, Zenon DEF Add, Put
      <4> HIDE DEF r
      <4>3. tail' = Wrap(count + 1, Len(r))
        <5> DEFINE x == count + 1
                   n == 2 * count
        <5>1. n \in Nat \ {0} /\ x \in Nat /\ x < 2 * n BY <1>3, <3>2
        <5> HIDE DEF x, n
        <5>2. x % n = Wrap(x, n) BY <5>1, ModOnce, Zenon
        <5> QED BY <4>1, <4>2, <5>2, Zenon DEF x, n
      <4>4. count # Len(r) BY <1>3, <3>2, <4>1
      <4>5. /\ Ring(buf', 0, Wrap(count + 1, Len(r)), count + 1)
            /\ Contents(buf', 0, count + 1)[count + 1] = e
            /\ \A i \in 1..count : Contents(buf', 0, count + 1)[i] = Contents(r, 0, count)[i]
        BY <4>1, <4>2, <4>4, AddToRing
      <4> QED BY <4>1, <4>2, <4>3, <4>5, Zenon DEF cn
    <3> QED BY <3>1, <3>2, Zenon
  <2>2. cn \in Seq(Elems) /\ Len(cn) = count + 1 BY <2>1, ContentsSeq DEF cn
  <2>3. cn = Append(c, e) BY <1>2, <2>1, <2>2, IsAppend, Zenon
  <2>4. items' = Append(items, e) BY <1>1, <1>4, <2>1, <2>3, Zenon
  <2> QED BY <1>1, <1>2, <1>4, <1>5, <2>1, <2>4, Zenon DEF Add, F!Add
<1>6. CASE Remove
  <2>1. CASE count = 0
    <3>1. UNCHANGED <<buf, head, tail, count>> /\ ret' = Nil BY <1>6, <2>1 DEF Remove
    <3>2. RingOK' /\ items' = items BY <3>1, Zenon DEF RingOK, Slot, items
    <3>3. items = <<>> BY <1>1, <1>2, <2>1
    <3> QED BY <3>1, <3>2, <3>3, Zenon DEF F!Next, F!Remove
  <2>2. CASE count > 0
    <3> DEFINE d == [buf EXCEPT ![head + 1] = Nil]
               g == Wrap(head + 1, Len(buf))
    <3>1. /\ Ring(d, g, tail, count - 1) /\ Contents(d, g, count - 1) = Tail(c)
          /\ buf[head + 1] = Head(c) /\ Len(d) = Len(buf)
      BY <1>1, <2>2, RemoveFromRing, Zenon DEF c
    <3>2. (head + 1) % Len(buf) = g
      <4> DEFINE x == head + 1
      <4>1. x \in Nat /\ x < 2 * Len(buf) BY <1>3
      <4> HIDE DEF x
      <4> QED BY <1>3, <4>1, ModOnce, Zenon DEF x
    <3>3. Ring(buf', head', tail', count') /\ cn = Tail(c)
      <4>1. CASE Len(buf) > MinQueueLen /\ 4 * (count - 1) = Len(buf)
        <5>1. /\ buf' = Resized(d, g, tail, count - 1)
              /\ head' = 0 /\ tail' = count - 1 /\ count' = count - 1
          BY <1>6, <2>2, <3>2, <4>1 DEF Remove
        <5>2. count - 1 > 0 BY <1>3, <4>1
        <5> HIDE DEF d, g
        <5>3. /\ Ring(Resized(d, g, tail, count - 1), 0, count - 1, count - 1)
              /\ Contents(Resized(d, g, tail, count - 1), 0, count - 1) = Contents(d, g, count - 1)
          BY <3>1, <5>2, ResizeRing
        <5> QED BY <3>1, <5>1, <5>3, Zenon DEF cn
      <4>2. CASE ~(Len(buf) > MinQueueLen /\ 4 * (count - 1) = Len(buf))
        <5>1. buf' = d /\ head' = g /\ tail' = tail /\ count' = count - 1
          BY <1>6, <2>2, <3>2, <4>2 DEF Remove
        <5> QED BY <3>1, <5>1, Zenon DEF cn
      <4> QED BY <4>1, <4>2, Zenon
    <3>4. ret' = Head(items) /\ items # <<>> /\ items' = Tail(items) /\ RingOK'
      <4>1. ret' = buf[head + 1] BY <1>3, <1>6, <2>2 DEF Remove
      <4>2. items' = cn /\ RingOK' BY <1>4, <3>3, Zenon
      <4>3. c # <<>> BY <1>2, <2>2
      <4> HIDE DEF d, g
      <4> QED BY <1>1, <3>1, <3>3, <4>1, <4>2, <4>3, Zenon
    <3> QED BY <3>4, Zenon DEF F!Next, F!Remove
  <2> QED BY <1>3, <2>1, <2>2
<1>7. ASSUME UNCHANGED <<buf, head, tail, count>> PROVE RingOK' /\ items' = items
  BY <1>7, Zenon DEF RingOK, Slot, items
<1>8. CASE Peek
  <2>1. count # 0 => buf[head + 1] = Head(c)
    <3>1. At(head, 1, Len(buf)) = head + 1 BY <1>3 DEF At, Wrap
    <3> QED BY <1>2, <1>3, <3>1
  <2>2. ret' = IF items = <<>> THEN Nil ELSE Head(items)
    BY <1>1, <1>2, <1>8, <2>1 DEF Peek
  <2> QED BY <1>7, <1>8, <2>2, Zenon DEF Peek, F!Next, F!Peek
<1>9. CASE Length
  BY <1>1, <1>2, <1>7, <1>9, Zenon DEF Length, F!Next, F!Length
<1>10. ASSUME NEW i \in -MaxLen..MaxLen, Get(i) PROVE RingOK' /\ F!Get(i)
  <2> DEFINE k == IF i < 0 THEN i + count ELSE i
  <2>1. k \in Int BY <1>2, QueueAssumption
  <2>2. k \in 0..(count - 1) => ((head + k) % Len(buf)) + 1 = At(head, k + 1, Len(buf))
    <3> SUFFICES ASSUME k \in 0..(count - 1)
                 PROVE  ((head + k) % Len(buf)) + 1 = At(head, k + 1, Len(buf))
      BY Zenon
    <3> DEFINE x == head + k
    <3> HIDE DEF k
    <3>1. x \in Nat /\ x < 2 * Len(buf) BY <1>3
    <3> HIDE DEF x
    <3>2. x % Len(buf) = Wrap(x, Len(buf)) BY <1>3, <3>1, ModOnce, Zenon
    <3>3. head + (k + 1) - 1 = x BY <1>3 DEF x
    <3> QED BY <3>2, <3>3, Zenon DEF x, At
  <2> DEFINE v == IF k < 0 \/ k >= count THEN Panic ELSE buf[((head + k) % Len(buf)) + 1]
  <2>3. ret' = <<i, v>> BY <1>10, Zenon DEF Get
  <2>4. k = IF i < 0 THEN Len(items) + i ELSE i BY <1>1, <1>2, QueueAssumption
  <2>5. v = IF k \in 0..(Len(items) - 1) THEN items[k + 1] ELSE Panic
    <3> HIDE DEF k
    <3>1. CASE k \in 0..(count - 1)
      <4>1. k + 1 \in 1..count BY <1>2, <3>1
      <4>2. items[k + 1] = buf[At(head, k + 1, Len(buf))] BY <1>1, <1>2, <4>1, Zenon
      <4>3. v = buf[((head + k) % Len(buf)) + 1] BY <1>2, <3>1
      <4> QED BY <1>1, <1>2, <2>2, <3>1, <4>2, <4>3, Zenon
    <3>2. CASE k \notin 0..(count - 1) BY <1>1, <1>2, <2>1, <3>2
    <3> QED BY <3>1, <3>2, Zenon
  <2> HIDE DEF k, v
  <2> QED BY <1>7, <1>10, <2>3, <2>4, <2>5, Zenon DEF Get, F!Get
<1>11. CASE UNCHANGED vars BY <1>7, <1>11, Zenon DEF vars
<1> QED BY <1>5, <1>6, <1>7, <1>8, <1>9, <1>10, <1>11, Zenon DEF Next, F!Next

\* The new queue is an empty ring.
LEMMA InitImplements == Init => RingOK /\ F!Init
<1> SUFFICES ASSUME Init PROVE RingOK /\ F!Init BY Zenon
<1> USE QueueAssumption
<1>1. buf \in [1..MinQueueLen -> V] BY Zenon DEF Init, V
<1>2. buf \in Seq(V) /\ Len(buf) = MinQueueLen BY <1>1
<1>3. \A i \in 1..Len(buf) : buf[At(0, i, Len(buf))] = Nil BY <1>2 DEF Init, At, Wrap
<1>4. Ring(buf, head, tail, count) BY <1>2, <1>3 DEF Init, Ring, Wrap
<1>5. RingOK /\ items = Contents(buf, head, count) BY <1>4, RingForm, Zenon
<1>6. items \in Seq(Elems) /\ Len(items) = 0 BY <1>4, <1>5, ContentsSeq DEF Init
<1> QED BY <1>5, <1>6 DEF Init, F!Init

\* The ring keeps its shape through every sequence of calls: head, tail and count
\* agree, and every slot outside the window is cleared.
THEOREM RingCorrect == Spec => []RingOK
<1>1. RingOK /\ [Next]_vars => RingOK' BY StepImplements, Zenon
<1> QED BY <1>1, InitImplements, PTL DEF Spec

\* types.Queue is a first-in first-out list for every minimal length: Add, Remove,
\* Peek, Get and Length return what Fifo returns, through every wrap and resize.
THEOREM Implements == Spec => IsFifo
<1>1. RingOK /\ [Next]_vars => [F!Next]_<<items, ret>> BY StepImplements, Zenon
<1> QED BY <1>1, InitImplements, RingCorrect, PTL DEF Spec, IsFifo, F!Spec
=============================================================================
