--------------------------- MODULE FrontierProofs ---------------------------
(***************************************************************************)
(* Proofs about the ring buffer, for every initial capacity, every shrink  *)
(* limit and every sequence of calls: its types, the amount of unused      *)
(* room, and that it is the deque of module Deque.                         *)
(***************************************************************************)
EXTENDS Frontier, SequenceTheorems, TLAPS

---------------------------------------------------------------------------
(* Arithmetic of slots. *)

\* A slot number less than twice around.
LEMMA Wrap ==
    ASSUME NEW n \in Nat \ {0}, NEW i \in Nat, i < 2 * n
    PROVE  i % n = (IF i < n THEN i ELSE i - n) /\ i % n \in 0..(n - 1)
OBVIOUS

LEMMA WrapSum ==
    ASSUME NEW n \in Nat \ {0}, NEW h \in 0..(n - 1), NEW i \in 0..n
    PROVE  (h + i) % n = (IF h + i < n THEN h + i ELSE h + i - n) /\ (h + i) % n \in 0..(n - 1)
<1> DEFINE s == h + i
<1>1. s \in Nat /\ s < 2 * n
    OBVIOUS
<1> HIDE DEF s
<1>2. s % n = (IF s < n THEN s ELSE s - n) /\ s % n \in 0..(n - 1)
    BY <1>1, Wrap
<1> QED
    BY <1>2 DEF s

\* Different offsets from the head are different slots.
LEMMA Apart ==
    ASSUME NEW n \in Nat \ {0}, NEW h \in 0..(n - 1),
           NEW i \in 0..(n - 1), NEW j \in 0..(n - 1), i # j
    PROVE  (h + i) % n # (h + j) % n
<1>1. i \in 0..n /\ j \in 0..n
    OBVIOUS
<1>2. (h + i) % n = IF h + i < n THEN h + i ELSE h + i - n
    BY <1>1, WrapSum
<1>3. (h + j) % n = IF h + j < n THEN h + j ELSE h + j - n
    BY <1>1, WrapSum
<1> DEFINE s == (h + i) % n
           t == (h + j) % n
<1> HIDE DEF s, t
<1> SUFFICES s # t
    BY DEF s, t
<1> QED
    BY <1>2, <1>3 DEF s, t

\* Offset 0 is the head itself.
LEMMA HeadSlot ==
    ASSUME NEW n \in Nat \ {0}, NEW h \in 0..(n - 1)
    PROVE  (h + 0) % n = h
<1>1. h \in Nat /\ h < n /\ h < 2 * n /\ h + 0 = h
    OBVIOUS
<1>2. h % n = h
    BY <1>1, Wrap
<1> QED
    BY <1>1, <1>2

\* The slot after the head, and the one before it.
LEMMA Neighbours ==
    ASSUME NEW n \in Nat \ {0}, NEW h \in 0..(n - 1)
    PROVE  /\ (h + 1) % n = (IF h + 1 < n THEN h + 1 ELSE 0)
           /\ Before(h, n) = (IF h = 0 THEN n - 1 ELSE h - 1)
           /\ (h + 1) % n \in 0..(n - 1) /\ Before(h, n) \in 0..(n - 1)
<1>1. (h + 1) % n = IF h + 1 < n THEN h + 1 ELSE 0
  <2>1. 1 \in 0..n /\ h + 1 <= n
    OBVIOUS
  <2>2. (h + 1) % n = IF h + 1 < n THEN h + 1 ELSE h + 1 - n
    BY <2>1, WrapSum
  <2> QED
    BY <2>1, <2>2
<1>2. Before(h, n) = IF h = 0 THEN n - 1 ELSE h - 1
  <2> DEFINE s == h - 1 + n
  <2>1. s \in Nat /\ s < 2 * n /\ (s < n <=> h = 0) /\ s - n = h - 1
        /\ (h = 0 => s = n - 1)
    OBVIOUS
  <2>2. Before(h, n) = s % n
    BY DEF Before
  <2> HIDE DEF s
  <2>3. s % n = IF s < n THEN s ELSE s - n
    BY <2>1, Wrap
  <2> QED
    BY <2>1, <2>2, <2>3
<1> QED
    BY <1>1, <1>2

\* One slot on, then i slots, is i + 1 slots on; one slot back, then i + 1, is i.
LEMMA Shift ==
    ASSUME NEW n \in Nat \ {0}, NEW h \in 0..(n - 1), NEW i \in 0..(n - 1)
    PROVE  /\ i + 1 < n => (((h + 1) % n) + i) % n = (h + (i + 1)) % n
           /\ (Before(h, n) + (i + 1)) % n = (h + i) % n
<1> DEFINE next == (h + 1) % n
           prev == Before(h, n)
<1>1. /\ next = (IF h + 1 < n THEN h + 1 ELSE 0) /\ next \in 0..(n - 1)
      /\ prev = (IF h = 0 THEN n - 1 ELSE h - 1) /\ prev \in 0..(n - 1)
    BY Neighbours
<1> HIDE DEF next, prev
<1>2. i \in 0..n /\ i + 1 \in 0..n
    OBVIOUS
<1>3. /\ (h + i) % n = (IF h + i < n THEN h + i ELSE h + i - n)
      /\ (h + (i + 1)) % n = (IF h + (i + 1) < n THEN h + (i + 1) ELSE h + (i + 1) - n)
      /\ (next + i) % n = (IF next + i < n THEN next + i ELSE next + i - n)
      /\ (prev + (i + 1)) % n = (IF prev + (i + 1) < n THEN prev + (i + 1) ELSE prev + (i + 1) - n)
    BY <1>1, <1>2, WrapSum
<1>4. i + 1 < n => (next + i) % n = (h + (i + 1)) % n
  <2> DEFINE s == (next + i) % n
             t == (h + (i + 1)) % n
  <2> HIDE DEF s, t
  <2> SUFFICES i + 1 < n => s = t
    BY DEF s, t
  <2> QED
    BY <1>1, <1>3 DEF s, t
<1>5. (prev + (i + 1)) % n = (h + i) % n
  <2> DEFINE s == (prev + (i + 1)) % n
             t == (h + i) % n
  <2> HIDE DEF s, t
  <2> SUFFICES s = t
    BY DEF s, t
  <2> QED
    BY <1>1, <1>3 DEF s, t
<1> QED
    BY <1>4, <1>5 DEF next, prev

---------------------------------------------------------------------------
(* What each call does to the elements, counted from the head. *)

Elem(i) == buf[(head + i) % cap]

LEMMA SinceType ==
    ASSUME TypeOK, CapAssumption, NEW moved \in BOOLEAN, Count(moved)
    PROVE  since' \in 0..MaxSize
BY DEF Count, TypeOK, CapAssumption

\* The slots elements are copied to.
LEMMA Targets ==
    ASSUME NEW n \in Nat \ {0}, NEW count \in 0..n
    PROVE  /\ \A i \in 0..(count - 1) : i \in 0..(n - 1) /\ i % n = i /\ i < count
           /\ \A i \in count..(n - 1) : i \in 0..(n - 1) /\ ~(i < count)
<1>1. \A i \in 0..(count - 1) : i \in 0..(n - 1) /\ i % n = i
  <2> TAKE i \in 0..(count - 1)
  <2>1. i \in Nat /\ i < n /\ i < 2 * n
    OBVIOUS
  <2> QED
    BY <2>1, Wrap
<1>2. \A i \in count..(n - 1) : i \in 0..(n - 1) /\ ~(i < count)
    OBVIOUS
<1> QED
    BY <1>1, <1>2

\* The buffer a push writes to holds the elements in the same order, with room.
LEMMA Reserved ==
    ASSUME TypeOK, \A i \in 0..(size - 1) : Elem(i) \in Gen
    PROVE  /\ Room \in Nat \ {0} /\ Start \in 0..(Room - 1) /\ size < Room
           /\ Slots \in [0..(Room - 1) -> Gen \cup {Nil}]
           /\ \A i \in 0..(size - 1) : Slots[(Start + i) % Room] = Elem(i)
<1>1. /\ cap \in Nat \ {0} /\ size \in 0..cap /\ head \in 0..(cap - 1)
      /\ buf \in [0..(cap - 1) -> Gen \cup {Nil}]
    BY DEF TypeOK
<1>2. CASE Full
  <2> DEFINE n == cap * 2
  <2>1. n \in Nat \ {0} /\ size \in 0..n /\ size < n /\ 0 \in 0..(n - 1)
    BY <1>1, <1>2 DEF Full
  <2>2. Room = n /\ Start = 0 /\ Slots = Moved(buf, cap, head, size, n)
    BY <1>2 DEF Room, Start, Slots
  <2> HIDE DEF n
  <2>3. /\ DOMAIN Slots = 0..(n - 1)
        /\ \A i \in 0..(size - 1) : i % n = i /\ Slots[i] = Elem(i) /\ i \in Int
        /\ \A i \in size..(n - 1) : Slots[i] = Nil
    <3>1. /\ \A i \in 0..(size - 1) : i \in 0..(n - 1) /\ i % n = i /\ i < size
          /\ \A i \in size..(n - 1) : i \in 0..(n - 1) /\ ~(i < size)
        BY <2>1, Targets
    <3> QED
        BY <2>2, <3>1 DEF Elem, Moved
  <2>4. \A i \in 0..(n - 1) : Slots[i] \in Gen \cup {Nil}
    <3>1. \A i \in 0..(n - 1) : i \in 0..(size - 1) \/ i \in size..(n - 1)
        BY <1>1, <2>1
    <3> QED
        BY <2>3, <3>1
  <2>5. Slots \in [0..(n - 1) -> Gen \cup {Nil}]
    BY <2>2, <2>4 DEF Moved
  <2>6. \A i \in 0..(size - 1) : 0 + i = i
    OBVIOUS
  <2> QED
    BY <2>1, <2>2, <2>3, <2>5, <2>6
<1>3. CASE ~Full
    BY <1>1, <1>3 DEF Full, Room, Start, Slots, Elem
<1> QED
    BY <1>2, <1>3

LEMMA PushBackElems ==
    ASSUME CapAssumption, TypeOK, \A i \in 0..(size - 1) : Elem(i) \in Gen,
           NEW g \in Gen, PushBack(g)
    PROVE  /\ TypeOK' /\ size' = size + 1
           /\ \A i \in 0..(size - 1) : Elem(i)' = Elem(i)
           /\ buf'[(head' + size) % cap'] = g
<1>1. /\ Room \in Nat \ {0} /\ Start \in 0..(Room - 1) /\ size \in 0..(Room - 1)
      /\ Slots \in [0..(Room - 1) -> Gen \cup {Nil}]
      /\ \A i \in 0..(size - 1) : Slots[(Start + i) % Room] = Elem(i)
    BY Reserved DEF TypeOK
<1>2. /\ cap' = Room /\ head' = Start /\ size' = size + 1
      /\ buf' = [Slots EXCEPT ![(Start + size) % Room] = g]
    BY DEF PushBack
<1>3. size \in 0..Room
    BY <1>1
<1>4. (Start + size) % Room \in 0..(Room - 1)
    BY <1>1, <1>3, WrapSum
<1>5. \A i \in 0..(size - 1) :
         /\ (Start + i) % Room # (Start + size) % Room
         /\ (Start + i) % Room \in 0..(Room - 1)
  <2> TAKE i \in 0..(size - 1)
  <2>1. i \in 0..(Room - 1) /\ i \in 0..Room /\ i # size
    BY <1>1
  <2> QED
    BY <1>1, <2>1, Apart, WrapSum
<1>6. \A i \in 0..(size - 1) : Elem(i)' = Elem(i)
    BY <1>1, <1>2, <1>5 DEF Elem
<1>7. buf'[(head' + size) % cap'] = g
    BY <1>1, <1>2, <1>4
<1>8. buf' \in [0..(cap' - 1) -> Gen \cup {Nil}]
    BY <1>1, <1>2, <1>4
<1>9. since' \in 0..MaxSize
    BY SinceType DEF PushBack, Full
<1>10. size' \in 0..cap'
    BY <1>1, <1>2
<1> QED
    BY <1>1, <1>2, <1>6, <1>7, <1>8, <1>9, <1>10 DEF TypeOK

LEMMA PushFrontElems ==
    ASSUME CapAssumption, TypeOK, \A i \in 0..(size - 1) : Elem(i) \in Gen,
           NEW g \in Gen, PushFront(g)
    PROVE  /\ TypeOK' /\ size' = size + 1
           /\ \A i \in 0..(size - 1) : buf'[(head' + (i + 1)) % cap'] = Elem(i)
           /\ buf'[head'] = g
<1>1. /\ Room \in Nat \ {0} /\ Start \in 0..(Room - 1) /\ size \in 0..(Room - 1)
      /\ Slots \in [0..(Room - 1) -> Gen \cup {Nil}]
      /\ \A i \in 0..(size - 1) : Slots[(Start + i) % Room] = Elem(i)
    BY Reserved DEF TypeOK
<1>2. /\ cap' = Room /\ head' = Before(Start, Room) /\ size' = size + 1
      /\ buf' = [Slots EXCEPT ![head'] = g]
    BY DEF PushFront
<1>3. head' \in 0..(Room - 1)
    BY <1>1, <1>2, Neighbours
<1>4. \A i \in 0..(size - 1) :
         /\ (head' + (i + 1)) % Room = (Start + i) % Room
         /\ (head' + (i + 1)) % Room # head'
         /\ (Start + i) % Room \in 0..(Room - 1)
  <2> TAKE i \in 0..(size - 1)
  <2>1. /\ i \in 0..(Room - 1) /\ i \in 0..Room
        /\ i + 1 \in 0..(Room - 1) /\ 0 \in 0..(Room - 1) /\ i + 1 # 0 /\ 0 \in 0..Room
    BY <1>1
  <2>2. (head' + 0) % Room = head'
    BY <1>1, <1>3, HeadSlot
  <2>3. (head' + (i + 1)) % Room # (head' + 0) % Room
    BY <1>1, <1>3, <2>1, Apart
  <2>4. (Start + i) % Room \in 0..(Room - 1)
    BY <1>1, <2>1, WrapSum
  <2>5. (head' + (i + 1)) % Room = (Start + i) % Room
    BY <1>1, <1>2, <2>1, Shift
  <2> QED
    BY <2>2, <2>3, <2>4, <2>5
<1>5. \A i \in 0..(size - 1) : buf'[(head' + (i + 1)) % cap'] = Elem(i)
    BY <1>1, <1>2, <1>3, <1>4
<1>6. buf'[head'] = g /\ buf' \in [0..(cap' - 1) -> Gen \cup {Nil}]
    BY <1>1, <1>2, <1>3
<1>7. since' \in 0..MaxSize
    BY SinceType DEF PushFront, Full
<1>8. size' \in 0..cap'
    BY <1>1, <1>2
<1> QED
    BY <1>1, <1>2, <1>3, <1>5, <1>6, <1>7, <1>8 DEF TypeOK

LEMMA PopFrontElems ==
    ASSUME CapAssumption, TypeOK, \A i \in 0..(size - 1) : Elem(i) \in Gen, PopFront
    PROVE  /\ TypeOK' /\ size' = size - 1
           /\ \A i \in 0..(size - 2) : Elem(i)' = buf[(head + (i + 1)) % cap]
<1>1. /\ cap \in Nat \ {0} /\ size \in 0..cap /\ size > 0 /\ head \in 0..(cap - 1)
      /\ buf \in [0..(cap - 1) -> Gen \cup {Nil}]
    BY DEF TypeOK, PopFront
<1> DEFINE h == (head + 1) % cap
<1>2. h \in 0..(cap - 1)
    BY <1>1, Neighbours
<1>3. Released \in [0..(cap - 1) -> Gen \cup {Nil}]
    BY <1>1 DEF Released
<1>4. \A i \in 0..(size - 2) :
         /\ (h + i) % cap \in 0..(cap - 1)
         /\ Released[(h + i) % cap] = buf[(head + (i + 1)) % cap]
  <2> TAKE i \in 0..(size - 2)
  <2>1. /\ i \in 0..(cap - 1) /\ i + 1 \in 0..(cap - 1) /\ 0 \in 0..(cap - 1)
        /\ i \in 0..cap /\ i + 1 # 0 /\ i + 1 < cap /\ 0 \in 0..cap
    BY <1>1
  <2>2. (h + i) % cap = (head + (i + 1)) % cap
    BY <1>1, <2>1, Shift
  <2>3. (head + (i + 1)) % cap # (head + 0) % cap
    BY <1>1, <2>1, Apart
  <2>4. (head + 0) % cap = head
    BY <1>1, HeadSlot
  <2> HIDE DEF h
  <2>5. (h + i) % cap \in 0..(cap - 1)
    BY <1>1, <1>2, <2>1, WrapSum
  <2> QED
    BY <1>1, <2>2, <2>3, <2>4, <2>5 DEF Released
<1>5. size' = size - 1 /\ since' \in 0..MaxSize
    BY SinceType DEF PopFront, Sparse
<1>6. CASE Sparse(size - 1)
  <2> DEFINE n == cap \div 2
  <2>1. /\ n \in Nat \ {0} /\ size - 1 \in 0..n
        /\ cap' = n /\ head' = 0
        /\ buf' = Moved(Released, cap, h, size - 1, n)
    BY <1>1, <1>6 DEF Sparse, PopFront
  <2> HIDE DEF n, h
  <2>2. /\ DOMAIN buf' = 0..(n - 1)
        /\ \A i \in 0..(size - 1 - 1) :
              i \in 0..(n - 1) /\ i % n = i /\ buf'[i] = Released[(h + i) % cap]
        /\ \A i \in (size - 1)..(n - 1) : buf'[i] = Nil
    <3> DEFINE k == size - 1
    <3>1. k \in 0..n /\ buf' = Moved(Released, cap, h, k, n)
        BY <2>1
    <3> HIDE DEF k
    <3>2. /\ \A i \in 0..(k - 1) : i \in 0..(n - 1) /\ i % n = i /\ i < k
          /\ \A i \in k..(n - 1) : i \in 0..(n - 1) /\ ~(i < k)
        BY <2>1, <3>1, Targets
    <3>3. /\ DOMAIN buf' = 0..(n - 1)
          /\ \A i \in 0..(k - 1) : buf'[i] = Released[(h + i) % cap]
          /\ \A i \in k..(n - 1) : buf'[i] = Nil
        BY <3>1, <3>2 DEF Moved
    <3> QED
        BY <3>2, <3>3 DEF k
  <2>3. \A i \in 0..(size - 2) : i \in 0..(size - 1 - 1) /\ 0 + i = i
    BY <1>1
  <2>4. \A i \in 0..(size - 2) : Elem(i)' = buf[(head + (i + 1)) % cap]
    BY <1>4, <2>1, <2>2, <2>3 DEF Elem
  <2>5. \A i \in 0..(n - 1) : buf'[i] \in Gen \cup {Nil}
    <3>1. \A i \in 0..(n - 1) : i \in 0..(size - 2) \/ i \in (size - 1)..(n - 1)
        BY <1>1, <2>1
    <3> QED
        BY <1>3, <1>4, <2>2, <2>3, <3>1
  <2>6. buf' \in [0..(n - 1) -> Gen \cup {Nil}]
    BY <2>1, <2>5 DEF Moved
  <2>7. 0 \in 0..(n - 1)
    BY <2>1
  <2> QED
    BY <1>5, <2>1, <2>4, <2>6, <2>7 DEF TypeOK
<1>7. CASE ~Sparse(size - 1)
  <2>1. cap' = cap /\ head' = h /\ buf' = Released
    BY <1>7 DEF PopFront
  <2> HIDE DEF h
  <2>2. \A i \in 0..(size - 2) : Elem(i)' = buf[(head + (i + 1)) % cap]
    BY <1>4, <2>1 DEF Elem
  <2>3. size' \in 0..cap'
    BY <1>1, <1>5, <2>1
  <2> QED
    BY <1>1, <1>2, <1>3, <1>5, <2>1, <2>2, <2>3 DEF TypeOK
<1> QED
    BY <1>6, <1>7

---------------------------------------------------------------------------
(* The invariant: types, only generators in the window, and enough of them. *)

Filled == \A i \in 0..(size - 1) : Elem(i) \in Gen

\* Strictly more than a quarter: the pop that reaches a quarter shrinks the buffer.
Roomy == cap > DefaultJobBuffer /\ cap > InitialCap => size > cap \div 4 \/ cap < 4

Inv == TypeOK /\ Filled /\ Roomy

LEMMA InitInv ==
    ASSUME CapAssumption, Init
    PROVE  Inv
<1>1. TypeOK
    BY DEF Init, TypeOK, CapAssumption
<1>2. Filled
    BY DEF Init, Filled
<1>3. Roomy
    BY DEF Init, Roomy, CapAssumption
<1> QED
    BY <1>1, <1>2, <1>3 DEF Inv

LEMMA PushRoomy ==
    ASSUME CapAssumption, TypeOK, Roomy, cap' = Room, size' = size + 1
    PROVE  Roomy'
BY DEF TypeOK, Roomy, Room, Full, CapAssumption

LEMMA PushBackInv ==
    ASSUME CapAssumption, Inv, NEW g \in Gen, PushBack(g)
    PROVE  Inv'
<1>1. /\ TypeOK' /\ size' = size + 1 /\ size \in Nat
      /\ \A i \in 0..(size - 1) : Elem(i)' = Elem(i)
      /\ buf'[(head' + size) % cap'] = g
    BY PushBackElems DEF Inv, Filled, TypeOK
<1>2. Filled'
  <2>1. \A i \in 0..(size' - 1) : i \in 0..(size - 1) \/ i = size
    BY <1>1
  <2> QED
    BY <1>1, <2>1 DEF Filled, Inv, Elem
<1>3. Roomy'
    BY <1>1, PushRoomy DEF PushBack, Inv
<1> QED
    BY <1>1, <1>2, <1>3 DEF Inv

LEMMA PushFrontInv ==
    ASSUME CapAssumption, Inv, NEW g \in Gen, PushFront(g)
    PROVE  Inv'
<1>1. /\ TypeOK' /\ size' = size + 1 /\ size \in Nat
      /\ \A i \in 0..(size - 1) : buf'[(head' + (i + 1)) % cap'] = Elem(i)
      /\ buf'[head'] = g
    BY PushFrontElems DEF Inv, Filled, TypeOK
<1>2. (head' + 0) % cap' = head'
    BY <1>1, HeadSlot DEF TypeOK
<1>3. Filled'
  <2> SUFFICES ASSUME NEW i \in 0..(size' - 1) PROVE buf'[(head' + i) % cap'] \in Gen
    BY DEF Filled, Elem
  <2>1. CASE i = 0
    BY <1>1, <1>2, <2>1
  <2>2. CASE i # 0
    <3> DEFINE k == i - 1
    <3>1. k \in 0..(size - 1) /\ k + 1 = i
        BY <1>1, <2>2
    <3> HIDE DEF k
    <3>2. buf'[(head' + (k + 1)) % cap'] = Elem(k) /\ Elem(k) \in Gen
        BY <1>1, <3>1 DEF Inv, Filled
    <3> QED
        BY <3>1, <3>2
  <2> QED
    BY <2>1, <2>2
<1>4. Roomy'
    BY <1>1, PushRoomy DEF PushFront, Inv
<1> QED
    BY <1>1, <1>3, <1>4 DEF Inv

LEMMA PopFrontInv ==
    ASSUME CapAssumption, Inv, PopFront
    PROVE  Inv'
<1>1. /\ TypeOK' /\ size' = size - 1 /\ size \in Nat
      /\ \A i \in 0..(size - 2) : Elem(i)' = buf[(head + (i + 1)) % cap]
    BY PopFrontElems DEF Inv, Filled, TypeOK
<1>2. Filled'
  <2> SUFFICES ASSUME NEW i \in 0..(size' - 1) PROVE Elem(i)' \in Gen
    BY DEF Filled
  <2> DEFINE k == i + 1
  <2>1. i \in 0..(size - 2) /\ k \in 0..(size - 1)
    BY <1>1
  <2>2. Elem(i)' = buf[(head + k) % cap]
    BY <1>1, <2>1
  <2> HIDE DEF k
  <2> QED
    BY <2>1, <2>2 DEF Inv, Filled, Elem
<1>3. Roomy'
  <2>1. /\ cap' = IF Sparse(size - 1) THEN cap \div 2 ELSE cap
        /\ size > 0 /\ size \in Nat /\ cap \in Nat
    BY DEF PopFront, Inv, TypeOK
  <2>2. CASE Sparse(size - 1)
    BY <1>1, <2>1, <2>2 DEF Sparse, Roomy
  <2>3. CASE ~Sparse(size - 1)
    <3>1. cap' = cap
        BY <2>1, <2>3
    <3> QED
        BY <1>1, <2>1, <2>3, <3>1 DEF Sparse, Roomy, Inv
  <2> QED
    BY <2>2, <2>3
<1> QED
    BY <1>1, <1>2, <1>3 DEF Inv

LEMMA StepInv ==
    ASSUME CapAssumption, Inv, [Next]_vars
    PROVE  Inv'
<1>1. CASE UNCHANGED vars
  <2>1. TypeOK'
    BY <1>1 DEF vars, Inv, TypeOK
  <2>2. Filled' /\ Roomy'
    BY <1>1 DEF vars, Inv, Filled, Elem, Roomy
  <2> QED
    BY <2>1, <2>2 DEF Inv
<1> QED
    BY <1>1, PushBackInv, PushFrontInv, PopFrontInv DEF Next

THEOREM Invariance == Spec => []Inv
<1>1. Init => Inv
    BY InitInv, CapAssumption
<1>2. Inv /\ [Next]_vars => Inv'
    BY StepInv, CapAssumption
<1> QED
    BY <1>1, <1>2, PTL DEF Spec

\* head and size stay within the buffer, whatever its capacity grows and shrinks to.
THEOREM TypeCorrect == Spec => []TypeOK
<1>1. Inv => TypeOK
    BY DEF Inv
<1> QED
    BY <1>1, Invariance, PTL

\* Above the initial and the default capacity the buffer is a quarter full
\* (frontier.go, PopFront and shrink).
THEOREM ProportionalCorrect == Spec => []Proportional
<1>1. Inv => Proportional
    BY DEF Inv, TypeOK, Roomy, Proportional
<1> QED
    BY <1>1, Invariance, PTL

---------------------------------------------------------------------------
(* The ring buffer implements the deque. *)

QueueShape ==
    /\ Queue \in Seq(Gen) /\ Len(Queue) = size /\ size \in Nat
    /\ \A i \in 0..(size - 1) : Queue[i + 1] = Elem(i)
    /\ PeekFront = Contents!Shown(Queue)

LEMMA QueueElems == Inv => QueueShape
<1> SUFFICES ASSUME Inv PROVE QueueShape
    OBVIOUS
<1>1. size \in Nat /\ cap \in Nat \ {0} /\ head \in 0..(cap - 1)
    BY DEF Inv, TypeOK
<1>2. \A i \in 1..size : buf[(head + i - 1) % cap] = Elem(i - 1) /\ Elem(i - 1) \in Gen
  <2> TAKE i \in 1..size
  <2>1. i - 1 \in 0..(size - 1) /\ head + i - 1 = head + (i - 1)
    BY <1>1
  <2> QED
    BY <2>1 DEF Inv, Filled, Elem
<1>3. Queue \in Seq(Gen) /\ Len(Queue) = size
  <2>1. \A i \in 1..size : buf[(head + i - 1) % cap] \in Gen
    BY <1>2
  <2>2. Queue \in [1..size -> Gen]
    BY <2>1 DEF Queue
  <2>3. Queue \in Seq(Gen)
    BY <1>1, <2>2, SeqDef
  <2> QED
    BY <1>1, <2>2, <2>3, LenProperties
<1>4. \A i \in 0..(size - 1) : Queue[i + 1] = Elem(i)
  <2> TAKE i \in 0..(size - 1)
  <2> DEFINE k == i + 1
  <2>1. k \in 1..size /\ k - 1 = i
    BY <1>1
  <2> HIDE DEF k
  <2>2. Queue[k] = Elem(k - 1)
    BY <1>2, <2>1 DEF Queue
  <2> QED
    BY <2>1, <2>2 DEF k
<1>5. PeekFront = Contents!Shown(Queue)
  <2>1. CASE size = 0
    BY <1>3, <2>1, EmptySeq DEF PeekFront, Contents!Shown
  <2>2. CASE size # 0
    <3>1. 0 \in 0..(size - 1) /\ 0 + 1 = 1
        BY <1>1, <2>2
    <3>2. Queue[1] = Elem(0) /\ Elem(0) = buf[head]
        BY <1>1, <1>4, <3>1, HeadSlot DEF Elem
    <3>3. Queue # <<>> /\ Head(Queue) = Queue[1]
        BY <1>3, <2>2
    <3> QED
        BY <2>2, <3>2, <3>3 DEF PeekFront, Contents!Shown
  <2> QED
    BY <2>1, <2>2
<1> QED
    BY <1>1, <1>3, <1>4, <1>5 DEF QueueShape

LEMMA QueueElemsNext == Inv' => QueueShape'
BY QueueElems, PTL

\* Sequences are equal when they agree from element 1 on, counted from offset 0.
LEMMA SameElems ==
    ASSUME NEW q \in Seq(Gen), NEW r \in Seq(Gen), Len(q) = Len(r),
           \A i \in 0..(Len(q) - 1) : q[i + 1] = r[i + 1]
    PROVE  q = r
<1>1. \A i \in 1..Len(q) : q[i] = r[i]
  <2> TAKE i \in 1..Len(q)
  <2> DEFINE k == i - 1
  <2>1. k \in 0..(Len(q) - 1) /\ k + 1 = i
    OBVIOUS
  <2> HIDE DEF k
  <2>2. q[k + 1] = r[k + 1]
    BY <2>1
  <2> QED
    BY <2>1, <2>2
<1> QED
    BY <1>1, SeqEqual

LEMMA PushBackRefines ==
    ASSUME CapAssumption, Inv, Inv', NEW g \in Gen, PushBack(g)
    PROVE  Contents!PushBack(g)
<1>1. /\ size' = size + 1
      /\ \A i \in 0..(size - 1) : Elem(i)' = Elem(i)
      /\ buf'[(head' + size) % cap'] = g
    BY PushBackElems DEF Inv, Filled
<1>2. /\ Queue \in Seq(Gen) /\ Len(Queue) = size /\ size \in Nat
      /\ \A i \in 0..(size - 1) : Queue[i + 1] = Elem(i)
    BY QueueElems DEF QueueShape
<1>3. /\ Queue' \in Seq(Gen) /\ Len(Queue') = size'
      /\ \A i \in 0..(size' - 1) : Queue'[i + 1] = Elem(i)'
      /\ PeekFront' = Contents!Shown(Queue)'
    BY QueueElemsNext DEF QueueShape
<1> DEFINE r == Append(Queue, g)
<1>4. /\ r \in Seq(Gen) /\ Len(r) = size + 1 /\ r[size + 1] = g
      /\ \A i \in 1..size : r[i] = Queue[i]
    BY <1>2, AppendProperties
<1>5. \A i \in 0..(size' - 1) : Queue'[i + 1] = r[i + 1]
  <2> TAKE i \in 0..(size' - 1)
  <2>1. CASE i = size
    BY <1>1, <1>3, <1>4, <2>1 DEF Elem
  <2>2. CASE i # size
    <3>1. i \in 0..(size - 1) /\ i + 1 \in 1..size
        BY <1>1, <1>2, <2>2
    <3> QED
        BY <1>1, <1>2, <1>3, <1>4, <3>1
  <2> QED
    BY <2>1, <2>2
<1> HIDE DEF r
<1>6. Queue' = r
    BY <1>1, <1>3, <1>4, <1>5, SameElems
<1>7. Len(Queue) < MaxSize
    BY <1>2 DEF PushBack
<1> QED
    BY <1>3, <1>6, <1>7 DEF r, Contents!PushBack, Contents!Becomes, Contents!Shown

LEMMA PushFrontRefines ==
    ASSUME CapAssumption, Inv, Inv', NEW g \in Gen, PushFront(g)
    PROVE  Contents!PushFront(g)
<1>1. /\ size' = size + 1
      /\ \A i \in 0..(size - 1) : Elem(i + 1)' = Elem(i)
      /\ Elem(0)' = g
    BY PushFrontElems, HeadSlot DEF Inv, Filled, Elem, TypeOK
<1>2. /\ Queue \in Seq(Gen) /\ Len(Queue) = size /\ size \in Nat
      /\ \A i \in 0..(size - 1) : Queue[i + 1] = Elem(i)
    BY QueueElems DEF QueueShape
<1>3. /\ Queue' \in Seq(Gen) /\ Len(Queue') = size'
      /\ \A i \in 0..(size' - 1) : Queue'[i + 1] = Elem(i)'
      /\ PeekFront' = Contents!Shown(Queue)'
    BY QueueElemsNext DEF QueueShape
<1> DEFINE r == <<g>> \o Queue
<1>4. /\ r \in Seq(Gen) /\ Len(r) = size + 1 /\ r[1] = g
      /\ \A i \in 1..size : r[i + 1] = Queue[i]
  <2>1. <<g>> \in Seq(Gen) /\ Len(<<g>>) = 1 /\ <<g>>[1] = g
    OBVIOUS
  <2> QED
    BY <1>2, <2>1, ConcatProperties
<1>5. \A i \in 0..(size' - 1) : Queue'[i + 1] = r[i + 1]
  <2> TAKE i \in 0..(size' - 1)
  <2>1. CASE i = 0
    BY <1>1, <1>3, <1>4, <2>1
  <2>2. CASE i # 0
    <3> DEFINE k == i - 1
    <3>1. k \in 0..(size - 1) /\ k + 1 \in 1..size /\ k + 1 = i
        BY <1>1, <1>2, <2>2
    <3> HIDE DEF k
    <3>2. Elem(i)' = Elem(k) /\ Queue[k + 1] = Elem(k) /\ r[i + 1] = Queue[i]
        BY <1>1, <1>2, <1>4, <3>1
    <3> QED
        BY <1>3, <3>1, <3>2
  <2> QED
    BY <2>1, <2>2
<1> HIDE DEF r
<1>6. Queue' = r
    BY <1>1, <1>3, <1>4, <1>5, SameElems
<1>7. Len(Queue) < MaxSize
    BY <1>2 DEF PushFront
<1> QED
    BY <1>3, <1>6, <1>7 DEF r, Contents!PushFront, Contents!Becomes, Contents!Shown

LEMMA PopFrontRefines ==
    ASSUME CapAssumption, Inv, Inv', PopFront
    PROVE  Contents!PopFront
<1>1. /\ size' = size - 1 /\ size > 0
      /\ \A i \in 0..(size - 2) : Elem(i)' = Elem(i + 1)
    BY PopFrontElems DEF Inv, Filled, Elem, PopFront
<1>2. /\ Queue \in Seq(Gen) /\ Len(Queue) = size /\ size \in Nat
      /\ \A i \in 0..(size - 1) : Queue[i + 1] = Elem(i)
    BY QueueElems DEF QueueShape
<1>3. /\ Queue' \in Seq(Gen) /\ Len(Queue') = size'
      /\ \A i \in 0..(size' - 1) : Queue'[i + 1] = Elem(i)'
      /\ PeekFront' = Contents!Shown(Queue)'
    BY QueueElemsNext DEF QueueShape
<1> DEFINE r == Tail(Queue)
<1>4. /\ Queue # <<>> /\ r \in Seq(Gen) /\ Len(r) = size - 1
      /\ \A i \in 1..(size - 1) : r[i] = Queue[i + 1]
    BY <1>1, <1>2, HeadTailProperties, EmptySeq
<1>5. \A i \in 0..(size' - 1) : Queue'[i + 1] = r[i + 1]
  <2> TAKE i \in 0..(size' - 1)
  <2> DEFINE k == i + 1
  <2>1. i \in 0..(size - 2) /\ k \in 0..(size - 1) /\ k \in 1..(size - 1)
    BY <1>1, <1>2
  <2>2. Queue'[i + 1] = Elem(i)' /\ Elem(i)' = Elem(k)
    BY <1>1, <1>3, <2>1
  <2> HIDE DEF k
  <2>3. Queue[k + 1] = Elem(k) /\ r[k] = Queue[k + 1]
    BY <1>2, <1>4, <2>1
  <2> QED
    BY <2>2, <2>3 DEF k
<1> HIDE DEF r
<1>6. Queue' = r
    BY <1>1, <1>3, <1>4, <1>5, SameElems
<1> QED
    BY <1>3, <1>4, <1>6 DEF r, Contents!PopFront, Contents!Becomes, Contents!Shown

\* Through growing, wrapping and shrinking, every call changes the buffer as it would
\* change a plain sequence, and PeekFront shows that sequence's front (frontier.go).
THEOREM Implementation == Spec => ImplementsDeque
<1>1. Init => Contents!Init
  <2> SUFFICES ASSUME Init PROVE Contents!Init
    OBVIOUS
  <2>1. Inv /\ size = 0
    BY InitInv, CapAssumption DEF Init
  <2>2. Queue \in Seq(Gen) /\ Len(Queue) = 0 /\ PeekFront = Contents!Shown(Queue)
    BY <2>1, QueueElems DEF QueueShape
  <2>3. Queue = <<>>
    BY <2>2, EmptySeq
  <2> QED
    BY <2>2, <2>3 DEF Contents!Init
<1>2. Inv /\ Inv' /\ [Next]_vars => [Contents!Next]_<<Queue, PeekFront>>
  <2>1. ASSUME Inv, Inv', Next PROVE Contents!Next
    BY <2>1, CapAssumption, PushBackRefines, PushFrontRefines, PopFrontRefines
       DEF Next, Contents!Next
  <2>2. UNCHANGED vars => UNCHANGED <<Queue, PeekFront>>
    BY DEF vars, Queue, PeekFront
  <2> QED
    BY <2>1, <2>2
<1> QED
    BY <1>1, <1>2, Invariance, PTL DEF Spec, ImplementsDeque, Contents!Spec

---------------------------------------------------------------------------
(* Slots outside the window hold nothing. *)

Unused == \A i \in size..(cap - 1) : Elem(i) = Nil

\* Every slot is some number of steps from the head.
LEMMA Reach ==
    ASSUME NEW n \in Nat \ {0}, NEW h \in 0..(n - 1), NEW j \in 0..(n - 1)
    PROVE  \E i \in 0..(n - 1) : (h + i) % n = j
<1>1. CASE j >= h
  <2> DEFINE i == j - h
  <2>1. i \in 0..(n - 1) /\ i \in 0..n /\ h + i = j
    BY <1>1
  <2> HIDE DEF i
  <2>2. (h + i) % n = IF h + i < n THEN h + i ELSE h + i - n
    BY <2>1, WrapSum
  <2> QED
    BY <2>1, <2>2
<1>2. CASE j < h
  <2> DEFINE i == j - h + n
  <2>1. i \in 0..(n - 1) /\ i \in 0..n /\ h + i = j + n
    BY <1>2
  <2> HIDE DEF i
  <2>2. (h + i) % n = IF h + i < n THEN h + i ELSE h + i - n
    BY <2>1, WrapSum
  <2> QED
    BY <2>1, <2>2
<1> QED
    BY <1>1, <1>2

\* The slot before the next one, all the way around, is the head.
LEMMA Around ==
    ASSUME NEW n \in Nat \ {0}, NEW h \in 0..(n - 1)
    PROVE  (((h + 1) % n) + (n - 1)) % n = h
<1> DEFINE next == (h + 1) % n
<1>1. next = (IF h + 1 < n THEN h + 1 ELSE 0) /\ next \in 0..(n - 1)
    BY Neighbours
<1>2. n - 1 \in 0..n
    OBVIOUS
<1> HIDE DEF next
<1>3. (next + (n - 1)) % n = IF next + (n - 1) < n THEN next + (n - 1) ELSE next + (n - 1) - n
    BY <1>1, <1>2, WrapSum
<1>4. (next + (n - 1)) % n = h
  <2> DEFINE s == (next + (n - 1)) % n
  <2> HIDE DEF s
  <2> SUFFICES s = h
    BY DEF s
  <2> QED
    BY <1>1, <1>3 DEF s
<1> QED
    BY <1>4 DEF next

\* The buffer a push writes to is empty outside the window.
LEMMA ReservedUnused ==
    ASSUME TypeOK, Unused
    PROVE  \A i \in size..(Room - 1) : Slots[(Start + i) % Room] = Nil
<1>1. cap \in Nat \ {0} /\ size \in 0..cap
    BY DEF TypeOK
<1>2. CASE Full
  <2> DEFINE n == cap * 2
  <2>1. n \in Nat \ {0} /\ size \in 0..n /\ 0 \in 0..(n - 1)
    BY <1>1
  <2>2. Room = n /\ Start = 0 /\ Slots = Moved(buf, cap, head, size, n)
    BY <1>2 DEF Room, Start, Slots
  <2> HIDE DEF n
  <2>3. \A i \in size..(n - 1) : i \in 0..(n - 1) /\ ~(i < size)
    BY <2>1, Targets
  <2>4. \A i \in size..(n - 1) : Slots[i] = Nil
    BY <2>2, <2>3 DEF Moved
  <2>5. \A i \in size..(n - 1) : (0 + i) % n = i
    <3> TAKE i \in size..(n - 1)
    <3>1. i \in 0..n /\ i < n
        BY <2>1
    <3>2. (0 + i) % n = IF 0 + i < n THEN 0 + i ELSE 0 + i - n
        BY <2>1, <3>1, WrapSum
    <3> QED
        BY <3>1, <3>2
  <2> QED
    BY <2>2, <2>4, <2>5
<1>3. CASE ~Full
    BY <1>3 DEF Full, Room, Start, Slots, Elem, Unused
<1> QED
    BY <1>2, <1>3

LEMMA PushBackUnused ==
    ASSUME Inv, Unused, NEW g \in Gen, PushBack(g)
    PROVE  Unused'
<1>1. /\ Room \in Nat \ {0} /\ Start \in 0..(Room - 1) /\ size \in 0..(Room - 1)
      /\ Slots \in [0..(Room - 1) -> Gen \cup {Nil}]
    BY Reserved DEF TypeOK, Inv, Filled
<1>2. /\ cap' = Room /\ head' = Start /\ size' = size + 1
      /\ buf' = [Slots EXCEPT ![(Start + size) % Room] = g]
    BY DEF PushBack
<1>3. SUFFICES ASSUME NEW i \in (size + 1)..(Room - 1)
               PROVE  buf'[(Start + i) % Room] = Nil
    BY <1>2 DEF Unused, Elem
<1>4. i \in 0..(Room - 1) /\ i \in 0..Room /\ i # size /\ i \in size..(Room - 1)
    BY <1>1
<1>5. (Start + i) % Room # (Start + size) % Room /\ (Start + i) % Room \in 0..(Room - 1)
    BY <1>1, <1>4, Apart, WrapSum
<1>6. Slots[(Start + i) % Room] = Nil
    BY <1>4, ReservedUnused DEF Inv
<1> QED
    BY <1>1, <1>2, <1>5, <1>6

LEMMA PushFrontUnused ==
    ASSUME Inv, Unused, NEW g \in Gen, PushFront(g)
    PROVE  Unused'
<1>1. /\ Room \in Nat \ {0} /\ Start \in 0..(Room - 1) /\ size \in 0..(Room - 1)
      /\ Slots \in [0..(Room - 1) -> Gen \cup {Nil}]
    BY Reserved DEF TypeOK, Inv, Filled
<1>2. /\ cap' = Room /\ head' = Before(Start, Room) /\ size' = size + 1
      /\ buf' = [Slots EXCEPT ![head'] = g]
    BY DEF PushFront
<1>3. head' \in 0..(Room - 1)
    BY <1>1, <1>2, Neighbours
<1>4. SUFFICES ASSUME NEW i \in (size + 1)..(Room - 1)
               PROVE  buf'[(head' + i) % Room] = Nil
    BY <1>2 DEF Unused, Elem
<1> DEFINE k == i - 1
<1>5. /\ k \in size..(Room - 1) /\ k \in 0..(Room - 1) /\ k \in 0..Room /\ k + 1 = i
      /\ i \in 0..(Room - 1) /\ 0 \in 0..(Room - 1) /\ i # 0
    BY <1>1
<1> HIDE DEF k
<1>6. (head' + i) % Room = (Start + k) % Room
    BY <1>1, <1>2, <1>5, Shift
<1>7. (head' + i) % Room # head'
  <2>1. (head' + i) % Room # (head' + 0) % Room
    BY <1>1, <1>3, <1>5, Apart
  <2>2. (head' + 0) % Room = head'
    BY <1>1, <1>3, HeadSlot
  <2> QED
    BY <2>1, <2>2
<1>8. (Start + k) % Room \in 0..(Room - 1) /\ Slots[(Start + k) % Room] = Nil
    BY <1>1, <1>5, WrapSum, ReservedUnused DEF Inv
<1> QED
    BY <1>1, <1>2, <1>6, <1>7, <1>8

LEMMA PopFrontUnused ==
    ASSUME Inv, Unused, PopFront
    PROVE  Unused'
<1>1. /\ cap \in Nat \ {0} /\ size \in 0..cap /\ size > 0 /\ head \in 0..(cap - 1)
      /\ buf \in [0..(cap - 1) -> Gen \cup {Nil}] /\ size' = size - 1
    BY DEF Inv, TypeOK, PopFront
<1> DEFINE h == (head + 1) % cap
<1>2. h \in 0..(cap - 1)
    BY <1>1, Neighbours
<1>3. CASE Sparse(size - 1)
  <2> DEFINE n == cap \div 2
             k == size - 1
  <2>1. n \in Nat \ {0} /\ k \in 0..n /\ cap' = n /\ head' = 0 /\ size' = k
        /\ buf' = Moved(Released, cap, h, k, n)
    BY <1>1, <1>3 DEF Sparse, PopFront
  <2> HIDE DEF n, h, k
  <2>2. \A i \in k..(n - 1) : i \in 0..(n - 1) /\ ~(i < k)
    BY <2>1, Targets
  <2>3. \A i \in k..(n - 1) : buf'[i] = Nil
    BY <2>1, <2>2 DEF Moved
  <2>4. \A i \in k..(n - 1) : (0 + i) % n = i
    <3> TAKE i \in k..(n - 1)
    <3>1. i \in 0..n /\ i < n /\ 0 \in 0..(n - 1)
        BY <2>1
    <3>2. (0 + i) % n = IF 0 + i < n THEN 0 + i ELSE 0 + i - n
        BY <2>1, <3>1, WrapSum
    <3> QED
        BY <3>1, <3>2
  <2> QED
    BY <2>1, <2>3, <2>4 DEF Unused, Elem
<1>4. CASE ~Sparse(size - 1)
  <2>1. cap' = cap /\ head' = h /\ buf' = Released
    BY <1>4 DEF PopFront
  <2>2. SUFFICES ASSUME NEW i \in (size - 1)..(cap - 1)
                 PROVE  Released[(h + i) % cap] = Nil
    BY <1>1, <2>1 DEF Unused, Elem
  <2>3. CASE i = cap - 1
    <3>1. (h + i) % cap = head
        BY <1>1, <2>3, Around
    <3> QED
        BY <1>1, <3>1 DEF Released
  <2>4. CASE i # cap - 1
    <3> DEFINE k == i + 1
    <3>1. i \in 0..(cap - 1) /\ k \in 0..(cap - 1) /\ k \in size..(cap - 1)
          /\ i + 1 < cap /\ 0 \in 0..(cap - 1) /\ k # 0 /\ k \in 0..cap
        BY <1>1, <2>4
    <3>2. (h + i) % cap = (head + k) % cap
        BY <1>1, <3>1, Shift
    <3> HIDE DEF k, h
    <3>3. (head + k) % cap # head /\ (head + k) % cap \in 0..(cap - 1)
      <4>1. (head + k) % cap # (head + 0) % cap
        BY <1>1, <3>1, Apart
      <4>2. (head + 0) % cap = head
        BY <1>1, HeadSlot
      <4>3. (head + k) % cap \in 0..(cap - 1)
        BY <1>1, <3>1, WrapSum
      <4> QED
        BY <4>1, <4>2, <4>3
    <3>4. buf[(head + k) % cap] = Nil
        BY <3>1 DEF Unused, Elem
    <3> QED
        BY <1>1, <3>2, <3>3, <3>4 DEF Released
  <2> QED
    BY <2>3, <2>4
<1> QED
    BY <1>3, <1>4

\* A generator that was taken off is in no slot any more: neither PopFront nor growing nor
\* shrinking leaves a reference behind (frontier.go, "Release reference for GC").
THEOREM NoRetentionCorrect == Spec => []NoRetention
<1>1. Init => Unused
  <2> SUFFICES ASSUME Init PROVE Unused
    OBVIOUS
  <2>1. cap \in Nat \ {0} /\ head = 0 /\ size = 0 /\ buf = [i \in 0..(cap - 1) |-> Nil]
    BY CapAssumption DEF Init
  <2>2. \A i \in 0..(cap - 1) : (0 + i) % cap \in 0..(cap - 1)
    <3> TAKE i \in 0..(cap - 1)
    <3>1. 0 \in 0..(cap - 1) /\ i \in 0..cap
        BY <2>1
    <3> QED
        BY <2>1, <3>1, WrapSum
  <2> QED
    BY <2>1, <2>2 DEF Unused, Elem
<1>2. Inv /\ Unused /\ [Next]_vars => Unused'
  <2>1. UNCHANGED vars /\ Unused => Unused'
    BY DEF vars, Unused, Elem
  <2> QED
    BY <2>1, PushBackUnused, PushFrontUnused, PopFrontUnused DEF Next
<1>3. Inv /\ Unused => NoRetention
  <2> SUFFICES ASSUME Inv, Unused, NEW j \in 0..(cap - 1), j \notin Window PROVE buf[j] = Nil
    BY DEF NoRetention
  <2>1. cap \in Nat \ {0} /\ size \in 0..cap /\ head \in 0..(cap - 1)
    BY DEF Inv, TypeOK
  <2>2. PICK i \in 0..(cap - 1) : (head + i) % cap = j
    BY <2>1, Reach
  <2>3. i \notin 0..(size - 1)
    BY <2>2 DEF Window
  <2>4. i \in size..(cap - 1)
    BY <2>1, <2>3
  <2> QED
    BY <2>2, <2>4 DEF Unused, Elem
<1> QED
    BY <1>1, <1>2, <1>3, Invariance, PTL DEF Spec

---------------------------------------------------------------------------
(* Reallocations are far apart. *)

\* A reallocation leaves the buffer half full; since then each call moved size by one.
Drifted ==
    /\ size <= MaxSize
    /\ since < MaxSize => /\ size <= cap \div 2 + 1 + since
                          /\ cap \div 2 <= size + since

LEMMA DriftedStep ==
    ASSUME CapAssumption, Inv, Drifted, [Next]_vars
    PROVE  Drifted' /\ (cap' # cap => since + 1 >= cap \div 4)
<1>1. /\ cap \in Nat \ {0} /\ size \in 0..cap /\ since \in 0..MaxSize /\ MaxSize \in Nat
    BY DEF Inv, TypeOK, CapAssumption
<1>2. CASE UNCHANGED vars
    BY <1>2 DEF vars, Drifted
<1>3. CASE \E g \in Gen : PushBack(g) \/ PushFront(g)
  <2>1. size < MaxSize /\ size' = size + 1 /\ cap' = Room /\ Count(Full)
    BY <1>3 DEF PushBack, PushFront
  <2>2. CASE Full
    <3>1. size = cap /\ cap' = cap * 2 /\ since' = 0
        BY <2>1, <2>2 DEF Full, Room, Count
    <3>2. (cap * 2) \div 2 = cap
        BY <1>1
    <3> QED
        BY <1>1, <2>1, <3>1, <3>2 DEF Drifted
  <2>3. CASE ~Full
    <3>1. cap' = cap /\ since' = IF since < MaxSize THEN since + 1 ELSE since
        BY <2>1, <2>3 DEF Room, Count
    <3> QED
        BY <1>1, <2>1, <3>1 DEF Drifted
  <2> QED
    BY <2>2, <2>3
<1>4. CASE PopFront
  <2>1. size > 0 /\ size' = size - 1 /\ Count(Sparse(size - 1))
    BY <1>4 DEF PopFront
  <2>2. CASE Sparse(size - 1)
    <3>1. size - 1 = cap \div 4 /\ cap' = cap \div 2 /\ since' = 0
        BY <1>4, <2>1, <2>2 DEF PopFront, Sparse, Count
    <3>2. (cap \div 2) \div 2 = cap \div 4
        BY <1>1
    <3> QED
        BY <1>1, <2>1, <3>1, <3>2 DEF Drifted
  <2>3. CASE ~Sparse(size - 1)
    <3>1. cap' = cap /\ since' = IF since < MaxSize THEN since + 1 ELSE since
        BY <1>4, <2>1, <2>3 DEF PopFront, Count
    <3> QED
        BY <1>1, <2>1, <3>1 DEF Drifted
  <2> QED
    BY <2>2, <2>3
<1> QED
    BY <1>2, <1>3, <1>4 DEF Next

\* Calls that alternate around a threshold do not reallocate each time: at least a quarter
\* of a buffer of calls lies between two reallocations (frontier.go, grow and shrink).
THEOREM NoThrashingCorrect == Spec => NoThrashing
<1>1. Init => Drifted
    BY CapAssumption DEF Init, Drifted
<1>2. Inv /\ Drifted /\ [Next]_vars => Drifted' /\ (cap' # cap => since + 1 >= cap \div 4)
    BY DriftedStep, CapAssumption
<1>3. Inv /\ Drifted /\ [Next]_vars => [cap' # cap => since + 1 >= cap \div 4]_vars
    BY <1>2
<1> QED
    BY <1>1, <1>2, <1>3, Invariance, PTL DEF Spec, NoThrashing
=============================================================================
