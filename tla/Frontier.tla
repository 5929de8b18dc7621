------------------------------ MODULE Frontier ------------------------------
(***************************************************************************)
(* recursion.Frontier: the deque as a ring buffer that doubles when it is  *)
(* full and halves when it is a quarter full.  One goroutine owns it; one  *)
(* action is one call.                                                     *)
(***************************************************************************)
EXTENDS Integers, Sequences

CONSTANTS Gen,                \* generators
          Nil,                \* an empty slot
          InitialCap,         \* the capacity it is made with
          DefaultJobBuffer,   \* it never shrinks at or below this capacity
          MaxSize             \* bound of the model on the number of elements

ASSUME CapAssumption ==
    InitialCap \in Nat \ {0} /\ DefaultJobBuffer \in Nat \ {0} /\ MaxSize \in Nat
ASSUME NilAssumption == Nil \notin Gen

VARIABLES buf,     \* slots 0 .. cap - 1
          cap,     \* len(buf)
          head, size,
          since    \* history: calls since the last reallocation, counted up to MaxSize

vars == <<buf, cap, head, size, since>>

Init ==
    /\ cap = InitialCap /\ buf = [i \in 0..(InitialCap - 1) |-> Nil]
    /\ head = 0 /\ size = 0
    /\ since = MaxSize

\* Slip: slots are copied as they lie, not in logical order.
MovedRaw(b, c, first, count, n) ==
    [i \in 0..(n - 1) |-> IF i < count THEN b[i] ELSE Nil]

\* grow and shrink: count elements, in logical order from slot first of the c slots of b,
\* go to n new slots from slot 0.
Moved(b, c, first, count, n) ==
    [i \in 0..(n - 1) |-> IF i < count THEN b[(first + i) % c] ELSE Nil]

\* A push grows a full buffer before it writes.
Full == size = cap
Room == IF Full THEN cap * 2 ELSE cap
Slots == IF Full THEN Moved(buf, cap, head, size, cap * 2) ELSE buf
Start == IF Full THEN 0 ELSE head

Count(reallocated) ==
    since' = IF reallocated THEN 0 ELSE IF since < MaxSize THEN since + 1 ELSE since

PushBack(g) ==
    /\ size < MaxSize
    /\ buf' = [Slots EXCEPT ![(Start + size) % Room] = g]
    /\ cap' = Room /\ head' = Start /\ size' = size + 1
    /\ Count(Full)

\* Slip: the slot before the head is not wrapped.
BeforeUnwrapped(i, n) == i - 1 + n

Before(i, n) == (i - 1 + n) % n

PushFront(g) ==
    /\ size < MaxSize
    /\ head' = Before(Start, Room)
    /\ buf' = [Slots EXCEPT ![head'] = g]
    /\ cap' = Room /\ size' = size + 1
    /\ Count(Full)

\* Slip: the buffer shrinks as soon as it is half empty.
SparseAtHalf(n) == n > 0 /\ n = cap \div 2 /\ cap > DefaultJobBuffer

\* Slip: the buffer shrinks late.
SparseAtEighth(n) == n > 0 /\ n = cap \div 8 /\ cap > DefaultJobBuffer

Sparse(n) == n > 0 /\ n = cap \div 4 /\ cap > DefaultJobBuffer

\* Slip: the slot keeps its reference.
ReleasedNot == buf

Released == [buf EXCEPT ![head] = Nil]

PopFront ==
    /\ size > 0
    /\ size' = size - 1
    /\ IF Sparse(size - 1)
       THEN /\ cap' = cap \div 2
            /\ buf' = Moved(Released, cap, (head + 1) % cap, size - 1, cap \div 2)
            /\ head' = 0
       ELSE cap' = cap /\ buf' = Released /\ head' = (head + 1) % cap
    /\ Count(Sparse(size - 1))

Next == PopFront \/ \E g \in Gen : PushBack(g) \/ PushFront(g)

Spec == Init /\ [][Next]_vars

---------------------------------------------------------------------------
(* Properties. *)

TypeOK ==
    /\ cap \in Nat \ {0}
    /\ buf \in [0..(cap - 1) -> Gen \cup {Nil}]
    /\ head \in 0..(cap - 1) /\ size \in 0..cap
    /\ since \in 0..MaxSize

\* The buffer is the promised deque: every call changes it the way it would change a
\* plain sequence, through growing, wrapping and shrinking (frontier.go).
Queue == [i \in 1..size |-> buf[(head + i - 1) % cap]]
PeekFront == IF size = 0 THEN Nil ELSE buf[head]

Contents == INSTANCE Deque WITH queue <- Queue, front <- PeekFront

ImplementsDeque == Contents!Spec

\* A generator that has been taken off is not kept alive by a slot outside the queue
\* ("Release reference for GC").
Window == {(head + i) % cap : i \in 0..(size - 1)}
NoRetention == \A i \in 0..(cap - 1) : i \notin Window => buf[i] = Nil

\* Growth is given back: above the initial and the default capacity the buffer is at
\* least a quarter full.
Proportional ==
    cap > DefaultJobBuffer /\ cap > InitialCap => size >= cap \div 4

\* Reallocations are amortised: calls that alternate around a threshold do not
\* reallocate each time; a reallocation comes only after a quarter of a buffer of calls.
NoThrashing == [][cap' # cap => since + 1 >= cap \div 4]_vars
=============================================================================
