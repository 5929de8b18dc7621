------------------------------- MODULE Deque -------------------------------
(***************************************************************************)
(* What the frontier of pending generators promises the manager: a queue   *)
(* that takes generators at both ends and gives them up at the front.      *)
(***************************************************************************)
EXTENDS Sequences, Naturals

CONSTANTS Gen,       \* generators
          Nil,       \* no generator
          MaxSize    \* bound of the model on the queue's length

VARIABLES queue,     \* the generators, front first
          front      \* what PeekFront answers

Shown(q) == IF q = <<>> THEN Nil ELSE Head(q)

Init == queue = <<>> /\ front = Shown(queue)

Becomes(q) == queue' = q /\ front' = Shown(q)

PushBack(g) == Len(queue) < MaxSize /\ Becomes(Append(queue, g))

PushFront(g) == Len(queue) < MaxSize /\ Becomes(<<g>> \o queue)

PopFront == queue # <<>> /\ Becomes(Tail(queue))

Next == PopFront \/ \E g \in Gen : PushBack(g) \/ PushFront(g)

Spec == Init /\ [][Next]_<<queue, front>>
=============================================================================
