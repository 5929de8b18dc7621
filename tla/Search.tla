------------------------------- MODULE Search -------------------------------
(* What a search through a tree of probes promises, whatever its strategy:  *)
(* a node is requested at most once and never below a node that was not     *)
(* accepted; an answer that matters is delivered at most once; and a search *)
(* that nobody stops ends only when every goal was answered and delivered,  *)
(* or lies below a node that was turned down.                               *)
(* Promised by Runner.Run of src/internal/fuzz/strategy.go.                 *)
EXTENDS TLC

VARIABLES
  above,      \* for every node the nodes it lies below; it never changes
  goals,      \* the candidates, the nodes without children; the same
  requested, answer, delivered, stopped, over

vars == <<above, goals, requested, answer, delivered, stopped, over>>
tree == <<above, goals>>
Nodes == DOMAIN above

Matters(n) == answer[n] \in {"accepted", "error"}

Init ==
  /\ goals \subseteq Nodes
  /\ requested = {} /\ delivered = {}
  /\ answer = [n \in Nodes |-> "none"]
  /\ stopped = FALSE /\ over = FALSE

Request(n) ==
  /\ n \notin requested /\ ~over
  /\ \A m \in above[n] \cap requested : answer[m] = "accepted"
  /\ requested' = requested \cup {n}
  /\ UNCHANGED <<tree, answer, delivered, stopped, over>>

\* The workers answer also after the search is over.
Answer(n) ==
  /\ n \in requested /\ answer[n] = "none"
  /\ \E a \in {"accepted", "rejected", "error"} : answer' = [answer EXCEPT ![n] = a]
  /\ UNCHANGED <<tree, requested, delivered, stopped, over>>

Deliver(n) ==
  /\ Matters(n) /\ n \notin delivered /\ ~over
  /\ delivered' = delivered \cup {n}
  /\ UNCHANGED <<tree, requested, answer, stopped, over>>

Stop ==
  /\ ~stopped /\ stopped' = TRUE
  /\ UNCHANGED <<tree, requested, answer, delivered, over>>

Settled(n) ==
  \/ answer[n] # "none"
  \/ \E m \in above[n] : answer[m] \in {"rejected", "error"}

Finish ==
  /\ ~over /\ over' = TRUE
  /\ stopped \/ /\ \A n \in goals : Settled(n)
                /\ \A n \in Nodes : Matters(n) => n \in delivered
  /\ UNCHANGED <<tree, requested, answer, delivered, stopped>>

Next ==
  \/ \E n \in Nodes : Request(n) \/ Answer(n) \/ Deliver(n)
  \/ Stop
  \/ Finish

Spec == Init /\ [][Next]_vars
=============================================================================
