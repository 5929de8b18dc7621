------------------------ MODULE FuzzTraversalProofs -------------------------
(* Proofs about a run of the fuzzer, for every plan, strategy and number of  *)
(* workers, and for every capacity of the two channels.                      *)
(*                                                                           *)
(* The invariant IInv follows every path: it is in one place (a level, the   *)
(* reply that is awaited, the paths kept for the next depth, an eager visit, *)
(* a task), the places together hold a cut through the tree of paths         *)
(* (SpineOK), and until a cancellation nothing falls out of it               *)
(* (NothingForgotten).  The accounting at the end adds to it how many of the *)
(* candidates are still to be counted (Accounts).                            *)
EXTENDS FuzzTraversal, FuzzPlanProofs

-----------------------------------------------------------------------------
(* The close of jobsChan.  Levels are evaluated, and an eager visit has      *)
(* goroutines, only while the goroutine of Run is inside the traversal: it   *)
(* leaves the last level, or the visit, before it returns.  runPriority      *)
(* starts no level and no visit.                                             *)
Outside == main \in {"returned", "closed"}

Quiet ==
  /\ closed <=> main = "closed"
  /\ Outside => stack = <<>>
  /\ main # "join" => DOMAIN burst = {}
  /\ Priority => stack = <<>> /\ DOMAIN burst = {}

\* A run starts inside the traversal.
LEMMA InitQuiet == Init => Quiet
<1> SUFFICES ASSUME Init PROVE Quiet
  OBVIOUS
<1>1. main = "run" /\ closed = FALSE /\ DOMAIN burst = {}
  BY DEF Init
<1>2. Priority => stack = <<>>
  <2> SUFFICES ASSUME strategy = "priority" PROVE stack = <<>>
    BY DEF Priority
  <2> QED
    BY DEF Init
<1> QED
  BY <1>1, <1>2 DEF Quiet, Outside

\* The workers, and the goroutines that only wait, open and close nothing.
LEMMA WorkQuiet ==
  ASSUME Quiet,
         \/ Cancel \/ Receive \/ Stay \/ UNCHANGED vars
         \/ \E p \in Paths : Work(p)
         \/ \E p \in waiting : Complete(p) \/ Abandon(p)
  PROVE  Quiet'
<1>1. UNCHANGED <<strategy, closed, main, stack, burst>>
  BY DEF Cancel, Receive, Stay, vars, Work, Malformed, GiveUp, SendRequest, Respond, Fail,
         Complete, Abandon, MainOnly, VisitIdle, asked, pool, visit
<1> QED
  BY <1>1 DEF Quiet, Outside, Priority

\* A level submits; it stays a level.
LEMMA SubmitterQuiet ==
  ASSUME Quiet, NEW k \in DOMAIN stack, Submitter(k)
  PROVE  Quiet'
<1>1. UNCHANGED <<strategy, closed, main, burst>>
  BY DEF Submitter, StopSubmitting, ContinueSubmitting, Submit, SubmitCancelled, Publish,
         PublishCancelled, SubmitterOnly, Enqueue, asked, pool
<1>2. stack # <<>>
  OBVIOUS
<1> QED
  BY <1>1, <1>2 DEF Quiet, Outside, Priority

\* The goroutines of an eager visit only end.
LEMMA BurstQuiet ==
  ASSUME Quiet, NEW p \in DOMAIN burst, Burst(p)
  PROVE  Quiet'
<1>1. UNCHANGED <<strategy, closed, main, stack>>
  BY DEF Burst, BurstSubmit, BurstCancelled, BurstReply, BurstOnly, Enqueue, asked, pool
<1>2. DOMAIN burst # {}
  OBVIOUS
<1> QED
  BY <1>1, <1>2 DEF Quiet, Outside, Priority

\* The goroutine of Run leaves the levels and the visits before it returns.
LEMMA MainQuiet ==
  ASSUME Quiet, Main
  PROVE  Quiet'
<1>1. CASE TakePending \/ ConsumeEager \/ QuitEager \/ LeaveEager
  BY <1>1 DEF TakePending, ConsumeEager, QuitEager, LeaveEager, FrameTo, MainOnly, PriorityIdle,
         asked, pool, Quiet, Outside, Priority, Eager
<1>2. CASE Consume
  BY <1>2 DEF Consume, MainOnly, asked, pool, Quiet, Outside, Priority
<1>3. CASE ConsumeAdaptive
  BY <1>3 DEF ConsumeAdaptive, MainOnly, asked, pool, Quiet, Outside, Priority
<1>4. CASE NextBatch
  BY <1>4 DEF NextBatch, MainOnly, asked, pool, Quiet, Outside, Priority
<1>5. CASE BurstJoined \/ PriorityQuit \/ StartDispatch \/ Dispatch \/ DispatchCancelled \/ TakeCompleted
  BY <1>5 DEF BurstJoined, PriorityQuit, StartDispatch, Dispatch, DispatchCancelled, TakeCompleted,
         Enqueue, MainOnly, VisitIdle, asked, pool, Quiet, Outside, Priority
<1>6. CASE Return \/ Close
  BY <1>6 DEF Return, Close, MainOnly, asked, pool, Quiet, Outside, Priority
<1> QED
  BY <1>1, <1>2, <1>3, <1>4, <1>5, <1>6 DEF Main

\* Quiet holds throughout.
LEMMA QuietSafe == Spec => []Quiet
<1>1. Quiet /\ [Next]_vars => Quiet'
  BY WorkQuiet, SubmitterQuiet, BurstQuiet, MainQuiet DEF Next
<1> QED
  BY <1>1, InitQuiet, PTL DEF Spec

(* Close comes after the last send, on every return of every strategy: when  *)
(* jobsChan is closed, no level, no eager visit and no dispatch is left that *)
(* could send to it (strategy.go:133-139).                                   *)
THEOREM CloseIsLastCorrect == Spec => []CloseIsLast
<1>1. Quiet => CloseIsLast
  BY DEF Quiet, Outside, CloseIsLast, Senders
<1> QED
  BY <1>1, QuietSafe, PTL

-----------------------------------------------------------------------------
(* The levels and batches of the run's plan.                                 *)
Tree == Plans[template]
Chosen == template \in DOMAIN Plans

\* What Space says of the plan of the run.
LEMMA SpaceOfTree ==
  ASSUME Chosen
  PROVE  /\ IsPlan(Tree)
         /\ Space[template].paths = Nodes(Tree) /\ Space[template].last = LastDepth(Tree)
         /\ Space[template].estimate = EstimateCandidates(Tree)
         /\ Space[template].candidates = IterateCandidates(Tree)
         /\ Space[template].levels = Levels(Tree) /\ Space[template].count = VariantCount(Tree)
         /\ \A p \in Nodes(Tree) : Leaf(p) <=> IsLeaf(Tree, p)
<1>1. IsPlan(Tree)
  BY PlanAssumption DEF Chosen, Tree
<1>2. /\ Space[template].paths = AllPaths(Tree) /\ Space[template].last = LastDepth(Tree)
      /\ Space[template].estimate = EstimateCandidates(Tree)
      /\ Space[template].candidates = IterateCandidates(Tree)
      /\ Space[template].levels = Levels(Tree) /\ Space[template].count = VariantCount(Tree)
  BY DEF Chosen, Space, Tree
<1>3. AllPaths(Tree) = Nodes(Tree)
  BY <1>1, AllPathsAreNodes
<1>4. \A p \in Nodes(Tree) : Leaf(p) <=> IsLeaf(Tree, p)
  BY <1>2 DEF Leaf, IsLeaf
<1> QED
  BY <1>1, <1>2, <1>3, <1>4

\* Sequences that share no element and together have those of a set, each once.
Batches(bs, P) ==
  /\ bs \in Seq(Seq(P))
  /\ \A e \in DOMAIN bs : IsInjective(bs[e])
  /\ \A e, f \in DOMAIN bs : e # f => ToSet(bs[e]) \cap ToSet(bs[f]) = {}
  /\ \A p \in P : \E e \in DOMAIN bs : p \in ToSet(bs[e])

\* The batches of a level share its paths, one extension each.
LEMMA LevelBatchesSplit ==
  ASSUME Chosen, NEW d \in Depths(Tree), NEW P, P \subseteq Seq(AllValues(Tree)),
         NEW paths, Lists(paths, P)
  PROVE  /\ Batches(LevelBatches(paths, d), Extended(P, ValueSet(Tree, d)))
         /\ LevelBatches(paths, d) # <<>>
         /\ \A e \in DOMAIN LevelBatches(paths, d) :
              Len(LevelBatches(paths, d)[e]) = Len(paths) * Len(WordsAt(Tree, d))
<1> DEFINE bs == LevelBatches(paths, d)  words == WordsAt(Tree, d)  W == ToSet(words)
           n == IF Levels(Tree)[d].ph = "FUZZ" THEN VariantCount(Tree) ELSE 1
           V(e) == {Value(w, e) : w \in W}  A == AllValues(Tree)
           all == Extended(P, ValueSet(Tree, d))
<1>1. IsPlan(Tree) /\ Space[template].levels = Levels(Tree) /\ Space[template].count = VariantCount(Tree)
  BY SpaceOfTree
<1>2. n \in Nat \ {0} /\ Variants(Tree, d) = 1 .. n
  <2>1. VariantCount(Tree) \in Nat \ {0} /\ {1} = 1 .. 1
    BY <1>1, VariantCountPositive
  <2>2. CASE Levels(Tree)[d].ph = "FUZZ"
    BY <2>1, <2>2 DEF Variants
  <2>3. CASE Levels(Tree)[d].ph # "FUZZ"
    BY <2>1, <2>3 DEF Variants
  <2> QED
    BY <2>2, <2>3
<1>3. bs = [e \in 1 .. n |-> Extend(paths, Level(words, e))]
  BY <1>1 DEF LevelBatches, WordsAt
<1>4. Lists(words, W)
  BY <1>1, LevelsList
<1>5. ValueSet(Tree, d) = {Value(w, e) : w \in W, e \in 1 .. n} /\ ValueSet(Tree, d) \subseteq A
  BY <1>2 DEF ValueSet, AllValues
<1>0. P \subseteq Seq(A)
  OBVIOUS
<1> HIDE DEF n, bs, words, W, A, V
<1>6. ASSUME NEW e \in 1 .. n
      PROVE  /\ Lists(bs[e], Extended(P, V(e))) /\ Len(bs[e]) = Len(paths) * Len(words)
             /\ V(e) \subseteq ValueSet(Tree, d)
  <2>1. Lists(Level(words, e), V(e)) /\ Len(Level(words, e)) = Len(words)
    BY <1>4, LevelLists DEF V
  <2>2. V(e) \subseteq ValueSet(Tree, d)
    BY <1>5 DEF V
  <2>3. V(e) \subseteq A
    BY <1>5, <2>2
  <2>4. /\ Lists(Extend(paths, Level(words, e)), Extended(P, V(e)))
        /\ Len(Extend(paths, Level(words, e))) = Len(paths) * Len(Level(words, e))
    <3> DEFINE X == V(e)  values == Level(words, e)
    <3>1. X \subseteq A /\ Lists(values, X)
      BY <2>1, <2>3
    <3> HIDE DEF X, values
    <3>2. /\ Lists(Extend(paths, values), Extended(P, X))
          /\ Len(Extend(paths, values)) = Len(paths) * Len(values)
      BY <1>0, <3>1, ExtendLists
    <3> QED
      BY <3>2 DEF X, values
  <2>5. bs[e] = Extend(paths, Level(words, e))
    BY <1>3
  <2> QED
    BY <2>1, <2>2, <2>4, <2>5
<1>7. \A e \in 1 .. n : Extended(P, V(e)) \subseteq all
  <2> SUFFICES ASSUME NEW e \in 1 .. n, NEW q \in Extended(P, V(e)) PROVE q \in all
    OBVIOUS
  <2>1. PICK p \in P, v \in V(e) : q = Append(p, v)
    BY ExtendedFacts
  <2>2. v \in ValueSet(Tree, d)
    BY <1>6
  <2> QED
    BY <2>1, <2>2, ExtendedFacts
<1>8. ASSUME NEW e \in 1 .. n, NEW f \in 1 .. n, e # f PROVE ToSet(bs[e]) \cap ToSet(bs[f]) = {}
  <2> SUFFICES ASSUME NEW q, q \in Extended(P, V(e)), q \in Extended(P, V(f)) PROVE FALSE
    BY <1>6 DEF Lists
  <2>1. PICK p \in P, v \in V(e) : q = Append(p, v)
    BY ExtendedFacts
  <2>2. PICK r \in P, w \in V(f) : q = Append(r, w)
    BY ExtendedFacts
  <2>3. v \in A /\ w \in A /\ p \in Seq(A) /\ r \in Seq(A)
    BY <1>0, <1>5, <1>6
  <2>4. v = w
    <3>1. Append(p, v) = Append(r, w)
      BY <2>1, <2>2
    <3> QED
      BY <2>3, <3>1, AppendInjective
  <2> QED
    BY <1>8, <2>4 DEF Value, V
<1>9. ASSUME NEW q \in all PROVE \E e \in 1 .. n : q \in ToSet(bs[e])
  <2>1. PICK p \in P, v \in ValueSet(Tree, d) : q = Append(p, v)
    BY ExtendedFacts
  <2>2. PICK e \in 1 .. n : v \in V(e)
    BY <1>5 DEF V
  <2>3. q \in Extended(P, V(e))
    BY <2>1, <2>2, ExtendedFacts
  <2> QED
    BY <1>6, <2>3 DEF Lists
<1>10. ASSUME NEW e \in 1 .. n PROVE bs[e] \in Seq(all)
  <2>1. bs[e] \in Seq(Extended(P, V(e))) /\ Extended(P, V(e)) \subseteq all
    BY <1>6, <1>7 DEF Lists
  <2> QED
    BY <2>1, SeqMonotonic
<1> HIDE DEF all
<1>11. DOMAIN bs = 1 .. n /\ bs \in [1 .. n -> Seq(all)]
  BY <1>2, <1>3, <1>10
<1>12. bs \in Seq(Seq(all)) /\ bs # <<>>
  BY <1>2, <1>11, SeqDef
<1>13. \A e \in 1 .. n : IsInjective(bs[e])
  BY <1>6 DEF Lists
<1> QED
  BY <1>6, <1>8, <1>9, <1>11, <1>12, <1>13 DEF Batches, bs, all, words

\* The first level, as runBFS and runPriority begin with it.
LEMMA FirstLevel ==
  ASSUME Chosen
  PROVE  /\ Batches(LevelBatches(<< <<>> >>, 1), PathSet(Tree, 1))
         /\ LevelBatches(<< <<>> >>, 1) # <<>>
         /\ \E n \in Nat \ {0} : \A e \in DOMAIN LevelBatches(<< <<>> >>, 1) :
              Len(LevelBatches(<< <<>> >>, 1)[e]) = n
<1> DEFINE start == << <<>> >>
<1>1. IsPlan(Tree) /\ 1 \in Depths(Tree)
  BY SpaceOfTree, FindPlaceholdersLists
<1>2. Lists(start, PathSet(Tree, 0)) /\ Len(start) = 1 /\ PathSet(Tree, 0) \subseteq Seq(AllValues(Tree))
  <2>1. Lists(start, {<<>>}) /\ Len(start) = 1
    BY DEF Lists, IsInjective, ToSet
  <2>2. PathSet(Tree, 0) = {<<>>} /\ <<>> \in Seq(AllValues(Tree))
    BY PathSetZero, EmptySeq
  <2> QED
    BY <2>1, <2>2
<1>3. PathSet(Tree, 1) = Extended(PathSet(Tree, 0), ValueSet(Tree, 1))
  <2>1. 0 + 1 = 1
    OBVIOUS
  <2> QED
    BY <1>1, <2>1, PathSetGrows
<1>4. Len(WordsAt(Tree, 1)) \in Nat \ {0}
  <2>1. Lists(WordsAt(Tree, 1), ToSet(WordsAt(Tree, 1))) /\ WordsAt(Tree, 1) # <<>>
    BY <1>1, LevelsList
  <2>2. WordsAt(Tree, 1) \in Seq(ToSet(WordsAt(Tree, 1)))
    BY <2>1 DEF Lists
  <2> QED
    BY <2>1, <2>2, EmptySeq
<1> HIDE DEF start
<1>5. /\ Batches(LevelBatches(start, 1), PathSet(Tree, 1)) /\ LevelBatches(start, 1) # <<>>
      /\ \A e \in DOMAIN LevelBatches(start, 1) :
           Len(LevelBatches(start, 1)[e]) = Len(start) * Len(WordsAt(Tree, 1))
  BY <1>1, <1>2, <1>3, LevelBatchesSplit
<1>6. Len(start) * Len(WordsAt(Tree, 1)) = Len(WordsAt(Tree, 1))
  BY <1>2, <1>4
<1> QED
  BY <1>4, <1>5, <1>6 DEF start

\* The first tasks of runPriority are the paths of the first level.
LEMMA PriorityTasksList ==
  ASSUME Chosen
  PROVE  Lists(PriorityTasks, PathSet(Tree, 1))
<1> DEFINE bs == LevelBatches(<< <<>> >>, 1)  P == PathSet(Tree, 1)  B == ToSet(bs)
           index == [i \in DOMAIN bs[1] |-> i]  pairs == Nested(bs, index)
<1>1. Batches(bs, P) /\ bs # <<>>
  BY FirstLevel
<1>2. PICK n \in Nat \ {0} : \A e \in DOMAIN bs : Len(bs[e]) = n
  BY FirstLevel
<1>3. PriorityTasks = [i \in DOMAIN pairs |-> pairs[i][1][pairs[i][2]]]
  BY DEF PriorityTasks
<1> HIDE DEF bs, P
<1>4. /\ \A e \in DOMAIN bs : bs[e] \in Seq(P) /\ DOMAIN bs[e] = 1 .. n /\ IsInjective(bs[e])
      /\ 1 \in DOMAIN bs
  BY <1>1, <1>2 DEF Batches
<1>5. Lists(bs, B)
  <2>1. \A e, f \in DOMAIN bs : bs[e] = bs[f] => e = f
    <3> SUFFICES ASSUME NEW e \in DOMAIN bs, NEW f \in DOMAIN bs, bs[e] = bs[f], e # f PROVE FALSE
      OBVIOUS
    <3>1. bs[e][1] \in ToSet(bs[e]) /\ bs[e][1] \in ToSet(bs[f])
      BY <1>2, <1>4 DEF ToSet
    <3> QED
      BY <1>1, <3>1 DEF Batches
  <2>2. bs \in Seq(ToSet(bs))
    BY <1>1, SeqOfRange DEF Batches, ToSet, Range
  <2> QED
    BY <2>1, <2>2 DEF Lists, IsInjective
<1>6. Lists(index, 1 .. n)
  <2>1. index = [i \in 1 .. n |-> i]
    BY <1>4
  <2>2. Into(index, n, 1 .. n)
    BY <2>1 DEF Into
  <2>3. /\ \A e \in 1 .. n : \E i \in 1 .. n : index[i] = e
        /\ \A i, j \in 1 .. n : index[i] = index[j] => i = j
    BY <2>1
  <2> DEFINE N == 1 .. n
  <2>4. /\ Into(index, n, N) /\ \A e \in N : \E i \in 1 .. n : index[i] = e
    BY <2>2, <2>3
  <2> HIDE DEF index, N
  <2>5. Lists(index, N)
    BY <2>3, <2>4, ListsIntro
  <2> QED
    BY <2>5 DEF N
<1> DEFINE Z == Pairs(B, 1 .. n)  f == [c \in Z |-> c[1][c[2]]]
<1>7. Lists(pairs, Z)
  <2> HIDE DEF index, B
  <2> DEFINE N == 1 .. n
  <2>1. Lists(index, N)
    BY <1>6
  <2> HIDE DEF N
  <2>2. Lists(pairs, Pairs(B, N))
    BY <1>5, <2>1, NestedLists
  <2> QED
    BY <2>2 DEF N
<1> HIDE DEF index, pairs
<1>8. ASSUME NEW c \in Z
      PROVE  \E e \in DOMAIN bs, i \in 1 .. n : c = <<bs[e], i>> /\ f[c] = bs[e][i]
  <2>1. c[1] \in B /\ c[2] \in 1 .. n /\ c = <<c[1], c[2]>>
    BY DEF Pairs
  <2>2. PICK e \in DOMAIN bs : bs[e] = c[1]
    BY <2>1 DEF ToSet
  <2> QED
    BY <2>1, <2>2
<1>9. \A e \in DOMAIN bs, i \in 1 .. n : <<bs[e], i>> \in Z /\ f[<<bs[e], i>>] = bs[e][i]
  <2> SUFFICES ASSUME NEW e \in DOMAIN bs, NEW i \in 1 .. n
               PROVE  <<bs[e], i>> \in Z /\ f[<<bs[e], i>>] = bs[e][i]
    OBVIOUS
  <2>1. bs[e] \in B
    BY DEF ToSet
  <2>2. <<bs[e], i>> \in Z
    BY <2>1 DEF Pairs
  <2> QED
    BY <2>2
<1> HIDE DEF Z, f
<1>10. OneToOne(f, Z)
  <2> SUFFICES ASSUME NEW c \in Z, NEW k \in Z, f[c] = f[k] PROVE c = k
    BY DEF OneToOne
  <2>1. PICK e \in DOMAIN bs, i \in 1 .. n : c = <<bs[e], i>> /\ f[c] = bs[e][i]
    BY <1>8
  <2>2. PICK g \in DOMAIN bs, j \in 1 .. n : k = <<bs[g], j>> /\ f[k] = bs[g][j]
    BY <1>8
  <2>3. bs[e][i] \in ToSet(bs[e]) /\ bs[e][i] \in ToSet(bs[g])
    BY <1>4, <2>1, <2>2 DEF ToSet
  <2>4. e = g
    BY <1>1, <2>3 DEF Batches
  <2>5. i = j
    BY <1>4, <2>1, <2>2, <2>4 DEF IsInjective
  <2> QED
    BY <2>1, <2>2, <2>4, <2>5
<1>11. Images(f, Z) = P
  <2>1. ASSUME NEW q \in Images(f, Z) PROVE q \in P
    <3>1. PICK c \in Z : q = f[c]
      BY DEF Images
    <3>2. PICK e \in DOMAIN bs, i \in 1 .. n : c = <<bs[e], i>> /\ f[c] = bs[e][i]
      BY <1>8
    <3> QED
      BY <1>4, <3>1, <3>2
  <2>2. ASSUME NEW q \in P PROVE q \in Images(f, Z)
    <3>1. PICK e \in DOMAIN bs : q \in ToSet(bs[e])
      BY <1>1 DEF Batches
    <3>2. PICK i \in 1 .. n : q = bs[e][i]
      BY <1>4, <3>1 DEF ToSet
    <3> QED
      BY <1>9, <3>2 DEF Images
  <2> QED
    BY <2>1, <2>2
<1>12. PriorityTasks = Mapped(f, pairs)
  <2>1. \A i \in DOMAIN pairs : pairs[i] \in Z
    BY <1>7, ListsFacts
  <2>2. \A c \in Z : f[c] = c[1][c[2]]
    BY DEF f
  <2> QED
    BY <1>3, <2>1, <2>2 DEF Mapped
<1> QED
  BY <1>7, <1>10, <1>11, <1>12, MapLists DEF P

-----------------------------------------------------------------------------
(* One level.  Its paths are in one place each: still to be submitted, in    *)
(* the pending channel, or in a batch that follows.                          *)
Calls(P) == [path : P, err : BOOLEAN]
Frames(P) == [todo : Seq(P), pc : {"check", "submit", "publish", "closed"}, hand : P \cup {NoPath},
             pend : Seq(Calls(P)), later : Seq(Seq(P))]
PendPaths(f) == {f.pend[i].path : i \in DOMAIN f.pend}
LaterPaths(f) == UNION {ToSet(f.later[b]) : b \in DOMAIN f.later}
FrameSet(f) == ToSet(f.todo) \cup PendPaths(f) \cup LaterPaths(f)
Unsent(f) == IF f.hand = NoPath THEN ToSet(f.todo) ELSE ToSet(Tail(f.todo))

OnePlace(f) ==
  /\ IsInjective(f.todo)
  /\ \A i, j \in DOMAIN f.pend : f.pend[i].path = f.pend[j].path => i = j
  /\ Batches(f.later, LaterPaths(f))
  /\ ToSet(f.todo) \cap PendPaths(f) = {}
  /\ ToSet(f.todo) \cap LaterPaths(f) = {} /\ PendPaths(f) \cap LaterPaths(f) = {}

\* What was sent and what was not, and where the goroutine of the level stands.
Sent(f, st) ==
  /\ f.pc # "closed" => \A p \in Unsent(f) : st[p] = "none"
  /\ \A p \in LaterPaths(f) : st[p] = "none"
  /\ \A i \in DOMAIN f.pend : f.pend[i].err <=> st[f.pend[i].path] = "none"
  /\ f.hand # NoPath => st[f.hand] # "none" /\ f.pc = "publish" /\ f.hand = Head(f.todo)
  /\ f.pc \in {"submit", "publish"} => f.todo # <<>>

Uncancelled(f) ==
  /\ f.pc = "closed" => f.todo = <<>>
  /\ f.pc = "publish" => f.hand # NoPath
  /\ \A i \in DOMAIN f.pend : ~f.pend[i].err

FrameOK(f, st, c) ==
  f \in Frames(DOMAIN st) /\ OnePlace(f) /\ Sent(f, st) /\ (~c => Uncancelled(f))

-----------------------------------------------------------------------------
(* The paths that are held: submitted or still to be submitted or to be      *)
(* expanded.  None lies below another; what lies below one was not asked     *)
(* for; what was asked for above one was accepted.                           *)
Spine(H, st, y) ==
  /\ H \subseteq DOMAIN st
  /\ \A x, z \in H : IsPrefix(x, z) => x = z
  /\ \A x \in H, q \in DOMAIN st : IsPrefix(x, q) /\ q # x => st[q] = "none" /\ y[q] = 0
  /\ \A x \in H, q \in DOMAIN st : IsPrefix(q, x) /\ q # x => st[q] \in {"none", "accepted"}

SettledIn(st, g) ==
  \/ st[g] \in Answers
  \/ \E m \in DOMAIN st : IsPrefix(m, g) /\ m # g /\ st[m] \in {"rejected", "error"}

\* Nothing is forgotten: a goal is settled or lies below a held path, and what was
\* asked for and not turned down is delivered or will be.
Remembers(goals, H, R, st, y) ==
  /\ \A g \in goals : SettledIn(st, g) \/ \E x \in H : IsPrefix(x, g)
  /\ \A n \in DOMAIN st : st[n] \notin {"none", "rejected"} /\ y[n] = 0 => n \in R

FramesIn(s) == UNION {FrameSet(s[k]) : k \in DOMAIN s}
FramesHeld == FramesIn(stack)
Others == (IF cur = NoPath THEN {} ELSE {cur}) \cup ToSet(next) \cup DOMAIN burst
TasksHeld == ToSet(deque) \cup waiting \cup ToSet(completed)
Held == FramesHeld \cup Others \cup TasksHeld
Undelivered == Held \ ToSet(next)

Capacity == IF Eager THEN JobBuffer ELSE PendingBuffer

Fits(f, n) == Len(f.pend) <= n

\* The levels: well-formed, without a path in common, each within its capacity.
StackOK(s, st, c, n) ==
  /\ s \in Seq(Frames(DOMAIN st))
  /\ \A k \in DOMAIN s : FrameOK(s[k], st, c) /\ Fits(s[k], n)
  /\ \A j, k \in DOMAIN s : j # k => FrameSet(s[j]) \cap FrameSet(s[k]) = {}

FramesOK == StackOK(stack, status, cancelled, Capacity) /\ FramesHeld \cap Others = {}

BurstOK ==
  /\ burst \in [DOMAIN burst -> {"submit", "await"}] /\ DOMAIN burst \subseteq Paths
  /\ \A p \in DOMAIN burst : Leaf(p) /\ (burst[p] = "submit" <=> status[p] = "none")

OthersOK ==
  /\ cur \in Paths \cup {NoPath}
  /\ cur # NoPath => main = "run" /\ stack # <<>> /\ status[cur] # "none" /\ cur \notin ToSet(next)
  /\ next \in Seq(Paths) /\ IsInjective(next)
  /\ \A p \in ToSet(next) : ~Leaf(p) /\ status[p] = "accepted"
  /\ next # <<>> => strategy = "bfs" /\ stack # <<>>
  /\ BurstOK

Where ==
  /\ main \in {"run", "join", "quit", "dispatch", "returned", "closed"}
  /\ main = "join" => strategy = "adaptive"
  /\ main = "quit" => Eager /\ cancelled /\ stack # <<>>
  /\ main = "dispatch" => Priority /\ CanDispatch
  /\ strategy \in {"bfs", "eager"} => Len(stack) <= 1
  /\ strategy = "bfs" => \A x, y \in Held : Len(x) = Len(y)
  /\ Eager => \A x \in Held : Leaf(x)
  /\ Priority => stack = <<>> /\ Others = {}
  /\ ~Priority => TasksHeld = {} /\ deque = <<>> /\ completed = <<>> /\ inFlight = 0

TasksOK ==
  /\ deque \in Seq(Paths) /\ IsInjective(deque)
  /\ completed \in Seq(Paths) /\ IsInjective(completed)
  /\ ToSet(deque) \cap waiting = {} /\ ToSet(deque) \cap ToSet(completed) = {}
  /\ waiting \cap ToSet(completed) = {}
  /\ waiting \subseteq Paths /\ IsFiniteSet(waiting) /\ inFlight \in 0 .. Threads
  /\ Cardinality(waiting) + Len(completed) <= inFlight
  /\ \A p \in ToSet(deque) : status[p] = "none"
  /\ \A p \in waiting : status[p] # "none"
  /\ \A p \in ToSet(completed) : Answered(p)

PoolOK ==
  /\ jobs \in Seq(Paths) /\ Len(jobs) <= JobBuffer /\ IsInjective(jobs)
  /\ \A p \in ToSet(jobs) : status[p] = "queued"
  /\ status \in [Paths -> {"none", "queued", "ready", "sent"} \cup Answers]
  /\ tries \in [Paths -> 0 .. MaxRetries]
  /\ \A p \in Paths : /\ status[p] = "ready" => tries[p] < MaxRetries
                      /\ status[p] \notin {"ready", "sent"} => tries[p] = 0

Asked == \E r \in Runs : strategy = r.strategy /\ template = r.plan
RunOK ==
  /\ Asked /\ Paths = Nodes(Tree)
  /\ cancelled \in BOOLEAN /\ closed \in BOOLEAN /\ tried \in Nat /\ skipped \in Nat
  /\ yielded \in [Paths -> 0 .. 1] /\ \A p \in Undelivered : yielded[p] = 0

SpineOK == Spine(Held, status, yielded)
NothingForgotten == ~cancelled => Remembers(Goals(Tree), Held, Undelivered, status, yielded)

-----------------------------------------------------------------------------
(* Sequences without repetition.                                             *)
LEMMA HeadTailOnce ==
  ASSUME NEW X, NEW s \in Seq(X), s # <<>>, IsInjective(s)
  PROVE  /\ Head(s) \in X /\ Tail(s) \in Seq(X) /\ Len(Tail(s)) = Len(s) - 1
         /\ IsInjective(Tail(s)) /\ Head(s) \notin ToSet(Tail(s))
         /\ ToSet(s) = {Head(s)} \cup ToSet(Tail(s)) /\ ToSet(Tail(s)) \subseteq X
<1>1. /\ Head(s) \in X /\ Tail(s) \in Seq(X) /\ Head(s) = s[1]
      /\ Len(s) \in Nat \ {0} /\ Len(Tail(s)) = Len(s) - 1 /\ DOMAIN s = 1 .. Len(s)
      /\ DOMAIN Tail(s) = 1 .. Len(s) - 1
      /\ \A i \in 1 .. Len(s) - 1 : Tail(s)[i] = s[i + 1]
  <2>1. /\ Head(s) \in X /\ Tail(s) \in Seq(X) /\ Len(Tail(s)) = Len(s) - 1
        /\ \A i \in 1 .. Len(Tail(s)) : Tail(s)[i] = s[i + 1]
    BY HeadTailProperties
  <2>2. Len(s) \in Nat \ {0} /\ DOMAIN s = 1 .. Len(s) /\ Head(s) = s[1]
    BY EmptySeq
  <2>3. DOMAIN Tail(s) = 1 .. Len(Tail(s))
    BY <2>1
  <2> QED
    BY <2>1, <2>2, <2>3
<1> DEFINE t == Tail(s)  n == Len(s)  h == Head(s)
<1> HIDE DEF t, n, h
<1>2. /\ DOMAIN s = 1 .. n /\ DOMAIN t = 1 .. n - 1 /\ h = s[1] /\ n \in Nat \ {0}
      /\ \A i \in 1 .. n - 1 : t[i] = s[i + 1]
  BY <1>1 DEF t, n, h
<1>3. IsInjective(t)
  <2> SUFFICES ASSUME NEW i \in 1 .. n - 1, NEW j \in 1 .. n - 1, t[i] = t[j] PROVE i = j
    BY <1>2 DEF IsInjective
  <2>1. i + 1 \in 1 .. n /\ j + 1 \in 1 .. n /\ s[i + 1] = s[j + 1]
    BY <1>2
  <2>2. i + 1 = j + 1
    BY <1>2, <2>1 DEF IsInjective
  <2> QED
    BY <1>2, <2>2
<1>4. h \notin ToSet(t)
  <2> SUFFICES ASSUME NEW i \in 1 .. n - 1 PROVE t[i] # h
    BY <1>2 DEF ToSet
  <2>1. 1 \in 1 .. n /\ i + 1 \in 1 .. n /\ 1 # i + 1
    BY <1>2
  <2>2. s[1] # s[i + 1]
    BY <1>2, <2>1 DEF IsInjective
  <2> QED
    BY <1>2, <2>2
<1>5. ToSet(s) = {h} \cup ToSet(t)
  <2>1. ASSUME NEW i \in 1 .. n PROVE s[i] \in {h} \cup ToSet(t)
    <3>1. CASE i = 1
      BY <1>2, <3>1
    <3>2. CASE i # 1
      <4>1. i - 1 \in 1 .. n - 1 /\ (i - 1) + 1 = i
        BY <1>2, <3>2
      <4>2. t[i - 1] = s[i] /\ i - 1 \in DOMAIN t
        BY <1>2, <4>1
      <4>3. t[i - 1] \in ToSet(t)
        BY <4>2 DEF ToSet
      <4> QED
        BY <4>2, <4>3
    <3> QED
      BY <3>1, <3>2
  <2>2. \A i \in 1 .. n - 1 : t[i] \in ToSet(s)
    BY <1>2 DEF ToSet
  <2>3. h \in ToSet(s)
    BY <1>2 DEF ToSet
  <2> QED
    BY <1>2, <2>1, <2>2, <2>3 DEF ToSet
<1>6. ToSet(t) \subseteq X
  <2>1. t \in Seq(X)
    BY <1>1 DEF t
  <2> QED
    BY <1>2, <2>1 DEF ToSet
<1> QED
  BY <1>1, <1>3, <1>4, <1>5, <1>6 DEF t, h

\* A new element at the end of a list.
LEMMA AppendOnce ==
  ASSUME NEW X, NEW s \in Seq(X), IsInjective(s), NEW x \in X, x \notin ToSet(s)
  PROVE  /\ Append(s, x) \in Seq(X) /\ Len(Append(s, x)) = Len(s) + 1
         /\ IsInjective(Append(s, x)) /\ ToSet(Append(s, x)) = ToSet(s) \cup {x}
<1> DEFINE t == Append(s, x)  n == Len(s)
<1>1. /\ t \in Seq(X) /\ Len(t) = n + 1 /\ t[n + 1] = x /\ \A i \in 1 .. n : t[i] = s[i]
  BY AppendProperties
<1>2. n \in Nat /\ DOMAIN s = 1 .. n /\ DOMAIN t = 1 .. n + 1
  BY <1>1
<1> HIDE DEF t, n
<1>3. IsInjective(t)
  BY <1>1, <1>2 DEF IsInjective, ToSet
<1>4. ToSet(t) = ToSet(s) \cup {x}
  <2>1. 1 .. n + 1 = (1 .. n) \cup {n + 1}
    BY <1>2
  <2> QED
    BY <1>1, <1>2, <2>1 DEF ToSet
<1> QED
  BY <1>1, <1>3, <1>4 DEF t, n

Changed(f, x, y) == [f EXCEPT ![x] = y]

\* The empty sequence lists nothing.
LEMMA EmptyToSet == ToSet(<<>>) = {} /\ IsInjective(<<>>)
BY DEF ToSet, IsInjective

\* A sequence of batches, its first and the others.
LEMMA BatchesHeadTail ==
  ASSUME NEW P, NEW bs, Batches(bs, P), bs # <<>>
  PROVE  /\ Head(bs) \in Seq(P) /\ IsInjective(Head(bs)) /\ Head(bs) = bs[1]
         /\ Batches(Tail(bs), P \ ToSet(Head(bs))) /\ ToSet(Head(bs)) \subseteq P
<1>1. bs \in Seq(Seq(P))
  BY DEF Batches
<1> DEFINE n == Len(bs)  t == Tail(bs)  h == Head(bs)  Q == P \ ToSet(h)
<1>2. /\ n \in Nat \ {0} /\ DOMAIN bs = 1 .. n /\ h = bs[1] /\ t \in Seq(Seq(P))
      /\ DOMAIN t = 1 .. n - 1 /\ Len(t) = n - 1 /\ \A i \in 1 .. n - 1 : t[i] = bs[i + 1]
  <2>1. /\ Tail(bs) \in Seq(Seq(P)) /\ Len(Tail(bs)) = Len(bs) - 1
        /\ \A i \in 1 .. Len(Tail(bs)) : Tail(bs)[i] = bs[i + 1]
    BY <1>1, HeadTailProperties
  <2>2. Len(bs) \in Nat \ {0} /\ DOMAIN bs = 1 .. Len(bs) /\ Head(bs) = bs[1]
    BY <1>1, EmptySeq
  <2>3. DOMAIN Tail(bs) = 1 .. Len(Tail(bs))
    BY <2>1
  <2> QED
    BY <2>1, <2>2, <2>3
<1> HIDE DEF n, t, h
<1>3. /\ \A e \in 1 .. n : bs[e] \in Seq(P) /\ IsInjective(bs[e])
      /\ \A e, f \in 1 .. n : e # f => ToSet(bs[e]) \cap ToSet(bs[f]) = {}
      /\ \A p \in P : \E e \in 1 .. n : p \in ToSet(bs[e])
  <2>1. \A e \in 1 .. n : bs[e] \in Seq(P)
    BY <1>1, <1>2
  <2> QED
    BY <1>2, <2>1 DEF Batches
<1>4. h \in Seq(P) /\ IsInjective(h) /\ ToSet(h) \subseteq P
  <2>1. 1 \in 1 .. n
    BY <1>2
  <2>2. h \in Seq(P) /\ IsInjective(h)
    BY <1>2, <1>3, <2>1
  <2>3. ToSet(h) \subseteq P
    BY <2>2 DEF ToSet
  <2> QED
    BY <2>2, <2>3
<1>5. \A i \in 1 .. n - 1 : t[i] \in Seq(Q) /\ IsInjective(t[i])
  <2> SUFFICES ASSUME NEW i \in 1 .. n - 1 PROVE t[i] \in Seq(Q) /\ IsInjective(t[i])
    OBVIOUS
  <2> DEFINE s == bs[i + 1]
  <2>1. i + 1 \in 1 .. n /\ 1 \in 1 .. n /\ i + 1 # 1 /\ t[i] = s
    BY <1>2
  <2>2. s \in Seq(P) /\ IsInjective(s)
    BY <1>3, <2>1
  <2>3. ToSet(s) \cap ToSet(h) = {}
    BY <1>2, <1>3, <2>1
  <2> HIDE DEF s
  <2>4. s \in Seq(ToSet(s)) /\ ToSet(s) \subseteq P
    BY <2>2, SeqOfRange, RangeOfSeq DEF ToSet, Range
  <2>5. ToSet(s) \subseteq Q
    BY <2>3, <2>4
  <2>6. s \in Seq(Q)
    BY <2>4, <2>5, SeqMonotonic
  <2> QED
    BY <2>1, <2>2, <2>6
<1>6. t \in Seq(Seq(Q))
  <2>1. Len(t) \in Nat /\ t \in [1 .. Len(t) -> Seq(Q)]
    BY <1>2, <1>5, LenProperties
  <2> QED
    BY <2>1, SeqDef
<1>7. \A e, f \in 1 .. n - 1 : e # f => ToSet(t[e]) \cap ToSet(t[f]) = {}
  <2> SUFFICES ASSUME NEW e \in 1 .. n - 1, NEW f \in 1 .. n - 1, e # f
               PROVE  ToSet(t[e]) \cap ToSet(t[f]) = {}
    OBVIOUS
  <2>1. e + 1 \in 1 .. n /\ f + 1 \in 1 .. n /\ e + 1 # f + 1
    BY <1>2
  <2> QED
    BY <1>2, <1>3, <2>1
<1>8. \A p \in Q : \E e \in 1 .. n - 1 : p \in ToSet(t[e])
  <2> SUFFICES ASSUME NEW p \in Q PROVE \E e \in 1 .. n - 1 : p \in ToSet(t[e])
    OBVIOUS
  <2>1. PICK e \in 1 .. n : p \in ToSet(bs[e])
    BY <1>3
  <2>2. e # 1
    BY <1>2, <2>1
  <2>3. e - 1 \in 1 .. n - 1 /\ (e - 1) + 1 = e
    BY <1>2, <2>2
  <2>4. t[e - 1] = bs[e]
    BY <1>2, <2>3
  <2> QED
    BY <2>1, <2>3, <2>4
<1>9. Batches(t, Q)
  BY <1>2, <1>5, <1>6, <1>7, <1>8 DEF Batches
<1> QED
  BY <1>2, <1>4, <1>9 DEF t, h

\* The batches have all the paths.
LEMMA BatchesCover ==
  ASSUME NEW P, NEW bs, Batches(bs, P)
  PROVE  UNION {ToSet(bs[e]) : e \in DOMAIN bs} = P
<1>1. \A e \in DOMAIN bs : ToSet(bs[e]) \subseteq P
  BY DEF Batches, ToSet
<1> QED
  BY <1>1 DEF Batches

-----------------------------------------------------------------------------
(* The steps of a level.                                                     *)
\* The paths of the pending calls, one by one.
LEMMA PendEach ==
  ASSUME NEW f
  PROVE  /\ \A i \in DOMAIN f.pend : f.pend[i].path \in PendPaths(f)
         /\ \A q \in PendPaths(f) : \E i \in DOMAIN f.pend : q = f.pend[i].path
BY DEF PendPaths

\* What Sent says of the later batches, of the pending calls and of the path in hand.
LEMMA SentLater == ASSUME NEW f, NEW st, Sent(f, st) PROVE \A q \in LaterPaths(f) : st[q] = "none"
BY DEF Sent

LEMMA SentPend ==
  ASSUME NEW f, NEW st, Sent(f, st)
  PROVE  \A i \in DOMAIN f.pend : f.pend[i].err <=> st[f.pend[i].path] = "none"
BY DEF Sent

LEMMA SentHand ==
  ASSUME NEW f, NEW st, Sent(f, st), f.hand # NoPath
  PROVE  st[f.hand] # "none" /\ f.hand = Head(f.todo)
BY DEF Sent

LEMMA SamePaths ==
  ASSUME NEW f, NEW pc, NEW hand, NEW g, g = Frame(f.todo, pc, hand, f.pend, f.later), OnePlace(f)
  PROVE  /\ g.todo = f.todo /\ g.pend = f.pend /\ g.later = f.later /\ g.pc = pc /\ g.hand = hand
         /\ PendPaths(g) = PendPaths(f) /\ LaterPaths(g) = LaterPaths(f)
         /\ FrameSet(g) = FrameSet(f) /\ OnePlace(g)
<1>1. g.todo = f.todo /\ g.pend = f.pend /\ g.later = f.later /\ g.pc = pc /\ g.hand = hand
  BY DEF Frame
<1>2. PendPaths(g) = PendPaths(f) /\ LaterPaths(g) = LaterPaths(f)
  BY <1>1 DEF PendPaths, LaterPaths
<1> QED
  BY <1>1, <1>2 DEF FrameSet, OnePlace

\* How to show that a level is well typed.
LEMMA FrameTyped ==
  ASSUME NEW P, NEW todo \in Seq(P), NEW pc \in {"check", "submit", "publish", "closed"},
         NEW hand \in P \cup {NoPath}, NEW pend \in Seq(Calls(P)), NEW later \in Seq(Seq(P))
  PROVE  Frame(todo, pc, hand, pend, later) \in Frames(P)
BY DEF Frame, Frames

\* The fields of a level.
LEMMA TypedFrame ==
  ASSUME NEW P, NEW f \in Frames(P)
  PROVE  /\ f.todo \in Seq(P) /\ f.pc \in {"check", "submit", "publish", "closed"}
         /\ f.hand \in P \cup {NoPath} /\ f.pend \in Seq(Calls(P)) /\ f.later \in Seq(Seq(P))
BY DEF Frames

\* It ends, goes on with the next request, or gives a request up.
MayGo(f, c, pc) ==
  \/ pc = "closed" /\ (c \/ (f.todo = <<>> /\ f.pc = "check"))
  \/ pc = "submit" /\ f.pc = "check" /\ f.todo # <<>>
  \/ pc = "publish" /\ f.pc = "submit" /\ c

\* The goroutine of a level moves on without sending.
LEMMA FrameAt ==
  ASSUME NEW st, NEW c \in BOOLEAN, NEW f, FrameOK(f, st, c), NEW pc, MayGo(f, c, pc),
         NEW g, g = At(f, pc)
  PROVE  FrameOK(g, st, c) /\ FrameSet(g) = FrameSet(f) /\ g.pend = f.pend
<1>1. f \in Frames(DOMAIN st) /\ OnePlace(f) /\ Sent(f, st) /\ (~c => Uncancelled(f))
  BY DEF FrameOK
<1>2. g = Frame(f.todo, pc, NoPath, f.pend, f.later)
  BY DEF At
<1>3. /\ g.todo = f.todo /\ g.pend = f.pend /\ g.later = f.later /\ g.pc = pc /\ g.hand = NoPath
      /\ PendPaths(g) = PendPaths(f) /\ LaterPaths(g) = LaterPaths(f)
      /\ FrameSet(g) = FrameSet(f) /\ OnePlace(g)
  BY <1>1, <1>2, SamePaths
<1>4. g \in Frames(DOMAIN st)
  <2> DEFINE P == DOMAIN st  a == f.todo  b == f.pend  u == f.later
  <2>1. a \in Seq(P) /\ b \in Seq(Calls(P)) /\ u \in Seq(Seq(P)) /\ NoPath \in P \cup {NoPath}
    BY <1>1, TypedFrame
  <2>2. pc \in {"check", "submit", "publish", "closed"}
    BY DEF MayGo
  <2>3. g = Frame(a, pc, NoPath, b, u)
    BY <1>2
  <2> HIDE DEF P, a, b, u
  <2>4. Frame(a, pc, NoPath, b, u) \in Frames(P)
    BY <2>1, <2>2, FrameTyped
  <2> QED
    BY <2>3, <2>4 DEF P
<1>5. f.pc \in {"check", "submit"} => f.hand = NoPath /\ \A p \in ToSet(f.todo) : st[p] = "none"
  BY <1>1 DEF Sent, Unsent
<1>6. Sent(g, st)
  BY <1>1, <1>3, <1>5 DEF Sent, Unsent, MayGo
<1>7. ~c => Uncancelled(g)
  BY <1>1, <1>3 DEF Uncancelled, MayGo
<1> QED
  BY <1>3, <1>4, <1>6, <1>7 DEF FrameOK

\* The goroutine of a level sends the first of its paths.
LEMMA FrameSubmit ==
  ASSUME NEW st, NEW c \in BOOLEAN, NEW f, FrameOK(f, st, c), f.pc = "submit",
         NEW p, p = Head(f.todo), NEW g, g = Frame(f.todo, "publish", p, f.pend, f.later),
         NEW st2, st2 = Changed(st, p, "queued"), NoPath \notin DOMAIN st
  PROVE  /\ FrameOK(g, st2, c) /\ FrameSet(g) = FrameSet(f) /\ g.pend = f.pend
         /\ p \in FrameSet(f) /\ p \in DOMAIN st /\ st[p] = "none"
<1>1. f \in Frames(DOMAIN st) /\ OnePlace(f) /\ Sent(f, st) /\ (~c => Uncancelled(f))
  BY DEF FrameOK
<1>2. f.todo # <<>> /\ f.todo \in Seq(DOMAIN st) /\ IsInjective(f.todo)
  BY <1>1, TypedFrame DEF Sent, OnePlace
<1>3. /\ p \in DOMAIN st /\ p \notin ToSet(Tail(f.todo))
      /\ ToSet(f.todo) = {p} \cup ToSet(Tail(f.todo))
      /\ ToSet(Tail(f.todo)) \subseteq DOMAIN st
  BY <1>2, HeadTailOnce
<1>4. f.hand = NoPath /\ \A q \in ToSet(f.todo) : st[q] = "none"
  BY <1>1 DEF Sent, Unsent
<1>5. /\ g.todo = f.todo /\ g.pend = f.pend /\ g.later = f.later /\ g.pc = "publish" /\ g.hand = p
      /\ PendPaths(g) = PendPaths(f) /\ LaterPaths(g) = LaterPaths(f)
      /\ FrameSet(g) = FrameSet(f) /\ OnePlace(g)
  BY <1>1, SamePaths
<1>6. DOMAIN st2 = DOMAIN st /\ st2[p] = "queued" /\ \A q \in DOMAIN st : q # p => st2[q] = st[q]
  BY <1>3 DEF Changed
<1>7. g \in Frames(DOMAIN st2)
  BY <1>1, <1>3, <1>6, TypedFrame, FrameTyped
<1>8. p \notin LaterPaths(f) /\ p \notin PendPaths(f)
  BY <1>1, <1>3 DEF OnePlace
<1>9. LaterPaths(f) \subseteq DOMAIN st /\ PendPaths(f) \subseteq DOMAIN st
  <2>1. f.later \in Seq(Seq(DOMAIN st)) /\ f.pend \in Seq(Calls(DOMAIN st))
    BY <1>1, TypedFrame
  <2>2. LaterPaths(f) \subseteq DOMAIN st
    BY <2>1 DEF LaterPaths, ToSet
  <2>3. PendPaths(f) \subseteq DOMAIN st
    <3>1. \A i \in DOMAIN f.pend : f.pend[i] \in Calls(DOMAIN st)
      BY <2>1
    <3>2. \A i \in DOMAIN f.pend : f.pend[i].path \in DOMAIN st
      BY <3>1 DEF Calls
    <3> QED
      BY <3>2 DEF PendPaths
  <2> QED
    BY <2>2, <2>3
<1>10. \A i \in DOMAIN f.pend : f.pend[i].path \in PendPaths(f)
  BY PendEach
<1>11. Sent(g, st2)
  <2>1. \A q \in Unsent(g) : st2[q] = "none"
    <3>1. Unsent(g) = ToSet(Tail(f.todo))
      BY <1>3, <1>5 DEF Unsent
    <3>2. \A q \in ToSet(Tail(f.todo)) : q \in DOMAIN st /\ q # p /\ q \in ToSet(f.todo)
      BY <1>3
    <3> QED
      BY <1>4, <1>6, <3>1, <3>2
  <2>2. \A q \in LaterPaths(g) : st2[q] = "none"
    BY <1>1, <1>5, <1>6, <1>8, <1>9 DEF Sent
  <2>3. \A i \in DOMAIN g.pend : g.pend[i].err <=> st2[g.pend[i].path] = "none"
    BY <1>1, <1>5, <1>6, <1>8, <1>9, <1>10 DEF Sent
  <2>4. g.hand # NoPath => st2[g.hand] # "none" /\ g.pc = "publish" /\ g.hand = Head(g.todo)
    BY <1>5, <1>6
  <2>5. g.todo # <<>>
    BY <1>2, <1>5
  <2> QED
    BY <2>1, <2>2, <2>3, <2>4, <2>5, Zenon DEF Sent
<1>12. ~c => Uncancelled(g)
  <2>1. g.hand # NoPath
    BY <1>3, <1>5
  <2> QED
    BY <1>1, <1>5, <2>1 DEF Uncancelled
<1>13. p \in FrameSet(f) /\ st[p] = "none"
  BY <1>3, <1>4 DEF FrameSet
<1> QED
  BY <1>3, <1>5, <1>7, <1>11, <1>12, <1>13 DEF FrameOK

\* The paths of a level are paths of the run.
LEMMA FramePathsIn ==
  ASSUME NEW P, NEW f \in Frames(P)
  PROVE  /\ FrameSet(f) \subseteq P /\ PendPaths(f) \subseteq P /\ LaterPaths(f) \subseteq P
         /\ ToSet(f.todo) \subseteq P
         /\ \A i \in DOMAIN f.pend : f.pend[i] \in Calls(P) /\ f.pend[i].path \in PendPaths(f)
<1>1. f.later \in Seq(Seq(P)) /\ f.pend \in Seq(Calls(P)) /\ f.todo \in Seq(P)
  BY TypedFrame
<1>2. LaterPaths(f) \subseteq P /\ ToSet(f.todo) \subseteq P
  BY <1>1 DEF LaterPaths, ToSet
<1>3. \A i \in DOMAIN f.pend : f.pend[i] \in Calls(P)
  BY <1>1
<1>4. \A i \in DOMAIN f.pend : f.pend[i].path \in P
  BY <1>3 DEF Calls
<1>5. PendPaths(f) \subseteq P
  BY <1>4 DEF PendPaths
<1> QED
  BY <1>2, <1>3, <1>5 DEF FrameSet, PendPaths

\* The call is put into the pending channel.
LEMMA FramePublish ==
  ASSUME NEW st, NEW c \in BOOLEAN, NEW f, FrameOK(f, st, c), f.pc = "publish",
         NEW call, call = [path |-> Head(f.todo), err |-> f.hand = NoPath],
         NEW g, g = Frame(Tail(f.todo), "check", NoPath, Append(f.pend, call), f.later)
  PROVE  FrameOK(g, st, c) /\ FrameSet(g) = FrameSet(f) /\ Len(g.pend) = Len(f.pend) + 1
<1> DEFINE P == DOMAIN st  h == Head(f.todo)  t == Tail(f.todo)  e == f.hand = NoPath
<1>0. Sent(f, st)
  BY DEF FrameOK
<1>1. f \in Frames(P) /\ OnePlace(f) /\ Sent(f, st) /\ (~c => Uncancelled(f))
  BY DEF FrameOK
<1>2. /\ f.todo # <<>> /\ f.todo \in Seq(P) /\ IsInjective(f.todo)
      /\ f.pend \in Seq(Calls(P)) /\ f.later \in Seq(Seq(P))
  BY <1>1, TypedFrame DEF Sent, OnePlace
<1>3. /\ h \in P /\ t \in Seq(P) /\ IsInjective(t) /\ h \notin ToSet(t)
      /\ ToSet(f.todo) = {h} \cup ToSet(t)
  BY <1>2, HeadTailOnce
<1>4. call.path = h /\ (call.err <=> e) /\ call \in Calls(P)
  BY <1>3 DEF Calls
<1>5. g.todo = t /\ g.pc = "check" /\ g.hand = NoPath /\ g.pend = Append(f.pend, call) /\ g.later = f.later
  BY DEF Frame
<1> HIDE DEF h, t, e, P
<1>6. /\ g.pend \in Seq(Calls(P)) /\ Len(g.pend) = Len(f.pend) + 1 /\ g.pend[Len(f.pend) + 1] = call
      /\ \A i \in 1 .. Len(f.pend) : g.pend[i] = f.pend[i]
  <2> DEFINE X == Calls(P)  a == f.pend
  <2>1. a \in Seq(X) /\ call \in X
    BY <1>2, <1>4
  <2> HIDE DEF X, a
  <2>2. /\ Append(a, call) \in Seq(X) /\ Len(Append(a, call)) = Len(a) + 1
        /\ Append(a, call)[Len(a) + 1] = call /\ \A i \in 1 .. Len(a) : Append(a, call)[i] = a[i]
    BY <2>1, AppendProperties
  <2> QED
    BY <1>5, <2>2 DEF X, a
<1>7. Len(f.pend) \in Nat /\ DOMAIN f.pend = 1 .. Len(f.pend) /\ DOMAIN g.pend = 1 .. Len(f.pend) + 1
  BY <1>2, <1>6
<1> DEFINE n == Len(f.pend)
<1> HIDE DEF n
<1>8. /\ n \in Nat /\ DOMAIN f.pend = 1 .. n /\ DOMAIN g.pend = 1 .. n + 1 /\ g.pend[n + 1] = call
      /\ \A i \in 1 .. n : g.pend[i] = f.pend[i]
  BY <1>6, <1>7 DEF n
<1>9. 1 .. n + 1 = (1 .. n) \cup {n + 1}
  BY <1>8
<1>10. PendPaths(g) = PendPaths(f) \cup {h}
  BY <1>4, <1>8, <1>9 DEF PendPaths
<1>11. LaterPaths(g) = LaterPaths(f)
  BY <1>5 DEF LaterPaths
<1>12. FrameSet(g) = FrameSet(f)
  BY <1>3, <1>5, <1>10, <1>11 DEF FrameSet
<1>13. g \in Frames(P)
  <2> DEFINE a == Append(f.pend, call)  u == f.later
  <2>1. NoPath \in P \cup {NoPath} /\ a \in Seq(Calls(P)) /\ u \in Seq(Seq(P)) /\ t \in Seq(P)
    BY <1>2, <1>3, <1>5, <1>6
  <2>2. g = Frame(t, "check", NoPath, a, u)
    BY DEF t
  <2> HIDE DEF a, u
  <2>3. Frame(t, "check", NoPath, a, u) \in Frames(P)
    BY <2>1, FrameTyped
  <2> QED
    BY <2>2, <2>3
<1>14. /\ ToSet(f.todo) \cap PendPaths(f) = {} /\ ToSet(f.todo) \cap LaterPaths(f) = {}
       /\ PendPaths(f) \cap LaterPaths(f) = {} /\ Batches(f.later, LaterPaths(f))
       /\ \A i, j \in 1 .. n : f.pend[i].path = f.pend[j].path => i = j
       /\ \A i \in 1 .. n : f.pend[i].path \in PendPaths(f)
  <2>1. \A i \in 1 .. n : f.pend[i].path \in PendPaths(f)
    BY <1>8, PendEach
  <2>2. \A i, j \in 1 .. n : f.pend[i].path = f.pend[j].path => i = j
    BY <1>1, <1>8 DEF OnePlace
  <2>3. /\ ToSet(f.todo) \cap PendPaths(f) = {} /\ ToSet(f.todo) \cap LaterPaths(f) = {}
        /\ PendPaths(f) \cap LaterPaths(f) = {} /\ Batches(f.later, LaterPaths(f))
    BY <1>1 DEF OnePlace
  <2> QED
    BY <2>1, <2>2, <2>3
<1>15. OnePlace(g)
  <2>1. h \notin PendPaths(f) /\ h \notin LaterPaths(f)
    BY <1>3, <1>14
  <2>2. \A i, j \in 1 .. n + 1 : g.pend[i].path = g.pend[j].path => i = j
    <3> SUFFICES ASSUME NEW i \in 1 .. n + 1, NEW j \in 1 .. n + 1, g.pend[i].path = g.pend[j].path
                 PROVE  i = j
      OBVIOUS
    <3>1. \A k \in 1 .. n : g.pend[k].path # h
      <4> SUFFICES ASSUME NEW k \in 1 .. n PROVE g.pend[k].path # h
        OBVIOUS
      <4>1. f.pend[k].path \in PendPaths(f) /\ g.pend[k] = f.pend[k]
        BY <1>8, <1>14
      <4> QED
        BY <2>1, <4>1
    <3>2. g.pend[n + 1].path = h
      BY <1>4, <1>8
    <3>3. CASE i \in 1 .. n /\ j \in 1 .. n
      BY <1>8, <1>14, <3>3
    <3>4. CASE i = n + 1 \/ j = n + 1
      BY <1>9, <3>1, <3>2, <3>4
    <3> QED
      BY <1>9, <3>3, <3>4
  <2>3. Batches(g.later, LaterPaths(g))
    BY <1>5, <1>11, <1>14
  <2>4. /\ ToSet(t) \cap PendPaths(g) = {} /\ ToSet(t) \cap LaterPaths(g) = {}
        /\ PendPaths(g) \cap LaterPaths(g) = {}
    <3>1. ToSet(t) \cap PendPaths(f) = {} /\ ToSet(t) \cap LaterPaths(f) = {}
      BY <1>3, <1>14
    <3>2. ToSet(t) \cap PendPaths(g) = {}
      BY <1>3, <1>10, <3>1
    <3>3. PendPaths(g) \cap LaterPaths(g) = {}
      BY <1>10, <1>11, <1>14, <2>1
    <3> QED
      BY <1>11, <3>1, <3>2, <3>3
  <2>5. \A i, j \in DOMAIN g.pend : g.pend[i].path = g.pend[j].path => i = j
    BY <1>8, <2>2
  <2>6. g.todo = t /\ IsInjective(g.todo)
    BY <1>3, <1>5
  <2> QED
    BY <2>3, <2>4, <2>5, <2>6, Zenon DEF OnePlace
<1>16. e <=> st[h] = "none"
  <2>1. CASE e
    <3>1. \A q \in ToSet(f.todo) : st[q] = "none"
      BY <1>1, <2>1 DEF Sent, Unsent, e
    <3> QED
      BY <1>3, <2>1, <3>1
  <2>2. CASE ~e
    <3>1. f.hand # NoPath
      BY <2>2 DEF e
    <3>2. st[f.hand] # "none" /\ f.hand = Head(f.todo)
      BY <1>0, <3>1, SentHand, Zenon
    <3> QED
      BY <2>2, <3>2 DEF h
  <2> QED
    BY <2>1, <2>2
<1>17. Sent(g, st)
  <2>1. \A q \in ToSet(t) : st[q] = "none"
    <3>1. CASE e
      BY <1>1, <1>3, <3>1 DEF Sent, Unsent, e
    <3>2. CASE ~e
      BY <1>1, <3>2 DEF Sent, Unsent, e, t
    <3> QED
      BY <3>1, <3>2
  <2>2. \A q \in LaterPaths(g) : st[q] = "none"
    <3>1. \A q \in LaterPaths(f) : st[q] = "none"
      BY <1>0, SentLater, Zenon
    <3> QED
      BY <1>11, <3>1
  <2>3. \A i \in DOMAIN g.pend : g.pend[i].err <=> st[g.pend[i].path] = "none"
    <3>1. \A i \in 1 .. n : f.pend[i].err <=> st[f.pend[i].path] = "none"
      BY <1>0, <1>8, SentPend
    <3>2. \A i \in 1 .. n : g.pend[i].err <=> st[g.pend[i].path] = "none"
      BY <1>8, <3>1
    <3>3. g.pend[n + 1].err <=> st[g.pend[n + 1].path] = "none"
      BY <1>4, <1>8, <1>16
    <3>4. \A i \in DOMAIN g.pend : i \in 1 .. n \/ i = n + 1
      BY <1>8, <1>9
    <3> QED
      BY <3>2, <3>3, <3>4, Zenon
  <2> QED
    BY <1>5, <2>1, <2>2, <2>3, Zenon DEF Sent, Unsent
<1>18. ASSUME ~c PROVE Uncancelled(g)
  <2>1. ~e /\ \A i \in 1 .. n : ~f.pend[i].err
    BY <1>1, <1>8, <1>18 DEF Uncancelled, e
  <2>2. \A i \in DOMAIN g.pend : ~g.pend[i].err
    BY <1>4, <1>8, <1>9, <2>1
  <2> QED
    BY <1>5, <2>2, Zenon DEF Uncancelled
<1> QED
  BY <1>6, <1>12, <1>13, <1>15, <1>17, <1>18 DEF FrameOK, P

\* The consumer takes a call from the pending channel.
LEMMA FramePop ==
  ASSUME NEW st, NEW c \in BOOLEAN, NEW f, FrameOK(f, st, c), f.pend # <<>>,
         NEW g, g = Frame(f.todo, f.pc, f.hand, Tail(f.pend), f.later)
  PROVE  /\ FrameOK(g, st, c) /\ Len(g.pend) <= Len(f.pend)
         /\ Head(f.pend) \in Calls(DOMAIN st) /\ Head(f.pend).path \in FrameSet(f)
         /\ FrameSet(g) = FrameSet(f) \ {Head(f.pend).path}
         /\ Head(f.pend).err <=> st[Head(f.pend).path] = "none"
         /\ ~c => ~Head(f.pend).err
<1> DEFINE P == DOMAIN st  n == Len(f.pend)  t == Tail(f.pend)  p == Head(f.pend).path
<1>0. Sent(f, st)
  BY DEF FrameOK
<1>1. f \in Frames(P) /\ OnePlace(f) /\ Sent(f, st) /\ (~c => Uncancelled(f))
  BY DEF FrameOK
<1>2. /\ f.todo \in Seq(P) /\ f.pend \in Seq(Calls(P)) /\ f.later \in Seq(Seq(P))
      /\ f.pc \in {"check", "submit", "publish", "closed"} /\ f.hand \in P \cup {NoPath}
  BY <1>1, TypedFrame
<1> HIDE DEF P
<1>3. /\ n \in Nat \ {0} /\ DOMAIN f.pend = 1 .. n /\ Head(f.pend) = f.pend[1]
      /\ t \in Seq(Calls(P)) /\ DOMAIN t = 1 .. n - 1 /\ Len(t) = n - 1
      /\ \A i \in 1 .. n - 1 : t[i] = f.pend[i + 1]
  <2>1. /\ t \in Seq(Calls(P)) /\ Len(t) = Len(f.pend) - 1
        /\ \A i \in 1 .. Len(t) : t[i] = f.pend[i + 1]
    BY <1>2, HeadTailProperties
  <2>2. n \in Nat \ {0} /\ DOMAIN f.pend = 1 .. n /\ Head(f.pend) = f.pend[1]
    BY <1>2, EmptySeq
  <2>3. DOMAIN t = 1 .. Len(t)
    BY <2>1
  <2> QED
    BY <2>1, <2>2, <2>3
<1>4. /\ g.todo = f.todo /\ g.pc = f.pc /\ g.hand = f.hand /\ g.pend = t /\ g.later = f.later
  BY DEF Frame
<1> HIDE DEF n, t
<1>5. /\ ToSet(f.todo) \cap PendPaths(f) = {} /\ ToSet(f.todo) \cap LaterPaths(f) = {}
      /\ PendPaths(f) \cap LaterPaths(f) = {} /\ Batches(f.later, LaterPaths(f))
      /\ \A i, j \in 1 .. n : f.pend[i].path = f.pend[j].path => i = j
      /\ IsInjective(f.todo)
  BY <1>1, <1>3 DEF OnePlace
<1>6. p = f.pend[1].path /\ 1 \in 1 .. n /\ Head(f.pend) \in Calls(P)
  BY <1>2, <1>3
<1>7. \A i \in 1 .. n - 1 : i + 1 \in 1 .. n /\ i + 1 # 1 /\ t[i] = f.pend[i + 1]
  BY <1>3
<1>8. PendPaths(g) = PendPaths(f) \ {p}
  <2>1. \A i \in 1 .. n - 1 : t[i].path \in PendPaths(f) \ {p}
    <3> SUFFICES ASSUME NEW i \in 1 .. n - 1 PROVE t[i].path \in PendPaths(f) \ {p}
      OBVIOUS
    <3>1. i + 1 \in 1 .. n /\ i + 1 # 1 /\ t[i] = f.pend[i + 1]
      BY <1>7
    <3>2. f.pend[i + 1].path \in PendPaths(f)
      BY <1>3, <3>1, PendEach
    <3>3. f.pend[i + 1].path # f.pend[1].path
      BY <1>5, <1>6, <3>1
    <3> QED
      BY <1>6, <3>1, <3>2, <3>3
  <2>2. ASSUME NEW i \in 1 .. n, f.pend[i].path # p PROVE \E j \in 1 .. n - 1 : t[j].path = f.pend[i].path
    <3>1. i # 1
      BY <1>6, <2>2
    <3>2. i - 1 \in 1 .. n - 1 /\ (i - 1) + 1 = i
      BY <1>3, <3>1
    <3> QED
      BY <1>7, <3>2
  <2>3. DOMAIN g.pend = 1 .. n - 1 /\ \A i \in 1 .. n - 1 : g.pend[i] = t[i]
    BY <1>3, <1>4
  <2>4. ASSUME NEW q \in PendPaths(g) PROVE q \in PendPaths(f) \ {p}
    <3>1. PICK i \in DOMAIN g.pend : q = g.pend[i].path
      BY PendEach
    <3>2. i \in 1 .. n - 1 /\ q = t[i].path
      BY <2>3, <3>1
    <3> QED
      BY <2>1, <3>2
  <2>5. ASSUME NEW q \in PendPaths(f), q # p PROVE q \in PendPaths(g)
    <3>1. PICK i \in DOMAIN f.pend : q = f.pend[i].path
      BY PendEach
    <3>2. PICK j \in 1 .. n - 1 : t[j].path = q
      BY <1>3, <2>2, <2>5, <3>1
    <3>3. j \in DOMAIN g.pend /\ g.pend[j].path = q
      BY <2>3, <3>2
    <3> QED
      BY <3>3, PendEach
  <2> QED
    BY <2>4, <2>5
<1>9. LaterPaths(g) = LaterPaths(f)
  BY <1>4 DEF LaterPaths
<1>10. p \in PendPaths(f)
  BY <1>3, <1>6 DEF PendPaths
<1>11. FrameSet(g) = FrameSet(f) \ {p} /\ p \in FrameSet(f)
  BY <1>4, <1>5, <1>8, <1>9, <1>10 DEF FrameSet
<1>12. g \in Frames(P)
  <2> DEFINE a == f.todo  b == f.pc  k == f.hand  u == f.later
  <2>1. /\ a \in Seq(P) /\ b \in {"check", "submit", "publish", "closed"} /\ k \in P \cup {NoPath}
        /\ u \in Seq(Seq(P)) /\ t \in Seq(Calls(P))
    BY <1>2, <1>3
  <2>2. g = Frame(a, b, k, t, u)
    BY DEF t
  <2> HIDE DEF a, b, k, u
  <2>3. Frame(a, b, k, t, u) \in Frames(P)
    BY <2>1, FrameTyped
  <2> QED
    BY <2>2, <2>3
<1>13. OnePlace(g)
  <2>1. \A i, j \in 1 .. n - 1 : t[i].path = t[j].path => i = j
    <3> SUFFICES ASSUME NEW i \in 1 .. n - 1, NEW j \in 1 .. n - 1, t[i].path = t[j].path PROVE i = j
      OBVIOUS
    <3>1. i + 1 = j + 1
      BY <1>5, <1>7
    <3> QED
      BY <1>3, <3>1
  <2>2. Batches(g.later, LaterPaths(g))
    BY <1>4, <1>5, <1>9
  <2>3. /\ ToSet(g.todo) \cap PendPaths(g) = {} /\ ToSet(g.todo) \cap LaterPaths(g) = {}
        /\ PendPaths(g) \cap LaterPaths(g) = {}
    BY <1>4, <1>5, <1>8, <1>9
  <2> QED
    BY <1>3, <1>4, <1>5, <2>1, <2>2, <2>3 DEF OnePlace
<1>14. \A i \in 1 .. n : f.pend[i].err <=> st[f.pend[i].path] = "none"
  <2>1. \A i \in DOMAIN f.pend : f.pend[i].err <=> st[f.pend[i].path] = "none"
    BY <1>0, SentPend, Zenon
  <2> QED
    BY <1>3, <2>1
<1>15. Sent(g, st)
  <2>1. \A i \in DOMAIN g.pend : g.pend[i].err <=> st[g.pend[i].path] = "none"
    <3>1. \A i \in 1 .. n - 1 : t[i].err <=> st[t[i].path] = "none"
      BY <1>7, <1>14
    <3> QED
      BY <1>3, <1>4, <3>1
  <2>2. Unsent(g) = Unsent(f)
    BY <1>4 DEF Unsent
  <2> QED
    BY <1>1, <1>4, <1>9, <2>1, <2>2, Zenon DEF Sent
<1>16. ASSUME ~c PROVE Uncancelled(g) /\ ~f.pend[1].err
  <2>1. \A i \in 1 .. n : ~f.pend[i].err
    BY <1>1, <1>3, <1>16 DEF Uncancelled
  <2>2. \A i \in DOMAIN g.pend : ~g.pend[i].err
    <3> SUFFICES ASSUME NEW i \in 1 .. n - 1 PROVE ~t[i].err
      BY <1>3, <1>4
    <3>1. i + 1 \in 1 .. n /\ t[i] = f.pend[i + 1]
      BY <1>7
    <3> QED
      BY <2>1, <3>1
  <2> QED
    BY <1>1, <1>4, <1>6, <1>16, <2>1, <2>2 DEF Uncancelled
<1>17. Len(g.pend) <= Len(f.pend)
  BY <1>3, <1>4 DEF n
<1> QED
  BY <1>3, <1>6, <1>11, <1>12, <1>13, <1>14, <1>15, <1>16, <1>17 DEF FrameOK, P

\* A level that begins, with its batches.
LEMMA FrameNew ==
  ASSUME NEW st, NEW c \in BOOLEAN, NEW P, P \subseteq DOMAIN st, \A p \in P : st[p] = "none",
         NEW bs, Batches(bs, P), bs # <<>>,
         NEW g, g = Evaluate(Head(bs), Tail(bs))
  PROVE  FrameOK(g, st, c) /\ FrameSet(g) = P /\ g.pend = <<>>
<1> DEFINE h == Head(bs)  t == Tail(bs)  Q == P \ ToSet(h)  D == DOMAIN st
<1>1. /\ h \in Seq(P) /\ IsInjective(h) /\ Batches(t, Q) /\ ToSet(h) \subseteq P
  BY BatchesHeadTail
<1>2. g.todo = h /\ g.pc = "check" /\ g.hand = NoPath /\ g.pend = <<>> /\ g.later = t
      /\ g = Frame(h, "check", NoPath, <<>>, t)
  BY DEF Evaluate, Frame
<1> HIDE DEF h, t
<1>3. PendPaths(g) = {} /\ LaterPaths(g) = Q
  <2>1. UNION {ToSet(t[e]) : e \in DOMAIN t} = Q
    <3> HIDE DEF Q
    <3> QED
      BY <1>1, BatchesCover
  <2>2. PendPaths(g) = {}
    BY <1>2 DEF PendPaths
  <2> QED
    BY <1>2, <2>1, <2>2 DEF LaterPaths
<1>4. FrameSet(g) = P
  BY <1>1, <1>2, <1>3 DEF FrameSet
<1>5. OnePlace(g)
  <2>1. ToSet(h) \cap Q = {} /\ DOMAIN <<>> = {}
    OBVIOUS
  <2> HIDE DEF Q
  <2>2. IsInjective(g.todo) /\ Batches(g.later, LaterPaths(g)) /\ DOMAIN g.pend = {}
    BY <1>1, <1>2, <1>3, <2>1
  <2>3. /\ ToSet(g.todo) \cap PendPaths(g) = {} /\ ToSet(g.todo) \cap LaterPaths(g) = {}
        /\ PendPaths(g) \cap LaterPaths(g) = {}
    BY <1>2, <1>3, <2>1
  <2> QED
    BY <2>2, <2>3 DEF OnePlace
<1>6. Sent(g, st)
  BY <1>1, <1>2, <1>3 DEF Sent, Unsent
<1>7. Uncancelled(g)
  BY <1>2 DEF Uncancelled
<1>8. g \in Frames(DOMAIN st)
  <2>1. h \in Seq(D)
    BY <1>1, SeqMonotonic
  <2>2. t \in Seq(Seq(D))
    <3>1. t \in Seq(Seq(Q)) /\ Q \subseteq D
      BY <1>1 DEF Batches
    <3>2. Seq(Q) \subseteq Seq(D)
      BY <3>1, SeqMonotonic
    <3> QED
      BY <3>1, <3>2, SeqMonotonic
  <2>3. NoPath \in D \cup {NoPath} /\ <<>> \in Seq(Calls(D))
    BY EmptySeq
  <2> HIDE DEF D
  <2>4. Frame(h, "check", NoPath, <<>>, t) \in Frames(D)
    BY <2>1, <2>2, <2>3, FrameTyped
  <2>5. g \in Frames(D)
    BY <1>2, <2>4
  <2> QED
    BY <2>5 DEF D
<1> QED
  BY <1>2, <1>4, <1>5, <1>6, <1>7, <1>8 DEF FrameOK

\* The other paths' requests, and a cancellation.
LEMMA FrameElsewhere ==
  ASSUME NEW st, NEW c \in BOOLEAN, NEW f, FrameOK(f, st, c),
         NEW st2, DOMAIN st2 = DOMAIN st, NEW d \in BOOLEAN, c => d,
         \A p \in FrameSet(f) : st2[p] = "none" <=> st[p] = "none"
  PROVE  FrameOK(f, st2, d)
<1>1. f \in Frames(DOMAIN st) /\ OnePlace(f) /\ Sent(f, st) /\ (~c => Uncancelled(f))
  BY DEF FrameOK
<1>2. \A i \in DOMAIN f.pend : f.pend[i].path \in FrameSet(f)
  BY <1>1, FramePathsIn DEF FrameSet
<1>3. f.hand # NoPath => f.hand \in FrameSet(f) /\ Unsent(f) \subseteq FrameSet(f)
  <2> SUFFICES ASSUME f.hand # NoPath PROVE f.hand \in FrameSet(f) /\ Unsent(f) \subseteq FrameSet(f)
    OBVIOUS
  <2>1. f.hand = Head(f.todo) /\ f.todo # <<>>
    BY <1>1 DEF Sent
  <2>2. f.todo \in Seq(DOMAIN st) /\ IsInjective(f.todo)
    BY <1>1, TypedFrame DEF OnePlace
  <2>3. ToSet(f.todo) = {Head(f.todo)} \cup ToSet(Tail(f.todo))
    BY <2>1, <2>2, HeadTailOnce
  <2> QED
    BY <2>1, <2>3 DEF FrameSet, Unsent
<1>4. f.hand = NoPath => Unsent(f) \subseteq FrameSet(f)
  BY DEF FrameSet, Unsent
<1>5. LaterPaths(f) \subseteq FrameSet(f)
  BY DEF FrameSet
<1>6. Sent(f, st2)
  BY <1>1, <1>2, <1>3, <1>4, <1>5 DEF Sent
<1> QED
  BY <1>1, <1>6 DEF FrameOK

-----------------------------------------------------------------------------
(* The held paths, step by step.                                             *)
LEMMA SpineShrinks ==
  ASSUME NEW H, NEW st, NEW y, Spine(H, st, y), NEW H2, H2 \subseteq H
  PROVE  Spine(H2, st, y)
BY DEF Spine

\* What is said of a path that is held, or of one that is being asked for.
LEMMA SpineStatus ==
  ASSUME NEW H, NEW st, NEW y, Spine(H, st, y), NEW p \in DOMAIN st, NEW a,
         p \in H \/ (st[p] \notin {"none", "accepted"}),
         NEW st2, st2 = [st EXCEPT ![p] = a]
  PROVE  Spine(H, st2, y)
<1>1. DOMAIN st2 = DOMAIN st /\ \A q \in DOMAIN st : q # p => st2[q] = st[q]
  OBVIOUS
<1>2. H \subseteq DOMAIN st /\ \A x, z \in H : IsPrefix(x, z) => x = z
  BY DEF Spine
<1>3. \A x \in H, q \in DOMAIN st : IsPrefix(x, q) /\ q # x => st[q] = "none" /\ y[q] = 0 /\ q # p
  BY <1>2 DEF Spine
<1>4. \A x \in H, q \in DOMAIN st : IsPrefix(q, x) /\ q # x => st[q] \in {"none", "accepted"} /\ q # p
  BY <1>2 DEF Spine
<1> QED
  BY <1>1, <1>2, <1>3, <1>4 DEF Spine

\* The delivery of a held path leaves the spine.
LEMMA SpineYield ==
  ASSUME NEW H, NEW st, NEW y, Spine(H, st, y), NEW p \in H, NEW a,
         NEW y2, y2 = [y EXCEPT ![p] = a], DOMAIN y = DOMAIN st
  PROVE  Spine(H, st, y2)
<1>1. H \subseteq DOMAIN st /\ \A x, z \in H : IsPrefix(x, z) => x = z
  BY DEF Spine
<1>2. \A x \in H, q \in DOMAIN st : IsPrefix(x, q) /\ q # x => st[q] = "none" /\ y[q] = 0 /\ q # p
  BY <1>1 DEF Spine
<1>3. \A q \in DOMAIN st : q # p => y2[q] = y[q]
  OBVIOUS
<1> QED
  BY <1>1, <1>2, <1>3 DEF Spine

\* Accepted paths are replaced by what is visited below them.
AllBelow(N, E) == UNION {N[p] : p \in E}

\* Held paths make way for what is below them.
LEMMA SpineExpand ==
  ASSUME Chosen, NEW H, NEW st, NEW y, Spine(H, st, y), DOMAIN st = Nodes(Tree),
         NEW E, E \subseteq H, \A p \in E : st[p] = "accepted",
         NEW N, \A p \in E : Refines(Tree, N[p], p),
         NEW H2, H2 = (H \ E) \cup AllBelow(N, E)
  PROVE  /\ Spine(H2, st, y)
         /\ \A q \in AllBelow(N, E) : q \in DOMAIN st /\ q \notin H /\ st[q] = "none" /\ y[q] = 0
<1> DEFINE S1 == Seq(AllValues(Tree))  D == Nodes(Tree)
<1>1. IsPlan(Tree)
  BY SpaceOfTree
<1>2. \A p \in D : p \in S1
  BY <1>1, NodesFacts
<1>3. /\ H \subseteq D /\ \A x, z \in H : IsPrefix(x, z) => x = z
      /\ \A x \in H, q \in D : IsPrefix(x, q) /\ q # x => st[q] = "none" /\ y[q] = 0
      /\ \A x \in H, q \in D : IsPrefix(q, x) /\ q # x => st[q] \in {"none", "accepted"}
  BY DEF Spine
<1>4. ASSUME NEW q \in AllBelow(N, E)
      PROVE  \E p \in E : q \in N[p] /\ q \in D /\ IsPrefix(p, q) /\ q # p
  BY DEF AllBelow, Refines
<1>5. ASSUME NEW q \in AllBelow(N, E) PROVE q \in D /\ q \notin H /\ st[q] = "none" /\ y[q] = 0
  BY <1>3, <1>4
<1>6. H2 \subseteq D
  BY <1>3, <1>5
<1>7. ASSUME NEW x \in H2, NEW z \in H2, IsPrefix(x, z), x # z PROVE FALSE
  <2>1. x \in S1 /\ z \in S1
    BY <1>2, <1>6
  <2>2. CASE x \in H /\ z \in H
    BY <1>3, <1>7, <2>2
  <2>3. CASE x \notin H /\ z \in H
    <3>1. PICK p \in E : IsPrefix(p, x) /\ x # p /\ x \in N[p]
      BY <1>4, <2>3
    <3>2. p \in S1 /\ p \in H
      BY <1>2, <1>3
    <3>3. IsPrefix(p, z)
      BY <1>7, <2>1, <3>1, <3>2, PrefixTransitive
    <3>4. p = z
      BY <1>3, <2>3, <3>2, <3>3
    <3> QED
      BY <1>7, <2>1, <3>1, <3>4, PrefixOrder
  <2>4. CASE x \in H /\ z \notin H
    <3>1. PICK p \in E : IsPrefix(p, z) /\ z # p /\ z \in N[p]
      BY <1>4, <2>4
    <3>2. p \in S1 /\ p \in H
      BY <1>2, <1>3
    <3>3. IsPrefix(x, p) \/ IsPrefix(p, x)
      BY <1>7, <2>1, <3>1, <3>2, PrefixesCompare
    <3>4. x = p
      BY <1>3, <2>4, <3>2, <3>3
    <3> QED
      BY <2>4, <3>4, <1>5
  <2>5. CASE x \notin H /\ z \notin H
    <3>1. PICK p \in E : IsPrefix(p, x) /\ x # p /\ x \in N[p]
      BY <1>4, <2>5
    <3>2. PICK r \in E : IsPrefix(r, z) /\ z # r /\ z \in N[r]
      BY <1>4, <2>5
    <3>3. p \in S1 /\ p \in H /\ r \in S1 /\ r \in H
      BY <1>2, <1>3
    <3>4. IsPrefix(p, z)
      BY <1>7, <2>1, <3>1, <3>3, PrefixTransitive
    <3>5. IsPrefix(p, r) \/ IsPrefix(r, p)
      BY <2>1, <3>2, <3>3, <3>4, PrefixesCompare
    <3>6. p = r
      BY <1>3, <3>3, <3>5
    <3> QED
      BY <1>7, <3>1, <3>2, <3>6 DEF Refines
  <2> QED
    BY <2>2, <2>3, <2>4, <2>5
<1>8. ASSUME NEW x \in H2, NEW q \in D, IsPrefix(x, q), q # x PROVE st[q] = "none" /\ y[q] = 0
  <2>1. CASE x \in H
    BY <1>3, <1>8, <2>1
  <2>2. CASE x \notin H
    <3>1. PICK p \in E : IsPrefix(p, x) /\ x # p
      BY <1>4, <2>2
    <3>2. p \in S1 /\ p \in H /\ x \in S1 /\ q \in S1
      BY <1>2, <1>3, <1>6
    <3>3. IsPrefix(p, q)
      BY <1>8, <3>1, <3>2, PrefixTransitive
    <3>4. q # p
      BY <1>8, <3>1, <3>2, PrefixOrder
    <3> QED
      BY <1>3, <3>2, <3>3, <3>4
  <2> QED
    BY <2>1, <2>2
<1>9. ASSUME NEW x \in H2, NEW q \in D, IsPrefix(q, x), q # x PROVE st[q] \in {"none", "accepted"}
  <2>1. CASE x \in H
    BY <1>3, <1>9, <2>1
  <2>2. CASE x \notin H
    <3>1. PICK p \in E : IsPrefix(p, x) /\ x # p
      BY <1>4, <2>2
    <3>2. p \in S1 /\ p \in H /\ x \in S1 /\ q \in S1
      BY <1>2, <1>3, <1>6
    <3>3. IsPrefix(p, q) \/ IsPrefix(q, p)
      BY <1>9, <3>1, <3>2, PrefixesCompare
    <3>4. CASE q = p
      BY <3>4
    <3>5. CASE q # p
      BY <1>3, <3>2, <3>3, <3>5
    <3> QED
      BY <3>4, <3>5
  <2> QED
    BY <2>1, <2>2
<1>10. Spine(H2, st, y)
  BY <1>6, <1>7, <1>8, <1>9 DEF Spine
<1> QED
  BY <1>5, <1>10

\* What becomes settled stays settled.
LEMMA RemembersStatus ==
  ASSUME NEW goals, NEW H, NEW R, NEW st, NEW y, Remembers(goals, H, R, st, y),
         goals \subseteq DOMAIN st, NEW p \in DOMAIN st, st[p] \notin Answers, NEW a,
         st[p] # "none" \/ p \in R,
         NEW st2, st2 = [st EXCEPT ![p] = a]
  PROVE  Remembers(goals, H, R, st2, y)
<1>1. DOMAIN st2 = DOMAIN st /\ \A q \in DOMAIN st : q # p => st2[q] = st[q]
  OBVIOUS
<1>2. \A q \in DOMAIN st : st[q] \in Answers => st2[q] = st[q]
  BY <1>1
<1>3. Answers = {"accepted", "rejected", "error"}
  BY DEF Answers
<1>4. \A g \in goals : SettledIn(st, g) => SettledIn(st2, g)
  <2> SUFFICES ASSUME NEW g \in goals, SettledIn(st, g) PROVE SettledIn(st2, g)
    OBVIOUS
  <2>1. CASE st[g] \in Answers
    BY <1>2, <2>1 DEF SettledIn
  <2>2. CASE \E m \in DOMAIN st : IsPrefix(m, g) /\ m # g /\ st[m] \in {"rejected", "error"}
    <3>1. PICK m \in DOMAIN st : IsPrefix(m, g) /\ m # g /\ st[m] \in {"rejected", "error"}
      BY <2>2
    <3>2. st2[m] = st[m]
      BY <1>2, <1>3, <3>1
    <3> QED
      BY <1>1, <3>1, <3>2 DEF SettledIn
  <2> QED
    BY <2>1, <2>2 DEF SettledIn
<1>5. \A g \in goals : SettledIn(st2, g) \/ \E x \in H : IsPrefix(x, g)
  BY <1>4 DEF Remembers
<1>6. ASSUME NEW n \in DOMAIN st, st2[n] \notin {"none", "rejected"}, y[n] = 0 PROVE n \in R
  <2>1. CASE n # p
    BY <1>1, <1>6, <2>1 DEF Remembers
  <2>2. CASE n = p
    BY <1>3, <1>6, <2>2 DEF Remembers
  <2> QED
    BY <2>1, <2>2
<1> QED
  BY <1>1, <1>5, <1>6 DEF Remembers

\* Paths are dropped that are settled, replaced or delivered.
LEMMA RemembersMove ==
  ASSUME NEW goals, NEW H, NEW R, NEW st, NEW y, Remembers(goals, H, R, st, y),
         NEW H2, NEW R2, NEW y2,
         \A x \in H, g \in goals : IsPrefix(x, g) => SettledIn(st, g) \/ \E z \in H2 : IsPrefix(z, g),
         \A n \in R : n \in R2 \/ st[n] \in {"none", "rejected"} \/ y2[n] # 0,
         \A n \in DOMAIN st : y[n] # 0 => y2[n] # 0
  PROVE  Remembers(goals, H2, R2, st, y2)
<1>1. ASSUME NEW n \in DOMAIN st, st[n] \notin {"none", "rejected"}, y2[n] = 0 PROVE n \in R2
  <2>1. n \in R
    BY <1>1 DEF Remembers
  <2> QED
    BY <1>1, <2>1
<1>2. ASSUME NEW g \in goals PROVE SettledIn(st, g) \/ \E z \in H2 : IsPrefix(z, g)
  BY DEF Remembers
<1> QED
  BY <1>1, <1>2 DEF Remembers

\* A path that was answered and has nothing below that matters.
LEMMA AnsweredSettles ==
  ASSUME Chosen, NEW st, DOMAIN st = Nodes(Tree), NEW p \in Nodes(Tree), st[p] \in Answers,
         st[p] # "accepted" \/ Leaf(p)
  PROVE  \A g \in Goals(Tree) : IsPrefix(p, g) => SettledIn(st, g)
<1> SUFFICES ASSUME NEW g \in Goals(Tree), IsPrefix(p, g) PROVE SettledIn(st, g)
  OBVIOUS
<1>1. IsPlan(Tree) /\ (Leaf(p) <=> IsLeaf(Tree, p)) /\ Goals(Tree) \subseteq Nodes(Tree)
  BY SpaceOfTree, AllPathsAreNodes
<1>2. CASE g = p
  BY <1>2 DEF SettledIn
<1>3. CASE g # p
  <2>1. p \in Seq(AllValues(Tree)) /\ g \in Seq(AllValues(Tree)) /\ Len(g) \in 1 .. LastDepth(Tree)
    BY <1>1, NodesFacts
  <2>2. Len(p) < Len(g)
    BY <1>3, <2>1, PrefixOrder
  <2>3. ~IsLeaf(Tree, p)
    BY <1>1, <2>1, <2>2, FindPlaceholdersLists DEF IsLeaf
  <2>4. st[p] \in {"rejected", "error"}
    BY <1>1, <2>3 DEF Answers
  <2> QED
    BY <1>3, <2>4 DEF SettledIn
<1> QED
  BY <1>2, <1>3

-----------------------------------------------------------------------------
(* The stack of levels.                                                      *)
LEMMA FramesInFacts ==
  ASSUME NEW s
  PROVE  /\ \A k \in DOMAIN s : FrameSet(s[k]) \subseteq FramesIn(s)
         /\ \A p \in FramesIn(s) : \E k \in DOMAIN s : p \in FrameSet(s[k])
BY DEF FramesIn

\* Other paths are asked for, or the run is cancelled.
LEMMA StackElsewhere ==
  ASSUME NEW st, NEW c \in BOOLEAN, NEW n, NEW s, StackOK(s, st, c, n),
         NEW st2, DOMAIN st2 = DOMAIN st, NEW d \in BOOLEAN, c => d,
         \A p \in FramesIn(s) : st2[p] = "none" <=> st[p] = "none"
  PROVE  StackOK(s, st2, d, n)
<1>1. ASSUME NEW k \in DOMAIN s PROVE FrameOK(s[k], st2, d)
  <2>1. \A p \in FrameSet(s[k]) : st2[p] = "none" <=> st[p] = "none"
    BY FramesInFacts
  <2>2. FrameOK(s[k], st, c)
    BY DEF StackOK
  <2> QED
    BY <2>1, <2>2, FrameElsewhere
<1> QED
  BY <1>1 DEF StackOK

\* One level goes on.
LEMMA StackReplace ==
  ASSUME NEW st, NEW c \in BOOLEAN, NEW n, NEW s, StackOK(s, st, c, n), NEW k \in DOMAIN s,
         NEW st2, DOMAIN st2 = DOMAIN st,
         \A p \in FramesIn(s) : p \notin FrameSet(s[k]) => (st2[p] = "none" <=> st[p] = "none"),
         NEW g, FrameOK(g, st2, c), FrameSet(g) \subseteq FrameSet(s[k]), Fits(g, n),
         NEW s2, s2 = Changed(s, k, g)
  PROVE  /\ StackOK(s2, st2, c, n) /\ DOMAIN s2 = DOMAIN s /\ Len(s2) = Len(s)
         /\ FramesIn(s2) = (FramesIn(s) \ FrameSet(s[k])) \cup FrameSet(g)
<1> DEFINE F == Frames(DOMAIN st)
<1>1. s \in Seq(F) /\ g \in F
  BY DEF StackOK, FrameOK
<1> HIDE DEF F
<1>2. s2 \in Seq(F) /\ DOMAIN s2 = DOMAIN s /\ Len(s2) = Len(s)
  BY <1>1 DEF Changed
<1>3. s2[k] = g /\ \A j \in DOMAIN s : j # k => s2[j] = s[j]
  BY <1>1 DEF Changed
<1>4. \A i, j \in DOMAIN s : i # j => FrameSet(s[i]) \cap FrameSet(s[j]) = {}
  BY DEF StackOK
<1>5. ASSUME NEW j \in DOMAIN s PROVE FrameOK(s2[j], st2, c) /\ Fits(s2[j], n)
  <2>1. CASE j = k
    BY <1>3, <2>1
  <2>2. CASE j # k
    <3>1. FrameOK(s[j], st, c) /\ Fits(s[j], n)
      BY DEF StackOK
    <3>2. \A p \in FrameSet(s[j]) : st2[p] = "none" <=> st[p] = "none"
      BY <1>4, <2>2, FramesInFacts
    <3>3. FrameOK(s[j], st2, c)
      BY <3>1, <3>2, FrameElsewhere
    <3> QED
      BY <1>3, <2>2, <3>1, <3>3
  <2> QED
    BY <2>1, <2>2
<1>6. \A i, j \in DOMAIN s : i # j => FrameSet(s2[i]) \cap FrameSet(s2[j]) = {}
  <2> SUFFICES ASSUME NEW i \in DOMAIN s, NEW j \in DOMAIN s, i # j
               PROVE  FrameSet(s2[i]) \cap FrameSet(s2[j]) = {}
    OBVIOUS
  <2>1. FrameSet(s2[i]) \subseteq FrameSet(s[i]) /\ FrameSet(s2[j]) \subseteq FrameSet(s[j])
    BY <1>3
  <2> QED
    BY <1>4, <2>1
<1>7. FramesIn(s2) = (FramesIn(s) \ FrameSet(s[k])) \cup FrameSet(g)
  <2>1. ASSUME NEW p \in FramesIn(s2) PROVE p \in (FramesIn(s) \ FrameSet(s[k])) \cup FrameSet(g)
    <3>1. PICK j \in DOMAIN s : p \in FrameSet(s2[j])
      BY <1>2, FramesInFacts
    <3>2. CASE j = k
      BY <1>3, <3>1, <3>2
    <3>3. CASE j # k
      <4>1. p \in FrameSet(s[j])
        BY <1>3, <3>1, <3>3
      <4> QED
        BY <1>4, <3>3, <4>1, FramesInFacts
    <3> QED
      BY <3>2, <3>3
  <2>2. ASSUME NEW p \in FramesIn(s), p \notin FrameSet(s[k]) PROVE p \in FramesIn(s2)
    <3>1. PICK j \in DOMAIN s : p \in FrameSet(s[j])
      BY FramesInFacts
    <3>2. p \in FrameSet(s2[j])
      BY <1>3, <2>2, <3>1
    <3> QED
      BY <1>2, <3>2, FramesInFacts
  <2>3. FrameSet(g) \subseteq FramesIn(s2)
    BY <1>2, <1>3, FramesInFacts
  <2> QED
    BY <2>1, <2>2, <2>3
<1>8. s2 \in Seq(Frames(DOMAIN st2))
  BY <1>2 DEF F
<1> QED
  BY <1>2, <1>5, <1>6, <1>7, <1>8 DEF StackOK

\* A level goes on with no more paths than it had.
LEMMA StackGoesOn ==
  ASSUME NEW st, NEW c \in BOOLEAN, NEW n, NEW s, StackOK(s, st, c, n), NEW k \in DOMAIN s,
         NEW g, FrameOK(g, st, c), FrameSet(g) \subseteq FrameSet(s[k]), Fits(g, n),
         NEW s2, s2 = Changed(s, k, g)
  PROVE  /\ StackOK(s2, st, c, n) /\ Len(s2) = Len(s)
         /\ FramesIn(s2) = (FramesIn(s) \ FrameSet(s[k])) \cup FrameSet(g)
<1> DEFINE st2 == st
<1>1. /\ DOMAIN st2 = DOMAIN st /\ FrameOK(g, st2, c)
      /\ \A p \in FramesIn(s) : p \notin FrameSet(s[k]) => (st2[p] = "none" <=> st[p] = "none")
  OBVIOUS
<1> HIDE DEF st2
<1>2. /\ StackOK(s2, st2, c, n) /\ Len(s2) = Len(s)
      /\ FramesIn(s2) = (FramesIn(s) \ FrameSet(s[k])) \cup FrameSet(g)
  BY <1>1, StackReplace
<1> QED
  BY <1>2 DEF st2

\* A level is entered.
Apart(g, s) == FrameSet(g) \cap FramesIn(s) = {}
Pushed(s, g) == Append(s, g)

\* A level is entered.
LEMMA StackPush ==
  ASSUME NEW st, NEW c \in BOOLEAN, NEW n, NEW s, StackOK(s, st, c, n),
         NEW g, FrameOK(g, st, c), Fits(g, n), Apart(g, s),
         NEW s2, s2 = Pushed(s, g)
  PROVE  /\ StackOK(s2, st, c, n) /\ Len(s2) = Len(s) + 1 /\ s2 # <<>>
         /\ FramesIn(s2) = FramesIn(s) \cup FrameSet(g)
<1> DEFINE F == Frames(DOMAIN st)  m == Len(s)
<1>1. s \in Seq(F) /\ g \in F
  BY DEF StackOK, FrameOK
<1>2. \A i, j \in DOMAIN s : i # j => FrameSet(s[i]) \cap FrameSet(s[j]) = {}
  BY DEF StackOK
<1>3. \A j \in DOMAIN s : FrameOK(s[j], st, c) /\ Fits(s[j], n)
  BY DEF StackOK
<1> HIDE DEF F
<1>4. /\ s2 \in Seq(F) /\ Len(s2) = m + 1 /\ s2[m + 1] = g /\ \A i \in 1 .. m : s2[i] = s[i]
      /\ m \in Nat /\ DOMAIN s = 1 .. m /\ DOMAIN s2 = 1 .. m + 1
  BY <1>1, AppendProperties DEF Pushed
<1> HIDE DEF m
<1>5. 1 .. m + 1 = (1 .. m) \cup {m + 1} /\ m + 1 \notin 1 .. m
  BY <1>4
<1>6. \A j \in 1 .. m + 1 : FrameOK(s2[j], st, c) /\ Fits(s2[j], n)
  BY <1>3, <1>4, <1>5
<1>7. \A i \in 1 .. m : FrameSet(s2[i]) \cap FrameSet(g) = {} /\ FrameSet(s2[i]) = FrameSet(s[i])
  BY <1>4, FramesInFacts DEF Apart
<1>8. \A i, j \in 1 .. m + 1 : i # j => FrameSet(s2[i]) \cap FrameSet(s2[j]) = {}
  BY <1>2, <1>4, <1>5, <1>7
<1>9. FramesIn(s2) = FramesIn(s) \cup FrameSet(g)
  BY <1>4, <1>5, <1>7 DEF FramesIn
<1>10. s2 # <<>>
  BY <1>4
<1> QED
  BY <1>4, <1>6, <1>8, <1>9, <1>10 DEF StackOK, F, m

\* A level is left.
LEMMA StackPop ==
  ASSUME NEW st, NEW c \in BOOLEAN, NEW n, NEW s, StackOK(s, st, c, n), s # <<>>,
         NEW s2, s2 = Front(s)
  PROVE  /\ StackOK(s2, st, c, n) /\ Len(s2) = Len(s) - 1
         /\ FramesIn(s2) = FramesIn(s) \ FrameSet(s[Len(s)])
<1> DEFINE F == Frames(DOMAIN st)  m == Len(s)
<1>1. s \in Seq(F)
  BY DEF StackOK
<1>2. \A i, j \in DOMAIN s : i # j => FrameSet(s[i]) \cap FrameSet(s[j]) = {}
  BY DEF StackOK
<1>3. \A j \in DOMAIN s : FrameOK(s[j], st, c) /\ Fits(s[j], n)
  BY DEF StackOK
<1> HIDE DEF F
<1>4. /\ s2 \in Seq(F) /\ Len(s2) = m - 1 /\ \A i \in 1 .. m - 1 : s2[i] = s[i]
      /\ m \in Nat \ {0} /\ DOMAIN s = 1 .. m /\ DOMAIN s2 = 1 .. m - 1
  <2>1. m \in Nat \ {0} /\ DOMAIN s = 1 .. m
    BY <1>1, EmptySeq
  <2>2. /\ Front(s) \in Seq(F) /\ Len(Front(s)) = m - 1
        /\ \A i \in 1 .. m - 1 : Front(s)[i] = s[i]
    <3> DEFINE k == m - 1  f == SubSeq(s, 1, k)
    <3>1. k \in Int /\ 1 \in Int /\ k - 1 + 1 = k /\ \A i \in 1 .. k : s[i] \in F /\ 1 + i - 1 = i
      BY <1>1, <2>1
    <3>2. Front(s) = f
      BY DEF Front
    <3> HIDE DEF k, f
    <3>3. /\ f \in Seq(F) /\ Len(f) = IF 1 <= k THEN k - 1 + 1 ELSE 0
          /\ \A i \in 1 .. k - 1 + 1 : f[i] = s[1 + i - 1]
      BY <3>1, SubSeqProperties DEF f
    <3>4. Len(f) = k /\ \A i \in 1 .. k : f[i] = s[i]
      <4>1. k \in Nat
        BY <2>1 DEF k
      <4>2. Len(f) = k
        BY <3>1, <3>3, <4>1
      <4>3. ASSUME NEW i \in 1 .. k PROVE f[i] = s[i]
        <5>1. 1 + i - 1 = i /\ i \in 1 .. k - 1 + 1
          BY <3>1, <4>1
        <5>2. f[i] = s[1 + i - 1]
          BY <3>3, <5>1
        <5> QED
          BY <5>1, <5>2
      <4> QED
        BY <4>2, <4>3
    <3> QED
      BY <3>2, <3>3, <3>4 DEF k
  <2>3. DOMAIN Front(s) = 1 .. m - 1
    BY <2>2
  <2> QED
    BY <2>1, <2>2, <2>3
<1> HIDE DEF m
<1>5. 1 .. m = (1 .. m - 1) \cup {m} /\ m \notin 1 .. m - 1 /\ m \in 1 .. m
  BY <1>4
<1>6. \A j \in 1 .. m - 1 : FrameOK(s2[j], st, c) /\ Fits(s2[j], n)
  BY <1>3, <1>4, <1>5
<1>7. \A i, j \in 1 .. m - 1 : i # j => FrameSet(s2[i]) \cap FrameSet(s2[j]) = {}
  BY <1>2, <1>4, <1>5
<1>8. FramesIn(s2) = FramesIn(s) \ FrameSet(s[m])
  <2>1. \A i \in 1 .. m - 1 : FrameSet(s2[i]) = FrameSet(s[i]) /\ FrameSet(s[i]) \cap FrameSet(s[m]) = {}
    BY <1>2, <1>4, <1>5
  <2> QED
    BY <1>4, <1>5, <2>1 DEF FramesIn
<1> QED
  BY <1>4, <1>6, <1>7, <1>8 DEF StackOK, F, m

\* A stack of one level.
LEMMA StackOne ==
  ASSUME NEW st, NEW c \in BOOLEAN, NEW n, NEW g, FrameOK(g, st, c), Fits(g, n)
  PROVE  StackOK(<<g>>, st, c, n) /\ FramesIn(<<g>>) = FrameSet(g) /\ Len(<<g>>) = 1
<1> DEFINE s == <<g>>
<1>1. g \in Frames(DOMAIN st)
  BY DEF FrameOK
<1>2. s \in Seq(Frames(DOMAIN st)) /\ DOMAIN s = {1} /\ s[1] = g /\ Len(s) = 1
  BY <1>1
<1> HIDE DEF s
<1>3. StackOK(s, st, c, n)
  BY <1>2 DEF StackOK
<1>4. FramesIn(s) = FrameSet(g)
  BY <1>2 DEF FramesIn
<1> QED
  BY <1>2, <1>3, <1>4 DEF s

\* The empty stack.
LEMMA StackNone ==
  ASSUME NEW st, NEW c, NEW n
  PROVE  StackOK(<<>>, st, c, n) /\ FramesIn(<<>>) = {} /\ Len(<<>>) = 0
<1>1. <<>> \in Seq(Frames(DOMAIN st)) /\ DOMAIN <<>> = {} /\ Len(<<>>) = 0
  OBVIOUS
<1> QED
  BY <1>1 DEF StackOK, FramesIn

\* What is pruned below a path is a natural number.
LEMMA PrunedNat ==
  ASSUME NEW plan, IsPlan(plan), NEW p \in Nodes(plan)
  PROVE  Pruned(plan, p) \in Nat
<1> DEFINE B == {g \in Goals(plan) : IsPrefix(p, g)}
<1>1. IsFiniteSet(B) /\ Cardinality(B) = Pruned(plan, p)
  BY PrunedCounts
<1> HIDE DEF B
<1>2. Cardinality(B) \in Nat
  BY <1>1, FS_CardinalityType
<1> QED
  BY <1>1, <1>2

-----------------------------------------------------------------------------
(* The inductive invariant.                                                  *)
IInv == /\ RunOK /\ FramesOK /\ OthersOK /\ Where /\ TasksOK /\ PoolOK
        /\ SpineOK /\ NothingForgotten

\* What the code knows of its run.
LEMMA Context ==
  ASSUME RunOK
  PROVE  /\ Chosen /\ IsPlan(Tree) /\ Paths = Nodes(Tree) /\ Goals(Tree) \subseteq Paths
         /\ NoPath \notin Paths
         /\ strategy \in {"eager", "dfs", "bfs", "priority", "adaptive"}
         /\ \A p \in Paths : Skips[template][p] \in Nat /\ (Leaf(p) <=> IsLeaf(Tree, p))
         /\ \A p \in Paths : ~Leaf(p) => Below[template][p] = Children(Tree, p)
         /\ cancelled \in BOOLEAN
         /\ Threads \in Nat \ {0} /\ JobBuffer \in Nat \ {0} /\ PendingBuffer \in Nat \ {0}
         /\ MaxRetries \in Nat \ {0}
<1>1. Chosen /\ strategy \in {"eager", "dfs", "bfs", "priority", "adaptive"}
  BY FuzzAssumption DEF RunOK, Asked, Chosen
<1>2. /\ IsPlan(Tree) /\ Space[template].paths = Nodes(Tree)
      /\ \A p \in Nodes(Tree) : Leaf(p) <=> IsLeaf(Tree, p)
      /\ Space[template].last = LastDepth(Tree)
  BY <1>1, SpaceOfTree
<1>3. Paths = Nodes(Tree) /\ Goals(Tree) \subseteq Paths
  BY <1>2, AllPathsAreNodes DEF RunOK
<1>4. NoPath \notin Paths
  BY <1>2, <1>3, NodesFacts DEF NoPath
<1>5. \A p \in Paths : Skips[template][p] = Pruned(Tree, p)
  BY <1>1, <1>2, <1>3 DEF Skips, Chosen, Tree
<1>6. \A p \in Paths : ~Leaf(p) => Below[template][p] = Children(Tree, p)
  BY <1>1, <1>2, <1>3 DEF Below, Chosen, Tree, Leaf
<1>7. \A p \in Paths : Pruned(Tree, p) \in Nat
  BY <1>2, <1>3, PrunedNat
<1> QED
  BY <1>1, <1>2, <1>3, <1>4, <1>5, <1>6, <1>7, FuzzAssumption DEF RunOK

-----------------------------------------------------------------------------
(* The executor and its workers.                                             *)
Asking == {"queued", "ready", "sent"}

\* A step that moves no path leaves what is held.
LEMMA HeldSame ==
  ASSUME UNCHANGED <<strategy, template, visit>>
  PROVE  /\ Held' = Held /\ Others' = Others /\ FramesHeld' = FramesHeld /\ TasksHeld' = TasksHeld
         /\ Undelivered' = Undelivered /\ Tree' = Tree /\ Capacity' = Capacity
         /\ \A p : Leaf(p)' = Leaf(p)
BY DEF visit, Held, Others, FramesHeld, TasksHeld, Undelivered, FramesIn, Tree, Leaf, Capacity, Eager,
       FrameSet, PendPaths, LaterPaths

\* The worker of a request says what it has come to.
LEMMA PoolStep ==
  ASSUME IInv, UNCHANGED <<asked, cancelled, closed, yielded, visit>>,
         NEW p \in Paths, status[p] \in Asking, NEW a \in {"ready", "sent"} \cup Answers,
         status' = [status EXCEPT ![p] = a],
         PoolOK', tried' \in Nat, skipped' \in Nat
  PROVE  IInv'
<1>1. UNCHANGED <<strategy, template>>
  BY DEF asked
<1>2. /\ Held' = Held /\ Others' = Others /\ FramesHeld' = FramesHeld /\ TasksHeld' = TasksHeld
      /\ Undelivered' = Undelivered /\ Tree' = Tree /\ Capacity' = Capacity
      /\ \A q : Leaf(q)' = Leaf(q)
  BY <1>1, HeldSame
<1>3. UNCHANGED <<main, stack, cur, next, deque, inFlight, waiting, completed, burst>>
  BY DEF visit
<1>4. RunOK /\ FramesOK /\ OthersOK /\ Where /\ TasksOK /\ SpineOK /\ NothingForgotten
  BY DEF IInv
<1>5. /\ Chosen /\ Paths = Nodes(Tree) /\ Goals(Tree) \subseteq Paths
      /\ NoPath \notin Paths /\ cancelled \in BOOLEAN
  BY <1>4, Context
<1>6. Paths' = Paths /\ \A q \in Paths : q # p => status'[q] = status[q]
  BY DEF Paths
<1>7. status'[p] = a /\ a # "none" /\ status[p] # "none"
  BY DEF Paths, Asking, Answers
<1>8. RunOK'
  BY <1>1, <1>2, <1>4, <1>6 DEF RunOK, Asked
<1>9. FramesOK'
  <2>1. FramesHeld \subseteq Paths
    BY <1>4 DEF SpineOK, Spine, Held, Paths
  <2>2. \A q \in FramesIn(stack) : status'[q] = "none" <=> status[q] = "none"
    BY <1>6, <1>7, <2>1 DEF FramesHeld
  <2>3. StackOK(stack, status, cancelled, Capacity) /\ FramesHeld \cap Others = {}
    BY <1>4 DEF FramesOK
  <2>4. DOMAIN status' = DOMAIN status
    BY <1>6 DEF Paths
  <2> DEFINE st2 == status'  n == Capacity
  <2>6. /\ StackOK(stack, status, cancelled, n) /\ DOMAIN st2 = DOMAIN status
        /\ \A q \in FramesIn(stack) : st2[q] = "none" <=> status[q] = "none"
    BY <2>2, <2>3, <2>4
  <2> HIDE DEF st2, n
  <2>5. StackOK(stack, st2, cancelled, n)
    BY <1>5, <2>6, StackElsewhere
  <2> QED
    BY <1>2, <1>3, <2>3, <2>5 DEF FramesOK, st2, n
<1>10. OthersOK'
  <2>1. BurstOK'
    BY <1>2, <1>3, <1>4, <1>6, <1>7 DEF OthersOK, BurstOK
  <2>2. \A q \in ToSet(next) : status[q] = "accepted" /\ q # p /\ q \in Paths /\ ~Leaf(q)
    BY <1>4 DEF OthersOK, Asking, ToSet
  <2>3. \A q \in ToSet(next) : status'[q] = "accepted" /\ ~Leaf(q)'
    BY <1>2, <1>6, <2>2
  <2>4. cur # NoPath => cur \in Paths /\ status'[cur] # "none"
    BY <1>4, <1>6, <1>7 DEF OthersOK
  <2> QED
    BY <1>1, <1>3, <1>4, <1>6, <2>1, <2>3, <2>4 DEF OthersOK
<1>11. Where'
  BY <1>1, <1>2, <1>3, <1>4 DEF Where, Eager, Priority, CanDispatch
<1>12. TasksOK'
  <2>1. /\ \A q \in ToSet(deque) : q \in Paths /\ status[q] = "none"
        /\ \A q \in waiting : q \in Paths /\ status[q] # "none"
        /\ \A q \in ToSet(completed) : q \in Paths /\ Answered(q)
    BY <1>4 DEF TasksOK, ToSet
  <2>2. \A q \in ToSet(deque) : status'[q] = "none"
    BY <1>6, <1>7, <2>1
  <2>3. \A q \in waiting : status'[q] # "none"
    BY <1>6, <1>7, <2>1
  <2>4. \A q \in ToSet(completed) : Answered(q)'
    BY <1>6, <2>1 DEF Answered, Asking, Answers
  <2> QED
    BY <1>3, <1>4, <1>6, <2>2, <2>3, <2>4 DEF TasksOK
<1>13. SpineOK'
  <2>1. Spine(Held, status, yielded) /\ p \in DOMAIN status /\ status[p] \notin {"none", "accepted"}
    BY <1>4 DEF SpineOK, Paths, Asking
  <2>2. Spine(Held, status', yielded)
    <3> DEFINE H == Held  st2 == status'
    <3> HIDE DEF H, st2
    <3>1. Spine(H, st2, yielded)
      BY <2>1, SpineStatus DEF H, st2
    <3> QED
      BY <3>1 DEF H, st2
  <2> QED
    BY <1>2, <2>2 DEF SpineOK
<1>14. NothingForgotten'
  <2> SUFFICES ASSUME ~cancelled PROVE Remembers(Goals(Tree), Held, Undelivered, status', yielded)
    BY <1>1, <1>2 DEF NothingForgotten
  <2> DEFINE H == Held  R == Undelivered  G == Goals(Tree)  st2 == status'
  <2>1. Remembers(G, H, R, status, yielded) /\ G \subseteq DOMAIN status
    BY <1>4, <1>5 DEF NothingForgotten, Paths
  <2>2. p \in DOMAIN status /\ status[p] \notin Answers /\ status[p] # "none"
    BY <1>7 DEF Paths, Asking, Answers
  <2> HIDE DEF H, R, G, st2
  <2>3. Remembers(G, H, R, st2, yielded)
    BY <2>1, <2>2, RemembersStatus DEF st2
  <2> QED
    BY <2>3 DEF H, R, G, st2
<1> QED
  BY <1>8, <1>9, <1>10, <1>11, <1>12, <1>13, <1>14 DEF IInv

\* A cancellation only weakens what is claimed.
LEMMA CancelKeeps ==
  ASSUME IInv, Cancel
  PROVE  IInv'
<1>1. UNCHANGED <<strategy, template, visit, closed, status, tries, jobs, tried, skipped, yielded>>
      /\ cancelled' = TRUE
  BY DEF Cancel, asked, pool
<1>2. /\ Held' = Held /\ Others' = Others /\ FramesHeld' = FramesHeld /\ TasksHeld' = TasksHeld
      /\ Undelivered' = Undelivered /\ Tree' = Tree /\ Capacity' = Capacity
      /\ \A q : Leaf(q)' = Leaf(q)
  BY <1>1, HeldSame
<1>3. UNCHANGED <<main, stack, cur, next, deque, inFlight, waiting, completed, burst>>
  BY <1>1 DEF visit
<1>4. RunOK /\ FramesOK /\ OthersOK /\ Where /\ TasksOK /\ PoolOK /\ SpineOK
  BY DEF IInv
<1>5. Paths' = Paths /\ cancelled \in BOOLEAN
  BY <1>1, <1>4 DEF Paths, RunOK
<1>6. RunOK'
  BY <1>1, <1>2, <1>4, <1>5 DEF RunOK, Asked
<1>7. FramesOK'
  <2>1. StackOK(stack, status, cancelled, Capacity) /\ FramesHeld \cap Others = {}
    BY <1>4 DEF FramesOK
  <2>2. StackOK(stack, status, TRUE, Capacity)
    BY <1>5, <2>1, StackElsewhere
  <2> QED
    BY <1>1, <1>2, <1>3, <2>1, <2>2 DEF FramesOK
<1>8. OthersOK'
  <2>1. \A q \in ToSet(next) : ~Leaf(q)'
    BY <1>2, <1>4 DEF OthersOK
  <2>2. BurstOK'
    BY <1>1, <1>2, <1>3, <1>4, <1>5 DEF OthersOK, BurstOK
  <2> QED
    BY <1>1, <1>3, <1>4, <1>5, <2>1, <2>2 DEF OthersOK
<1>9. Where'
  BY <1>1, <1>2, <1>3, <1>4 DEF Where, Eager, Priority, CanDispatch
<1>10. TasksOK'
  BY <1>1, <1>3, <1>4, <1>5 DEF TasksOK, Answered
<1>11. PoolOK'
  BY <1>1, <1>4, <1>5 DEF PoolOK
<1>12. SpineOK' /\ NothingForgotten'
  BY <1>1, <1>2, <1>4 DEF SpineOK, NothingForgotten
<1> QED
  BY <1>6, <1>7, <1>8, <1>9, <1>10, <1>11, <1>12 DEF IInv

\* A worker finishes a path, or tries it again.
LEMMA ReplyPool ==
  ASSUME PoolOK, UNCHANGED jobs, MaxRetries \in Nat \ {0},
         NEW p \in Paths, status[p] \in {"ready", "sent"}, NEW a \in {"ready"} \cup Answers,
         a = "ready" => tries[p] # MaxRetries, Reply(p, a)
  PROVE  PoolOK'
<1>1. Paths' = Paths /\ p \in DOMAIN status /\ DOMAIN tries = Paths /\ tries[p] \in 0 .. MaxRetries
  BY DEF Reply, Paths, PoolOK
<1>2. status' = [status EXCEPT ![p] = a] /\ tries' = [tries EXCEPT ![p] = IF a \in Answers THEN 0 ELSE tries[p]]
  BY <1>1 DEF Reply
<1>3. \A q \in ToSet(jobs) : q # p /\ q \in Paths /\ status'[q] = "queued"
  BY <1>1, <1>2 DEF PoolOK, ToSet
<1>4. /\ status' \in [Paths -> {"none", "queued", "ready", "sent"} \cup Answers]
      /\ tries' \in [Paths -> 0 .. MaxRetries]
  BY <1>1, <1>2 DEF PoolOK
<1>5. \A q \in Paths : /\ status'[q] = "ready" => tries'[q] < MaxRetries
                       /\ status'[q] \notin {"ready", "sent"} => tries'[q] = 0
  <2> SUFFICES ASSUME NEW q \in Paths
               PROVE  /\ status'[q] = "ready" => tries'[q] < MaxRetries
                      /\ status'[q] \notin {"ready", "sent"} => tries'[q] = 0
    OBVIOUS
  <2>1. CASE q # p
    BY <1>1, <1>2, <2>1 DEF PoolOK, Paths
  <2>2. CASE q = p
    <3>1. status'[p] = a /\ tries'[p] = IF a \in Answers THEN 0 ELSE tries[p]
      BY <1>1, <1>2
    <3>2. CASE a = "ready"
      BY <1>1, <2>2, <3>1, <3>2 DEF Answers
    <3>3. CASE a # "ready"
      BY <2>2, <3>1, <3>3
    <3> QED
      BY <3>2, <3>3
  <2> QED
    BY <2>1, <2>2
<1> QED
  BY <1>1, <1>3, <1>4, <1>5 DEF PoolOK

\* A worker takes a path from jobsChan.
LEMMA ReceiveKeeps ==
  ASSUME IInv, Receive
  PROVE  IInv'
<1> DEFINE p == Head(jobs)  a == IF cancelled THEN "error" ELSE "ready"
<1>1. PoolOK /\ RunOK
  BY DEF IInv
<1>2. jobs # <<>> /\ jobs' = Tail(jobs) /\ Reply(p, a) /\ UNCHANGED <<asked, cancelled, closed, yielded, visit, tried, skipped>>
  BY DEF Receive
<1>3. jobs \in Seq(Paths) /\ IsInjective(jobs)
  BY <1>1 DEF PoolOK
<1>4. /\ p \in Paths /\ Tail(jobs) \in Seq(Paths) /\ Len(Tail(jobs)) = Len(jobs) - 1
      /\ IsInjective(Tail(jobs)) /\ p \notin ToSet(Tail(jobs))
      /\ ToSet(jobs) = {p} \cup ToSet(Tail(jobs)) /\ ToSet(Tail(jobs)) \subseteq Paths
  BY <1>2, <1>3, HeadTailOnce
<1>5. /\ a \in {"ready", "sent"} \cup Answers /\ MaxRetries \in Nat \ {0}
  BY <1>1, Context DEF Answers
<1> HIDE DEF p, a
<1>6. Paths' = Paths /\ p \in DOMAIN status /\ DOMAIN tries = Paths /\ status[p] = "queued" /\ tries[p] = 0
  BY <1>1, <1>2, <1>4 DEF Reply, Paths, PoolOK
<1>7. status' = [status EXCEPT ![p] = a] /\ tries' = [tries EXCEPT ![p] = IF a \in Answers THEN 0 ELSE tries[p]]
  BY <1>2, <1>6 DEF Reply
<1>8. PoolOK'
  <2>1. \A q \in Paths : tries'[q] = tries[q]
    BY <1>6, <1>7
  <2>2. tries' \in [Paths -> 0 .. MaxRetries]
    BY <1>1, <1>6, <1>7 DEF PoolOK
  <2>3. status' \in [Paths -> {"none", "queued", "ready", "sent"} \cup Answers]
    BY <1>1, <1>5, <1>6, <1>7 DEF PoolOK
  <2>4. \A q \in Paths : /\ status'[q] = "ready" => tries'[q] < MaxRetries
                         /\ status'[q] \notin {"ready", "sent"} => tries'[q] = 0
    <3> SUFFICES ASSUME NEW q \in Paths
                 PROVE  /\ status'[q] = "ready" => tries'[q] < MaxRetries
                        /\ status'[q] \notin {"ready", "sent"} => tries'[q] = 0
      OBVIOUS
    <3>1. CASE q = p
      BY <1>5, <1>6, <2>1, <3>1
    <3>2. CASE q # p
      BY <1>1, <1>7, <2>1, <3>2 DEF PoolOK, Paths
    <3> QED
      BY <3>1, <3>2
  <2>5. Len(Tail(jobs)) <= JobBuffer
    <3>1. Len(jobs) \in Nat /\ Len(jobs) <= JobBuffer /\ JobBuffer \in Nat
      BY <1>1, <1>3, Context DEF PoolOK
    <3> QED
      BY <1>4, <3>1
  <2>6. \A q \in ToSet(Tail(jobs)) : status'[q] = "queued"
    BY <1>1, <1>4, <1>7 DEF PoolOK, Paths
  <2> QED
    BY <1>2, <1>4, <1>6, <2>2, <2>3, <2>4, <2>5, <2>6 DEF PoolOK
<1>9. tried' \in Nat /\ skipped' \in Nat
  BY <1>1, <1>2 DEF RunOK
<1>10. status[p] \in Asking
  BY <1>6 DEF Asking
<1> QED
  BY <1>2, <1>4, <1>5, <1>7, <1>8, <1>9, <1>10, PoolStep

\* What a worker does with its path.
LEMMA WorkKeeps ==
  ASSUME IInv, NEW p \in Paths, Work(p)
  PROVE  IInv'
<1>1. PoolOK /\ RunOK
  BY DEF IInv
<1>2. MaxRetries \in Nat \ {0} /\ tried \in Nat /\ skipped \in Nat /\ Counts(p) \in Nat
  BY <1>1, Context DEF RunOK, Counts
<1>3. p \in DOMAIN status /\ DOMAIN tries = Paths /\ tries[p] \in 0 .. MaxRetries
  BY <1>1 DEF PoolOK, Paths
<1>4. CASE Malformed(p) \/ GiveUp(p)
  <2>1. status[p] = "ready" /\ Reply(p, "error") /\ UNCHANGED <<asked, cancelled, closed, yielded, visit, jobs>>
    BY <1>4 DEF Malformed, GiveUp
  <2>2. tried' \in Nat /\ skipped' \in Nat
    BY <1>2, <1>4 DEF Malformed, GiveUp
  <2>3. "error" \in Answers /\ status[p] \in Asking
    BY <2>1 DEF Answers, Asking
  <2>4. PoolOK'
    BY <1>1, <1>2, <2>1, <2>3, ReplyPool
  <2>5. status' = [status EXCEPT ![p] = "error"]
    BY <2>1 DEF Reply
  <2> QED
    BY <2>1, <2>2, <2>3, <2>4, <2>5, PoolStep
<1>5. CASE SendRequest(p)
  <2>1. /\ status[p] = "ready" /\ UNCHANGED <<asked, cancelled, closed, yielded, visit, jobs>>
        /\ status' = [status EXCEPT ![p] = "sent"] /\ tries' = [tries EXCEPT ![p] = tries[p] + 1]
        /\ skipped' = skipped
    BY <1>3, <1>5 DEF SendRequest
  <2>2. tried' \in Nat /\ skipped' \in Nat
    BY <1>2, <1>5, <2>1 DEF SendRequest
  <2>3. tries[p] < MaxRetries /\ status[p] \in Asking /\ tries[p] + 1 \in 0 .. MaxRetries
    <3>1. tries[p] < MaxRetries
      BY <1>1, <2>1 DEF PoolOK
    <3> QED
      BY <1>2, <1>3, <2>1, <3>1 DEF Asking
  <2>4. PoolOK'
    <3>1. Paths' = Paths
      BY <2>1 DEF Paths
    <3>2. /\ status' \in [Paths -> {"none", "queued", "ready", "sent"} \cup Answers]
          /\ tries' \in [Paths -> 0 .. MaxRetries]
      BY <1>1, <1>3, <2>1, <2>3 DEF PoolOK
    <3>3. \A q \in Paths : /\ status'[q] = "ready" => tries'[q] < MaxRetries
                           /\ status'[q] \notin {"ready", "sent"} => tries'[q] = 0
      BY <1>1, <1>3, <2>1 DEF PoolOK, Paths
    <3>4. \A q \in ToSet(jobs) : status'[q] = "queued"
      <4>1. \A q \in ToSet(jobs) : q \in Paths /\ status[q] = "queued"
        BY <1>1 DEF PoolOK, ToSet
      <4> QED
        BY <2>1, <4>1 DEF Paths
    <3> QED
      BY <1>1, <2>1, <3>1, <3>2, <3>3, <3>4 DEF PoolOK
  <2> QED
    BY <2>1, <2>2, <2>3, <2>4, PoolStep
<1>6. CASE Respond(p)
  <2>1. PICK a \in Answers : Reply(p, a)
    BY <1>6 DEF Respond
  <2>2. status[p] = "sent" /\ UNCHANGED <<asked, cancelled, closed, yielded, visit, jobs, tried, skipped>>
    BY <1>6 DEF Respond
  <2>3. a # "ready" /\ status[p] \in Asking
    BY <2>2 DEF Answers, Asking
  <2>4. PoolOK'
    BY <1>1, <1>2, <2>1, <2>2, <2>3, ReplyPool
  <2>5. status' = [status EXCEPT ![p] = a]
    BY <2>1 DEF Reply
  <2> QED
    BY <1>2, <2>2, <2>3, <2>4, <2>5, PoolStep
<1>7. CASE Fail(p)
  <2> DEFINE a == IF cancelled \/ tries[p] = MaxRetries THEN "error" ELSE "ready"
  <2>1. /\ status[p] = "sent" /\ UNCHANGED <<asked, cancelled, closed, yielded, visit, jobs, tried, skipped>>
        /\ Reply(p, a)
    BY <1>7 DEF Fail
  <2>2. a \in {"ready"} \cup Answers /\ (a = "ready" => tries[p] # MaxRetries)
    BY DEF Answers
  <2>3. status[p] \in Asking
    BY <2>1 DEF Asking
  <2> HIDE DEF a
  <2>4. PoolOK'
    BY <1>1, <1>2, <2>1, <2>2, ReplyPool
  <2>5. status' = [status EXCEPT ![p] = a]
    BY <2>1 DEF Reply
  <2> QED
    BY <1>2, <2>1, <2>2, <2>3, <2>4, <2>5, PoolStep
<1> QED
  BY <1>4, <1>5, <1>6, <1>7 DEF Work

-----------------------------------------------------------------------------
(* Requests are submitted.                                                   *)
LEMMA EnqueuePool ==
  ASSUME PoolOK, RunOK, NEW p \in Paths, status[p] = "none", Enqueue(p)
  PROVE  /\ PoolOK' /\ status' = [status EXCEPT ![p] = "queued"] /\ Paths' = Paths
         /\ status'[p] = "queued" /\ \A q \in Paths : q # p => status'[q] = status[q]
<1>1. Paths' = Paths /\ p \in DOMAIN status
  BY DEF Enqueue, Paths
<1>2. /\ jobs' = Append(jobs, p) /\ Len(jobs) < JobBuffer /\ UNCHANGED tries
      /\ status' = [status EXCEPT ![p] = "queued"]
  BY DEF Enqueue, CanSend
<1>3. jobs \in Seq(Paths) /\ IsInjective(jobs) /\ \A q \in ToSet(jobs) : q \in Paths /\ status[q] = "queued"
  BY DEF PoolOK, ToSet
<1>4. p \notin ToSet(jobs)
  BY <1>3
<1>5. /\ jobs' \in Seq(Paths) /\ Len(jobs') = Len(jobs) + 1 /\ IsInjective(jobs')
      /\ ToSet(jobs') = ToSet(jobs) \cup {p}
  <2> DEFINE P == Paths  s == Append(jobs, p)
  <2>1. jobs \in Seq(P) /\ p \in P /\ jobs' = s
    BY <1>2, <1>3
  <2> HIDE DEF P
  <2>2. /\ s \in Seq(P) /\ Len(s) = Len(jobs) + 1 /\ IsInjective(s) /\ ToSet(s) = ToSet(jobs) \cup {p}
    BY <1>3, <1>4, <2>1, AppendOnce
  <2> HIDE DEF s
  <2> QED
    BY <2>1, <2>2 DEF P
<1>6. Len(jobs') <= JobBuffer
  BY <1>2, <1>3, <1>5, Context
<1>7. \A q \in ToSet(jobs') : status'[q] = "queued"
  BY <1>1, <1>2, <1>3, <1>5 DEF Paths
<1>8. /\ status' \in [Paths -> {"none", "queued", "ready", "sent"} \cup Answers]
      /\ tries' \in [Paths -> 0 .. MaxRetries]
  BY <1>2 DEF PoolOK
<1>9. \A q \in Paths : /\ status'[q] = "ready" => tries'[q] < MaxRetries
                       /\ status'[q] \notin {"ready", "sent"} => tries'[q] = 0
  BY <1>1, <1>2 DEF PoolOK, Paths
<1>10. PoolOK'
  BY <1>1, <1>5, <1>6, <1>7, <1>8, <1>9 DEF PoolOK
<1> QED
  BY <1>1, <1>2, <1>10 DEF Paths

\* A held path is asked for; nothing else is said.
LEMMA AskKeeps ==
  ASSUME IInv, NEW p \in Undelivered, status[p] = "none", status' = [status EXCEPT ![p] = "queued"],
         Held' = Held, Undelivered' = Undelivered,
         UNCHANGED <<asked, cancelled, closed, tried, skipped, yielded>>
  PROVE  RunOK' /\ SpineOK' /\ NothingForgotten'
<1>1. UNCHANGED <<strategy, template>> /\ Tree' = Tree /\ Paths' = Paths
  BY DEF asked, Tree, Paths
<1>2. RunOK /\ SpineOK /\ NothingForgotten
  BY DEF IInv
<1>3. p \in Held /\ p \in DOMAIN status /\ Goals(Tree) \subseteq DOMAIN status
  BY <1>2, Context DEF Undelivered, SpineOK, Spine, Paths
<1>4. RunOK'
  BY <1>1, <1>2 DEF RunOK, Asked
<1> DEFINE H == Held  R == Undelivered  G == Goals(Tree)  st2 == status'
<1>5. /\ Spine(H, status, yielded) /\ p \in H /\ p \in R /\ st2 = [status EXCEPT ![p] = "queued"]
      /\ ~cancelled => Remembers(G, H, R, status, yielded)
      /\ G \subseteq DOMAIN status
  BY <1>2, <1>3 DEF SpineOK, NothingForgotten
<1>6. status[p] \notin Answers
  BY DEF Answers
<1> HIDE DEF H, R, G, st2
<1>7. Spine(H, st2, yielded)
  BY <1>3, <1>5, SpineStatus
<1>8. ~cancelled => Remembers(G, H, R, st2, yielded)
  BY <1>3, <1>5, <1>6, RemembersStatus
<1> QED
  BY <1>1, <1>4, <1>7, <1>8 DEF SpineOK, NothingForgotten, H, R, G, st2

\* The paths of a level are in nobody else's hands.
LEMMA FrameAlone ==
  ASSUME IInv, NEW k \in DOMAIN stack
  PROVE  /\ FrameSet(stack[k]) \subseteq FramesHeld /\ FramesHeld \subseteq Held /\ Held \subseteq Paths
         /\ FrameSet(stack[k]) \subseteq Undelivered
         /\ FrameOK(stack[k], status, cancelled)
         /\ Len(stack[k].pend) \in Nat /\ Capacity \in Nat
         /\ stack # <<>> /\ ~Priority /\ TasksHeld = {} /\ FramesHeld \cap Others = {}
         /\ NoPath \notin DOMAIN status /\ cancelled \in BOOLEAN
<1>1. FramesOK /\ Where /\ SpineOK /\ RunOK
  BY DEF IInv
<1>2. FrameSet(stack[k]) \subseteq FramesHeld
  BY FramesInFacts DEF FramesHeld
<1>3. FramesHeld \subseteq Held /\ Held \subseteq Paths
  BY <1>1 DEF Held, SpineOK, Spine, Paths
<1>4. FramesHeld \cap Others = {} /\ StackOK(stack, status, cancelled, Capacity)
  BY <1>1 DEF FramesOK
<1>5. FrameSet(stack[k]) \subseteq Undelivered
  BY <1>2, <1>3, <1>4 DEF Undelivered, Others
<1>6. FrameOK(stack[k], status, cancelled)
  BY <1>4 DEF StackOK
<1>7. Len(stack[k].pend) \in Nat
  <2>1. stack[k] \in Frames(DOMAIN status)
    BY <1>6 DEF FrameOK
  <2>2. stack[k].pend \in Seq(Calls(DOMAIN status))
    BY <2>1, TypedFrame
  <2> QED
    BY <2>2
<1>8. stack # <<>>
  OBVIOUS
<1>9. ~Priority /\ TasksHeld = {}
  BY <1>1, <1>8 DEF Where
<1> QED
  BY <1>1, <1>2, <1>3, <1>4, <1>5, <1>6, <1>7, <1>8, <1>9, Context DEF Capacity, Paths

\* A level goes on with the same paths.
LEMMA LevelStep ==
  ASSUME IInv, NEW k \in DOMAIN stack, SubmitterOnly,
         NEW g, stack' = [stack EXCEPT ![k] = g], FrameOK(g, status', cancelled),
         FrameSet(g) = FrameSet(stack[k]), Fits(g, Capacity),
         DOMAIN status' = DOMAIN status,
         \A q \in Paths : q \notin FrameSet(stack[k]) => status'[q] = status[q]
  PROVE  FramesOK' /\ OthersOK' /\ Where' /\ TasksOK' /\ Held' = Held /\ Undelivered' = Undelivered
<1>1. UNCHANGED <<strategy, template, cancelled, main, cur, next, deque, inFlight, waiting, completed, burst>>
  BY DEF SubmitterOnly, asked
<1>2. FramesOK /\ OthersOK /\ Where /\ TasksOK
  BY DEF IInv
<1>3. /\ FrameSet(stack[k]) \subseteq FramesHeld /\ FramesHeld \subseteq Held /\ Held \subseteq Paths
      /\ stack # <<>> /\ ~Priority /\ TasksHeld = {} /\ FramesHeld \cap Others = {}
      /\ cancelled \in BOOLEAN
  BY FrameAlone
<1>4. /\ StackOK(stack', status', cancelled, Capacity) /\ Len(stack') = Len(stack)
      /\ FramesIn(stack') = FramesIn(stack) /\ DOMAIN stack' = DOMAIN stack
  <2> DEFINE st2 == status'  n == Capacity  s2 == stack'  st == status  c == cancelled
  <2>1. /\ StackOK(stack, st, c, n) /\ DOMAIN st2 = DOMAIN st /\ c \in BOOLEAN
        /\ \A q \in FramesIn(stack) : q \notin FrameSet(stack[k]) => (st2[q] = "none" <=> st[q] = "none")
        /\ FrameOK(g, st2, c) /\ FrameSet(g) \subseteq FrameSet(stack[k]) /\ Fits(g, n)
        /\ s2 = Changed(stack, k, g)
    BY <1>2, <1>3 DEF FramesOK, FramesHeld, Changed
  <2> HIDE DEF st2, n, s2, st, c
  <2>2. /\ StackOK(s2, st2, c, n) /\ Len(s2) = Len(stack) /\ DOMAIN s2 = DOMAIN stack
        /\ FramesIn(s2) = (FramesIn(stack) \ FrameSet(stack[k])) \cup FrameSet(g)
    BY <2>1, StackReplace
  <2>3. FramesIn(s2) = FramesIn(stack)
    BY <1>3, <2>2 DEF FramesHeld
  <2> QED
    BY <2>2, <2>3 DEF st2, n, s2, c
<1>5. Others' = Others /\ TasksHeld' = TasksHeld /\ FramesHeld' = FramesHeld
  BY <1>1, <1>4 DEF Others, TasksHeld, FramesHeld
<1>6. Held' = Held /\ Undelivered' = Undelivered
  BY <1>1, <1>5 DEF Held, Undelivered
<1>7. Capacity' = Capacity /\ \A q : Leaf(q)' = Leaf(q)
  BY <1>1 DEF Capacity, Eager, Leaf
<1>8. FramesOK'
  BY <1>1, <1>3, <1>4, <1>5, <1>7 DEF FramesOK
<1>9. Paths' = Paths
  BY DEF Paths
<1>10. \A q \in Others : q \in Paths /\ status'[q] = status[q]
  BY <1>3 DEF Held
<1>11. OthersOK'
  <2>1. \A q \in DOMAIN burst : status'[q] = status[q]
    BY <1>10 DEF Others
  <2>2. BurstOK'
    BY <1>1, <1>2, <1>7, <1>9, <2>1 DEF OthersOK, BurstOK
  <2>3. \A q \in ToSet(next) : status'[q] = "accepted" /\ ~Leaf(q)'
    BY <1>2, <1>7, <1>10 DEF OthersOK, Others
  <2>4. cur # NoPath => status'[cur] = status[cur]
    BY <1>10 DEF Others
  <2>5. stack' # <<>>
    BY <1>3, <1>4
  <2> QED
    BY <1>1, <1>2, <1>9, <2>2, <2>3, <2>4, <2>5 DEF OthersOK
<1>12. Where'
  <2>1. stack' # <<>>
    BY <1>3, <1>4
  <2> QED
    BY <1>1, <1>2, <1>3, <1>4, <1>5, <1>6, <1>7, <2>1 DEF Where, Eager, Priority, CanDispatch
<1>13. TasksOK'
  <2>1. ToSet(deque) = {} /\ waiting = {} /\ ToSet(completed) = {}
    BY <1>3 DEF TasksHeld
  <2> QED
    BY <1>1, <1>2, <1>9, <2>1 DEF TasksOK
<1> QED
  BY <1>6, <1>8, <1>11, <1>12, <1>13

\* A step that leaves the executor alone.
LEMMA PoolSame ==
  ASSUME PoolOK, UNCHANGED pool
  PROVE  PoolOK' /\ Paths' = Paths
BY DEF pool, PoolOK, Paths

\* It changes nothing but its own state.
LEMMA LevelOnly ==
  ASSUME IInv, NEW k \in DOMAIN stack, SubmitterOnly, UNCHANGED pool,
         NEW g, stack' = [stack EXCEPT ![k] = g], FrameOK(g, status, cancelled),
         FrameSet(g) = FrameSet(stack[k]), Fits(g, Capacity)
  PROVE  IInv' /\ Held' = Held
<1>1. /\ UNCHANGED <<strategy, template, cancelled, status, tried, skipped, yielded, closed>>
      /\ PoolOK' /\ Paths' = Paths /\ Tree' = Tree
  BY PoolSame DEF SubmitterOnly, asked, pool, IInv, Tree
<1>2. FramesOK' /\ OthersOK' /\ Where' /\ TasksOK' /\ Held' = Held /\ Undelivered' = Undelivered
  BY <1>1, LevelStep
<1>3. RunOK' /\ SpineOK' /\ NothingForgotten'
  BY <1>1, <1>2 DEF IInv, RunOK, Asked, SpineOK, NothingForgotten
<1> QED
  BY <1>1, <1>2, <1>3 DEF IInv

\* The goroutine of a level.
LEMMA SubmitterKeeps ==
  ASSUME IInv, NEW k \in DOMAIN stack, Submitter(k)
  PROVE  IInv' /\ Held' = Held
<1> DEFINE f == stack[k]
<1>1. /\ FrameOK(f, status, cancelled) /\ Len(f.pend) \in Nat /\ Capacity \in Nat
      /\ NoPath \notin DOMAIN status /\ cancelled \in BOOLEAN
      /\ FrameSet(f) \subseteq Undelivered /\ FrameSet(f) \subseteq Paths
  BY FrameAlone
<1>2. Fits(f, Capacity)
  BY DEF IInv, FramesOK, StackOK
<1>3. ASSUME StopSubmitting(k) PROVE IInv' /\ Held' = Held
  <2> DEFINE g == At(f, "closed")
  <2>1. /\ stack' = [stack EXCEPT ![k] = g] /\ UNCHANGED pool /\ SubmitterOnly
        /\ f.pc = "check" /\ (f.todo = <<>> \/ cancelled)
    BY <1>3 DEF StopSubmitting, FrameTo
  <2>2. FrameOK(g, status, cancelled) /\ FrameSet(g) = FrameSet(f) /\ g.pend = f.pend
    <3> DEFINE pc == "closed"
    <3>1. MayGo(f, cancelled, pc) /\ g = At(f, pc)
      BY <2>1 DEF MayGo
    <3> HIDE DEF f, g, pc
    <3> QED
      BY <1>1, <3>1, FrameAt
  <2>3. Fits(g, Capacity)
    BY <1>2, <2>2 DEF Fits
  <2> HIDE DEF f, g
  <2>4. stack' = [stack EXCEPT ![k] = g] /\ FrameSet(g) = FrameSet(stack[k])
    BY <2>1, <2>2 DEF f
  <2> QED
    BY <2>1, <2>2, <2>3, <2>4, LevelOnly
<1>4. ASSUME ContinueSubmitting(k) PROVE IInv' /\ Held' = Held
  <2> DEFINE g == At(f, "submit")
  <2>1. /\ stack' = [stack EXCEPT ![k] = g] /\ UNCHANGED pool /\ SubmitterOnly
        /\ f.pc = "check" /\ f.todo # <<>>
    BY <1>4 DEF ContinueSubmitting, FrameTo
  <2>2. FrameOK(g, status, cancelled) /\ FrameSet(g) = FrameSet(f) /\ g.pend = f.pend
    <3> DEFINE pc == "submit"
    <3>1. MayGo(f, cancelled, pc) /\ g = At(f, pc)
      BY <2>1 DEF MayGo
    <3> HIDE DEF f, g, pc
    <3> QED
      BY <1>1, <3>1, FrameAt
  <2>3. Fits(g, Capacity)
    BY <1>2, <2>2 DEF Fits
  <2> HIDE DEF f, g
  <2>4. stack' = [stack EXCEPT ![k] = g] /\ FrameSet(g) = FrameSet(stack[k])
    BY <2>1, <2>2 DEF f
  <2> QED
    BY <2>1, <2>2, <2>3, <2>4, LevelOnly
<1>5. ASSUME Submit(k) PROVE IInv' /\ Held' = Held
  <2> DEFINE p == Head(f.todo)  g == Frame(f.todo, "publish", p, f.pend, f.later)  st2 == status'
  <2>1. stack' = [stack EXCEPT ![k] = g] /\ Enqueue(p) /\ SubmitterOnly /\ f.pc = "submit"
    BY <1>5 DEF Submit, FrameTo
  <2>2. st2 = [status EXCEPT ![p] = "queued"]
    BY <2>1 DEF Enqueue
  <2>8. st2 = Changed(status, p, "queued")
    BY <2>2 DEF Changed
  <2>3. /\ FrameOK(g, st2, cancelled) /\ FrameSet(g) = FrameSet(f) /\ g.pend = f.pend
        /\ p \in FrameSet(f) /\ p \in DOMAIN status /\ status[p] = "none"
    <3>1. p = Head(f.todo) /\ g = Frame(f.todo, "publish", p, f.pend, f.later)
      OBVIOUS
    <3> HIDE DEF f, p, st2, g
    <3> QED
      BY <1>1, <2>1, <2>8, <3>1, FrameSubmit
  <2> HIDE DEF g, p
  <2>4. /\ PoolOK' /\ Paths' = Paths /\ p \in Paths /\ p \in Undelivered
        /\ \A q \in Paths : q # p => status'[q] = status[q]
    BY <1>1, <2>1, <2>3, EnqueuePool DEF IInv
  <2>5. UNCHANGED <<asked, cancelled, closed, tried, skipped, yielded>>
    BY <2>1 DEF SubmitterOnly, Enqueue
  <2>6. FramesOK' /\ OthersOK' /\ Where' /\ TasksOK' /\ Held' = Held /\ Undelivered' = Undelivered
    <3>1. \A q \in Paths : q \notin FrameSet(stack[k]) => status'[q] = status[q]
      BY <2>3, <2>4
    <3>2. DOMAIN status' = DOMAIN status
      BY <2>4 DEF Paths
    <3>3. Fits(g, Capacity)
      BY <1>2, <2>3 DEF Fits
    <3>4. stack' = [stack EXCEPT ![k] = g] /\ FrameSet(g) = FrameSet(stack[k])
      BY <2>1, <2>3 DEF f
    <3>5. FrameOK(g, status', cancelled)
      BY <2>3 DEF st2
    <3> HIDE DEF f, st2
    <3> QED
      BY <2>1, <3>1, <3>2, <3>3, <3>4, <3>5, LevelStep
  <2>7. RunOK' /\ SpineOK' /\ NothingForgotten'
    BY <2>2, <2>3, <2>4, <2>5, <2>6, AskKeeps
  <2> QED
    BY <2>4, <2>6, <2>7 DEF IInv
<1>6. ASSUME SubmitCancelled(k) PROVE IInv' /\ Held' = Held
  <2> DEFINE pc == IF Eager THEN "closed" ELSE "publish"  g == At(f, pc)
  <2>1. /\ stack' = [stack EXCEPT ![k] = g] /\ UNCHANGED pool /\ SubmitterOnly
        /\ f.pc = "submit" /\ cancelled
    BY <1>6 DEF SubmitCancelled, FrameTo
  <2>2. pc = "closed" \/ pc = "publish"
    OBVIOUS
  <2>3. FrameOK(g, status, cancelled) /\ FrameSet(g) = FrameSet(f) /\ g.pend = f.pend
    <3>1. MayGo(f, cancelled, pc) /\ g = At(f, pc)
      BY <2>1, <2>2 DEF MayGo
    <3> HIDE DEF f, g, pc
    <3> QED
      BY <1>1, <3>1, FrameAt
  <2>4. Fits(g, Capacity)
    BY <1>2, <2>3 DEF Fits
  <2> HIDE DEF f, g
  <2>5. stack' = [stack EXCEPT ![k] = g] /\ FrameSet(g) = FrameSet(stack[k])
    BY <2>1, <2>3 DEF f
  <2> QED
    BY <2>1, <2>3, <2>4, <2>5, LevelOnly
<1>7. ASSUME Publish(k) PROVE IInv' /\ Held' = Held
  <2> DEFINE call == [path |-> Head(f.todo), err |-> f.hand = NoPath]
             g == Frame(Tail(f.todo), "check", NoPath, Append(f.pend, call), f.later)
  <2>1. /\ stack' = [stack EXCEPT ![k] = g] /\ UNCHANGED pool /\ SubmitterOnly
        /\ f.pc = "publish" /\ Len(f.pend) < Capacity
    BY <1>7 DEF Publish, FrameTo, Capacity
  <2>2. FrameOK(g, status, cancelled) /\ FrameSet(g) = FrameSet(f) /\ Len(g.pend) = Len(f.pend) + 1
    <3> HIDE DEF f
    <3> QED
      BY <1>1, <2>1, FramePublish
  <2> HIDE DEF g
  <2>3. Fits(g, Capacity)
    <3>1. Len(g.pend) <= Capacity
      BY <1>1, <2>1, <2>2
    <3> QED
      BY <3>1 DEF Fits
  <2> HIDE DEF f
  <2>4. stack' = [stack EXCEPT ![k] = g] /\ FrameSet(g) = FrameSet(stack[k])
    BY <2>1, <2>2 DEF f
  <2> QED
    BY <2>1, <2>2, <2>3, <2>4, LevelOnly
<1>8. ASSUME PublishCancelled(k) PROVE IInv' /\ Held' = Held
  <2> DEFINE g == At(f, "closed")
  <2>1. /\ stack' = [stack EXCEPT ![k] = g] /\ UNCHANGED pool /\ SubmitterOnly /\ cancelled
    BY <1>8 DEF PublishCancelled, FrameTo
  <2>2. FrameOK(g, status, cancelled) /\ FrameSet(g) = FrameSet(f) /\ g.pend = f.pend
    <3> DEFINE pc == "closed"
    <3>1. MayGo(f, cancelled, pc) /\ g = At(f, pc)
      BY <2>1 DEF MayGo
    <3> HIDE DEF f, g, pc
    <3> QED
      BY <1>1, <3>1, FrameAt
  <2>3. Fits(g, Capacity)
    BY <1>2, <2>2 DEF Fits
  <2> HIDE DEF f, g
  <2>4. stack' = [stack EXCEPT ![k] = g] /\ FrameSet(g) = FrameSet(stack[k])
    BY <2>1, <2>2 DEF f
  <2> QED
    BY <2>1, <2>2, <2>3, <2>4, LevelOnly
<1> QED
  BY <1>3, <1>4, <1>5, <1>6, <1>7, <1>8 DEF Submitter

\* A level submits a path it holds, and which was not asked for.
LEMMA SubmitAsks ==
  ASSUME IInv, NEW k \in DOMAIN stack, Submit(k)
  PROVE  \E p \in Undelivered : status[p] = "none" /\ Enqueue(p)
<1> PICK f, p : f = stack[k] /\ p = Head(f.todo)
  OBVIOUS
<1>1. f.pc = "submit" /\ Enqueue(p)
  BY DEF Submit
<1>2. FrameOK(f, status, cancelled) /\ FrameSet(f) \subseteq Undelivered
  BY FrameAlone
<1>3. /\ f.todo \in Seq(DOMAIN status) /\ f.todo # <<>> /\ f.hand = NoPath
      /\ \A q \in Unsent(f) : status[q] = "none"
  <2>1. f \in Frames(DOMAIN status) /\ Sent(f, status)
    BY <1>2 DEF FrameOK
  <2>2. f.todo \in Seq(DOMAIN status)
    BY <2>1, TypedFrame
  <2> QED
    BY <1>1, <2>1, <2>2 DEF Sent
<1>4. p \in ToSet(f.todo)
  <2>1. 1 \in DOMAIN f.todo /\ p = f.todo[1]
    BY <1>3
  <2> QED
    BY <2>1 DEF ToSet
<1>5. p \in Undelivered /\ status[p] = "none"
  BY <1>2, <1>3, <1>4 DEF Unsent, FrameSet
<1> QED
  BY <1>1, <1>5

-----------------------------------------------------------------------------
(* The goroutine of Run.                                                     *)

\* Paths change hands, or are dropped after a cancellation.
LEMMA MoveKeeps ==
  ASSUME IInv, UNCHANGED <<strategy, template, cancelled, status, tries, jobs, yielded>>,
         closed' \in BOOLEAN, tried' \in Nat, skipped' \in Nat,
         Held' \subseteq Held, Undelivered' \subseteq Undelivered,
         ~cancelled => Held \subseteq Held' /\ Undelivered \subseteq Undelivered'
  PROVE  RunOK' /\ SpineOK' /\ NothingForgotten' /\ PoolOK'
<1>1. Tree' = Tree /\ Paths' = Paths
  BY DEF Tree, Paths
<1>2. RunOK /\ SpineOK /\ NothingForgotten /\ PoolOK
  BY DEF IInv
<1>3. RunOK'
  BY <1>1, <1>2 DEF RunOK, Asked
<1>4. PoolOK'
  BY <1>1, <1>2 DEF PoolOK
<1>5. SpineOK'
  <2> DEFINE H == Held  H2 == Held'
  <2>1. Spine(H, status, yielded) /\ H2 \subseteq H
    BY <1>2 DEF SpineOK
  <2> HIDE DEF H, H2
  <2>2. Spine(H2, status, yielded)
    BY <2>1, SpineShrinks
  <2> QED
    BY <2>2 DEF SpineOK, H2
<1>6. NothingForgotten'
  <2> SUFFICES ASSUME ~cancelled PROVE Remembers(Goals(Tree), Held', Undelivered', status, yielded)
    BY <1>1 DEF NothingForgotten
  <2>1. Held' = Held /\ Undelivered' = Undelivered
    OBVIOUS
  <2> QED
    BY <1>2, <2>1 DEF NothingForgotten
<1> QED
  BY <1>3, <1>4, <1>5, <1>6

\* A held path is delivered; it may stay held.
LEMMA SpineDelivered ==
  ASSUME IInv, NEW p \in Held, NEW a, yielded' = Changed(yielded, p, a)
  PROVE  Spine(Held, status, yielded')
<1> DEFINE H == Held  y2 == yielded'
<1>1. Spine(H, status, yielded) /\ DOMAIN yielded = DOMAIN status
  BY DEF IInv, SpineOK, RunOK, Paths
<1>2. p \in H /\ y2 = [yielded EXCEPT ![p] = a]
  BY DEF Changed
<1> HIDE DEF H, y2
<1>3. Spine(H, status, y2)
  BY <1>1, <1>2, SpineYield
<1> QED
  BY <1>3 DEF H, y2

\* A result is delivered, and its path makes way for what is below it.
LEMMA DeliverKeeps ==
  ASSUME IInv, UNCHANGED <<strategy, template, cancelled, status, tries, jobs, closed, tried>>,
         skipped' \in Nat,
         NEW p \in Undelivered, NEW a \in {0, 1}, yielded' = Changed(yielded, p, a),
         Spine(Held', status, yielded'), \A q \in Undelivered' : yielded'[q] = 0,
         ~cancelled => /\ status[p] \in {"none", "rejected"} \/ a = 1
                       /\ \A q \in Undelivered : q = p \/ q \in Undelivered'
                       /\ \A x \in Held, g \in Goals(Tree) : IsPrefix(x, g) =>
                            SettledIn(status, g) \/ \E z \in Held' : IsPrefix(z, g)
  PROVE  RunOK' /\ SpineOK' /\ NothingForgotten' /\ PoolOK'
<1>1. Tree' = Tree /\ Paths' = Paths
  BY DEF Tree, Paths
<1>2. RunOK /\ SpineOK /\ NothingForgotten /\ PoolOK
  BY DEF IInv
<1>3. p \in Paths /\ DOMAIN yielded = Paths /\ DOMAIN status = Paths
  BY <1>2 DEF Undelivered, SpineOK, Spine, Paths, RunOK
<1>4. yielded' \in [Paths -> 0 .. 1] /\ yielded'[p] = a /\ \A q \in Paths : q # p => yielded'[q] = yielded[q]
  BY <1>2, <1>3 DEF Changed, RunOK
<1>5. RunOK'
  BY <1>1, <1>2, <1>4 DEF RunOK, Asked
<1>6. PoolOK'
  BY <1>1, <1>2 DEF PoolOK
<1>7. SpineOK'
  BY DEF SpineOK
<1>8. NothingForgotten'
  <2> SUFFICES ASSUME ~cancelled PROVE Remembers(Goals(Tree), Held', Undelivered', status, yielded')
    BY <1>1 DEF NothingForgotten
  <2> DEFINE G == Goals(Tree)  H == Held  R == Undelivered  H2 == Held'  R2 == Undelivered'  y2 == yielded'
  <2>1. Remembers(G, H, R, status, yielded)
    BY <1>2 DEF NothingForgotten
  <2>2. \A x \in H, g \in G : IsPrefix(x, g) => SettledIn(status, g) \/ \E z \in H2 : IsPrefix(z, g)
    OBVIOUS
  <2>3. \A n \in R : n \in R2 \/ status[n] \in {"none", "rejected"} \/ y2[n] # 0
    BY <1>4
  <2>4. \A n \in DOMAIN status : yielded[n] # 0 => y2[n] # 0
    BY <1>2, <1>3, <1>4 DEF RunOK
  <2> HIDE DEF G, H, R, H2, R2, y2
  <2>5. Remembers(G, H2, R2, status, y2)
    BY <2>1, <2>2, <2>3, <2>4, RemembersMove
  <2> QED
    BY <2>5 DEF G, H2, R2, y2
<1> QED
  BY <1>5, <1>6, <1>7, <1>8

\* Where the held paths go in a step: dropped for good, if they are in D; otherwise what
\* is held lies below what was held, and until a cancellation only an answered candidate
\* goes, or an accepted path.
Moves(D) ==
  /\ D \subseteq Held
  /\ \A x \in Held' : \E z \in Held \ D : IsPrefix(z, x)
  /\ ~cancelled => \A x \in Held \ D : \/ x \in Held'
                                       \/ Leaf(x) /\ status[x] # "none"
                                       \/ status[x] = "accepted"

\* Paths stay, or are dropped.
LEMMA MovesSome ==
  ASSUME IInv, NEW D, D \subseteq Held, Held' \subseteq Held \ D,
         ~cancelled => \A x \in Held \ D : x \in Held' \/ (Leaf(x) /\ status[x] # "none")
  PROVE  Moves(D)
<1>1. RunOK /\ Held \subseteq Paths
  BY DEF IInv, SpineOK, Spine, Paths
<1>2. \A x \in Paths : x \in Seq(AllValues(Tree))
  BY <1>1, Context, NodesFacts
<1>3. \A x \in Paths : IsPrefix(x, x)
  BY <1>2, PrefixOrder
<1> QED
  BY <1>1, <1>3 DEF Moves

\* Nothing is dropped but what a cancellation drops.
LEMMA MovesNone ==
  ASSUME IInv, Held' \subseteq Held, ~cancelled => Held \subseteq Held'
  PROVE  Moves({})
<1> DEFINE D == {}
<1>1. /\ D \subseteq Held /\ Held' \subseteq Held \ D
      /\ ~cancelled => \A x \in Held \ D : x \in Held' \/ (Leaf(x) /\ status[x] # "none")
  OBVIOUS
<1> HIDE DEF D
<1>2. Moves(D)
  BY <1>1, MovesSome
<1> QED
  BY <1>2 DEF D

\* Accepted paths are replaced by what lies below them.
Expands(E, M) ==
  /\ E \subseteq Held /\ \A p \in E : status[p] = "accepted" /\ Refines(Tree, M[p], p)
  /\ Held' \subseteq (Held \ E) \cup AllBelow(M, E)
  /\ ~cancelled => Held \ E \subseteq Held'

\* That is a move, too.
LEMMA MovesBelow ==
  ASSUME IInv, NEW E, NEW M, Expands(E, M)
  PROVE  Moves({})
<1>1. RunOK /\ Held \subseteq Paths
  BY DEF IInv, SpineOK, Spine, Paths
<1>2. \A x \in Paths : x \in Seq(AllValues(Tree))
  BY <1>1, Context, NodesFacts
<1>3. \A x \in Paths : IsPrefix(x, x)
  BY <1>2, PrefixOrder
<1>4. ASSUME NEW x \in Held' PROVE \E z \in Held : IsPrefix(z, x)
  <2>1. CASE x \in Held
    BY <1>1, <1>3, <2>1
  <2>2. CASE x \in AllBelow(M, E)
    <3>1. PICK p \in E : x \in M[p]
      BY <2>2 DEF AllBelow
    <3>2. IsPrefix(p, x) /\ p \in Held
      BY <3>1 DEF Expands, Refines
    <3> QED
      BY <3>2
  <2> QED
    BY <2>1, <2>2 DEF Expands
<1> QED
  BY <1>4 DEF Moves, Expands

\* What lies below a path takes its place.
Replaced(p) == \E N : Refines(Tree, N, p) /\ Held' = (Held \ {p}) \cup N

\* The innermost level is one of the stack.
LEMMA TopFacts ==
  ASSUME FramesOK, stack # <<>>
  PROVE  Inner \in DOMAIN stack /\ Inner \in Nat \ {0} /\ DOMAIN stack = 1 .. Inner /\ Top = stack[Inner]
<1>1. stack \in Seq(Frames(DOMAIN status))
  BY DEF FramesOK, StackOK
<1>2. Len(stack) \in Nat \ {0} /\ DOMAIN stack = 1 .. Len(stack)
  BY <1>1, EmptySeq
<1> QED
  BY <1>2 DEF Inner, Top

\* What a step of the goroutine of Run leaves alone.
LEMMA MainOnlyFacts ==
  ASSUME MainOnly
  PROVE  /\ UNCHANGED <<strategy, template, cancelled, jobs, closed, status, tries, tried>>
         /\ Paths' = Paths /\ Capacity' = Capacity /\ Tree' = Tree /\ \A q : Leaf(q)' = Leaf(q)
         /\ Eager' = Eager /\ Priority' = Priority
BY DEF MainOnly, asked, pool, Paths, Capacity, Eager, Tree, Leaf, Priority

\* While there is a level, or a reply is awaited, there are no tasks.
LEMMA NoTasks ==
  ASSUME IInv, ~Priority, PriorityIdle
  PROVE  TasksHeld = {} /\ TasksHeld' = {} /\ (UNCHANGED status => TasksOK')
         /\ deque' = <<>> /\ completed' = <<>> /\ inFlight' = 0 /\ waiting' = {}
<1>1. TasksHeld = {} /\ deque = <<>> /\ completed = <<>> /\ inFlight = 0 /\ waiting = {}
  BY DEF IInv, Where, TasksHeld
<1>2. UNCHANGED <<deque, inFlight, waiting, completed>>
  BY DEF PriorityIdle
<1>3. TasksHeld' = {}
  BY <1>1, <1>2 DEF TasksHeld
<1>4. ASSUME UNCHANGED status PROVE TasksOK'
  BY <1>2, <1>4 DEF IInv, TasksOK, Answered, Paths
<1> QED
  BY <1>1, <1>2, <1>3, <1>4

\* The consumer loop takes the next call.
LEMMA TakePendingKeeps ==
  ASSUME IInv, Quiet, TakePending
  PROVE  /\ IInv'
         /\ \/ Held' = Held /\ UNCHANGED skipped
            \/ \E p \in Held : /\ cancelled /\ status[p] = "none" /\ Held' = Held \ {p}
                               /\ PruneUnsent(p)
<1> PICK g : g = Frame(Top.todo, Top.pc, Top.hand, Tail(Top.pend), Top.later)
  OBVIOUS
<1> DEFINE f == Top  call == Head(f.pend)  p == call.path
<1>1. /\ main = "run" /\ stack # <<>> /\ cur = NoPath /\ f.pend # <<>> /\ MainOnly /\ PriorityIdle
      /\ stack' = [stack EXCEPT ![Inner] = g] /\ UNCHANGED <<main, next, yielded, burst>>
  BY DEF TakePending, FrameTo, PopPending
<1>2. /\ UNCHANGED <<strategy, template, cancelled, jobs, closed, status, tries, tried>>
      /\ Paths' = Paths /\ Capacity' = Capacity /\ Tree' = Tree /\ \A q : Leaf(q)' = Leaf(q)
  BY <1>1, MainOnlyFacts
<1>3. RunOK /\ FramesOK /\ OthersOK /\ Where /\ TasksOK
  BY DEF IInv
<1>4. Inner \in DOMAIN stack /\ f = stack[Inner]
  BY <1>1, <1>3, TopFacts
<1>5. /\ FrameSet(f) \subseteq FramesHeld /\ FramesHeld \subseteq Held /\ Held \subseteq Paths
      /\ FrameOK(f, status, cancelled) /\ Len(f.pend) \in Nat /\ Capacity \in Nat
      /\ ~Priority /\ FramesHeld \cap Others = {} /\ cancelled \in BOOLEAN
  BY <1>4, FrameAlone
<1>6. TasksHeld = {} /\ TasksHeld' = {} /\ TasksOK' /\ deque' = <<>> /\ completed' = <<>> /\ inFlight' = 0
  BY <1>1, <1>2, <1>5, NoTasks
<1>7. /\ FrameOK(g, status, cancelled) /\ Len(g.pend) <= Len(f.pend)
      /\ call \in Calls(DOMAIN status) /\ p \in FrameSet(f)
      /\ FrameSet(g) = FrameSet(f) \ {p} /\ (call.err <=> status[p] = "none")
      /\ ~cancelled => ~call.err
  <2>1. g = Frame(f.todo, f.pc, f.hand, Tail(f.pend), f.later)
    OBVIOUS
  <2>2. f.pend # <<>> /\ FrameOK(f, status, cancelled) /\ cancelled \in BOOLEAN
    BY <1>1, <1>5
  <2> HIDE DEF f
  <2> QED
    BY <2>1, <2>2, FramePop
<1>8. /\ StackOK(stack', status, cancelled, Capacity) /\ Len(stack') = Len(stack)
      /\ FramesIn(stack') = FramesHeld \ {p}
  <2> DEFINE n == Capacity  s2 == stack'  st == status  c == cancelled  k == Inner  s == stack
  <2>1. /\ StackOK(s, st, c, n) /\ c \in BOOLEAN /\ k \in DOMAIN s
        /\ FrameOK(g, st, c) /\ FrameSet(g) \subseteq FrameSet(s[k])
        /\ s2 = Changed(s, k, g)
    BY <1>1, <1>3, <1>4, <1>5, <1>7 DEF FramesOK, Changed
  <2>2. Fits(g, n)
    <3>1. Fits(f, n)
      BY <1>3, <1>4 DEF FramesOK, StackOK
    <3>2. Len(g.pend) \in Nat
      <4>1. g \in Frames(DOMAIN status)
        BY <1>7 DEF FrameOK
      <4>2. g.pend \in Seq(Calls(DOMAIN status))
        BY <4>1, TypedFrame
      <4> QED
        BY <4>2
    <3>3. Len(f.pend) <= Capacity
      BY <3>1 DEF Fits
    <3>4. Len(g.pend) <= Capacity
      <4> HIDE DEF f
      <4> QED
        BY <1>5, <1>7, <3>2, <3>3
    <3> QED
      BY <3>4 DEF Fits
  <2> HIDE DEF n, s2, st, c, k, s, f, p, call
  <2>3. /\ StackOK(s2, st, c, n) /\ Len(s2) = Len(s)
        /\ FramesIn(s2) = (FramesIn(s) \ FrameSet(s[k])) \cup FrameSet(g)
    BY <2>1, <2>2, StackGoesOn
  <2>4. s[k] = f
    BY <1>4 DEF k, s, f
  <2>5. FramesIn(s2) = FramesHeld \ {p}
    BY <1>5, <1>7, <2>3, <2>4 DEF FramesHeld, s
  <2> QED
    BY <2>3, <2>5 DEF s2, st, c, n, s
<1>9. p \in Paths /\ p \in FramesHeld /\ p \notin Others /\ p # NoPath
  <2>1. NoPath \notin Paths
    BY <1>3, Context
  <2> QED
    BY <1>5, <1>7, <2>1
<1>10. FramesHeld' = FramesHeld \ {p} /\ stack' # <<>>
  <2>1. Len(stack) # 0
    BY <1>3, <1>1, TopFacts DEF Inner
  <2> QED
    BY <1>8, <2>1 DEF FramesHeld
<1>11. skipped' \in Nat
  <2>1. Skips[template][p] \in Nat /\ skipped \in Nat
    BY <1>3, <1>9, Context DEF RunOK
  <2> QED
    BY <1>1, <2>1 DEF TakePending, PruneUnsent
<1>12. \/ cancelled /\ cur' = NoPath /\ status[p] = "none" /\ PruneUnsent(p)
       \/ cur' = p /\ status[p] # "none" /\ UNCHANGED skipped
  <2>1. \/ call.err /\ UNCHANGED cur /\ PruneUnsent(call.path)
        \/ ~call.err /\ cur' = call.path /\ UNCHANGED skipped
    BY DEF TakePending
  <2> QED
    BY <1>1, <1>5, <1>7, <2>1
<1>13. /\ Others \subseteq Others' /\ Others' \subseteq Others \cup {p} /\ (cur' = p => p \in Others')
       /\ (cur' = NoPath => Others' = Others)
  <2> HIDE DEF p
  <2> QED
    BY <1>1, <1>9, <1>12 DEF Others
<1>14. /\ Held' \subseteq Held /\ Undelivered' \subseteq Undelivered
       /\ ~cancelled => Held \subseteq Held' /\ Undelivered \subseteq Undelivered'
  <2>1. Held' = (FramesHeld \ {p}) \cup Others'
    BY <1>6, <1>10 DEF Held
  <2>2. Held = FramesHeld \cup Others
    BY <1>6 DEF Held
  <2>3. Held' \subseteq Held /\ (~cancelled => Held \subseteq Held')
    BY <1>9, <1>12, <1>13, <2>1, <2>2
  <2> QED
    BY <1>1, <2>3 DEF Undelivered
<1>15. RunOK' /\ SpineOK' /\ NothingForgotten' /\ PoolOK'
  BY <1>1, <1>2, <1>3, <1>11, <1>14, MoveKeeps DEF RunOK
<1>16. FramesOK'
  <2>1. FramesHeld' \cap Others' = {}
    BY <1>5, <1>10, <1>13
  <2> QED
    BY <1>2, <1>8, <2>1 DEF FramesOK
<1>17. OthersOK'
  <2>1. BurstOK'
    BY <1>1, <1>2, <1>3 DEF OthersOK, BurstOK
  <2>2. cur' \in Paths \cup {NoPath}
    BY <1>9, <1>12
  <2>3. cur' # NoPath => status[cur'] # "none" /\ cur' \notin ToSet(next)
    BY <1>9, <1>12 DEF Others
  <2> QED
    BY <1>1, <1>2, <1>3, <1>10, <2>1, <2>2, <2>3 DEF OthersOK
<1>18. Where'
  BY <1>1, <1>2, <1>3, <1>5, <1>6, <1>8, <1>10, <1>14 DEF Where, Eager, Priority, CanDispatch
<1>19. IInv'
  BY <1>6, <1>15, <1>16, <1>17, <1>18 DEF IInv
<1>20. Held' = (FramesHeld \ {p}) \cup Others' /\ Held = FramesHeld \cup Others
  BY <1>6, <1>10 DEF Held
<1>21. CASE cancelled /\ cur' = NoPath /\ status[p] = "none" /\ PruneUnsent(p)
  <2>1. p \in Held /\ Held' = Held \ {p}
    BY <1>9, <1>13, <1>20, <1>21
  <2> QED
    BY <1>19, <1>21, <2>1
<1>22. CASE cur' = p /\ status[p] # "none" /\ UNCHANGED skipped
  <2>1. Held' = Held
    BY <1>9, <1>13, <1>20, <1>22
  <2> QED
    BY <1>19, <1>22, <2>1
<1> QED
  BY <1>12, <1>21, <1>22

-----------------------------------------------------------------------------
(* What a strategy does with a result.                                       *)

\* What lies below an accepted path was not touched.
LEMMA Fresh ==
  ASSUME IInv, NEW p \in Held, NEW N, Refines(Tree, N, p)
  PROVE  /\ p \in Paths /\ N \subseteq Paths /\ N \cap Held = {} /\ NoPath \notin N
         /\ \A q \in N : status[q] = "none" /\ yielded[q] = 0
<1>1. RunOK /\ SpineOK
  BY DEF IInv
<1>2. Paths = Nodes(Tree) /\ NoPath \notin Paths
  BY <1>1, Context
<1>3. N \subseteq Paths /\ NoPath \notin N /\ \A q \in N : IsPrefix(p, q) /\ q # p
  BY <1>2 DEF Refines
<1> DEFINE H == Held
<1>4. Spine(H, status, yielded) /\ p \in H
  BY <1>1 DEF SpineOK
<1> HIDE DEF H
<1>5. /\ H \subseteq Paths /\ \A x, z \in H : IsPrefix(x, z) => x = z
      /\ \A x \in H, q \in Paths : IsPrefix(x, q) /\ q # x => status[q] = "none" /\ yielded[q] = 0
  BY <1>4 DEF Spine, Paths
<1>6. N \cap H = {}
  BY <1>3, <1>4, <1>5
<1> QED
  BY <1>3, <1>4, <1>5, <1>6 DEF H

\* A path that has come to its end is delivered, if it is to be, and dropped.
LEMMA DoneKeeps ==
  ASSUME IInv, UNCHANGED <<strategy, template, cancelled, status, tries, jobs, closed, tried>>,
         skipped' \in Nat, NEW p \in Undelivered, Answered(p),
         cancelled \/ status[p] # "accepted" \/ Leaf(p),
         NEW a \in {0, 1}, yielded' = Changed(yielded, p, a),
         ~cancelled /\ Deliverable(p) => a = 1,
         Held' = Held \ {p}, Undelivered' = Undelivered \ {p}
  PROVE  RunOK' /\ SpineOK' /\ NothingForgotten' /\ PoolOK'
<1>1. RunOK /\ SpineOK
  BY DEF IInv
<1>2. p \in Held /\ p \in Paths /\ Paths = Nodes(Tree) /\ Chosen /\ DOMAIN status = Nodes(Tree)
  BY <1>1, Context DEF Undelivered, SpineOK, Spine, Paths
<1>3. Spine(Held', status, yielded')
  <2> DEFINE H == Held  H2 == Held'  y2 == yielded'
  <2>1. Spine(H, status, y2) /\ H2 \subseteq H
    BY <1>2, SpineDelivered
  <2> HIDE DEF H, H2, y2
  <2>2. Spine(H2, status, y2)
    BY <2>1, SpineShrinks
  <2> QED
    BY <2>2 DEF H2, y2
<1>4. \A q \in Undelivered' : yielded'[q] = 0
  <2>1. \A q \in Undelivered : yielded[q] = 0 /\ q \in Paths
    BY <1>1 DEF RunOK, SpineOK, Spine, Undelivered, Paths
  <2>2. yielded \in [Paths -> 0 .. 1]
    BY <1>1 DEF RunOK
  <2> QED
    BY <2>1, <2>2 DEF Changed
<1>5. ASSUME ~cancelled
      PROVE  /\ status[p] \in {"none", "rejected"} \/ a = 1
             /\ \A q \in Undelivered : q = p \/ q \in Undelivered'
             /\ \A x \in Held, g \in Goals(Tree) : IsPrefix(x, g) =>
                  SettledIn(status, g) \/ \E z \in Held' : IsPrefix(z, g)
  <2>1. status[p] = "rejected" \/ a = 1
    BY <1>5 DEF Deliverable, Answered, Answers
  <2>2. status[p] \in Answers /\ (status[p] # "accepted" \/ Leaf(p))
    BY <1>5 DEF Answered
  <2>3. \A g \in Goals(Tree) : IsPrefix(p, g) => SettledIn(status, g)
    BY <1>2, <2>2, AnsweredSettles
  <2> QED
    BY <2>1, <2>3
<1> QED
  BY <1>3, <1>4, <1>5, DeliverKeeps

\* An accepted path is delivered, and its place is taken by what lies below it.
LEMMA ExpandKeeps ==
  ASSUME IInv, UNCHANGED <<strategy, template, cancelled, status, tries, jobs, closed, tried>>,
         skipped' \in Nat, NEW p \in Undelivered, status[p] = "accepted",
         yielded' = Changed(yielded, p, 1), NEW N, Refines(Tree, N, p),
         Held' = (Held \ {p}) \cup N, Undelivered' = (Undelivered \ {p}) \cup N
  PROVE  RunOK' /\ SpineOK' /\ NothingForgotten' /\ PoolOK'
<1>1. RunOK /\ SpineOK
  BY DEF IInv
<1>2. p \in Held /\ p \in Paths /\ Paths = Nodes(Tree) /\ Chosen /\ DOMAIN status = Nodes(Tree)
  BY <1>1, Context DEF Undelivered, SpineOK, Spine, Paths
<1>3. Spine(Held', status, yielded')
  <2> DEFINE H == Held  H2 == Held'  y2 == yielded'  E == {p}  M == [q \in E |-> N]
  <2>1. Spine(H, status, y2) /\ H2 = (H \ E) \cup N
    BY <1>2, SpineDelivered
  <2>2. /\ E \subseteq H /\ \A q \in E : status[q] = "accepted"
        /\ \A q \in E : Refines(Tree, M[q], q)
    BY <1>2
  <2>3. N = AllBelow(M, E)
    BY DEF AllBelow
  <2> HIDE DEF H, H2, y2, E, M
  <2>4. Spine(H2, status, y2)
    <3>1. H2 = (H \ E) \cup AllBelow(M, E)
      BY <2>1, <2>3
    <3> QED
      BY <1>2, <2>1, <2>2, <3>1, SpineExpand
  <2> QED
    BY <2>4 DEF H2, y2
<1>4. \A q \in Undelivered' : yielded'[q] = 0
  <2>1. \A q \in Undelivered : yielded[q] = 0 /\ q \in Paths
    BY <1>1 DEF RunOK, SpineOK, Spine, Undelivered, Paths
  <2>2. yielded \in [Paths -> 0 .. 1]
    BY <1>1 DEF RunOK
  <2>3. \A q \in N : yielded[q] = 0 /\ q \in Paths /\ q # p
    BY <1>2, Fresh
  <2> QED
    BY <2>1, <2>2, <2>3 DEF Changed
<1>5. \A x \in Held, g \in Goals(Tree) : IsPrefix(x, g) => \E z \in Held' : IsPrefix(z, g)
  <2> SUFFICES ASSUME NEW x \in Held, NEW g \in Goals(Tree), IsPrefix(x, g)
               PROVE  \E z \in Held' : IsPrefix(z, g)
    OBVIOUS
  <2>1. CASE x = p
    BY <2>1 DEF Refines
  <2>2. CASE x # p
    BY <2>2
  <2> QED
    BY <2>1, <2>2
<1>6. \A q \in Undelivered : q = p \/ q \in Undelivered'
  OBVIOUS
<1> QED
  BY <1>3, <1>4, <1>5, <1>6, DeliverKeeps

-----------------------------------------------------------------------------
(* The path whose reply main waits for.                                      *)
Waits == main = "run" /\ cur # NoPath

\* The path whose reply is awaited is in nobody else's hands.
LEMMA CurFacts ==
  ASSUME IInv, Quiet, Waits
  PROVE  /\ cur \in Paths /\ cur \in Undelivered /\ cur \in Held /\ cur \notin FramesHeld
         /\ cur \notin ToSet(next) /\ Others = {cur} \cup ToSet(next)
         /\ ~Priority /\ TasksHeld = {} /\ Held = FramesHeld \cup Others /\ burst = [q \in {} |-> ""]
         /\ stack # <<>> /\ status[cur] # "none" /\ yielded[cur] = 0 /\ yielded \in [Paths -> 0 .. 1]
         /\ FramesHeld \cap Others = {} /\ Held \subseteq Paths /\ NoPath \notin Paths
         /\ \A q \in {0, 1} : Changed(yielded, cur, q) = [yielded EXCEPT ![cur] = @ + q]
<1>1. RunOK /\ FramesOK /\ OthersOK /\ Where /\ SpineOK
  BY DEF IInv
<1>2. /\ cur \in Paths /\ cur \notin ToSet(next) /\ stack # <<>> /\ status[cur] # "none"
      /\ DOMAIN burst = {}
  BY <1>1 DEF OthersOK, Waits, Quiet
<1>3. Others = {cur} \cup ToSet(next)
  BY <1>2 DEF Others, Waits
<1>4. ~Priority /\ TasksHeld = {} /\ FramesHeld \cap Others = {}
  BY <1>1, <1>2 DEF Where, FramesOK
<1>5. Held = FramesHeld \cup Others
  BY <1>4 DEF Held
<1>6. cur \in Held /\ cur \in Undelivered /\ cur \notin FramesHeld /\ Held \subseteq Paths
  BY <1>1, <1>2, <1>3, <1>4, <1>5 DEF Undelivered, SpineOK, Spine, Paths
<1>7. yielded \in [Paths -> 0 .. 1] /\ yielded[cur] = 0 /\ NoPath \notin Paths
  BY <1>1, <1>6, Context DEF RunOK
<1>8. burst = [q \in {} |-> ""]
  BY <1>1, <1>2 DEF OthersOK, BurstOK
<1>9. \A q \in {0, 1} : Changed(yielded, cur, q) = [yielded EXCEPT ![cur] = @ + q]
  BY <1>7 DEF Changed
<1> QED
  BY <1>2, <1>3, <1>4, <1>5, <1>6, <1>7, <1>8, <1>9

\* It is dropped.
LEMMA CurDropped ==
  ASSUME IInv, Quiet, Waits, MainOnly, PriorityIdle,
         UNCHANGED <<stack, next, burst>>, cur' = NoPath,
         main' = "run" \/ (main' = "quit" /\ Eager /\ cancelled)
  PROVE  /\ FramesOK' /\ OthersOK' /\ Where' /\ TasksOK'
         /\ Held' = Held \ {cur} /\ Undelivered' = Undelivered \ {cur}
<1>1. /\ cur \in Paths /\ cur \in Undelivered /\ cur \in Held /\ cur \notin FramesHeld
      /\ cur \notin ToSet(next) /\ Others = {cur} \cup ToSet(next)
      /\ ~Priority /\ TasksHeld = {} /\ Held = FramesHeld \cup Others /\ burst = [q \in {} |-> ""]
      /\ stack # <<>> /\ FramesHeld \cap Others = {}
  BY CurFacts
<1>2. /\ UNCHANGED <<strategy, template, cancelled, jobs, closed, status, tries, tried>>
      /\ Paths' = Paths /\ Capacity' = Capacity /\ Tree' = Tree /\ \A q : Leaf(q)' = Leaf(q)
      /\ Eager' = Eager /\ Priority' = Priority
  BY MainOnlyFacts
<1>3. TasksHeld' = {} /\ TasksOK' /\ deque' = <<>> /\ completed' = <<>> /\ inFlight' = 0
  BY <1>1, <1>2, NoTasks
<1>4. FramesOK /\ OthersOK /\ Where
  BY DEF IInv
<1>5. Others' = ToSet(next) /\ FramesHeld' = FramesHeld
  BY <1>1 DEF Others, FramesHeld
<1>6. Held' = Held \ {cur} /\ Undelivered' = Undelivered \ {cur}
  BY <1>1, <1>3, <1>5 DEF Held, Undelivered
<1>7. FramesOK'
  BY <1>1, <1>2, <1>4, <1>5 DEF FramesOK
<1>8. OthersOK'
  BY <1>1, <1>2, <1>4 DEF OthersOK, BurstOK
<1>9. Where'
  BY <1>1, <1>2, <1>3, <1>4, <1>6 DEF Where, Waits, CanDispatch
<1> QED
  BY <1>3, <1>6, <1>7, <1>8, <1>9

\* runEager sees the cancellation.
LEMMA QuitEagerKeeps ==
  ASSUME IInv, Quiet, QuitEager
  PROVE  IInv' /\ Held' = Held \ {cur}
<1>1. /\ Waits /\ MainOnly /\ PriorityIdle /\ UNCHANGED <<stack, next, burst, yielded, skipped>>
      /\ cur' = NoPath /\ main' = "quit" /\ Eager /\ cancelled
  BY DEF QuitEager, Waits
<1>2. /\ FramesOK' /\ OthersOK' /\ Where' /\ TasksOK'
      /\ Held' = Held \ {cur} /\ Undelivered' = Undelivered \ {cur}
  BY <1>1, CurDropped
<1>3. RunOK' /\ SpineOK' /\ NothingForgotten' /\ PoolOK'
  <2>1. UNCHANGED <<strategy, template, cancelled, jobs, closed, status, tries, tried>>
    BY <1>1, MainOnlyFacts
  <2>2. RunOK
    BY DEF IInv
  <2> QED
    BY <1>1, <1>2, <2>1, <2>2, MoveKeeps DEF RunOK
<1> QED
  BY <1>2, <1>3 DEF IInv

\* runEager delivers a reply.
LEMMA ConsumeEagerKeeps ==
  ASSUME IInv, Quiet, ConsumeEager
  PROVE  IInv' /\ Held' = Held \ {cur}
<1>1. /\ Waits /\ MainOnly /\ PriorityIdle /\ UNCHANGED <<stack, next, burst, skipped>>
      /\ cur' = NoPath /\ main' = "run" /\ Eager /\ Answered(cur)
      /\ yielded' = [yielded EXCEPT ![cur] = @ + (IF Deliverable(cur) THEN 1 ELSE 0)]
  BY DEF ConsumeEager, Waits
<1>2. /\ FramesOK' /\ OthersOK' /\ Where' /\ TasksOK'
      /\ Held' = Held \ {cur} /\ Undelivered' = Undelivered \ {cur}
  BY <1>1, CurDropped
<1>3. /\ cur \in Undelivered /\ cur \in Held
      /\ \A q \in {0, 1} : Changed(yielded, cur, q) = [yielded EXCEPT ![cur] = @ + q]
  BY <1>1, CurFacts
<1>4. PICK a \in {0, 1} : a = IF Deliverable(cur) THEN 1 ELSE 0
  OBVIOUS
<1>5. yielded' = Changed(yielded, cur, a)
  BY <1>1, <1>3, <1>4
<1>6. RunOK' /\ SpineOK' /\ NothingForgotten' /\ PoolOK'
  <2>1. UNCHANGED <<strategy, template, cancelled, jobs, closed, status, tries, tried>>
    BY <1>1, MainOnlyFacts
  <2>2. RunOK /\ Leaf(cur)
    BY <1>1, <1>3 DEF IInv, Where
  <2>3. skipped' \in Nat /\ (~cancelled /\ Deliverable(cur) => a = 1)
    BY <1>1, <1>4, <2>2 DEF RunOK
  <2> QED
    BY <1>1, <1>2, <1>3, <1>5, <2>1, <2>2, <2>3, DoneKeeps
<1> QED
  BY <1>2, <1>6 DEF IInv

\* The counter of the skipped stays a natural number.
LEMMA PrunedSkips ==
  ASSUME RunOK, NEW p \in Paths, PruneRejected(p) \/ PruneUnsent(p)
  PROVE  skipped' \in Nat
<1>1. skipped \in Nat /\ Skips[template][p] \in Nat
  BY Context DEF RunOK
<1> QED
  BY <1>1 DEF PruneRejected, PruneUnsent

\* A result from which nothing descends.
LEMMA DropKeeps ==
  ASSUME IInv, Quiet, Waits, Answered(cur), Deliver(cur), PruneRejected(cur), ~Descends(cur),
         MainOnly, PriorityIdle, UNCHANGED <<main, stack, next, burst>>, cur' = NoPath
  PROVE  IInv' /\ Held' = Held \ {cur}
<1>1. main' = "run"
  BY DEF Waits
<1>2. /\ FramesOK' /\ OthersOK' /\ Where' /\ TasksOK'
      /\ Held' = Held \ {cur} /\ Undelivered' = Undelivered \ {cur}
  BY <1>1, CurDropped
<1>3. /\ cur \in Undelivered /\ cur \in Held /\ cur \in Paths
      /\ \A q \in {0, 1} : Changed(yielded, cur, q) = [yielded EXCEPT ![cur] = @ + q]
  BY CurFacts
<1>4. PICK a \in {0, 1} : a = IF ~cancelled /\ Deliverable(cur) THEN 1 ELSE 0
  OBVIOUS
<1>5. yielded' = Changed(yielded, cur, a)
  BY <1>3, <1>4 DEF Deliver
<1>6. RunOK' /\ SpineOK' /\ NothingForgotten' /\ PoolOK'
  <2>1. UNCHANGED <<strategy, template, cancelled, jobs, closed, status, tries, tried>>
    BY MainOnlyFacts
  <2>2. RunOK
    BY DEF IInv
  <2>3. skipped' \in Nat
    BY <1>3, <2>2, PrunedSkips
  <2>4. cancelled \/ status[cur] # "accepted" \/ Leaf(cur)
    BY <2>2 DEF Descends, RunOK
  <2> QED
    BY <1>2, <1>3, <1>4, <1>5, <2>1, <2>3, <2>4, DoneKeeps
<1> QED
  BY <1>2, <1>6 DEF IInv

-----------------------------------------------------------------------------
(* The calls of evaluateLevel for what lies below a path.                    *)
LEMMA OneBatch ==
  ASSUME NEW P, NEW q, Lists(q, P)
  PROVE  Batches(<<q>>, P) /\ <<q>> # <<>> /\ Head(<<q>>) = q /\ Tail(<<q>>) = <<>>
<1> DEFINE bs == <<q>>
<1>1. q \in Seq(P) /\ IsInjective(q) /\ ToSet(q) = P
  BY DEF Lists
<1>2. bs \in Seq(Seq(P)) /\ DOMAIN bs = {1} /\ bs[1] = q /\ bs # <<>> /\ Head(bs) = q /\ Tail(bs) = <<>>
  BY <1>1
<1> HIDE DEF bs
<1>3. Batches(bs, P)
  BY <1>1, <1>2 DEF Batches
<1> QED
  BY <1>2, <1>3 DEF bs

\* One batch per path.
LEMMA SinglesBatches ==
  ASSUME NEW P, NEW q, Lists(q, P), P # {}
  PROVE  /\ Batches(Singles(q), P) /\ Singles(q) # <<>> /\ Head(Singles(q)) = <<q[1]>>
<1> DEFINE bs == Singles(q)  n == Len(q)
<1>1. /\ n \in Nat /\ DOMAIN q = 1 .. n /\ \A i \in 1 .. n : q[i] \in P
      /\ \A a \in P : \E i \in 1 .. n : q[i] = a
      /\ \A i, j \in 1 .. n : q[i] = q[j] => i = j
      /\ q # <<>>
  BY ListsFacts
<1>2. n # 0 /\ 1 \in 1 .. n
  BY <1>1 DEF Lists
<1>3. /\ DOMAIN bs = 1 .. n /\ \A i \in 1 .. n : bs[i] = <<q[i]>>
      /\ bs \in Seq(Seq(P)) /\ Len(bs) = n
  <2>1. \A i \in 1 .. n : <<q[i]>> \in Seq(P)
    BY <1>1
  <2>2. bs = [i \in 1 .. n |-> <<q[i]>>]
    BY <1>1 DEF Singles
  <2>3. bs \in [1 .. n -> Seq(P)]
    BY <2>1, <2>2
  <2> HIDE DEF n
  <2> QED
    BY <1>1, <2>2, <2>3, SeqDef, LenProperties
<1> HIDE DEF bs
<1>4. bs # <<>> /\ Head(bs) = <<q[1]>>
  BY <1>2, <1>3
<1>5. \A e \in 1 .. n : IsInjective(bs[e]) /\ ToSet(bs[e]) = {q[e]}
  <2> SUFFICES ASSUME NEW e \in 1 .. n PROVE IsInjective(bs[e]) /\ ToSet(bs[e]) = {q[e]}
    OBVIOUS
  <2>1. bs[e] = <<q[e]>>
    BY <1>3
  <2> QED
    BY <2>1 DEF IsInjective, ToSet
<1>6. \A e, f \in DOMAIN bs : e # f => ToSet(bs[e]) \cap ToSet(bs[f]) = {}
  BY <1>1, <1>3, <1>5
<1>7. ASSUME NEW p \in P PROVE \E e \in DOMAIN bs : p \in ToSet(bs[e])
  <2>1. PICK i \in 1 .. n : q[i] = p
    BY <1>1
  <2>2. i \in DOMAIN bs /\ p \in ToSet(bs[i])
    BY <1>3, <1>5, <2>1
  <2> QED
    BY <2>2
<1>8. Batches(bs, P)
  BY <1>3, <1>5, <1>6, <1>7 DEF Batches
<1> QED
  BY <1>4, <1>8 DEF bs

\* The order in which the scores sort the values of a level has them all.
LEMMA OrdersList ==
  ASSUME NEW P, NEW paths, Lists(paths, P), NEW o \in Orders(paths)
  PROVE  Lists(o, P)
<1> DEFINE n == Len(paths)
<1>1. n \in Nat /\ DOMAIN paths = 1 .. n /\ ToSet(paths) = P
  BY ListsFacts DEF Lists
<1>2. /\ o \in [1 .. n -> P] /\ IsInjective(o) /\ \A a \in P : \E i \in 1 .. n : o[i] = a
  BY <1>1 DEF Orders, Bijection, Injection, Surjection
<1> HIDE DEF n
<1>3. Into(o, n, P) /\ \A i, j \in 1 .. n : o[i] = o[j] => i = j
  BY <1>2 DEF Into, IsInjective
<1> QED
  BY <1>1, <1>2, <1>3, ListsIntro

\* A first call and those that follow have the listed paths.
CallsFor(g, P) == \E bs : Batches(bs, P) /\ bs # <<>> /\ g = Evaluate(Head(bs), Tail(bs))

\* A call for one batch.
LEMMA ListCalls ==
  ASSUME NEW P, NEW q, Lists(q, P)
  PROVE  CallsFor(Evaluate(q, <<>>), P)
<1> DEFINE bs == <<q>>
<1>1. Batches(bs, P) /\ bs # <<>> /\ Head(bs) = q /\ Tail(bs) = <<>>
  BY OneBatch
<1> HIDE DEF bs
<1> QED
  BY <1>1 DEF CallsFor

\* The calls of adaptVisit.
LEMMA AdaptCalls ==
  ASSUME NEW P, NEW paths, Lists(paths, P), P # {}, NEW o \in Orders(paths)
  PROVE  CallsFor(AdaptFrame(o), P)
<1>1. Lists(o, P)
  BY OrdersList
<1>2. CASE Leaf(o[1])
  BY <1>1, <1>2, ListCalls DEF AdaptFrame
<1>3. CASE ~Leaf(o[1])
  <2> DEFINE bs == Singles(o)
  <2>1. Batches(bs, P) /\ bs # <<>> /\ Head(bs) = <<o[1]>>
    BY <1>1, SinglesBatches
  <2>2. AdaptFrame(o) = Evaluate(<<o[1]>>, Tail(bs))
    BY <1>3 DEF AdaptFrame
  <2> HIDE DEF bs
  <2> QED
    BY <2>1, <2>2 DEF CallsFor
<1> QED
  BY <1>2, <1>3

\* A level that is entered holds its paths.
LEMMA CallsFrame ==
  ASSUME NEW st, NEW c \in BOOLEAN, NEW P, P \subseteq DOMAIN st, \A p \in P : st[p] = "none",
         NEW g, CallsFor(g, P), NEW n \in Nat
  PROVE  FrameOK(g, st, c) /\ FrameSet(g) = P /\ Fits(g, n)
<1>1. PICK bs : Batches(bs, P) /\ bs # <<>> /\ g = Evaluate(Head(bs), Tail(bs))
  BY DEF CallsFor
<1>2. FrameOK(g, st, c) /\ FrameSet(g) = P /\ g.pend = <<>>
  BY <1>1, FrameNew
<1>3. Len(g.pend) <= n
  BY <1>2
<1> QED
  BY <1>2, <1>3 DEF Fits

\* What a strategy knows when it descends.
LEMMA DescendFacts ==
  ASSUME IInv, Quiet, Waits, Deliver(cur), PruneRejected(cur), Descends(cur)
  PROVE  /\ yielded' = Changed(yielded, cur, 1) /\ skipped' \in Nat
         /\ status[cur] = "accepted" /\ ~Leaf(cur) /\ ~cancelled /\ cancelled \in BOOLEAN
         /\ Lists(Below[template][cur], ChildSet(Tree, cur)) /\ ChildSet(Tree, cur) # {}
         /\ Refines(Tree, ChildSet(Tree, cur), cur)
         /\ Refines(Tree, LeavesBelow(cur), cur)
<1>1. /\ cur \in Paths
      /\ \A q \in {0, 1} : Changed(yielded, cur, q) = [yielded EXCEPT ![cur] = @ + q]
  BY CurFacts
<1>2. status[cur] = "accepted" /\ ~Leaf(cur) /\ ~cancelled
  BY DEF Descends
<1>3. yielded' = Changed(yielded, cur, 1)
  BY <1>1, <1>2 DEF Deliver, Deliverable
<1>4. RunOK
  BY DEF IInv
<1>5. skipped' \in Nat
  BY <1>1, <1>4, PrunedSkips
<1>6. /\ IsPlan(Tree) /\ Paths = Nodes(Tree) /\ Below[template][cur] = Children(Tree, cur)
      /\ \A q \in Paths : Leaf(q) <=> IsLeaf(Tree, q)
  BY <1>1, <1>2, <1>4, Context
<1>7. ~IsLeaf(Tree, cur)
  BY <1>1, <1>2, <1>6
<1>8. LeavesBelow(cur) = {q \in Nodes(Tree) : IsLeaf(Tree, q) /\ IsPrefix(cur, q)}
  BY <1>6 DEF LeavesBelow
<1>9. Lists(Children(Tree, cur), ChildSet(Tree, cur)) /\ ChildSet(Tree, cur) # {}
  BY <1>1, <1>6, <1>7, ChildrenLists
<1>10. Refines(Tree, ChildSet(Tree, cur), cur)
  BY <1>1, <1>6, <1>7, ChildrenRefine
<1>11. Refines(Tree, LeavesBelow(cur), cur)
  BY <1>1, <1>6, <1>7, <1>8, LeavesRefine
<1> QED
  BY <1>2, <1>3, <1>4, <1>5, <1>6, <1>9, <1>10, <1>11 DEF RunOK

\* It enters a level below the path.
LEMMA EnterKeeps ==
  ASSUME IInv, Quiet, Waits, Deliver(cur), PruneRejected(cur), Descends(cur),
         MainOnly, PriorityIdle, UNCHANGED <<main, next, burst>>, cur' = NoPath,
         strategy \in {"dfs", "adaptive"},
         NEW N, Refines(Tree, N, cur), NEW g, CallsFor(g, N), stack' = Append(stack, g)
  PROVE  IInv' /\ Replaced(cur)
<1>1. /\ cur \in Paths /\ cur \in Undelivered /\ cur \in Held /\ cur \notin FramesHeld
      /\ cur \notin ToSet(next) /\ Others = {cur} \cup ToSet(next)
      /\ ~Priority /\ TasksHeld = {} /\ Held = FramesHeld \cup Others /\ burst = [q \in {} |-> ""]
      /\ stack # <<>> /\ FramesHeld \cap Others = {} /\ Held \subseteq Paths
  BY CurFacts
<1>2. /\ UNCHANGED <<strategy, template, cancelled, jobs, closed, status, tries, tried>>
      /\ Paths' = Paths /\ Capacity' = Capacity /\ Tree' = Tree /\ \A q : Leaf(q)' = Leaf(q)
      /\ Eager' = Eager /\ Priority' = Priority
  BY MainOnlyFacts
<1>3. TasksHeld' = {} /\ TasksOK' /\ deque' = <<>> /\ completed' = <<>> /\ inFlight' = 0
  BY <1>1, <1>2, NoTasks
<1>4. /\ yielded' = Changed(yielded, cur, 1) /\ skipped' \in Nat
      /\ status[cur] = "accepted" /\ cancelled \in BOOLEAN
  BY DescendFacts
<1>5. RunOK /\ FramesOK /\ OthersOK /\ Where
  BY DEF IInv
<1>6. next = <<>> /\ ~Eager /\ strategy # "bfs" /\ strategy # "eager"
  BY <1>5 DEF OthersOK, Eager
<1>7. N \subseteq Paths /\ N \cap Held = {} /\ \A q \in N : status[q] = "none"
  BY <1>1, Fresh
<1>8. Capacity \in Nat
  BY <1>5, Context DEF Capacity
<1>9. FrameOK(g, status, cancelled) /\ FrameSet(g) = N /\ Fits(g, Capacity)
  <2> PICK n \in Nat : n = Capacity
    BY <1>8
  <2>1. FrameOK(g, status, cancelled) /\ FrameSet(g) = N /\ Fits(g, n)
    BY <1>4, <1>7, CallsFrame DEF Paths
  <2> QED
    BY <2>1
<1>10. StackOK(stack', status, cancelled, Capacity) /\ FramesIn(stack') = FramesHeld \cup N /\ stack' # <<>>
  <2>0. PICK n, s2 : n = Capacity /\ s2 = stack'
    BY <1>8
  <2>1. /\ StackOK(stack, status, cancelled, n) /\ FrameOK(g, status, cancelled) /\ Fits(g, n)
        /\ Apart(g, stack) /\ s2 = Pushed(stack, g)
    BY <2>0, <1>1, <1>5, <1>7, <1>9 DEF FramesOK, FramesHeld, Apart, Pushed
  <2>3. cancelled \in BOOLEAN
    BY <1>4
  <2>2. StackOK(s2, status, cancelled, n) /\ FramesIn(s2) = FramesIn(stack) \cup FrameSet(g) /\ s2 # <<>>
    BY <2>1, <2>3, StackPush
  <2> QED
    BY <2>0, <1>9, <2>2 DEF FramesHeld
<1>11. FramesHeld' = FramesHeld \cup N /\ Others' = {} /\ ToSet(next') = {}
  <2>1. FramesHeld' = FramesHeld \cup N
    BY <1>10 DEF FramesHeld
  <2>2. Others' = {}
    BY <1>1, <1>6, EmptyToSet DEF Others
  <2> QED
    BY <1>6, <2>1, <2>2, EmptyToSet
<1>12. Held' = (Held \ {cur}) \cup N /\ Undelivered' = (Undelivered \ {cur}) \cup N
  <2>1. Held = FramesHeld \cup {cur} /\ ToSet(next) = {}
    BY <1>1, <1>6, EmptyToSet
  <2>2. Held' = FramesHeld \cup N
    BY <1>3, <1>11 DEF Held
  <2> QED
    BY <1>1, <1>7, <1>11, <2>1, <2>2 DEF Undelivered
<1>13. RunOK' /\ SpineOK' /\ NothingForgotten' /\ PoolOK'
  BY <1>1, <1>2, <1>4, <1>12, ExpandKeeps
<1>14. FramesOK'
  BY <1>2, <1>10, <1>11 DEF FramesOK
<1>15. OthersOK'
  BY <1>1, <1>2, <1>5, <1>6 DEF OthersOK, BurstOK
<1>16. Where'
  BY <1>1, <1>2, <1>3, <1>5, <1>6, <1>10, <1>11 DEF Where, Waits, CanDispatch
<1> QED
  BY <1>1, <1>3, <1>12, <1>13, <1>14, <1>15, <1>16 DEF IInv, Replaced

\* BFS remembers the path for the next depth.
LEMMA RememberKeeps ==
  ASSUME IInv, Quiet, Waits, Deliver(cur), PruneRejected(cur), Descends(cur),
         MainOnly, PriorityIdle, UNCHANGED <<main, stack, burst>>, cur' = NoPath,
         strategy = "bfs", next' = Append(next, cur)
  PROVE  IInv' /\ Held' = Held
<1>1. /\ cur \in Paths /\ cur \in Undelivered /\ cur \in Held /\ cur \notin FramesHeld
      /\ cur \notin ToSet(next) /\ Others = {cur} \cup ToSet(next)
      /\ ~Priority /\ TasksHeld = {} /\ Held = FramesHeld \cup Others /\ burst = [q \in {} |-> ""]
      /\ stack # <<>> /\ FramesHeld \cap Others = {} /\ Held \subseteq Paths
      /\ yielded \in [Paths -> 0 .. 1]
  BY CurFacts
<1>2. /\ UNCHANGED <<strategy, template, cancelled, jobs, closed, status, tries, tried>>
      /\ Paths' = Paths /\ Capacity' = Capacity /\ Tree' = Tree /\ \A q : Leaf(q)' = Leaf(q)
      /\ Eager' = Eager /\ Priority' = Priority
  BY MainOnlyFacts
<1>3. TasksHeld' = {} /\ TasksOK' /\ deque' = <<>> /\ completed' = <<>> /\ inFlight' = 0
  BY <1>1, <1>2, NoTasks
<1>4. /\ yielded' = Changed(yielded, cur, 1) /\ skipped' \in Nat
      /\ status[cur] = "accepted" /\ ~Leaf(cur)
  BY DescendFacts
<1>5. RunOK /\ FramesOK /\ OthersOK /\ Where
  BY DEF IInv
<1>6. next' \in Seq(Paths) /\ IsInjective(next') /\ ToSet(next') = ToSet(next) \cup {cur}
  <2> DEFINE P == Paths
  <2>1. next \in Seq(P) /\ IsInjective(next) /\ cur \in P /\ cur \notin ToSet(next)
    BY <1>1, <1>5 DEF OthersOK
  <2> HIDE DEF P
  <2>2. /\ Append(next, cur) \in Seq(P) /\ IsInjective(Append(next, cur))
        /\ ToSet(Append(next, cur)) = ToSet(next) \cup {cur}
    BY <2>1, AppendOnce
  <2> QED
    BY <2>2 DEF P
<1>7. Others' = Others /\ FramesHeld' = FramesHeld
  BY <1>1, <1>6 DEF Others, FramesHeld
<1>8. Held' = Held /\ Undelivered' = Undelivered \ {cur}
  BY <1>1, <1>3, <1>6, <1>7 DEF Held, Undelivered
<1>9. RunOK' /\ SpineOK' /\ NothingForgotten' /\ PoolOK'
  <2>1. Spine(Held', status, yielded')
    BY <1>1, <1>4, <1>8, SpineDelivered
  <2>2. \A q \in Undelivered' : yielded'[q] = 0
    <3>1. \A q \in Undelivered : yielded[q] = 0 /\ q \in Paths
      BY <1>1, <1>5 DEF RunOK, Undelivered
    <3> QED
      BY <1>1, <1>4, <1>8, <3>1 DEF Changed
  <2>3. \A q \in Undelivered : q = cur \/ q \in Undelivered'
    BY <1>8
  <2>4. \A x \in Held, g \in Goals(Tree) : IsPrefix(x, g) => \E z \in Held' : IsPrefix(z, g)
    BY <1>8
  <2>5. PICK a \in {0, 1} : a = 1
    OBVIOUS
  <2>6. yielded' = Changed(yielded, cur, a)
    BY <1>4, <2>5
  <2> QED
    BY <1>1, <1>2, <1>4, <2>1, <2>2, <2>3, <2>4, <2>5, <2>6, DeliverKeeps
<1>10. FramesOK'
  BY <1>1, <1>2, <1>5, <1>7 DEF FramesOK
<1>11. OthersOK'
  BY <1>1, <1>2, <1>4, <1>5, <1>6 DEF OthersOK, BurstOK
<1>12. Where'
  BY <1>1, <1>2, <1>3, <1>5, <1>7, <1>8 DEF Where, Waits, CanDispatch
<1> QED
  BY <1>3, <1>8, <1>9, <1>10, <1>11, <1>12 DEF IInv

\* The eager policy starts a goroutine for every leaf below the path.
LEMMA VisitKeeps ==
  ASSUME IInv, Quiet, Waits, Deliver(cur), PruneRejected(cur), Descends(cur),
         MainOnly, PriorityIdle, UNCHANGED <<stack, next>>, cur' = NoPath, main' = "join",
         strategy = "adaptive", burst' = [q \in LeavesBelow(cur) |-> "submit"]
  PROVE  IInv' /\ Replaced(cur)
<1>1. /\ cur \in Paths /\ cur \in Undelivered /\ cur \in Held /\ cur \notin FramesHeld
      /\ cur \notin ToSet(next) /\ Others = {cur} \cup ToSet(next)
      /\ ~Priority /\ TasksHeld = {} /\ Held = FramesHeld \cup Others
      /\ stack # <<>> /\ FramesHeld \cap Others = {} /\ Held \subseteq Paths
  BY CurFacts
<1>2. /\ UNCHANGED <<strategy, template, cancelled, jobs, closed, status, tries, tried>>
      /\ Paths' = Paths /\ Capacity' = Capacity /\ Tree' = Tree /\ \A q : Leaf(q)' = Leaf(q)
      /\ Eager' = Eager /\ Priority' = Priority
  BY MainOnlyFacts
<1>3. TasksHeld' = {} /\ TasksOK' /\ deque' = <<>> /\ completed' = <<>> /\ inFlight' = 0
  BY <1>1, <1>2, NoTasks
<1>0. PICK N : N = LeavesBelow(cur)
  OBVIOUS
<1>4. /\ yielded' = Changed(yielded, cur, 1) /\ skipped' \in Nat
      /\ status[cur] = "accepted" /\ Refines(Tree, N, cur)
  BY <1>0, DescendFacts
<1>5. RunOK /\ FramesOK /\ OthersOK /\ Where
  BY DEF IInv
<1>6. next = <<>> /\ ~Eager /\ strategy # "bfs" /\ strategy # "eager" /\ ToSet(next) = {}
  BY <1>5, EmptyToSet DEF OthersOK, Eager
<1>7. N \subseteq Paths /\ N \cap Held = {} /\ \A q \in N : status[q] = "none"
  BY <1>1, <1>4, Fresh
<1>8. DOMAIN burst' = N /\ \A q \in N : burst'[q] = "submit"
  BY <1>0
<1>9. Others' = N /\ FramesHeld' = FramesHeld
  BY <1>6, <1>8 DEF Others, FramesHeld
<1>10. Held' = (Held \ {cur}) \cup N /\ Undelivered' = (Undelivered \ {cur}) \cup N
  <2>1. Held = FramesHeld \cup {cur}
    BY <1>1, <1>6
  <2>2. Held' = FramesHeld \cup N
    BY <1>3, <1>9 DEF Held
  <2> QED
    BY <1>1, <1>6, <1>7, <2>1, <2>2 DEF Undelivered
<1>11. RunOK' /\ SpineOK' /\ NothingForgotten' /\ PoolOK'
  BY <1>1, <1>2, <1>4, <1>10, ExpandKeeps
<1>12. FramesOK'
  BY <1>1, <1>2, <1>5, <1>7, <1>9 DEF FramesOK
<1>13. OthersOK'
  <2>1. BurstOK'
    <3>1. burst' = [q \in N |-> "submit"]
      BY <1>0
    <3>2. burst' \in [DOMAIN burst' -> {"submit", "await"}]
      BY <3>1
    <3>3. \A q \in N : Leaf(q)
      BY <1>0 DEF LeavesBelow
    <3> QED
      BY <1>2, <1>7, <1>8, <3>2, <3>3 DEF BurstOK
  <2> QED
    BY <1>2, <1>5, <1>6, <2>1 DEF OthersOK
<1>14. Where'
  BY <1>1, <1>2, <1>3, <1>5, <1>6, <1>10 DEF Where, CanDispatch
<1> QED
  BY <1>3, <1>4, <1>10, <1>11, <1>12, <1>13, <1>14 DEF IInv, Replaced

\* dfsVisit and runBFS take a reply.
LEMMA ConsumeKeeps ==
  ASSUME IInv, Quiet, Consume
  PROVE  /\ IInv'
         /\ ~Descends(cur) => Held' = Held \ {cur}
         /\ Descends(cur) => Held' = Held \/ Replaced(cur)
<1>1. /\ Waits /\ Answered(cur) /\ Deliver(cur) /\ PruneRejected(cur) /\ cur' = NoPath
      /\ UNCHANGED <<main, burst>> /\ MainOnly /\ PriorityIdle
  BY DEF Consume, Waits
<1>2. CASE ~Descends(cur)
  <2>1. UNCHANGED <<stack, next>>
    BY <1>2 DEF Consume
  <2> QED
    BY <1>1, <1>2, <2>1, DropKeeps
<1>3. CASE Descends(cur) /\ strategy = "dfs" /\ UNCHANGED next
           /\ stack' = Append(stack, Evaluate(Below[template][cur], <<>>))
  <2> PICK N, g : N = ChildSet(Tree, cur) /\ g = Evaluate(Below[template][cur], <<>>)
    OBVIOUS
  <2>1. Refines(Tree, N, cur) /\ Lists(Below[template][cur], N)
    BY <1>1, <1>3, DescendFacts
  <2>2. CallsFor(g, N)
    BY <2>1, ListCalls
  <2>3. stack' = Append(stack, g)
    BY <1>3
  <2> QED
    BY <1>1, <1>3, <2>1, <2>2, <2>3, EnterKeeps
<1>4. CASE Descends(cur) /\ strategy = "bfs" /\ UNCHANGED stack /\ next' = Append(next, cur)
  BY <1>1, <1>4, RememberKeeps
<1> QED
  BY <1>2, <1>3, <1>4 DEF Consume

\* adaptVisit takes a reply.
LEMMA ConsumeAdaptiveKeeps ==
  ASSUME IInv, Quiet, ConsumeAdaptive
  PROVE  /\ IInv'
         /\ ~Descends(cur) => Held' = Held \ {cur}
         /\ Descends(cur) => Held' = Held \/ Replaced(cur)
<1>1. /\ Waits /\ Answered(cur) /\ Deliver(cur) /\ PruneRejected(cur) /\ cur' = NoPath
      /\ UNCHANGED next /\ MainOnly /\ PriorityIdle /\ strategy = "adaptive"
  BY DEF ConsumeAdaptive, Waits
<1>2. CASE ~Descends(cur)
  <2>1. UNCHANGED <<main, stack, burst>>
    BY <1>2 DEF ConsumeAdaptive
  <2> QED
    BY <1>1, <1>2, <2>1, DropKeeps
<1>3. CASE Descends(cur) /\ UNCHANGED <<main, burst>>
           /\ \E o \in Orders(Below[template][cur]) : stack' = Append(stack, AdaptFrame(o))
  <2>0. PICK o \in Orders(Below[template][cur]) : stack' = Append(stack, AdaptFrame(o))
    BY <1>3
  <2> PICK N, g : N = ChildSet(Tree, cur) /\ g = AdaptFrame(o)
    OBVIOUS
  <2>1. Refines(Tree, N, cur) /\ Lists(Below[template][cur], N) /\ N # {}
    BY <1>1, <1>3, DescendFacts
  <2>2. CallsFor(g, N)
    BY <2>1, AdaptCalls
  <2>3. stack' = Append(stack, g)
    BY <2>0
  <2> QED
    BY <1>1, <1>3, <2>1, <2>2, <2>3, EnterKeeps
<1>4. CASE Descends(cur) /\ burst' = [q \in LeavesBelow(cur) |-> "submit"] /\ main' = "join"
           /\ UNCHANGED stack
  BY <1>1, <1>4, VisitKeeps
<1> QED
  BY <1>2, <1>3, <1>4 DEF ConsumeAdaptive

\* The levels that are left, or go on, hold no more than before.
LEMMA LevelsKeep ==
  ASSUME IInv, Quiet, main = "run", cur = NoPath, ~Priority, MainOnly, PriorityIdle,
         UNCHANGED <<main, cur, next, yielded, skipped, burst>>,
         StackOK(stack', status, cancelled, Capacity), Len(stack') <= 1 \/ Len(stack) > 1,
         FramesIn(stack') \subseteq FramesHeld, ~cancelled => FramesHeld \subseteq FramesIn(stack'),
         next # <<>> => stack' # <<>>
  PROVE  IInv' /\ Held' \subseteq Held /\ (~cancelled => Held \subseteq Held')
<1>1. /\ UNCHANGED <<strategy, template, cancelled, jobs, closed, status, tries, tried>>
      /\ Paths' = Paths /\ Capacity' = Capacity /\ Tree' = Tree /\ \A q : Leaf(q)' = Leaf(q)
      /\ Eager' = Eager /\ Priority' = Priority
  BY MainOnlyFacts
<1>2. TasksHeld = {} /\ TasksHeld' = {} /\ TasksOK' /\ deque' = <<>> /\ completed' = <<>> /\ inFlight' = 0
  BY <1>1, NoTasks
<1>3. RunOK /\ FramesOK /\ OthersOK /\ Where
  BY DEF IInv
<1>4. Others' = Others /\ FramesHeld' = FramesIn(stack')
  BY DEF Others, FramesHeld
<1>5. /\ Held' \subseteq Held /\ Undelivered' \subseteq Undelivered
      /\ ~cancelled => Held \subseteq Held' /\ Undelivered \subseteq Undelivered'
  BY <1>2, <1>4 DEF Held, Undelivered
<1>6. RunOK' /\ SpineOK' /\ NothingForgotten' /\ PoolOK'
  BY <1>1, <1>3, <1>5, MoveKeeps DEF RunOK
<1>7. FramesOK'
  BY <1>1, <1>3, <1>4 DEF FramesOK
<1>8. OthersOK'
  BY <1>1, <1>3 DEF OthersOK, BurstOK
<1>9. Where'
  <2>1. strategy \in {"bfs", "eager"} => Len(stack') <= 1
    BY <1>3 DEF Where, FramesOK, StackOK
  <2> QED
    BY <1>1, <1>2, <1>3, <1>5, <2>1 DEF Where, CanDispatch
<1> QED
  BY <1>2, <1>5, <1>6, <1>7, <1>8, <1>9 DEF IInv

\* A level of which nothing is left but the batches that follow.
IsDrained(f) == f.pc = "closed" /\ f.pend = <<>>

\* A level that is drained holds only its later batches.
LEMMA DrainedFacts ==
  ASSUME NEW st, NEW c, NEW f, FrameOK(f, st, c), IsDrained(f)
  PROVE  /\ LaterPaths(f) \subseteq FrameSet(f) /\ (~c => FrameSet(f) = LaterPaths(f))
         /\ FrameSet(f) = ToSet(f.todo) \cup LaterPaths(f)
         /\ Batches(f.later, LaterPaths(f)) /\ LaterPaths(f) \subseteq DOMAIN st
         /\ \A p \in LaterPaths(f) : st[p] = "none"
<1>1. f \in Frames(DOMAIN st) /\ OnePlace(f) /\ Sent(f, st) /\ (~c => Uncancelled(f))
  BY DEF FrameOK
<1>2. FrameSet(f) = ToSet(f.todo) \cup LaterPaths(f)
  BY DEF FrameSet, PendPaths, IsDrained
<1>3. ~c => ToSet(f.todo) = {}
  BY <1>1, EmptyToSet DEF Uncancelled, IsDrained
<1>4. LaterPaths(f) \subseteq DOMAIN st
  BY <1>1, FramePathsIn
<1> QED
  BY <1>1, <1>2, <1>3, <1>4 DEF OnePlace, Sent

\* What main knows of the innermost level when it is over.
LEMMA OverFacts ==
  ASSUME IInv, stack # <<>>, Drained, NEW f, f = Top
  PROVE  /\ f = stack[Inner] /\ Inner \in DOMAIN stack /\ Inner = Len(stack)
         /\ FrameSet(f) \subseteq FramesHeld /\ StackOK(stack, status, cancelled, Capacity)
         /\ FrameOK(f, status, cancelled) /\ IsDrained(f) /\ ~Priority /\ cancelled \in BOOLEAN
         /\ Capacity \in Nat /\ Len(stack) \in Nat \ {0}
<1>1. FramesOK
  BY DEF IInv
<1>2. f = stack[Inner] /\ Inner \in DOMAIN stack /\ Inner = Len(stack) /\ Inner \in Nat \ {0}
  BY <1>1, TopFacts DEF Inner
<1>3. FrameSet(f) \subseteq FramesHeld /\ FrameOK(f, status, cancelled) /\ ~Priority /\ cancelled \in BOOLEAN
      /\ Capacity \in Nat
  BY <1>2, FrameAlone
<1>4. IsDrained(f)
  BY DEF Drained, IsDrained
<1> QED
  BY <1>1, <1>2, <1>3, <1>4 DEF FramesOK

ToNextBatch ==
  /\ Top.later # <<>>
  /\ stack' = [stack EXCEPT ![Inner] = Evaluate(Head(Top.later), Tail(Top.later))]

\* The next batch of the level.
LEMMA BatchKeeps ==
  ASSUME IInv, Quiet, main = "run", stack # <<>>, cur = NoPath, Drained, MainOnly, PriorityIdle,
         UNCHANGED <<main, cur, next, yielded, skipped, burst>>, ToNextBatch
  PROVE  IInv' /\ Held' \subseteq Held /\ (~cancelled => Held \subseteq Held')
<1>a. PICK f, g, k, s2 : /\ f = Top /\ g = Evaluate(Head(f.later), Tail(f.later)) /\ k = Inner
                         /\ s2 = stack'
  OBVIOUS
<1>1. /\ f = stack[k] /\ k \in DOMAIN stack /\ k = Len(stack)
      /\ FrameSet(f) \subseteq FramesHeld
      /\ FrameOK(f, status, cancelled) /\ IsDrained(f) /\ ~Priority /\ cancelled \in BOOLEAN
      /\ Len(stack) \in Nat \ {0}
  BY <1>a, OverFacts
<1>b. PICK n : n = Capacity
  OBVIOUS
<1>2. n \in Nat /\ StackOK(stack, status, cancelled, n)
  BY <1>a, <1>b, OverFacts
<1>c. PICK P, bs : P = LaterPaths(f) /\ bs = f.later
  OBVIOUS
<1>3. /\ P \subseteq FrameSet(f) /\ (~cancelled => FrameSet(f) = P)
      /\ Batches(bs, P) /\ P \subseteq DOMAIN status /\ \A p \in P : status[p] = "none"
  BY <1>1, <1>c, DrainedFacts
<1>4. g = Evaluate(Head(bs), Tail(bs)) /\ bs # <<>>
  BY <1>a, <1>c DEF ToNextBatch
<1>5. FrameOK(g, status, cancelled) /\ FrameSet(g) = P /\ g.pend = <<>>
  BY <1>1, <1>3, <1>4, FrameNew
<1>6. Fits(g, n)
  <2>1. Len(g.pend) <= n
    BY <1>2, <1>5
  <2> QED
    BY <2>1 DEF Fits
<1>7. s2 = Changed(stack, k, g)
  BY <1>a DEF Changed, ToNextBatch
<1>8. FrameSet(g) \subseteq FrameSet(stack[k])
  BY <1>1, <1>3, <1>5
<1>9. /\ StackOK(s2, status, cancelled, n) /\ Len(s2) = Len(stack)
      /\ FramesIn(s2) = (FramesIn(stack) \ FrameSet(stack[k])) \cup FrameSet(g)
  <2>1. /\ StackOK(stack, status, cancelled, n) /\ cancelled \in BOOLEAN /\ k \in DOMAIN stack
        /\ FrameOK(g, status, cancelled) /\ FrameSet(g) \subseteq FrameSet(stack[k]) /\ Fits(g, n)
        /\ s2 = Changed(stack, k, g)
    BY <1>1, <1>2, <1>5, <1>6, <1>7, <1>8
  <2> QED
    BY <2>1, StackGoesOn
<1>10. /\ FramesIn(s2) \subseteq FramesHeld /\ (~cancelled => FramesHeld \subseteq FramesIn(s2))
       /\ s2 # <<>>
  <2>1. Len(s2) # 0
    BY <1>1, <1>9
  <2> QED
    BY <1>1, <1>3, <1>5, <1>9, <2>1 DEF FramesHeld
<1>11. Len(stack') <= 1 \/ Len(stack) > 1
  BY <1>1, <1>9, <1>a
<1>12. /\ StackOK(stack', status, cancelled, Capacity) /\ FramesIn(stack') \subseteq FramesHeld
       /\ (~cancelled => FramesHeld \subseteq FramesIn(stack')) /\ stack' # <<>>
  BY <1>9, <1>10, <1>a, <1>b
<1> QED
  BY <1>1, <1>11, <1>12, LevelsKeep

\* Back to the caller.
LEMMA PopKeeps ==
  ASSUME IInv, Quiet, main = "run", stack # <<>>, cur = NoPath, Drained, MainOnly, PriorityIdle,
         UNCHANGED <<main, cur, next, yielded, skipped, burst>>,
         Top.later = <<>> \/ cancelled, next = <<>>, stack' = Front(stack)
  PROVE  IInv' /\ Held' \subseteq Held /\ (~cancelled => Held \subseteq Held')
<1> PICK f, s2 : f = Top /\ s2 = stack'
  OBVIOUS
<1>1. /\ f = stack[Len(stack)] /\ FrameSet(f) \subseteq FramesHeld
      /\ FrameOK(f, status, cancelled) /\ IsDrained(f) /\ ~Priority /\ cancelled \in BOOLEAN
      /\ Len(stack) \in Nat \ {0}
  BY OverFacts
<1> PICK n : n = Capacity
  OBVIOUS
<1>2. n \in Nat /\ StackOK(stack, status, cancelled, n)
  BY OverFacts
<1>3. ~cancelled => FrameSet(f) = {}
  <2>1. ~cancelled => FrameSet(f) = LaterPaths(f)
    BY <1>1, DrainedFacts
  <2>2. ~cancelled => LaterPaths(f) = {}
    BY DEF LaterPaths
  <2> QED
    BY <2>1, <2>2
<1>4. s2 = Front(stack)
  OBVIOUS
<1>5. StackOK(s2, status, cancelled, n) /\ Len(s2) = Len(stack) - 1
      /\ FramesIn(s2) = FramesIn(stack) \ FrameSet(stack[Len(stack)])
  BY <1>1, <1>2, <1>4, StackPop
<1>6. Len(stack') <= 1 \/ Len(stack) > 1
  BY <1>1, <1>5
<1>7. /\ StackOK(stack', status, cancelled, Capacity) /\ FramesIn(stack') \subseteq FramesHeld
      /\ (~cancelled => FramesHeld \subseteq FramesIn(stack'))
  BY <1>1, <1>3, <1>5 DEF FramesHeld
<1> QED
  BY <1>1, <1>6, <1>7, LevelsKeep

-----------------------------------------------------------------------------
(* BFS goes on to the next depth.                                            *)
ToNextDepth ==
  /\ stack # <<>> /\ Drained /\ Top.later = <<>> /\ next # <<>> /\ next' = <<>>
  /\ LET batches == LevelBatches(next, Len(Head(next)) + 1) IN
     stack' = <<Evaluate(Head(batches), Tail(batches))>>

\* All that is below the accepted paths of a depth.
AtDepth(E, d) == \A p \in E : p \in Nodes(Tree) /\ ~IsLeaf(Tree, p) /\ Len(p) = d
ChildrenPer(E) == [p \in E |-> ChildSet(Tree, p)]
DepthCalls(q, E, d, M) ==
  \E bs, N : /\ bs = LevelBatches(q, d + 1) /\ Batches(bs, N) /\ bs # <<>>
             /\ N = AllBelow(M, E) /\ \A p \in N : Len(p) = d + 1

\* The calls of the next depth hold what is below the remembered paths.
LEMMA NextDepth ==
  ASSUME Chosen, NEW E, NEW d \in Nat, AtDepth(E, d), NEW q, Lists(q, E), q # <<>>,
         NEW M, M = ChildrenPer(E)
  PROVE  DepthCalls(q, E, d, M) /\ \A p \in E : Refines(Tree, M[p], p)
<1>0. \A p \in E : p \in Nodes(Tree) /\ ~IsLeaf(Tree, p) /\ Len(p) = d
  BY DEF AtDepth
<1>1. IsPlan(Tree)
  BY SpaceOfTree
<1>2. \A p \in E : p \in Seq(AllValues(Tree)) /\ Refines(Tree, ChildSet(Tree, p), p)
  BY <1>0, <1>1, NodesFacts, ChildrenRefine
<1> DEFINE V == ValueSet(Tree, d + 1)  X == Extended(E, V)
<1>3. E # {}
  BY ListsFacts
<1>4. d + 1 \in Depths(Tree)
  <2>1. PICK p \in E : TRUE
    BY <1>3
  <2> QED
    BY <1>0, <1>1, <2>1, ChildrenLists
<1>5. \A p \in E : ChildSet(Tree, p) = Extended({p}, V)
  BY <1>0 DEF ChildSet
<1>12. \A p \in E : M[p] = ChildSet(Tree, p)
  BY DEF ChildrenPer
<1> HIDE DEF V
<1>6. X = AllBelow(M, E)
  <2>1. ASSUME NEW x \in X PROVE x \in AllBelow(M, E)
    <3>1. PICK p \in E, v \in V : x = Append(p, v)
      BY ExtendedFacts
    <3>2. x \in Extended({p}, V)
      BY <3>1, ExtendedFacts
    <3>3. x \in M[p]
      BY <1>5, <1>12, <3>2
    <3> QED
      BY <3>3 DEF AllBelow
  <2>2. ASSUME NEW x \in AllBelow(M, E) PROVE x \in X
    <3>1. PICK p \in E : x \in M[p]
      BY <2>2 DEF AllBelow
    <3>2. x \in Extended({p}, V)
      BY <1>5, <1>12, <3>1
    <3>3. PICK v \in V : x = Append(p, v)
      BY <3>2, ExtendedFacts
    <3> QED
      BY <3>3, ExtendedFacts
  <2> QED
    BY <2>1, <2>2
<1>7. \A x \in X : Len(x) = d + 1
  <2> SUFFICES ASSUME NEW x \in X PROVE Len(x) = d + 1
    OBVIOUS
  <2>1. PICK p \in E, v \in V : x = Append(p, v)
    BY ExtendedFacts
  <2>2. p \in Seq(AllValues(Tree)) /\ Len(p) = d /\ V \subseteq AllValues(Tree)
    BY <1>0, <1>2, <1>4 DEF AllValues, V
  <2> QED
    BY <2>1, <2>2, AppendProperties
<1>8. E \subseteq Seq(AllValues(Tree))
  BY <1>2
<1>9. Batches(LevelBatches(q, d + 1), X) /\ LevelBatches(q, d + 1) # <<>>
  BY <1>4, <1>8, LevelBatchesSplit DEF V
<1> HIDE DEF X
<1>10. DepthCalls(q, E, d, M)
  BY <1>6, <1>7, <1>9 DEF DepthCalls
<1> QED
  BY <1>2, <1>10, <1>12

\* BFS goes one depth down.
LEMMA DepthKeeps ==
  ASSUME IInv, Quiet, main = "run", cur = NoPath, MainOnly, PriorityIdle,
         UNCHANGED <<main, cur, yielded, skipped, burst>>, ToNextDepth
  PROVE  IInv' /\ \E E, M : Expands(E, M)
<1>a. PICK f, q, E, d, M, s2 : /\ f = Top /\ q = next /\ E = ToSet(next) /\ d = Len(Head(next)) /\ s2 = stack'
                               /\ M = ChildrenPer(E)
  OBVIOUS
<1>1. /\ UNCHANGED <<strategy, template, cancelled, jobs, closed, status, tries, tried>>
      /\ Paths' = Paths /\ Capacity' = Capacity /\ Tree' = Tree /\ \A x : Leaf(x)' = Leaf(x)
      /\ Eager' = Eager /\ Priority' = Priority
  BY MainOnlyFacts
<1>2. /\ FrameSet(f) \subseteq FramesHeld /\ FrameOK(f, status, cancelled) /\ IsDrained(f) /\ ~Priority
      /\ f = stack[Len(stack)] /\ Len(stack) \in Nat \ {0} /\ cancelled \in BOOLEAN /\ Capacity \in Nat
  BY <1>a, OverFacts DEF ToNextDepth
<1>3. TasksHeld = {} /\ TasksHeld' = {} /\ TasksOK' /\ deque' = <<>> /\ completed' = <<>> /\ inFlight' = 0
  BY <1>1, <1>2, NoTasks
<1>4. RunOK /\ FramesOK /\ OthersOK /\ Where /\ SpineOK /\ NothingForgotten /\ PoolOK
  BY DEF IInv
<1>5. strategy = "bfs" /\ next # <<>> /\ next' = <<>> /\ f.later = <<>>
  BY <1>a, <1>4 DEF ToNextDepth, OthersOK
<1>6. ~cancelled => FramesHeld = {}
  <2>1. Len(stack) = 1 /\ DOMAIN stack = {1} /\ f = stack[1]
    <3>1. stack \in Seq(Frames(DOMAIN status)) /\ Len(stack) <= 1
      BY <1>4, <1>5 DEF Where, FramesOK, StackOK
    <3>2. Len(stack) = 1
      <4> PICK m : m = Len(stack)
        OBVIOUS
      <4>1. m \in Nat \ {0} /\ m <= 1
        BY <1>2, <3>1
      <4>2. m = 1
        BY <4>1
      <4> QED
        BY <4>2
    <3> QED
      BY <1>2, <3>1, <3>2
  <2>2. FramesHeld = FrameSet(f)
    BY <2>1 DEF FramesHeld, FramesIn
  <2>3. ~cancelled => FrameSet(f) = LaterPaths(f)
    BY <1>2, DrainedFacts
  <2>4. LaterPaths(f) = {}
    BY <1>5 DEF LaterPaths
  <2> QED
    BY <2>2, <2>3, <2>4
<1>7. burst = [x \in {} |-> ""] /\ DOMAIN burst = {} /\ Others = E
  <2>1. DOMAIN burst = {}
    BY DEF Quiet
  <2>2. burst = [x \in {} |-> ""]
    BY <1>4, <2>1 DEF OthersOK, BurstOK
  <2> QED
    BY <1>a, <2>1, <2>2 DEF Others
<1>8. Held = FramesHeld \cup E /\ Undelivered \subseteq FramesHeld
  BY <1>3, <1>7, <1>a DEF Held, Undelivered
<1>9. /\ Chosen /\ Paths = Nodes(Tree) /\ Held \subseteq Paths /\ Goals(Tree) \subseteq Paths
      /\ \A x \in Paths : Leaf(x) <=> IsLeaf(Tree, x)
  BY <1>4, Context DEF SpineOK, Spine, Paths
<1>10. /\ q \in Seq(Paths) /\ IsInjective(q) /\ q # <<>> /\ E = ToSet(q) /\ E \subseteq Held
       /\ \A x \in E : ~Leaf(x) /\ status[x] = "accepted" /\ Len(x) = d /\ x \in Paths
  <2>1. q \in Seq(Paths) /\ IsInjective(q) /\ q # <<>> /\ E = ToSet(q)
    BY <1>4, <1>5, <1>a DEF OthersOK
  <2>2. E \subseteq Held
    BY <1>7 DEF Held
  <2>3. Head(q) \in E
    <3>1. 1 \in DOMAIN q /\ Head(q) = q[1]
      BY <2>1
    <3> QED
      BY <2>1, <3>1 DEF ToSet
  <2>4. \A x \in E : Len(x) = d
    BY <1>4, <1>5, <1>a, <2>2, <2>3 DEF Where
  <2>5. \A x \in E : ~Leaf(x) /\ status[x] = "accepted"
    BY <1>4, <1>a DEF OthersOK
  <2> QED
    BY <1>9, <2>1, <2>2, <2>4, <2>5
<1>11. Lists(q, E) /\ d \in Nat
  <2>1. Lists(q, E)
    <3>1. q \in Seq(E)
      <4>1. \A i \in 1 .. Len(q) : q[i] \in E
        BY <1>10 DEF ToSet
      <4>2. Len(q) \in Nat /\ q = [i \in 1 .. Len(q) |-> q[i]]
        BY <1>10
      <4>3. q \in [1 .. Len(q) -> E]
        BY <4>1, <4>2
      <4> QED
        BY <4>2, <4>3, SeqDef
    <3> QED
      BY <1>10, <3>1 DEF Lists
  <2>2. PICK x \in E : TRUE
    BY <1>10, <2>1, ListsFacts
  <2>3. x \in Seq(AllValues(Tree))
    BY <1>9, <1>10, NodesFacts, SpaceOfTree
  <2>4. Len(x) \in Nat
    BY <2>3
  <2> QED
    BY <1>10, <2>1, <2>4
<1>12. AtDepth(E, d)
  BY <1>9, <1>10 DEF AtDepth
<1>13. DepthCalls(q, E, d, M) /\ \A p \in E : Refines(Tree, M[p], p)
  <2>1. M = ChildrenPer(E) /\ Chosen /\ q # <<>>
    BY <1>a, <1>9, <1>10
  <2> QED
    BY <1>11, <1>12, <2>1, NextDepth
<1>14. PICK bs, N : /\ bs = LevelBatches(q, d + 1) /\ Batches(bs, N) /\ bs # <<>>
                    /\ N = AllBelow(M, E) /\ \A p \in N : Len(p) = d + 1
  BY <1>13 DEF DepthCalls
<1>15. \A p \in E : Refines(Tree, M[p], p)
  BY <1>13
<1>16. PICK g : g = Evaluate(Head(bs), Tail(bs))
  OBVIOUS
<1>17. s2 = <<g>>
  BY <1>14, <1>16, <1>a DEF ToNextDepth
<1>18. Spine((Held \ E) \cup N, status, yielded) /\ N \subseteq Paths
       /\ \A p \in N : status[p] = "none" /\ yielded[p] = 0
  <2>1. PICK H, H2 : H = Held /\ H2 = (H \ E) \cup N
    OBVIOUS
  <2>2. /\ Chosen /\ Spine(H, status, yielded) /\ DOMAIN status = Nodes(Tree) /\ E \subseteq H
        /\ \A p \in E : status[p] = "accepted"
        /\ H2 = (H \ E) \cup AllBelow(M, E)
    BY <1>4, <1>9, <1>10, <1>14, <2>1 DEF SpineOK, Paths
  <2>3. /\ Spine(H2, status, yielded)
        /\ \A p \in AllBelow(M, E) : p \in DOMAIN status /\ p \notin H /\ status[p] = "none" /\ yielded[p] = 0
    BY <1>15, <2>2, SpineExpand
  <2> QED
    BY <1>14, <2>1, <2>3 DEF Paths
<1>19. CallsFor(g, N)
  BY <1>14, <1>16 DEF CallsFor
<1>b. PICK n \in Nat : n = Capacity
  BY <1>2
<1>20. FrameOK(g, status, cancelled) /\ FrameSet(g) = N /\ Fits(g, n)
  <2>1. cancelled \in BOOLEAN /\ N \subseteq DOMAIN status /\ \A p \in N : status[p] = "none"
    BY <1>2, <1>18 DEF Paths
  <2> QED
    BY <1>19, <2>1, CallsFrame
<1>21. StackOK(s2, status, cancelled, n) /\ FramesIn(s2) = N /\ Len(s2) = 1
  <2>1. cancelled \in BOOLEAN
    BY <1>2
  <2>2. /\ StackOK(<<g>>, status, cancelled, n) /\ FramesIn(<<g>>) = FrameSet(g) /\ Len(<<g>>) = 1
    BY <1>20, <2>1, StackOne
  <2> QED
    BY <1>17, <1>20, <2>2
<1>22. FramesHeld' = N /\ Others' = {} /\ Held' = N /\ Undelivered' = N /\ ToSet(next') = {}
  <2>1. FramesHeld' = N
    BY <1>21, <1>a DEF FramesHeld
  <2>2. Others' = {} /\ ToSet(next') = {}
    BY <1>5, <1>7, EmptyToSet DEF Others
  <2> QED
    BY <1>3, <2>1, <2>2 DEF Held, Undelivered
<1>23. PoolOK'
  BY <1>1, <1>4 DEF PoolOK
<1>24. RunOK'
  BY <1>1, <1>4, <1>18, <1>22 DEF RunOK, Asked
<1>25. SpineOK'
  <2>1. PICK H2 : H2 = (Held \ E) \cup N
    OBVIOUS
  <2>2. Spine(H2, status, yielded) /\ N \subseteq H2
    BY <1>18, <2>1
  <2>3. Spine(N, status, yielded)
    BY <2>2, SpineShrinks
  <2> QED
    BY <1>1, <1>22, <2>3 DEF SpineOK
<1>26. NothingForgotten'
  <2> SUFFICES ASSUME ~cancelled PROVE Remembers(Goals(Tree), N, N, status, yielded)
    BY <1>1, <1>22 DEF NothingForgotten
  <2>1. PICK G, R, H : G = Goals(Tree) /\ R = Undelivered /\ H = Held
    OBVIOUS
  <2>2. Remembers(G, H, R, status, yielded) /\ R = {} /\ H = E
    BY <1>4, <1>6, <1>8, <2>1 DEF NothingForgotten
  <2>3. \A x \in H, z \in G : IsPrefix(x, z) => SettledIn(status, z) \/ \E y \in N : IsPrefix(y, z)
    <3> SUFFICES ASSUME NEW x \in E, NEW z \in G, IsPrefix(x, z) PROVE \E y \in N : IsPrefix(y, z)
      BY <2>2
    <3>1. Refines(Tree, M[x], x)
      BY <1>15
    <3>2. PICK y \in M[x] : IsPrefix(y, z)
      BY <2>1, <3>1 DEF Refines
    <3>3. y \in N
      BY <1>14, <3>2 DEF AllBelow
    <3> QED
      BY <3>2, <3>3
  <2>4. Remembers(G, N, N, status, yielded)
    BY <2>2, <2>3, RemembersMove
  <2> QED
    BY <2>1, <2>4
<1>27. FramesOK'
  BY <1>1, <1>21, <1>22, <1>a, <1>b DEF FramesOK
<1>28. stack' # <<>>
  BY <1>17, <1>a
<1>29. OthersOK'
  <2>1. next' \in Seq(Paths') /\ IsInjective(next')
    BY <1>5, EmptyToSet
  <2> QED
    BY <1>1, <1>4, <1>5, <1>22, <1>28, <2>1 DEF OthersOK, BurstOK
<1>30. Where'
  <2>1. \A x, y \in Held' : Len(x) = Len(y)
    BY <1>14, <1>22
  <2> QED
    BY <1>1, <1>2, <1>3, <1>4, <1>5, <1>21, <1>22, <1>a, <2>1 DEF Where, CanDispatch, Eager
<1>31. IInv'
  BY <1>3, <1>23, <1>24, <1>25, <1>26, <1>27, <1>29, <1>30 DEF IInv
<1>32. Expands(E, M)
  <2>1. E \subseteq Held /\ \A p \in E : status[p] = "accepted" /\ Refines(Tree, M[p], p)
    BY <1>10, <1>15
  <2>2. Held' \subseteq (Held \ E) \cup AllBelow(M, E)
    BY <1>14, <1>22
  <2>3. ~cancelled => Held \ E \subseteq Held'
    BY <1>6, <1>8
  <2> QED
    BY <2>1, <2>2, <2>3 DEF Expands
<1> QED
  BY <1>31, <1>32

\* A call of evaluateLevel is over.
LEMMA NextBatchKeeps ==
  ASSUME IInv, Quiet, NextBatch
  PROVE  IInv' /\ Moves({})
<1>1. /\ main = "run" /\ stack # <<>> /\ cur = NoPath /\ Drained /\ MainOnly /\ PriorityIdle
      /\ UNCHANGED <<main, cur, yielded, skipped, burst>>
  BY DEF NextBatch
<1>2. CASE ToNextBatch /\ UNCHANGED next
  <2>1. UNCHANGED <<main, cur, next, yielded, skipped, burst>>
    BY <1>1, <1>2
  <2>2. IInv' /\ Held' \subseteq Held /\ (~cancelled => Held \subseteq Held')
    BY <1>1, <1>2, <2>1, BatchKeeps
  <2> QED
    BY <2>2, MovesNone
<1>3. CASE ToNextDepth
  <2>1. IInv' /\ \E E, M : Expands(E, M)
    BY <1>1, <1>3, DepthKeeps
  <2> QED
    BY <2>1, MovesBelow
<1>4. CASE /\ (Top.later = <<>> /\ next = <<>>) \/ (strategy = "adaptive" /\ cancelled)
           /\ stack' = Front(stack) /\ UNCHANGED next
  <2>1. next = <<>>
    BY <1>4 DEF IInv, OthersOK
  <2>2. UNCHANGED <<main, cur, next, yielded, skipped, burst>>
    BY <1>1, <1>4
  <2>3. Top.later = <<>> \/ cancelled
    BY <1>4
  <2>4. stack' = Front(stack)
    BY <1>4
  <2>5. IInv' /\ Held' \subseteq Held /\ (~cancelled => Held \subseteq Held')
    BY <1>1, <2>1, <2>2, <2>3, <2>4, PopKeeps
  <2> QED
    BY <2>5, MovesNone
<1> QED
  BY <1>1, <1>2, <1>3, <1>4 DEF NextBatch, ToNextBatch, ToNextDepth

\* The goroutine of Run goes from one place to another.
LEMMA WalkKeeps ==
  ASSUME IInv,
         UNCHANGED <<strategy, template, cancelled, jobs, status, tries, tried, skipped, yielded, stack,
                     cur, next, deque, inFlight, waiting, completed, burst>>,
         closed' \in BOOLEAN, cur = NoPath, main' \in {"run", "returned", "closed", "dispatch"},
         main' = "dispatch" => Priority /\ CanDispatch
  PROVE  IInv' /\ Held' = Held
<1>1. /\ Tree' = Tree /\ Paths' = Paths /\ Capacity' = Capacity /\ (\A q : Leaf(q)' = Leaf(q))
      /\ Eager' = Eager /\ Priority' = Priority /\ (CanDispatch => CanDispatch')
  BY DEF Tree, Paths, Capacity, Leaf, Eager, Priority, CanDispatch
<1>2. RunOK /\ FramesOK /\ OthersOK /\ Where /\ TasksOK
  BY DEF IInv
<1>3. FramesHeld' = FramesHeld /\ Others' = Others /\ TasksHeld' = TasksHeld
  BY DEF FramesHeld, Others, TasksHeld
<1>4. Held' = Held /\ Undelivered' = Undelivered
  BY <1>3 DEF Held, Undelivered
<1>5. RunOK' /\ SpineOK' /\ NothingForgotten' /\ PoolOK'
  BY <1>2, <1>4, MoveKeeps DEF RunOK
<1>6. FramesOK'
  BY <1>1, <1>2, <1>3 DEF FramesOK
<1>7. OthersOK'
  <2>1. BurstOK'
    BY <1>1, <1>2 DEF OthersOK, BurstOK
  <2> QED
    BY <1>1, <1>2, <2>1 DEF OthersOK
<1>8. Where'
  BY <1>1, <1>2, <1>3, <1>4 DEF Where
<1>9. TasksOK'
  BY <1>1, <1>2 DEF TasksOK, Answered
<1> QED
  BY <1>4, <1>5, <1>6, <1>7, <1>8, <1>9 DEF IInv

\* The steps that only move the goroutine of Run.
LEMMA WalksKeep ==
  ASSUME IInv, Quiet, BurstJoined \/ PriorityQuit \/ StartDispatch \/ Return \/ Close
  PROVE  IInv' /\ Held' = Held
<1>1. RunOK /\ OthersOK /\ Where
  BY DEF IInv
<1>2. CASE BurstJoined
  <2>1. /\ UNCHANGED <<strategy, template, cancelled, jobs, closed, status, tries, tried, skipped, yielded, stack,
                     cur, next, deque, inFlight, waiting, completed, burst>>
        /\ main = "join" /\ main' = "run"
    BY <1>2 DEF BurstJoined, MainOnly, PriorityIdle, asked, pool
  <2>2. cur = NoPath /\ closed' \in BOOLEAN
    BY <1>1, <2>1 DEF OthersOK, RunOK
  <2> QED
    BY <2>1, <2>2, WalkKeeps
<1>3. CASE PriorityQuit \/ StartDispatch
  <2>1. /\ UNCHANGED <<strategy, template, cancelled, jobs, closed, status, tries, tried, skipped, yielded, stack,
                     cur, next, deque, inFlight, waiting, completed, burst>>
        /\ Priority /\ (main' = "returned" \/ (main' = "dispatch" /\ CanDispatch))
    BY <1>3 DEF PriorityQuit, StartDispatch, MainOnly, PriorityIdle, VisitIdle, asked, pool
  <2>2. cur = NoPath /\ closed' \in BOOLEAN
    BY <1>1, <2>1 DEF Where, Others, RunOK
  <2> QED
    BY <2>1, <2>2, WalkKeeps
<1>4. CASE Return
  <2>1. /\ UNCHANGED <<strategy, template, cancelled, jobs, closed, status, tries, tried, skipped, yielded, stack,
                     cur, next, deque, inFlight, waiting, completed, burst>>
        /\ stack = <<>> /\ main' = "returned"
    BY <1>4 DEF Return, MainOnly, PriorityIdle, asked, pool
  <2>2. cur = NoPath /\ closed' \in BOOLEAN
    BY <1>1, <2>1 DEF OthersOK, RunOK
  <2> QED
    BY <2>1, <2>2, WalkKeeps
<1>5. CASE Close
  <2>1. /\ UNCHANGED <<strategy, template, cancelled, jobs, status, tries, tried, skipped, yielded, stack,
                     cur, next, deque, inFlight, waiting, completed, burst>>
        /\ main = "returned" /\ main' = "closed" /\ closed' \in BOOLEAN
    BY <1>5 DEF Close, asked
  <2>2. cur = NoPath
    BY <1>1, <2>1 DEF OthersOK
  <2> QED
    BY <2>1, <2>2, WalkKeeps
<1> QED
  BY <1>2, <1>3, <1>4, <1>5

\* runEager returns when its producer has ended.
LEMMA LeaveEagerKeeps ==
  ASSUME IInv, Quiet, LeaveEager
  PROVE  IInv' /\ cancelled /\ Held' \subseteq Held
<1>1. /\ main = "quit" /\ main' = "returned" /\ stack' = <<>> /\ MainOnly /\ PriorityIdle
      /\ UNCHANGED <<cur, next, yielded, skipped, burst>>
  BY DEF LeaveEager
<1>2. /\ UNCHANGED <<strategy, template, cancelled, jobs, closed, status, tries, tried>>
      /\ Paths' = Paths /\ Capacity' = Capacity /\ Tree' = Tree /\ \A q : Leaf(q)' = Leaf(q)
      /\ Eager' = Eager /\ Priority' = Priority
  BY <1>1, MainOnlyFacts
<1>3. RunOK /\ FramesOK /\ OthersOK /\ Where
  BY DEF IInv
<1>4. cancelled /\ Eager /\ ~Priority /\ cur = NoPath /\ next = <<>>
  BY <1>1, <1>3 DEF Where, OthersOK, Eager, Priority
<1>5. TasksHeld = {} /\ TasksHeld' = {} /\ TasksOK' /\ deque' = <<>> /\ completed' = <<>> /\ inFlight' = 0
  BY <1>1, <1>2, <1>4, NoTasks
<1>6. Others' = Others /\ FramesHeld' = {} /\ StackOK(stack', status, cancelled, Capacity) /\ Len(stack') = 0
  <2>1. FramesIn(<<>>) = {} /\ StackOK(<<>>, status, cancelled, Capacity) /\ Len(<<>>) = 0
    BY StackNone
  <2> QED
    BY <1>1, <2>1 DEF Others, FramesHeld
<1>7. Held' \subseteq Held /\ Undelivered' \subseteq Undelivered
  BY <1>1, <1>5, <1>6 DEF Held, Undelivered
<1>8. RunOK' /\ SpineOK' /\ NothingForgotten' /\ PoolOK'
  BY <1>1, <1>2, <1>3, <1>4, <1>7, MoveKeeps DEF RunOK
<1>9. FramesOK'
  BY <1>2, <1>6 DEF FramesOK
<1>10. OthersOK'
  <2>1. BurstOK'
    BY <1>1, <1>2, <1>3 DEF OthersOK, BurstOK
  <2> QED
    BY <1>1, <1>2, <1>3, <1>4, <2>1 DEF OthersOK
<1>11. Where'
  BY <1>1, <1>2, <1>3, <1>4, <1>5, <1>6, <1>7 DEF Where, CanDispatch
<1> QED
  BY <1>4, <1>5, <1>7, <1>8, <1>9, <1>10, <1>11 DEF IInv

-----------------------------------------------------------------------------
(* The goroutines of an eager visit.                                         *)
LEMMA VisitFacts ==
  ASSUME IInv, Quiet, NEW p \in DOMAIN burst
  PROVE  /\ main = "join" /\ next = <<>> /\ ToSet(next) = {} /\ cur = NoPath /\ Others = DOMAIN burst
         /\ ~Priority /\ TasksHeld = {} /\ Held = FramesHeld \cup Others /\ Undelivered = Held
         /\ p \in Paths /\ p \in Held /\ p \notin FramesHeld /\ Held \subseteq Paths
         /\ FramesHeld \cap Others = {} /\ Leaf(p) /\ yielded[p] = 0
         /\ strategy = "adaptive"
         /\ (burst[p] = "submit" <=> status[p] = "none")
         /\ \A q \in {0, 1} : Changed(yielded, p, q) = [yielded EXCEPT ![p] = @ + q]
<1>1. RunOK /\ FramesOK /\ OthersOK /\ Where /\ SpineOK
  BY DEF IInv
<1>2. main = "join"
  BY DEF Quiet
<1>3. strategy = "adaptive" /\ cur = NoPath /\ next = <<>> /\ ToSet(next) = {}
  BY <1>1, <1>2, EmptyToSet DEF Where, OthersOK
<1>4. Others = DOMAIN burst /\ ~Priority /\ TasksHeld = {}
  BY <1>1, <1>3 DEF Others, Priority, Where
<1>5. Held = FramesHeld \cup Others /\ Undelivered = Held
  BY <1>3, <1>4 DEF Held, Undelivered
<1>6. FramesHeld \cap Others = {} /\ p \notin FramesHeld /\ p \in Held /\ Held \subseteq Paths /\ p \in Paths
  BY <1>1, <1>4, <1>5 DEF FramesOK, SpineOK, Spine, Paths
<1>7. Leaf(p) /\ (burst[p] = "submit" <=> status[p] = "none")
  BY <1>1 DEF OthersOK, BurstOK
<1>8. yielded[p] = 0 /\ yielded \in [Paths -> 0 .. 1]
  BY <1>1, <1>5, <1>6 DEF RunOK
<1>9. \A q \in {0, 1} : Changed(yielded, p, q) = [yielded EXCEPT ![p] = @ + q]
  BY <1>6, <1>8 DEF Changed
<1> QED
  BY <1>2, <1>3, <1>4, <1>5, <1>6, <1>7, <1>8, <1>9

\* A goroutine of an eager visit sends its candidate.
LEMMA BurstSubmitKeeps ==
  ASSUME IInv, Quiet, NEW p \in DOMAIN burst, BurstSubmit(p)
  PROVE  IInv' /\ Held' = Held
<1>1. /\ burst[p] = "submit" /\ Enqueue(p) /\ burst' = [burst EXCEPT ![p] = "await"]
      /\ UNCHANGED <<strategy, template, cancelled, closed, tried, skipped, yielded, main, stack, cur, next,
                     deque, inFlight, waiting, completed>>
  BY DEF BurstSubmit, BurstOnly, PriorityIdle, Enqueue, asked
<1>2. /\ main = "join" /\ next = <<>> /\ cur = NoPath /\ Others = DOMAIN burst /\ ToSet(next) = {}
      /\ ~Priority /\ TasksHeld = {} /\ Held = FramesHeld \cup Others /\ Undelivered = Held
      /\ p \in Paths /\ p \in Held /\ FramesHeld \cap Others = {} /\ Held \subseteq Paths
      /\ status[p] = "none"
  BY <1>1, VisitFacts
<1>3. RunOK /\ FramesOK /\ OthersOK /\ Where /\ PoolOK /\ TasksOK
  BY DEF IInv
<1>4. /\ PoolOK' /\ status' = [status EXCEPT ![p] = "queued"] /\ Paths' = Paths
      /\ status'[p] = "queued" /\ \A q \in Paths : q # p => status'[q] = status[q]
  BY <1>1, <1>2, <1>3, EnqueuePool
<1>5. Others' = Others /\ FramesHeld' = FramesHeld /\ TasksHeld' = TasksHeld /\ DOMAIN burst' = DOMAIN burst
  BY <1>1 DEF Others, FramesHeld, TasksHeld
<1>6. Held' = Held /\ Undelivered' = Undelivered
  BY <1>1, <1>5 DEF Held, Undelivered
<1>7. /\ Capacity' = Capacity /\ (\A q : Leaf(q)' = Leaf(q)) /\ Eager' = Eager /\ Priority' = Priority
  BY <1>1 DEF Capacity, Leaf, Eager, Priority
<1>8. RunOK' /\ SpineOK' /\ NothingForgotten'
  BY <1>1, <1>2, <1>4, <1>6, AskKeeps DEF asked
<1>9. FramesOK'
  <2>1. PICK st2, n : st2 = status' /\ n = Capacity
    OBVIOUS
  <2>2. /\ StackOK(stack, status, cancelled, n) /\ DOMAIN st2 = DOMAIN status /\ cancelled \in BOOLEAN
        /\ \A q \in FramesIn(stack) : st2[q] = "none" <=> status[q] = "none"
    BY <1>2, <1>3, <1>4, <2>1 DEF FramesOK, FramesHeld, Paths, RunOK
  <2>3. StackOK(stack, st2, cancelled, n)
    BY <2>2, StackElsewhere
  <2> QED
    BY <1>1, <1>2, <1>5, <1>7, <2>1, <2>3 DEF FramesOK
<1>10. OthersOK'
  <2>1. BurstOK'
    BY <1>1, <1>2, <1>3, <1>4, <1>7 DEF OthersOK, BurstOK
  <2> QED
    BY <1>1, <1>2, <1>3, <1>4, <2>1, EmptyToSet DEF OthersOK
<1>11. Where'
  BY <1>1, <1>2, <1>3, <1>5, <1>6, <1>7 DEF Where, CanDispatch
<1>12. TasksOK'
  <2>1. ToSet(deque) = {} /\ waiting = {} /\ ToSet(completed) = {}
    BY <1>2 DEF TasksHeld
  <2> QED
    BY <1>1, <1>3, <1>4, <2>1 DEF TasksOK
<1> QED
  BY <1>4, <1>6, <1>8, <1>9, <1>10, <1>11, <1>12 DEF IInv

\* One of them ends.
LEMMA VisitEnds ==
  ASSUME IInv, Quiet, NEW p \in DOMAIN burst, BurstEnds(p), BurstOnly, PriorityIdle, UNCHANGED pool
  PROVE  /\ FramesOK' /\ OthersOK' /\ Where' /\ TasksOK'
         /\ Held' = Held \ {p} /\ Undelivered' = Undelivered \ {p}
         /\ UNCHANGED <<strategy, template, cancelled, jobs, closed, status, tries, tried, skipped>>
<1>1. /\ UNCHANGED <<strategy, template, cancelled, jobs, closed, status, tries, tried, skipped, main, stack,
                     cur, next, deque, inFlight, waiting, completed>>
  BY DEF BurstOnly, PriorityIdle, asked, pool
<1>2. DOMAIN burst' = DOMAIN burst \ {p} /\ \A q \in DOMAIN burst' : burst'[q] = burst[q]
  BY DEF BurstEnds, Restrict
<1>3. /\ main = "join" /\ next = <<>> /\ cur = NoPath /\ Others = DOMAIN burst /\ ToSet(next) = {}
      /\ ~Priority /\ TasksHeld = {} /\ Held = FramesHeld \cup Others /\ Undelivered = Held
      /\ p \notin FramesHeld /\ FramesHeld \cap Others = {}
  BY VisitFacts
<1>4. RunOK /\ FramesOK /\ OthersOK /\ Where /\ TasksOK
  BY DEF IInv
<1>5. Others' = Others \ {p} /\ FramesHeld' = FramesHeld /\ TasksHeld' = {}
  BY <1>1, <1>2, <1>3 DEF Others, FramesHeld, TasksHeld
<1>6. Held' = Held \ {p} /\ Undelivered' = Undelivered \ {p}
  BY <1>1, <1>3, <1>5 DEF Held, Undelivered
<1>7. /\ Capacity' = Capacity /\ (\A q : Leaf(q)' = Leaf(q)) /\ Eager' = Eager /\ Priority' = Priority
      /\ Paths' = Paths
  BY <1>1 DEF Capacity, Leaf, Eager, Priority, Paths
<1>8. FramesOK'
  BY <1>1, <1>3, <1>4, <1>5, <1>7 DEF FramesOK
<1>9. OthersOK'
  <2>1. burst' \in [DOMAIN burst' -> {"submit", "await"}]
    <3>1. \A q \in DOMAIN burst' : burst[q] \in {"submit", "await"}
      BY <1>2, <1>4 DEF OthersOK, BurstOK
    <3> QED
      BY <3>1 DEF BurstEnds, Restrict
  <2>2. BurstOK'
    BY <1>1, <1>2, <1>4, <1>7, <2>1 DEF OthersOK, BurstOK
  <2> QED
    BY <1>1, <1>3, <1>4, <1>7, <2>2 DEF OthersOK
<1>10. Where'
  BY <1>1, <1>3, <1>4, <1>5, <1>6, <1>7 DEF Where, CanDispatch
<1>11. TasksOK'
  BY <1>1, <1>4, <1>7 DEF TasksOK, Answered
<1> QED
  BY <1>1, <1>6, <1>8, <1>9, <1>10, <1>11

\* It ends with the context.
LEMMA BurstCancelledKeeps ==
  ASSUME IInv, Quiet, NEW p \in DOMAIN burst, BurstCancelled(p)
  PROVE  IInv' /\ Held' = Held \ {p}
<1>1. cancelled /\ BurstEnds(p) /\ UNCHANGED pool /\ UNCHANGED yielded /\ BurstOnly /\ PriorityIdle
  BY DEF BurstCancelled
<1>2. /\ FramesOK' /\ OthersOK' /\ Where' /\ TasksOK'
      /\ Held' = Held \ {p} /\ Undelivered' = Undelivered \ {p}
      /\ UNCHANGED <<strategy, template, cancelled, jobs, closed, status, tries, tried, skipped>>
  BY <1>1, VisitEnds
<1>3. RunOK
  BY DEF IInv
<1>4. RunOK' /\ SpineOK' /\ NothingForgotten' /\ PoolOK'
  BY <1>1, <1>2, <1>3, MoveKeeps DEF RunOK
<1> QED
  BY <1>2, <1>4 DEF IInv

\* It delivers its result and ends.
LEMMA BurstReplyKeeps ==
  ASSUME IInv, Quiet, NEW p \in DOMAIN burst, BurstReply(p)
  PROVE  IInv' /\ Held' = Held \ {p}
<1>1. /\ Answered(p) /\ BurstEnds(p) /\ UNCHANGED pool /\ BurstOnly /\ PriorityIdle
      /\ yielded' = [yielded EXCEPT ![p] = @ + (IF Deliverable(p) THEN 1 ELSE 0)]
  BY DEF BurstReply
<1>2. /\ FramesOK' /\ OthersOK' /\ Where' /\ TasksOK'
      /\ Held' = Held \ {p} /\ Undelivered' = Undelivered \ {p}
      /\ UNCHANGED <<strategy, template, cancelled, jobs, closed, status, tries, tried, skipped>>
  BY <1>1, VisitEnds
<1>3. /\ p \in Undelivered /\ Leaf(p)
      /\ \A q \in {0, 1} : Changed(yielded, p, q) = [yielded EXCEPT ![p] = @ + q]
  BY VisitFacts
<1>4. PICK a \in {0, 1} : a = IF Deliverable(p) THEN 1 ELSE 0
  OBVIOUS
<1>5. yielded' = Changed(yielded, p, a)
  BY <1>1, <1>3, <1>4
<1>6. RunOK
  BY DEF IInv
<1>7. RunOK' /\ SpineOK' /\ NothingForgotten' /\ PoolOK'
  BY <1>1, <1>2, <1>3, <1>4, <1>5, <1>6, DoneKeeps DEF RunOK
<1> QED
  BY <1>2, <1>7 DEF IInv

-----------------------------------------------------------------------------
(* runPriority.                                                              *)
LEMMA ConcatLists ==
  ASSUME NEW A, NEW q, Lists(q, A), NEW B, NEW r, Lists(r, B), A \cap B = {}
  PROVE  Lists(q \o r, A \cup B)
<1> DEFINE X == A \cup B  s == q \o r  m == Len(q)  n == Len(r)
<1>1. /\ m \in Nat /\ \A i \in 1 .. m : q[i] \in A
      /\ \A a \in A : \E i \in 1 .. m : q[i] = a
      /\ \A i, j \in 1 .. m : q[i] = q[j] => i = j
  BY ListsFacts
<1>2. /\ n \in Nat /\ \A i \in 1 .. n : r[i] \in B
      /\ \A a \in B : \E i \in 1 .. n : r[i] = a
      /\ \A i, j \in 1 .. n : r[i] = r[j] => i = j
  BY ListsFacts
<1>3. q \in Seq(X) /\ r \in Seq(X)
  BY DEF Lists
<1> HIDE DEF X
<1>4. /\ s \in Seq(X) /\ Len(s) = m + n
      /\ \A i \in 1 .. m + n : s[i] = IF i <= m THEN q[i] ELSE r[i - m]
  BY <1>3, ConcatProperties
<1> HIDE DEF s, m, n
<1>5. \A i \in 1 .. m : i \in 1 .. m + n /\ s[i] = q[i]
  BY <1>1, <1>2, <1>4
<1>6. \A i \in 1 .. n : m + i \in 1 .. m + n /\ s[m + i] = r[i]
  <2> SUFFICES ASSUME NEW i \in 1 .. n PROVE m + i \in 1 .. m + n /\ s[m + i] = r[i]
    OBVIOUS
  <2>1. m + i \in 1 .. m + n /\ ~(m + i <= m) /\ (m + i) - m = i
    BY <1>1, <1>2
  <2> QED
    BY <1>4, <2>1
<1>7. \A i \in 1 .. m + n : i \in 1 .. m \/ \E k \in 1 .. n : i = m + k
  <2> SUFFICES ASSUME NEW i \in 1 .. m + n, i \notin 1 .. m PROVE \E k \in 1 .. n : i = m + k
    OBVIOUS
  <2>1. i - m \in 1 .. n /\ i = m + (i - m)
    BY <1>1, <1>2
  <2> QED
    BY <2>1
<1>8. \A a \in X : \E i \in 1 .. m + n : s[i] = a
  BY <1>1, <1>2, <1>5, <1>6 DEF X
<1>9. \A i, j \in 1 .. m + n : s[i] = s[j] => i = j
  <2> SUFFICES ASSUME NEW i \in 1 .. m + n, NEW j \in 1 .. m + n, s[i] = s[j] PROVE i = j
    OBVIOUS
  <2>1. CASE i \in 1 .. m /\ j \in 1 .. m
    BY <1>1, <1>5, <2>1
  <2>2. CASE i \in 1 .. m /\ j \notin 1 .. m
    <3>1. PICK l \in 1 .. n : j = m + l
      BY <1>7, <2>2
    <3>2. q[i] \in A /\ r[l] \in B /\ q[i] = r[l]
      BY <1>1, <1>2, <1>5, <1>6, <2>2, <3>1
    <3> QED
      BY <3>2
  <2>3. CASE i \notin 1 .. m /\ j \in 1 .. m
    <3>1. PICK l \in 1 .. n : i = m + l
      BY <1>7, <2>3
    <3>2. q[j] \in A /\ r[l] \in B /\ q[j] = r[l]
      BY <1>1, <1>2, <1>5, <1>6, <2>3, <3>1
    <3> QED
      BY <3>2
  <2>4. CASE i \notin 1 .. m /\ j \notin 1 .. m
    <3>1. PICK k \in 1 .. n, l \in 1 .. n : i = m + k /\ j = m + l
      BY <1>7, <2>4
    <3>2. r[k] = r[l]
      BY <1>6, <3>1
    <3> QED
      BY <1>2, <3>1, <3>2
  <2> QED
    BY <2>1, <2>2, <2>3, <2>4
<1>10. Into(s, m + n, X) /\ m + n \in Nat
  <2>1. m + n \in Nat
    BY <1>1, <1>2
  <2>2. s \in [1 .. m + n -> X]
    BY <1>4, <2>1
  <2> QED
    BY <2>1, <2>2 DEF Into
<1>11. Lists(s, X)
  <2> PICK k : k = m + n
    OBVIOUS
  <2>1. k \in Nat /\ Into(s, k, X)
    BY <1>10
  <2>2. \A a \in X : \E i \in 1 .. k : s[i] = a
    BY <1>8
  <2>3. \A i, j \in 1 .. k : s[i] = s[j] => i = j
    BY <1>9
  <2> QED
    BY <2>1, <2>2, <2>3, ListsIntro
<1> QED
  BY <1>11 DEF s, X

\* The elements of a list that belong to a set, listed.
LEMMA WithinLists ==
  ASSUME NEW A, NEW q, Lists(q, A), NEW V
  PROVE  Lists(Within(q, V), A \cap V)
<1> DEFINE w == Within(q, V)
<1>1. q \in Seq(A) /\ IsInjective(q) /\ ToSet(q) = A
  BY DEF Lists
<1>2. w \in Seq(A) /\ IsInjective(w) /\ ToSet(w) = A \cap V
  BY <1>1, WithinKeeps
<1> HIDE DEF w
<1>3. w \in Seq(ToSet(w))
  <2>1. Len(w) \in Nat /\ DOMAIN w = 1 .. Len(w)
    BY <1>2
  <2>2. \A i \in 1 .. Len(w) : w[i] \in ToSet(w)
    BY <2>1 DEF ToSet
  <2>3. w = [i \in 1 .. Len(w) |-> w[i]]
    BY <1>2
  <2>4. w \in [1 .. Len(w) -> ToSet(w)]
    BY <2>2, <2>3
  <2> QED
    BY <2>1, <2>4, SeqDef
<1>4. Lists(w, ToSet(w))
  BY <1>2, <1>3, ListsItself
<1> QED
  BY <1>2, <1>4 DEF w

\* The tasks that are put in another order, and those of an accepted path before them.
Queue(p, tasks) == IF Leaf(p) THEN tasks ELSE Below[template][p] \o tasks

\* Requeued changes the order of the tasks and nothing else.
LEMMA RequeuedLists ==
  ASSUME NEW p, NEW tasks, NEW A, Lists(Queue(p, tasks), A)
  PROVE  Lists(Requeued(p, tasks), A)
<1>1. PICK all : all = Queue(p, tasks)
  OBVIOUS
<1>2. PICK V : V = {t \in ToSet(all) : Len(t) = 1 /\ t[1].word = Last(p).word}
  OBVIOUS
<1>3. PICK W : W = ToSet(all) \ V
  OBVIOUS
<1>4. \/ Requeued(p, tasks) = Within(all, V) \o Within(all, W)
      \/ Requeued(p, tasks) = all
  BY <1>1, <1>2, <1>3 DEF Requeued, Queue
<1>5. Lists(all, A) /\ ToSet(all) = A /\ A \cap V \subseteq A /\ (A \cap V) \cap (A \cap W) = {}
      /\ (A \cap V) \cup (A \cap W) = A
  BY <1>1, <1>3 DEF Lists
<1>6. Lists(Within(all, V), A \cap V) /\ Lists(Within(all, W), A \cap W)
  BY <1>5, WithinLists
<1>7. Lists(Within(all, V) \o Within(all, W), A)
  <2> PICK v, w, B, C : /\ v = Within(all, V) /\ w = Within(all, W) /\ B = A \cap V /\ C = A \cap W
    OBVIOUS
  <2>1. Lists(v, B) /\ Lists(w, C) /\ B \cap C = {} /\ B \cup C = A
    BY <1>5, <1>6
  <2>2. Lists(v \o w, B \cup C)
    BY <2>1, ConcatLists
  <2> QED
    BY <2>1, <2>2
<1> QED
  BY <1>4, <1>5, <1>7

\* runPriority has no level and no visit: what it holds is in its tasks.
PriorityRun ==
  /\ UNCHANGED <<strategy, template, cancelled, stack, cur, next, burst>>
  /\ Priority /\ DOMAIN status' = DOMAIN status
  /\ main' \in {"run", "dispatch", "returned", "closed"}

\* Everything that runPriority holds is a task.
LEMMA PriorityFacts ==
  ASSUME IInv, Priority
  PROVE  /\ stack = <<>> /\ Others = {} /\ FramesHeld = {} /\ cur = NoPath /\ next = <<>>
         /\ DOMAIN burst = {} /\ Held = TasksHeld /\ Undelivered = TasksHeld /\ TasksHeld \subseteq Paths
<1>1. stack = <<>> /\ Others = {}
  BY DEF IInv, Where
<1>2. FramesHeld = {}
  BY <1>1, StackNone DEF FramesHeld
<1>3. cur = NoPath /\ DOMAIN burst = {} /\ ToSet(next) = {}
  BY <1>1 DEF Others
<1>4. next = <<>>
  <2>1. next \in Seq(Paths)
    BY DEF IInv, OthersOK
  <2>2. ASSUME next # <<>> PROVE FALSE
    <3>1. Head(next) \in ToSet(next)
      <4>1. 1 \in DOMAIN next /\ Head(next) = next[1]
        BY <2>1, <2>2
      <4> QED
        BY <4>1 DEF ToSet
    <3> QED
      BY <1>3, <3>1
  <2> QED
    BY <2>2
<1>5. Held = TasksHeld
  BY <1>1, <1>2 DEF Held
<1>6. Undelivered = TasksHeld /\ TasksHeld \subseteq Paths
  BY <1>3, <1>5 DEF Undelivered, IInv, SpineOK, Spine, Paths
<1> QED
  BY <1>1, <1>2, <1>3, <1>4, <1>5, <1>6

\* What a step of runPriority leaves alone.
LEMMA PriorityKeeps ==
  ASSUME IInv, PriorityRun, main' = "dispatch" => CanDispatch'
  PROVE  /\ FramesOK' /\ OthersOK' /\ Where' /\ Held' = TasksHeld' /\ Undelivered' = TasksHeld'
         /\ Paths' = Paths /\ Tree' = Tree /\ Priority' /\ \A q : Leaf(q)' = Leaf(q)
<1>1. UNCHANGED <<strategy, template, cancelled, stack, cur, next, burst>> /\ Priority
  BY DEF PriorityRun
<1>2. /\ stack = <<>> /\ Others = {} /\ FramesHeld = {} /\ cur = NoPath /\ next = <<>>
      /\ DOMAIN burst = {}
  BY <1>1, PriorityFacts
<1>3. FramesOK /\ OthersOK /\ RunOK
  BY DEF IInv
<1>4. Others' = {} /\ FramesHeld' = {} /\ ToSet(next) = {}
  BY <1>1, <1>2, EmptyToSet, StackNone DEF Others, FramesHeld
<1>5. /\ Paths' = Paths /\ Tree' = Tree /\ Priority' /\ Capacity' = Capacity /\ cancelled \in BOOLEAN
      /\ \A q : Leaf(q)' = Leaf(q)
  BY <1>1, <1>3 DEF PriorityRun, Paths, Tree, Priority, Capacity, Eager, RunOK, Leaf
<1>6. FramesOK'
  <2>1. StackOK(stack', status', cancelled', Capacity')
    <3> PICK st2, n : st2 = status' /\ n = Capacity
      OBVIOUS
    <3>1. StackOK(<<>>, st2, cancelled, n)
      BY <1>5, StackNone
    <3> QED
      BY <1>1, <1>2, <1>5, <3>1
  <2> QED
    BY <1>4, <2>1 DEF FramesOK
<1>7. OthersOK'
  <2>1. BurstOK'
    BY <1>1, <1>2, <1>3 DEF BurstOK, OthersOK
  <2> QED
    BY <1>1, <1>2, <1>3, <1>4, <1>5, <2>1 DEF OthersOK
<1>8. Held' = TasksHeld' /\ Undelivered' = TasksHeld'
  BY <1>1, <1>4 DEF Held, Undelivered
<1>9. Where'
  <2>1. strategy' = "priority" /\ ~Eager' /\ Priority'
    BY <1>1 DEF Priority, Eager
  <2>2. main' \in {"run", "dispatch", "returned", "closed"}
    BY DEF PriorityRun
  <2>3. stack' = <<>> /\ Len(stack') = 0
    BY <1>1, <1>2
  <2> QED
    BY <1>4, <2>1, <2>2, <2>3 DEF Where
<1> QED
  BY <1>5, <1>6, <1>7, <1>8, <1>9

\* A task is submitted.
LEMMA DispatchKeeps ==
  ASSUME IInv, Dispatch
  PROVE  IInv' /\ Held' = Held /\ \E p \in Held : status[p] = "none" /\ Enqueue(p)
<1> DEFINE p == Head(deque)
<1>1. /\ main = "dispatch" /\ Enqueue(p) /\ main' = "run" /\ deque' = Tail(deque)
      /\ inFlight' = inFlight + 1 /\ waiting' = waiting \cup {p}
      /\ UNCHANGED <<strategy, template, cancelled, tried, skipped, yielded, completed, stack, cur, next, burst>>
      /\ UNCHANGED closed
  BY DEF Dispatch, VisitIdle, asked, Enqueue
<1>2. RunOK /\ TasksOK /\ PoolOK /\ Priority /\ CanDispatch
  BY <1>1 DEF IInv, Where
<1>3. deque \in Seq(Paths) /\ deque # <<>> /\ IsInjective(deque) /\ inFlight < Threads
  BY <1>2 DEF TasksOK, CanDispatch
<1>4. /\ p \in Paths /\ Tail(deque) \in Seq(Paths) /\ IsInjective(Tail(deque))
      /\ p \notin ToSet(Tail(deque)) /\ ToSet(deque) = {p} \cup ToSet(Tail(deque))
  BY <1>3, HeadTailOnce
<1> HIDE DEF p
<1>5. status[p] = "none" /\ p \notin waiting /\ p \notin ToSet(completed)
  BY <1>2, <1>4 DEF TasksOK
<1>6. /\ PoolOK' /\ status' = [status EXCEPT ![p] = "queued"] /\ Paths' = Paths
      /\ status'[p] = "queued" /\ \A q \in Paths : q # p => status'[q] = status[q]
  BY <1>1, <1>2, <1>4, <1>5, EnqueuePool
<1>7. PriorityRun
  BY <1>1, <1>2, <1>6 DEF PriorityRun, Paths
<1>8. /\ FramesOK' /\ OthersOK' /\ Where' /\ Held' = TasksHeld' /\ Undelivered' = TasksHeld'
  BY <1>1, <1>7, PriorityKeeps
<1>9. Held = TasksHeld /\ Undelivered = TasksHeld
  BY <1>2, PriorityFacts
<1>10. TasksHeld' = TasksHeld /\ p \in Undelivered
  BY <1>1, <1>4, <1>9 DEF TasksHeld
<1>11. RunOK' /\ SpineOK' /\ NothingForgotten'
  <2>1. Held' = Held /\ Undelivered' = Undelivered
    BY <1>8, <1>9, <1>10
  <2> QED
    BY <1>1, <1>5, <1>6, <1>10, <2>1, AskKeeps DEF asked
<1>12. TasksOK'
  <2>1. /\ IsFiniteSet(waiting') /\ Cardinality(waiting') = Cardinality(waiting) + 1
        /\ Cardinality(waiting) \in Nat
    BY <1>1, <1>2, <1>5, FS_AddElement, FS_CardinalityType DEF TasksOK
  <2>2. inFlight' \in 0 .. Threads /\ Cardinality(waiting') + Len(completed') <= inFlight'
    <3>1. /\ Cardinality(waiting) + Len(completed) <= inFlight /\ inFlight \in 0 .. Threads
          /\ Len(completed) \in Nat
      BY <1>2 DEF TasksOK
    <3>2. Threads \in Nat
      BY <1>2, Context
    <3> PICK m, n : m = Cardinality(waiting) /\ n = Len(completed)
      OBVIOUS
    <3> QED
      BY <1>1, <1>3, <2>1, <3>1, <3>2
  <2>3. \A q \in ToSet(completed) : Answered(q)' /\ q \in Paths
    <3>1. \A q \in ToSet(completed) : q \in Paths /\ Answered(q) /\ q # p
      BY <1>2, <1>5 DEF TasksOK, ToSet
    <3> QED
      BY <1>6, <3>1 DEF Answered
  <2>4. /\ \A q \in ToSet(deque') : status'[q] = "none"
        /\ \A q \in waiting' : status'[q] # "none"
    <3>1. \A q \in ToSet(Tail(deque)) : q \in Paths /\ q # p /\ status[q] = "none"
      BY <1>2, <1>4 DEF TasksOK, ToSet
    <3>2. \A q \in waiting : q \in Paths /\ q # p /\ status[q] # "none"
      BY <1>2, <1>5 DEF TasksOK
    <3> QED
      BY <1>1, <1>6, <3>1, <3>2
  <2>5. /\ ToSet(deque') \cap waiting' = {} /\ ToSet(deque') \cap ToSet(completed') = {}
        /\ waiting' \cap ToSet(completed') = {} /\ waiting' \subseteq Paths
    BY <1>1, <1>2, <1>4, <1>5 DEF TasksOK
  <2> QED
    BY <1>1, <1>2, <1>4, <1>6, <2>1, <2>2, <2>3, <2>4, <2>5 DEF TasksOK
<1> QED
  <2>1. Held' = Held /\ p \in Held
    BY <1>8, <1>9, <1>10
  <2> QED
    BY <1>1, <1>5, <1>6, <1>8, <1>11, <1>12, <2>1 DEF IInv

\* A task is dropped after a cancellation.
LEMMA DispatchCancelledKeeps ==
  ASSUME IInv, DispatchCancelled
  PROVE  /\ IInv' /\ cancelled
         /\ \E p \in Held : /\ status[p] = "none" /\ Held' = Held \ {p}
                            /\ skipped' = skipped + Skips[template][p]
<1> DEFINE p == Head(deque)
<1>1. /\ main = "dispatch" /\ main' = "run" /\ deque' = Tail(deque) /\ cancelled /\ MainOnly
      /\ skipped' = skipped + Skips[template][p]
      /\ UNCHANGED <<yielded, inFlight, waiting, completed, stack, cur, next, burst>>
  BY DEF DispatchCancelled, VisitIdle
<1>2. UNCHANGED <<strategy, template, cancelled, jobs, closed, status, tries, tried>>
  BY <1>1, MainOnlyFacts
<1>3. RunOK /\ TasksOK /\ Priority /\ CanDispatch
  BY <1>1 DEF IInv, Where
<1>4. deque \in Seq(Paths) /\ deque # <<>> /\ IsInjective(deque)
  BY <1>3 DEF TasksOK, CanDispatch
<1>5. /\ p \in Paths /\ Tail(deque) \in Seq(Paths) /\ IsInjective(Tail(deque))
      /\ p \notin ToSet(Tail(deque)) /\ ToSet(deque) = {p} \cup ToSet(Tail(deque))
  BY <1>4, HeadTailOnce
<1> HIDE DEF p
<1>6. skipped' \in Nat
  <2>1. Skips[template][p] \in Nat /\ skipped \in Nat
    BY <1>3, <1>5, Context DEF RunOK
  <2> QED
    BY <1>1, <2>1
<1>7. PriorityRun
  BY <1>1, <1>2, <1>3 DEF PriorityRun
<1>8. /\ FramesOK' /\ OthersOK' /\ Where' /\ Held' = TasksHeld' /\ Undelivered' = TasksHeld'
      /\ Paths' = Paths
  BY <1>1, <1>7, PriorityKeeps
<1>9. Held = TasksHeld /\ Undelivered = TasksHeld
  BY <1>3, PriorityFacts
<1>10. TasksHeld' = TasksHeld \ {p} /\ p \in TasksHeld /\ status[p] = "none"
  BY <1>1, <1>3, <1>5 DEF TasksHeld, TasksOK
<1>11. RunOK' /\ SpineOK' /\ NothingForgotten' /\ PoolOK'
  <2>1. Held' \subseteq Held /\ Undelivered' \subseteq Undelivered
    BY <1>8, <1>9, <1>10
  <2> QED
    BY <1>1, <1>2, <1>3, <1>6, <2>1, MoveKeeps DEF RunOK
<1>12. TasksOK'
  <2>1. ToSet(Tail(deque)) \subseteq ToSet(deque)
    BY <1>5
  <2> QED
    BY <1>1, <1>2, <1>3, <1>5, <1>8, <2>1 DEF TasksOK, Answered
<1> QED
  <2>1. p \in Held /\ Held' = Held \ {p}
    BY <1>8, <1>9, <1>10
  <2> QED
    BY <1>1, <1>8, <1>10, <1>11, <1>12, <2>1 DEF IInv

\* The goroutine of a task passes its reply on, or ends with the context.
LEMMA WaitingKeeps ==
  ASSUME IInv, NEW p \in waiting, Complete(p) \/ Abandon(p)
  PROVE  IInv' /\ Held' \subseteq Held /\ (~cancelled => Held \subseteq Held')
<1>1. /\ MainOnly /\ waiting' = waiting \ {p} /\ p \in Paths
      /\ UNCHANGED <<main, deque, inFlight, yielded, skipped, stack, cur, next, burst>>
      /\ \/ Answered(p) /\ completed' = Append(completed, p)
         \/ cancelled /\ completed' = completed
  BY DEF Complete, Abandon, VisitIdle, IInv, TasksOK
<1>2. UNCHANGED <<strategy, template, cancelled, jobs, closed, status, tries, tried>>
  BY <1>1, MainOnlyFacts
<1>3. RunOK /\ TasksOK /\ Priority
  BY DEF IInv, Where, TasksHeld
<1>4. main \in {"run", "dispatch", "returned", "closed"} /\ (main = "dispatch" => CanDispatch)
  BY <1>3 DEF IInv, Where, Priority, Eager
<1>5. p \notin ToSet(completed) /\ p \notin ToSet(deque)
  BY <1>3 DEF TasksOK
<1>6. /\ completed' \in Seq(Paths) /\ IsInjective(completed')
      /\ \/ Answered(p) /\ ToSet(completed') = ToSet(completed) \cup {p} /\ Len(completed') = Len(completed) + 1
         \/ cancelled /\ completed' = completed
  <2>1. completed \in Seq(Paths) /\ IsInjective(completed)
    BY <1>3 DEF TasksOK
  <2>2. CASE Answered(p) /\ completed' = Append(completed, p)
    <3> DEFINE P == Paths  s == Append(completed, p)
    <3>1. completed \in Seq(P) /\ p \in P
      BY <1>1, <2>1
    <3> HIDE DEF P
    <3>2. /\ s \in Seq(P) /\ Len(s) = Len(completed) + 1 /\ IsInjective(s) /\ ToSet(s) = ToSet(completed) \cup {p}
      BY <1>5, <2>1, <3>1, AppendOnce
    <3> HIDE DEF s
    <3> QED
      BY <2>2, <3>2 DEF P, s
  <2>3. CASE cancelled /\ completed' = completed
    BY <2>1, <2>3
  <2> QED
    BY <1>1, <2>2, <2>3
<1>7. PriorityRun /\ (main' = "dispatch" => CanDispatch')
  BY <1>1, <1>2, <1>3, <1>4 DEF PriorityRun, CanDispatch
<1>8. /\ FramesOK' /\ OthersOK' /\ Where' /\ Held' = TasksHeld' /\ Undelivered' = TasksHeld'
      /\ Paths' = Paths
  BY <1>7, PriorityKeeps
<1>9. Held = TasksHeld /\ Undelivered = TasksHeld
  BY <1>3, PriorityFacts
<1>10. TasksHeld' \subseteq TasksHeld /\ (~cancelled => TasksHeld \subseteq TasksHeld')
  BY <1>1, <1>6 DEF TasksHeld
<1>11. RunOK' /\ SpineOK' /\ NothingForgotten' /\ PoolOK'
  <2>1. /\ Held' \subseteq Held /\ Undelivered' \subseteq Undelivered
        /\ ~cancelled => Held \subseteq Held' /\ Undelivered \subseteq Undelivered'
    BY <1>8, <1>9, <1>10
  <2> QED
    BY <1>1, <1>2, <1>3, <2>1, MoveKeeps DEF RunOK
<1>12. TasksOK'
  <2>1. IsFiniteSet(waiting') /\ Cardinality(waiting') = Cardinality(waiting) - 1 /\ Cardinality(waiting) \in Nat
    BY <1>1, <1>3, FS_RemoveElement, FS_CardinalityType DEF TasksOK
  <2>2. Cardinality(waiting') + Len(completed') <= inFlight'
    <3>1. Cardinality(waiting) + Len(completed) <= inFlight /\ inFlight \in Nat /\ Len(completed) \in Nat
      BY <1>3, Context DEF TasksOK
    <3>2. Len(completed') = Len(completed) + 1 \/ Len(completed') = Len(completed)
      BY <1>6
    <3> PICK m, n, n2 : m = Cardinality(waiting) /\ n = Len(completed) /\ n2 = Len(completed')
      OBVIOUS
    <3> QED
      BY <1>1, <2>1, <3>1, <3>2
  <2>3. ToSet(completed') \subseteq ToSet(completed) \cup {p} /\ \A q \in ToSet(completed') : Answered(q)'
    BY <1>2, <1>3, <1>6 DEF TasksOK, Answered
  <2>4. waiting' \cap ToSet(completed') = {} /\ ToSet(deque) \cap ToSet(completed') = {}
    BY <1>1, <1>3, <1>5, <2>3 DEF TasksOK
  <2> QED
    BY <1>1, <1>2, <1>3, <1>6, <1>8, <2>1, <2>2, <2>3, <2>4 DEF TasksOK
<1> QED
  BY <1>8, <1>9, <1>10, <1>11, <1>12 DEF IInv

\* The reply to a task is delivered, or dropped, and the task is over.
LEMMA TakeCompletedKeeps ==
  ASSUME IInv, TakeCompleted
  PROVE  /\ IInv'
         /\ \E p \in Held : /\ Answered(p) /\ PruneRejected(p)
                            /\ ~Descends(p) => Held' = Held \ {p}
                            /\ Descends(p) => Replaced(p)
<1> DEFINE p == Head(completed)
<1>1. /\ Priority /\ main = "run" /\ completed # <<>> /\ Deliver(p) /\ PruneRejected(p) /\ MainOnly
      /\ deque' = IF ~cancelled /\ status[p] = "accepted" THEN Requeued(p, deque) ELSE deque
      /\ completed' = Tail(completed) /\ inFlight' = inFlight - 1
      /\ UNCHANGED <<main, waiting, stack, cur, next, burst>>
  BY DEF TakeCompleted, VisitIdle
<1>2. UNCHANGED <<strategy, template, cancelled, jobs, closed, status, tries, tried>>
  BY <1>1, MainOnlyFacts
<1>3. RunOK /\ TasksOK
  BY DEF IInv
<1>4. completed \in Seq(Paths) /\ IsInjective(completed)
  BY <1>3 DEF TasksOK
<1>5. /\ p \in Paths /\ Tail(completed) \in Seq(Paths) /\ IsInjective(Tail(completed))
      /\ Len(Tail(completed)) = Len(completed) - 1
      /\ p \notin ToSet(Tail(completed)) /\ ToSet(completed) = {p} \cup ToSet(Tail(completed))
  BY <1>1, <1>4, HeadTailOnce
<1> HIDE DEF p
<1>6. skipped' \in Nat
  BY <1>1, <1>3, <1>5, PrunedSkips
<1>7. /\ FramesOK' /\ OthersOK' /\ Where' /\ Held' = TasksHeld' /\ Undelivered' = TasksHeld'
      /\ Paths' = Paths
  BY <1>1, <1>2, PriorityKeeps DEF PriorityRun
<1>8. Held = TasksHeld /\ Undelivered = TasksHeld /\ TasksHeld \subseteq Paths
  BY <1>1, PriorityFacts
<1>9. /\ Answered(p) /\ p \in TasksHeld /\ p \in Undelivered /\ p \notin ToSet(deque) /\ p \notin waiting
      /\ p \in Held
  BY <1>3, <1>5, <1>8 DEF TasksOK, TasksHeld
<1>10. PICK a \in {0, 1} : a = IF ~cancelled /\ Deliverable(p) THEN 1 ELSE 0
  OBVIOUS
<1>11. yielded' = Changed(yielded, p, a)
  <2>1. yielded[p] = 0 /\ p \in DOMAIN yielded
    BY <1>3, <1>5, <1>9 DEF RunOK
  <2>2. yielded' = [yielded EXCEPT ![p] = yielded[p] + a]
    BY <1>1, <1>10, <2>1 DEF Deliver
  <2>3. yielded[p] + a = a
    BY <2>1
  <2> QED
    BY <2>2, <2>3 DEF Changed
<1>12. PICK N : N = IF ~cancelled /\ status[p] = "accepted" /\ ~Leaf(p) THEN ChildSet(Tree, p) ELSE {}
  OBVIOUS
<1>13. N # {} => /\ ~cancelled /\ status[p] = "accepted" /\ ~Leaf(p)
                 /\ Refines(Tree, N, p) /\ Lists(Below[template][p], N)
  <2> SUFFICES ASSUME N # {} PROVE /\ Refines(Tree, N, p) /\ Lists(Below[template][p], N)
    BY <1>12
  <2>1. ~Leaf(p) /\ N = ChildSet(Tree, p)
    BY <1>12
  <2>2. /\ IsPlan(Tree) /\ p \in Nodes(Tree) /\ ~IsLeaf(Tree, p) /\ Below[template][p] = Children(Tree, p)
    BY <1>3, <1>5, <2>1, Context
  <2> QED
    BY <2>1, <2>2, ChildrenLists, ChildrenRefine
<1>14. /\ N \subseteq Paths /\ N \cap Held = {} /\ \A q \in N : status[q] = "none"
  <2>1. CASE N = {}
    BY <2>1
  <2>2. CASE N # {}
    BY <1>9, <1>13, <2>2, Fresh
  <2> QED
    BY <2>1, <2>2
<1>15. PICK D : D = ToSet(deque)
  OBVIOUS
<1>16. Lists(deque, D) /\ D \cap N = {} /\ D \subseteq Paths /\ p \notin D
  <2>1. deque \in Seq(Paths) /\ IsInjective(deque)
    BY <1>3 DEF TasksOK
  <2>2. deque \in Seq(D)
    <3>1. Len(deque) \in Nat /\ deque = [i \in 1 .. Len(deque) |-> deque[i]] /\ DOMAIN deque = 1 .. Len(deque)
      BY <2>1
    <3>2. deque \in [1 .. Len(deque) -> D]
      BY <1>15, <3>1 DEF ToSet
    <3> QED
      BY <3>1, <3>2, SeqDef
  <2>3. Lists(deque, D)
    BY <1>15, <2>1, <2>2, ListsItself
  <2>4. D \subseteq Held
    BY <1>8, <1>15 DEF TasksHeld
  <2> QED
    BY <1>8, <1>9, <1>14, <1>15, <2>3, <2>4
<1>17. Lists(deque', D \cup N)
  <2>1. CASE ~(~cancelled /\ status[p] = "accepted")
    <3>1. N = {} /\ deque' = deque
      BY <1>1, <1>12, <2>1
    <3>2. D \cup N = D
      BY <3>1
    <3> QED
      BY <1>16, <3>1, <3>2
  <2>2. CASE ~cancelled /\ status[p] = "accepted"
    <3> PICK s, tasks, below : s = deque' /\ tasks = deque /\ below = Below[template][p]
      OBVIOUS
    <3>1. s = Requeued(p, tasks)
      BY <1>1, <2>2
    <3>2. Lists(Queue(p, tasks), D \cup N)
      <4>1. CASE Leaf(p)
        <5>1. N = {} /\ Queue(p, tasks) = tasks
          BY <1>12, <4>1 DEF Queue
        <5>2. D \cup N = D
          BY <5>1
        <5> QED
          BY <1>16, <5>1, <5>2
      <4>2. CASE ~Leaf(p)
        <5>1. Queue(p, tasks) = below \o tasks
          BY <4>2 DEF Queue
        <5>2. N # {}
          <6>1. /\ IsPlan(Tree) /\ p \in Nodes(Tree) /\ ~IsLeaf(Tree, p)
            BY <1>3, <1>5, <4>2, Context
          <6>2. N = ChildSet(Tree, p)
            BY <1>12, <2>2, <4>2
          <6> QED
            BY <6>1, <6>2, ChildrenLists
        <5>3. Lists(below, N) /\ Lists(tasks, D) /\ N \cap D = {} /\ D \cup N = N \cup D
          BY <1>13, <1>16, <5>2
        <5>4. Lists(below \o tasks, N \cup D)
          BY <5>3, ConcatLists
        <5> QED
          BY <5>1, <5>3, <5>4
      <4> QED
        BY <4>1, <4>2
    <3>3. Lists(Requeued(p, tasks), D \cup N)
      BY <3>2, RequeuedLists
    <3> QED
      BY <3>1, <3>3
  <2> QED
    BY <2>1, <2>2
<1>18. ToSet(deque') = D \cup N /\ deque' \in Seq(Paths) /\ IsInjective(deque')
  <2> PICK E, s : E = D \cup N /\ s = deque'
    OBVIOUS
  <2>1. Lists(s, E) /\ E \subseteq Paths
    BY <1>14, <1>16, <1>17
  <2>2. s \in Seq(E) /\ IsInjective(s) /\ ToSet(s) = E
    BY <2>1 DEF Lists
  <2> PICK P : P = Paths
    OBVIOUS
  <2>3. s \in Seq(P)
    BY <2>1, <2>2
  <2> QED
    BY <2>2, <2>3
<1>19. TasksHeld' = (TasksHeld \ {p}) \cup N
  BY <1>1, <1>5, <1>9, <1>15, <1>18 DEF TasksHeld
<1>20. RunOK' /\ SpineOK' /\ NothingForgotten' /\ PoolOK'
  <2>1. CASE N = {}
    <3>1. Held' = Held \ {p} /\ Undelivered' = Undelivered \ {p}
      BY <1>7, <1>8, <1>19, <2>1
    <3>2. cancelled \/ status[p] # "accepted" \/ Leaf(p)
      <4>1. ASSUME ~cancelled, status[p] = "accepted", ~Leaf(p) PROVE FALSE
        <5>1. /\ IsPlan(Tree) /\ p \in Nodes(Tree) /\ ~IsLeaf(Tree, p)
          BY <1>3, <1>5, <4>1, Context
        <5>2. N = ChildSet(Tree, p)
          BY <1>12, <4>1
        <5> QED
          BY <2>1, <5>1, <5>2, ChildrenLists
      <4> QED
        BY <4>1
    <3>3. ~cancelled /\ Deliverable(p) => a = 1
      BY <1>10
    <3> QED
      BY <1>2, <1>6, <1>9, <1>10, <1>11, <3>1, <3>2, <3>3, DoneKeeps
  <2>2. CASE N # {}
    <3>1. status[p] = "accepted" /\ Refines(Tree, N, p) /\ ~cancelled
      BY <1>13, <2>2
    <3>2. a = 1
      BY <1>10, <3>1 DEF Deliverable
    <3>3. Held' = (Held \ {p}) \cup N /\ Undelivered' = (Undelivered \ {p}) \cup N
      BY <1>7, <1>8, <1>19
    <3>4. yielded' = Changed(yielded, p, 1)
      BY <1>11, <3>2
    <3> QED
      BY <1>2, <1>6, <1>9, <3>1, <3>3, <3>4, ExpandKeeps
  <2> QED
    BY <2>1, <2>2
<1>21. TasksOK'
  <2>1. /\ \A q \in ToSet(deque') : status[q] = "none"
        /\ ToSet(deque') \cap waiting = {} /\ ToSet(deque') \cap ToSet(Tail(completed)) = {}
    <3>1. N \cap waiting = {} /\ N \cap ToSet(completed) = {}
      BY <1>8, <1>14 DEF TasksHeld
    <3> QED
      BY <1>3, <1>5, <1>14, <1>15, <1>18, <3>1 DEF TasksOK
  <2>2. inFlight' \in 0 .. Threads /\ Cardinality(waiting') + Len(completed') <= inFlight'
    <3>1. /\ Cardinality(waiting) + Len(completed) <= inFlight /\ inFlight \in 0 .. Threads
          /\ Len(completed) \in Nat /\ Cardinality(waiting) \in Nat /\ Threads \in Nat
      BY <1>3, Context, FS_CardinalityType DEF TasksOK
    <3>2. Len(completed) > 0
      BY <1>1, <1>4
    <3> PICK m, n : m = Cardinality(waiting) /\ n = Len(completed)
      OBVIOUS
    <3>3. n - 1 = Len(completed') /\ m = Cardinality(waiting')
      BY <1>1, <1>5
    <3> QED
      BY <1>1, <3>1, <3>2, <3>3
  <2> QED
    BY <1>1, <1>2, <1>3, <1>5, <1>7, <1>18, <2>1, <2>2 DEF TasksOK, Answered
<1>22. IInv'
  BY <1>7, <1>20, <1>21 DEF IInv
<1>23. Held' = (Held \ {p}) \cup N
  BY <1>7, <1>8, <1>19
<1>24. ASSUME ~Descends(p) PROVE Held' = Held \ {p}
  BY <1>12, <1>23, <1>24 DEF Descends
<1>25. ASSUME Descends(p) PROVE Replaced(p)
  <2>1. /\ IsPlan(Tree) /\ p \in Nodes(Tree) /\ ~IsLeaf(Tree, p) /\ N = ChildSet(Tree, p)
    BY <1>3, <1>5, <1>12, <1>25, Context DEF Descends
  <2>2. Refines(Tree, N, p)
    BY <2>1, ChildrenRefine
  <2> QED
    BY <1>23, <2>2 DEF Replaced
<1> QED
  BY <1>1, <1>9, <1>22, <1>24, <1>25

\* Every step keeps the invariant.
LEMMA BurstKeeps ==
  ASSUME IInv, Quiet, NEW p \in DOMAIN burst, Burst(p)
  PROVE  IInv'
BY BurstSubmitKeeps, BurstCancelledKeeps, BurstReplyKeeps DEF Burst

\* A stuttering step.
LEMMA StayKeeps ==
  ASSUME IInv, UNCHANGED vars
  PROVE  IInv'
<1>1. /\ UNCHANGED <<strategy, template, cancelled, jobs, closed, status, tries, tried, skipped,
                     yielded, main, stack, cur, next, deque, inFlight, waiting, completed, burst>>
  BY DEF vars
<1>2. /\ Held' = Held /\ Others' = Others /\ FramesHeld' = FramesHeld /\ TasksHeld' = TasksHeld
      /\ Undelivered' = Undelivered /\ Tree' = Tree /\ Capacity' = Capacity
      /\ \A p : Leaf(p)' = Leaf(p)
  BY <1>1, HeldSame DEF visit
<1>3. Paths' = Paths /\ \A p : Answered(p)' = Answered(p)
  BY <1>1 DEF Paths, Answered
<1>4. RunOK' /\ FramesOK'
  BY <1>1, <1>2, <1>3 DEF IInv, RunOK, Asked, FramesOK
<1>5. OthersOK'
  <2>1. BurstOK'
    BY <1>1, <1>2, <1>3 DEF IInv, OthersOK, BurstOK
  <2> QED
    BY <1>1, <1>2, <1>3, <2>1 DEF IInv, OthersOK
<1>6. Where'
  BY <1>1, <1>2, <1>3 DEF IInv, Where, Eager, Priority, CanDispatch
<1>7. TasksOK' /\ PoolOK'
  BY <1>1, <1>3 DEF IInv, TasksOK, PoolOK
<1>8. SpineOK' /\ NothingForgotten'
  BY <1>1, <1>2 DEF IInv, SpineOK, NothingForgotten
<1> QED
  BY <1>4, <1>5, <1>6, <1>7, <1>8 DEF IInv

\* The goroutine of Run.
LEMMA MainKeeps ==
  ASSUME IInv, Quiet, Main
  PROVE  IInv'
<1>1. CASE TakePending
  BY <1>1, TakePendingKeeps
<1>2. CASE ConsumeEager
  BY <1>2, ConsumeEagerKeeps
<1>3. CASE QuitEager
  BY <1>3, QuitEagerKeeps
<1>4. CASE LeaveEager
  BY <1>4, LeaveEagerKeeps
<1>5. CASE Consume
  BY <1>5, ConsumeKeeps
<1>6. CASE ConsumeAdaptive
  BY <1>6, ConsumeAdaptiveKeeps
<1>7. CASE NextBatch
  BY <1>7, NextBatchKeeps
<1>8. CASE BurstJoined \/ PriorityQuit \/ StartDispatch \/ Return \/ Close
  BY <1>8, WalksKeep
<1>9. CASE Dispatch
  BY <1>9, DispatchKeeps
<1>10. CASE DispatchCancelled
  BY <1>10, DispatchCancelledKeeps
<1>11. CASE TakeCompleted
  BY <1>11, TakeCompletedKeeps
<1> QED
  BY <1>1, <1>2, <1>3, <1>4, <1>5, <1>6, <1>7, <1>8, <1>9, <1>10, <1>11 DEF Main

\* IInv and Quiet are inductive.
LEMMA NextKeeps ==
  ASSUME IInv, Quiet, [Next]_vars
  PROVE  IInv'
<1>1. CASE Cancel
  BY <1>1, CancelKeeps
<1>2. CASE Receive
  BY <1>2, ReceiveKeeps
<1>3. CASE \E p \in Paths : Work(p)
  BY <1>3, WorkKeeps
<1>4. CASE \E k \in DOMAIN stack : Submitter(k)
  BY <1>4, SubmitterKeeps
<1>5. CASE \E p \in DOMAIN burst : Burst(p)
  BY <1>5, BurstKeeps
<1>6. CASE \E p \in waiting : Complete(p) \/ Abandon(p)
  BY <1>6, WaitingKeeps
<1>7. CASE Main
  BY <1>7, MainKeeps
<1>8. CASE Stay \/ UNCHANGED vars
  BY <1>8, StayKeeps DEF Stay
<1> QED
  BY <1>1, <1>2, <1>3, <1>4, <1>5, <1>6, <1>7, <1>8 DEF Next

\* The paths of a depth: none below another, and every goal below one.
LEMMA DepthSpans ==
  ASSUME NEW plan, IsPlan(plan), NEW d \in Depths(plan)
  PROVE  /\ PathSet(plan, d) \subseteq Nodes(plan)
         /\ \A x, z \in PathSet(plan, d) : IsPrefix(x, z) => x = z
         /\ \A g \in Goals(plan) : \E x \in PathSet(plan, d) : IsPrefix(x, g)
<1> DEFINE A == AllValues(plan)
<1>1. PathSet(plan, d) \subseteq Nodes(plan)
  BY DEF Nodes
<1>2. d \in Nat /\ d <= LastDepth(plan) /\ LastDepth(plan) \in Nat
  BY FindPlaceholdersLists
<1>3. \A x \in PathSet(plan, d) : x \in Seq(A) /\ Len(x) = d
  BY DEF PathSet
<1>4. \A g \in Goals(plan) : /\ g \in Seq(A) /\ Len(g) = LastDepth(plan)
                              /\ \A k \in 1 .. Len(g) : g[k] \in ValueSet(plan, k)
  BY DEF Goals, PathSet
<1>5. \A x, z \in PathSet(plan, d) : IsPrefix(x, z) => x = z
  <2> HIDE DEF A
  <2> QED
    BY <1>3, PrefixOrder
<1>6. ASSUME NEW g \in Goals(plan) PROVE \E x \in PathSet(plan, d) : IsPrefix(x, g)
  <2> DEFINE x == [i \in 1 .. d |-> g[i]]
  <2>1. g \in Seq(A) /\ \A i \in 1 .. d : i \in 1 .. Len(g) /\ g[i] \in A /\ g[i] \in ValueSet(plan, i)
    BY <1>2, <1>4
  <2>2. x \in Seq(A) /\ Len(x) = d /\ \A i \in 1 .. d : x[i] = g[i]
    <3>1. x \in [1 .. d -> A]
      BY <2>1
    <3>2. x \in Seq(A) /\ Len(x) = d
      BY <1>2, <3>1, SeqDef
    <3> QED
      BY <3>2
  <2> HIDE DEF x
  <2>3. x \in PathSet(plan, d)
    BY <2>1, <2>2 DEF PathSet
  <2>4. Len(x) <= Len(g)
    BY <1>2, <1>4, <2>2
  <2>5. IsPrefix(x, g)
    <3> HIDE DEF A
    <3> QED
      BY <2>1, <2>2, <2>4, PrefixMeans
  <2> QED
    BY <2>3, <2>5
<1> QED
  BY <1>1, <1>5, <1>6

\* Where a run of each strategy starts.
StartsAt(d) ==
  /\ d \in Depths(Tree) /\ (Eager => d = LastDepth(Tree))
  /\ \/ /\ ~Priority /\ deque = <<>>
        /\ \E g : CallsFor(g, PathSet(Tree, d)) /\ stack = <<g>>
     \/ Priority /\ stack = <<>> /\ Lists(deque, PathSet(Tree, d))

\* The first level has a path.
LEMMA FirstPaths ==
  ASSUME Chosen
  PROVE  PathSet(Tree, 1) # {}
<1> PICK bs, P : bs = LevelBatches(<< <<>> >>, 1) /\ P = PathSet(Tree, 1)
  OBVIOUS
<1>1. Batches(bs, P) /\ bs # <<>>
  BY FirstLevel
<1>2. PICK n \in Nat \ {0} : \A e \in DOMAIN bs : Len(bs[e]) = n
  BY FirstLevel
<1>3. bs \in Seq(Seq(P))
  BY <1>1 DEF Batches
<1>4. 1 \in DOMAIN bs /\ bs[1] \in Seq(P) /\ Len(bs[1]) = n
  BY <1>1, <1>2, <1>3
<1>5. bs[1][1] \in P
  BY <1>4
<1> QED
  BY <1>5

\* Each strategy starts with the paths of one depth.
LEMMA InitStarts ==
  ASSUME Init
  PROVE  Chosen /\ \E d : StartsAt(d)
<1>1. Chosen /\ strategy \in {"eager", "dfs", "bfs", "priority", "adaptive"}
  BY FuzzAssumption DEF Init, Chosen
<1>2. /\ IsPlan(Tree) /\ Space[template].candidates = PathsTo(Tree, LastDepth(Tree))
      /\ LastDepth(Tree) \in Nat \ {0} /\ Depths(Tree) = 1 .. LastDepth(Tree)
  BY <1>1, SpaceOfTree, FindPlaceholdersLists DEF IterateCandidates
<1>3. 1 \in Depths(Tree) /\ LastDepth(Tree) \in Depths(Tree)
  BY <1>2
<1>4. \A d \in Depths(Tree) : Lists(PathsTo(Tree, d), PathSet(Tree, d))
  <2> SUFFICES ASSUME NEW d \in Depths(Tree) PROVE Lists(PathsTo(Tree, d), PathSet(Tree, d))
    OBVIOUS
  <2>1. d \in 0 .. LastDepth(Tree)
    BY <1>2
  <2> QED
    BY <1>2, <2>1, PathsToLists
<1>5. CASE strategy = "eager"
  <2> PICK d, q : d = LastDepth(Tree) /\ q = PathsTo(Tree, d)
    OBVIOUS
  <2>1. stack = <<Evaluate(q, <<>>)>> /\ deque = <<>>
    BY <1>2, <1>5 DEF Init
  <2>2. CallsFor(Evaluate(q, <<>>), PathSet(Tree, d))
    BY <1>3, <1>4, ListCalls
  <2>3. d \in Depths(Tree) /\ ~Priority
    BY <1>3, <1>5 DEF Priority
  <2>4. StartsAt(d)
    BY <2>1, <2>2, <2>3 DEF StartsAt
  <2> QED
    BY <1>1, <2>4
<1>6. CASE strategy = "dfs"
  <2> PICK q : q = PathsTo(Tree, 1)
    OBVIOUS
  <2>1. stack = <<Evaluate(q, <<>>)>> /\ deque = <<>>
    BY <1>6 DEF Init, Tree
  <2>2. CallsFor(Evaluate(q, <<>>), PathSet(Tree, 1))
    BY <1>3, <1>4, ListCalls
  <2>3. ~Priority /\ ~Eager
    BY <1>6 DEF Priority, Eager
  <2>4. StartsAt(1)
    BY <1>3, <2>1, <2>2, <2>3 DEF StartsAt
  <2> QED
    BY <1>1, <2>4
<1>7. CASE strategy = "bfs"
  <2> PICK bs : bs = LevelBatches(<< <<>> >>, 1)
    OBVIOUS
  <2>1. stack = <<Evaluate(Head(bs), Tail(bs))>> /\ deque = <<>>
    BY <1>7 DEF Init
  <2>2. CallsFor(Evaluate(Head(bs), Tail(bs)), PathSet(Tree, 1))
    <3>1. Batches(bs, PathSet(Tree, 1)) /\ bs # <<>>
      BY <1>1, FirstLevel
    <3> QED
      BY <3>1 DEF CallsFor
  <2>3. ~Priority /\ ~Eager
    BY <1>7 DEF Priority, Eager
  <2>4. StartsAt(1)
    BY <1>3, <2>1, <2>2, <2>3 DEF StartsAt
  <2> QED
    BY <1>1, <2>4
<1>8. CASE strategy = "adaptive"
  <2> PICK q, P : q = PathsTo(Tree, 1) /\ P = PathSet(Tree, 1)
    OBVIOUS
  <2>1. (\E o \in Orders(q) : stack = <<AdaptFrame(o)>>) /\ deque = <<>>
    BY <1>8 DEF Init, Tree
  <2>2. PICK o \in Orders(q) : stack = <<AdaptFrame(o)>>
    BY <2>1
  <2>3. CallsFor(AdaptFrame(o), P)
    <3>1. Lists(q, P) /\ P # {}
      BY <1>1, <1>3, <1>4, FirstPaths
    <3> QED
      BY <3>1, AdaptCalls
  <2>4. ~Priority /\ ~Eager
    BY <1>8 DEF Priority, Eager
  <2>5. StartsAt(1)
    BY <1>3, <2>1, <2>2, <2>3, <2>4 DEF StartsAt
  <2> QED
    BY <1>1, <2>5
<1>9. CASE strategy = "priority"
  <2>1. stack = <<>> /\ deque = PriorityTasks
    BY <1>9 DEF Init
  <2>2. Priority /\ ~Eager
    BY <1>9 DEF Priority, Eager
  <2>3. Lists(deque, PathSet(Tree, 1))
    BY <1>1, <2>1, PriorityTasksList
  <2>4. StartsAt(1)
    BY <1>3, <2>1, <2>2, <2>3 DEF StartsAt
  <2> QED
    BY <1>1, <2>4
<1> QED
  BY <1>1, <1>5, <1>6, <1>7, <1>8, <1>9

\* A run starts with the paths of a depth, none of them asked for.
LEMMA InitIInv ==
  ASSUME Init
  PROVE  IInv
<1>1. Chosen
  BY InitStarts
<1>2. PICK d : StartsAt(d)
  BY InitStarts
<1>3. PICK P : P = PathSet(Tree, d)
  OBVIOUS
<1>4. /\ IsPlan(Tree) /\ d \in Depths(Tree) /\ LastDepth(Tree) \in Nat \ {0}
      /\ Depths(Tree) = 1 .. LastDepth(Tree) /\ Space[template].paths = Nodes(Tree)
      /\ \A p \in Nodes(Tree) : Leaf(p) <=> IsLeaf(Tree, p)
  BY <1>1, <1>2, SpaceOfTree, FindPlaceholdersLists DEF StartsAt
<1>5. /\ P \subseteq Nodes(Tree) /\ \A x, z \in P : IsPrefix(x, z) => x = z
      /\ \A g \in Goals(Tree) : \E x \in P : IsPrefix(x, g)
  BY <1>3, <1>4, DepthSpans
<1>6. /\ status = [p \in Nodes(Tree) |-> "none"] /\ Paths = Nodes(Tree)
      /\ tries = [p \in Paths |-> 0] /\ yielded = [p \in Paths |-> 0]
  BY <1>4 DEF Init, Paths
<1>7. /\ cancelled = FALSE /\ jobs = <<>> /\ closed = FALSE /\ tried = 0 /\ skipped = 0
      /\ main = "run" /\ cur = NoPath /\ next = <<>> /\ inFlight = 0 /\ waiting = {}
      /\ completed = <<>> /\ DOMAIN burst = {}
  BY DEF Init
<1>8. \A p \in Paths : status[p] = "none" /\ yielded[p] = 0 /\ tries[p] = 0
  BY <1>6
<1>9. Others = {} /\ ToSet(next) = {} /\ ToSet(completed) = {}
  BY <1>7, EmptyToSet DEF Others
<1>10. /\ Threads \in Nat \ {0} /\ JobBuffer \in Nat \ {0} /\ PendingBuffer \in Nat \ {0}
       /\ MaxRetries \in Nat \ {0} /\ Capacity \in Nat
  BY FuzzAssumption DEF Capacity
<1>11. /\ StackOK(stack, status, cancelled, Capacity) /\ Held = P /\ Len(stack) <= 1
       /\ Priority => stack = <<>>
       /\ ~Priority => TasksHeld = {} /\ deque = <<>>
       /\ deque \in Seq(Paths) /\ IsInjective(deque) /\ ToSet(deque) \subseteq Paths
  <2>1. CASE ~Priority
    <3>1. deque = <<>> /\ \E g : CallsFor(g, P) /\ stack = <<g>>
      BY <1>2, <1>3, <2>1 DEF StartsAt
    <3>2. PICK g : CallsFor(g, P) /\ stack = <<g>>
      BY <3>1
    <3>3. P \subseteq DOMAIN status /\ \A p \in P : status[p] = "none"
      BY <1>5, <1>6
    <3>4. FrameOK(g, status, cancelled) /\ FrameSet(g) = P /\ Fits(g, Capacity)
      <4> PICK st, n : st = status /\ n = Capacity
        OBVIOUS
      <4>1. /\ P \subseteq DOMAIN st /\ \A p \in P : st[p] = "none"
            /\ n \in Nat /\ cancelled \in BOOLEAN
        BY <1>7, <1>10, <3>3
      <4>2. FrameOK(g, st, cancelled) /\ FrameSet(g) = P /\ Fits(g, n)
        BY <3>2, <4>1, CallsFrame
      <4> QED
        BY <4>2
    <3>5. /\ StackOK(<<g>>, status, cancelled, Capacity) /\ FramesIn(<<g>>) = P /\ Len(<<g>>) = 1
      <4> PICK st, n : st = status /\ n = Capacity
        OBVIOUS
      <4>1. FrameOK(g, st, cancelled) /\ Fits(g, n) /\ cancelled \in BOOLEAN
        BY <1>7, <3>4
      <4>2. StackOK(<<g>>, st, cancelled, n) /\ FramesIn(<<g>>) = FrameSet(g) /\ Len(<<g>>) = 1
        BY <4>1, StackOne
      <4> QED
        BY <3>4, <4>2
    <3>6. TasksHeld = {} /\ ToSet(deque) = {} /\ IsInjective(deque)
      BY <1>7, <1>9, <3>1, EmptyToSet DEF TasksHeld
    <3>7. Held = P
      BY <1>9, <3>2, <3>5, <3>6 DEF Held, FramesHeld
    <3> QED
      BY <2>1, <3>1, <3>2, <3>5, <3>6, <3>7
  <2>2. CASE Priority
    <3>1. stack = <<>> /\ Lists(deque, P)
      BY <1>2, <1>3, <2>2 DEF StartsAt
    <3>2. deque \in Seq(P) /\ IsInjective(deque) /\ ToSet(deque) = P
      BY <3>1 DEF Lists
    <3>3. StackOK(<<>>, status, cancelled, Capacity) /\ FramesIn(<<>>) = {} /\ Len(<<>>) = 0
      BY StackNone
    <3>4. Held = P
      BY <1>7, <1>9, <3>1, <3>2, <3>3 DEF Held, FramesHeld, TasksHeld
    <3>5. deque \in Seq(Paths)
      <4>1. P \subseteq Paths
        BY <1>5, <1>6
      <4> PICK Q : Q = Paths
        OBVIOUS
      <4> QED
        BY <3>2, <4>1
    <3> QED
      BY <1>5, <1>6, <2>2, <3>1, <3>2, <3>3, <3>4, <3>5
  <2> QED
    BY <2>1, <2>2
<1>12. RunOK
  <2>1. Asked
    BY DEF Init, Asked
  <2>2. Undelivered \subseteq Paths
    BY <1>5, <1>6, <1>11 DEF Undelivered
  <2>3. yielded \in [Paths -> 0 .. 1]
    BY <1>6
  <2>4. \A p \in Undelivered : yielded[p] = 0
    BY <1>8, <2>2
  <2>5. cancelled \in BOOLEAN /\ closed \in BOOLEAN /\ tried \in Nat /\ skipped \in Nat
    BY <1>7
  <2> QED
    BY <1>6, <2>1, <2>3, <2>4, <2>5 DEF RunOK
<1>13. FramesOK
  BY <1>9, <1>11 DEF FramesOK
<1>14. OthersOK
  <2>1. BurstOK
    <3>1. burst = [p \in {} |-> ""]
      BY DEF Init
    <3>2. burst \in [{} -> {"submit", "await"}]
      BY <3>1
    <3> QED
      BY <1>7, <3>2 DEF BurstOK
  <2>2. next \in Seq(Paths) /\ IsInjective(next)
    BY <1>7, EmptyToSet
  <2> QED
    BY <1>7, <1>9, <2>1, <2>2 DEF OthersOK
<1>15. \A x \in P : Len(x) = d
  BY <1>3 DEF PathSet
<1>16. Where
  <2>1. Eager => \A x \in Held : Leaf(x)
    <3> SUFFICES ASSUME Eager, NEW x \in P PROVE Leaf(x)
      BY <1>11
    <3>1. d = LastDepth(Tree) /\ x \in Nodes(Tree)
      BY <1>2, <1>5 DEF StartsAt
    <3> QED
      BY <1>4, <1>15, <3>1 DEF IsLeaf
  <2>2. \A x, y \in Held : Len(x) = Len(y)
    BY <1>11, <1>15
  <2> QED
    BY <1>7, <1>9, <1>11, <2>1, <2>2 DEF Where
<1>17. TasksOK
  <2>1. IsFiniteSet(waiting) /\ Cardinality(waiting) = 0
    BY <1>7, FS_EmptySet
  <2>2. completed \in Seq(Paths) /\ IsInjective(completed) /\ Len(completed) = 0
    BY <1>7, EmptyToSet
  <2>3. inFlight \in 0 .. Threads /\ Cardinality(waiting) + Len(completed) <= inFlight
    BY <1>7, <1>10, <2>1, <2>2
  <2> QED
    BY <1>7, <1>8, <1>9, <1>11, <2>1, <2>2, <2>3 DEF TasksOK
<1>18. PoolOK
  <2>1. jobs \in Seq(Paths) /\ Len(jobs) <= JobBuffer /\ IsInjective(jobs) /\ ToSet(jobs) = {}
    BY <1>7, <1>10, EmptyToSet
  <2>2. status \in [Paths -> {"none", "queued", "ready", "sent"} \cup Answers]
    BY <1>6
  <2>3. tries \in [Paths -> 0 .. MaxRetries]
    BY <1>6, <1>10
  <2> QED
    BY <1>8, <2>1, <2>2, <2>3 DEF PoolOK
<1>19. SpineOK
  BY <1>5, <1>6, <1>8, <1>11 DEF SpineOK, Spine, Paths
<1>20. NothingForgotten
  BY <1>5, <1>8, <1>11 DEF NothingForgotten, Remembers, Paths
<1> QED
  BY <1>12, <1>13, <1>14, <1>16, <1>17, <1>18, <1>19, <1>20 DEF IInv

\* IInv and Quiet hold throughout.
LEMMA Invariant == Spec => [](IInv /\ Quiet)
<1>1. Init => IInv /\ Quiet
  BY InitIInv, InitQuiet
<1>2. IInv /\ Quiet /\ [Next]_vars => (IInv /\ Quiet)'
  <2>1. IInv /\ Quiet /\ [Next]_vars => IInv'
    BY NextKeeps
  <2>2. Quiet /\ [Next]_vars => Quiet'
    BY WorkQuiet, SubmitterQuiet, BurstQuiet, MainQuiet DEF Next
  <2> QED
    BY <2>1, <2>2
<1> QED
  BY <1>1, <1>2, PTL DEF Spec

(* The type invariant: the states of a request, the tries and deliveries of  *)
(* a path, and the capacities of jobsChan, the pending channels and the      *)
(* completions of runPriority (strategy.go, traversal.go, worker.go).        *)
THEOREM TypeCorrect == Spec => []TypeOK
<1>1. IInv => TypeOK
  <2> SUFFICES ASSUME IInv PROVE TypeOK
    OBVIOUS
  <2>1. RunOK /\ FramesOK /\ OthersOK /\ Where /\ TasksOK /\ PoolOK
    BY DEF IInv
  <2>2. ASSUME NEW k \in DOMAIN stack
        PROVE  /\ stack[k].pc \in {"check", "submit", "publish", "closed"}
               /\ Len(stack[k].pend) <= (IF Eager THEN JobBuffer ELSE PendingBuffer)
    <3>1. FrameOK(stack[k], status, cancelled) /\ Fits(stack[k], Capacity)
      BY <2>1 DEF FramesOK, StackOK
    <3>2. stack[k] \in Frames(DOMAIN status)
      BY <3>1 DEF FrameOK
    <3>3. stack[k].pc \in {"check", "submit", "publish", "closed"}
      BY <3>2, TypedFrame
    <3> QED
      BY <3>1, <3>3 DEF Fits, Capacity
  <2>3. Len(completed) <= Threads * 4
    <3>1. /\ Cardinality(waiting) + Len(completed) <= inFlight /\ inFlight \in 0 .. Threads
          /\ Cardinality(waiting) \in Nat /\ Len(completed) \in Nat /\ Threads \in Nat
      BY <2>1, Context, FS_CardinalityType DEF TasksOK
    <3> PICK m, n : m = Cardinality(waiting) /\ n = Len(completed)
      OBVIOUS
    <3> QED
      BY <3>1
  <2> QED
    BY <2>1, <2>2, <2>3 DEF RunOK, OthersOK, Where, TasksOK, PoolOK, TypeOK
<1> QED
  BY <1>1, Invariant, PTL

-----------------------------------------------------------------------------
(* The run implements the search.                                            *)
Above == Ancestors[template]
GoalsOf == Candidates[template]
RequestedIn == {p \in Paths : status[p] # "none"}
AnswerIn == [p \in Paths |-> IF Answered(p) THEN status[p] ELSE "none"]
DeliveredIn == {p \in Paths : yielded[p] > 0}

\* The tree of the search is the prefix order of the paths.
LEMMA SearchTree ==
  ASSUME RunOK
  PROVE  /\ Above = [n \in Paths |-> {q \in Paths : IsPrefix(q, n) /\ q # n}]
         /\ DOMAIN Above = Paths /\ GoalsOf = Goals(Tree) /\ GoalsOf \subseteq Paths
<1>1. Chosen /\ IsPlan(Tree) /\ Paths = Nodes(Tree) /\ Goals(Tree) \subseteq Paths
  BY Context
<1>2. Space[template].paths = Paths /\ Space[template].candidates = IterateCandidates(Tree)
  BY <1>1, SpaceOfTree
<1>3. GoalsOf = Goals(Tree)
  <2>1. GoalsOf = ToSet(Space[template].candidates)
    BY <1>1 DEF GoalsOf, Candidates, Chosen
  <2> QED
    BY <1>1, <1>2, <2>1, AllPathsAreNodes
<1>4. Above = [path \in Space[template].paths |-> {q \in Space[template].paths : IsStrictPrefix(q, path)}]
  BY <1>1 DEF Above, Ancestors, Chosen
<1>5. Above = [n \in Paths |-> {q \in Paths : IsPrefix(q, n) /\ q # n}]
  BY <1>2, <1>4 DEF IsStrictPrefix
<1> QED
  BY <1>1, <1>3, <1>5

\* What the search sees of a step that only changes the status of a path.
LEMMA StatusSeen ==
  ASSUME RunOK, PoolOK, NEW p \in Paths, NEW a, status' = [status EXCEPT ![p] = a],
         UNCHANGED <<strategy, template, yielded>>
  PROVE  /\ Above' = Above /\ GoalsOf' = GoalsOf /\ DeliveredIn' = DeliveredIn
         /\ AnswerIn' = [AnswerIn EXCEPT ![p] = IF a \in Answers THEN a ELSE "none"]
         /\ RequestedIn' = IF a = "none" THEN RequestedIn \ {p} ELSE RequestedIn \cup {p}
<1>1. Paths' = Paths /\ p \in DOMAIN status
  BY DEF Paths
<1>2. Above' = Above /\ GoalsOf' = GoalsOf
  BY DEF Above, GoalsOf
<1>3. DeliveredIn' = DeliveredIn
  BY <1>1 DEF DeliveredIn
<1>4. status'[p] = a /\ \A q \in Paths : q # p => status'[q] = status[q]
  BY <1>1 DEF Paths
<1>5. AnswerIn' = [AnswerIn EXCEPT ![p] = IF a \in Answers THEN a ELSE "none"]
  BY <1>1, <1>4 DEF AnswerIn, Answered
<1>6. RequestedIn' = IF a = "none" THEN RequestedIn \ {p} ELSE RequestedIn \cup {p}
  BY <1>1, <1>4 DEF RequestedIn
<1> QED
  BY <1>2, <1>3, <1>5, <1>6

\* To ask for a held path is a Request of the search.
LEMMA IsRequest ==
  ASSUME IInv, NEW p \in Undelivered, status[p] = "none", status' = [status EXCEPT ![p] = "queued"],
         UNCHANGED <<strategy, template, yielded, cancelled>>, ~Outside, ~Outside'
  PROVE  S!Next
<1>1. RunOK /\ PoolOK /\ SpineOK
  BY DEF IInv
<1>2. p \in Held /\ p \in Paths
  BY <1>1 DEF Undelivered, SpineOK, Spine, Paths
<1>3. /\ Above = [n \in Paths |-> {q \in Paths : IsPrefix(q, n) /\ q # n}]
      /\ DOMAIN Above = Paths
  BY <1>1, SearchTree
<1>4. /\ Above' = Above /\ GoalsOf' = GoalsOf /\ DeliveredIn' = DeliveredIn
      /\ AnswerIn' = [AnswerIn EXCEPT ![p] = "none"]
      /\ RequestedIn' = RequestedIn \cup {p}
  <2>1. PICK a : a = "queued"
    OBVIOUS
  <2>2. a \notin Answers /\ a # "none" /\ status' = [status EXCEPT ![p] = a]
    BY <2>1 DEF Answers
  <2> QED
    BY <1>1, <1>2, <2>2, StatusSeen
<1>5. AnswerIn' = AnswerIn
  BY <1>2, <1>4 DEF AnswerIn, Answered, Answers
<1>6. p \notin RequestedIn
  BY DEF RequestedIn
<1>7. \A m \in Above[p] \cap RequestedIn : AnswerIn[m] = "accepted"
  <2> SUFFICES ASSUME NEW m \in Above[p] \cap RequestedIn PROVE AnswerIn[m] = "accepted"
    OBVIOUS
  <2>1. m \in Paths /\ IsPrefix(m, p) /\ m # p /\ status[m] # "none"
    BY <1>2, <1>3 DEF RequestedIn
  <2>2. status[m] = "accepted"
    BY <1>1, <1>2, <2>1 DEF SpineOK, Spine, Paths
  <2> QED
    BY <2>1, <2>2 DEF AnswerIn, Answered, Answers
<1>8. S!Request(p)
  BY <1>4, <1>5, <1>6, <1>7 DEF S!Request, S!tree, Above, GoalsOf, RequestedIn, AnswerIn, DeliveredIn, Outside
<1>9. p \in S!Nodes
  BY <1>2, <1>3 DEF S!Nodes, Above
<1> QED
  BY <1>8, <1>9 DEF S!Next

\* What a worker says of its path is an Answer, or is not seen.
LEMMA IsAnswer ==
  ASSUME IInv, NEW p \in Paths, status[p] \in Asking, NEW a \in {"queued", "ready", "sent"} \cup Answers,
         status' = [status EXCEPT ![p] = a],
         UNCHANGED <<strategy, template, yielded, cancelled, main>>
  PROVE  S!Next \/ UNCHANGED S!vars
<1>1. RunOK /\ PoolOK
  BY DEF IInv
<1>2. /\ Above' = Above /\ GoalsOf' = GoalsOf /\ DeliveredIn' = DeliveredIn
      /\ AnswerIn' = [AnswerIn EXCEPT ![p] = IF a \in Answers THEN a ELSE "none"]
      /\ RequestedIn' = RequestedIn \cup {p}
  BY <1>1, StatusSeen DEF Answers
<1>3. p \in RequestedIn /\ AnswerIn[p] = "none" /\ p \in DOMAIN Above
  BY <1>1, SearchTree DEF RequestedIn, AnswerIn, Answered, Asking, Answers
<1>4. CASE a \in Answers
  <2>1. S!Answer(p)
    BY <1>2, <1>3, <1>4 DEF S!Answer, S!tree, Above, GoalsOf, RequestedIn, AnswerIn, DeliveredIn, Answers
  <2>2. p \in S!Nodes
    BY <1>3 DEF S!Nodes, Above
  <2> QED
    BY <2>1, <2>2 DEF S!Next
<1>5. CASE a \notin Answers
  <2>1. AnswerIn' = AnswerIn /\ RequestedIn' = RequestedIn
    BY <1>2, <1>3, <1>5 DEF AnswerIn
  <2> QED
    BY <1>2, <2>1 DEF S!vars, Above, GoalsOf, RequestedIn, AnswerIn, DeliveredIn
<1> QED
  BY <1>4, <1>5

\* To deliver the result of a held path is a Deliver of the search.
LEMMA IsDelivery ==
  ASSUME IInv, NEW p \in Undelivered, NEW a \in {0, 1}, yielded' = Changed(yielded, p, a),
         a = 1 => Deliverable(p), ~Outside, ~Outside',
         UNCHANGED <<strategy, template, status, cancelled>>
  PROVE  S!Next \/ UNCHANGED S!vars
<1>1. RunOK /\ SpineOK
  BY DEF IInv
<1>2. p \in Paths /\ yielded[p] = 0 /\ DOMAIN yielded = Paths
  BY <1>1 DEF Undelivered, SpineOK, Spine, Paths, RunOK
<1>3. /\ Above' = Above /\ GoalsOf' = GoalsOf /\ Paths' = Paths /\ p \in DOMAIN Above
      /\ AnswerIn' = AnswerIn /\ RequestedIn' = RequestedIn
  BY <1>1, <1>2, SearchTree DEF Above, GoalsOf, AnswerIn, RequestedIn, Answered, Paths
<1>4. yielded'[p] = a /\ \A q \in Paths : q # p => yielded'[q] = yielded[q]
  BY <1>2 DEF Changed
<1>5. CASE a = 1
  <2>1. DeliveredIn' = DeliveredIn \cup {p} /\ p \notin DeliveredIn
    BY <1>2, <1>3, <1>4, <1>5 DEF DeliveredIn
  <2>2. AnswerIn[p] \in {"accepted", "error"}
    BY <1>2, <1>5 DEF AnswerIn, Answered, Answers, Deliverable
  <2>3. S!Deliver(p)
    BY <1>3, <2>1, <2>2 DEF S!Deliver, S!tree, S!Matters, Above, GoalsOf, RequestedIn, AnswerIn, DeliveredIn, Outside
  <2>4. p \in S!Nodes
    BY <1>3 DEF S!Nodes, Above
  <2> QED
    BY <2>3, <2>4 DEF S!Next
<1>6. CASE a = 0
  <2>1. DeliveredIn' = DeliveredIn
    BY <1>2, <1>3, <1>4, <1>6 DEF DeliveredIn
  <2> QED
    BY <1>3, <2>1 DEF S!vars, Above, GoalsOf, RequestedIn, AnswerIn, DeliveredIn, Outside
<1> QED
  BY <1>5, <1>6

\* A run that is not cancelled returns with nothing left in its hands.
LEMMA IsFinish ==
  ASSUME IInv, cancelled \/ Held = {}, ~Outside, Outside',
         UNCHANGED <<strategy, template, status, yielded, cancelled>>
  PROVE  S!Next
<1>1. RunOK /\ SpineOK /\ NothingForgotten
  BY DEF IInv
<1>2. /\ Above = [n \in Paths |-> {q \in Paths : IsPrefix(q, n) /\ q # n}]
      /\ DOMAIN Above = Paths /\ GoalsOf = Goals(Tree) /\ GoalsOf \subseteq Paths
  BY <1>1, SearchTree
<1>3. /\ Above' = Above /\ GoalsOf' = GoalsOf /\ Paths' = Paths
      /\ AnswerIn' = AnswerIn /\ RequestedIn' = RequestedIn /\ DeliveredIn' = DeliveredIn
  BY DEF Above, GoalsOf, AnswerIn, RequestedIn, DeliveredIn, Answered, Paths
<1>4. ASSUME ~cancelled
      PROVE  /\ \A g \in GoalsOf : AnswerIn[g] # "none" \/ \E m \in Above[g] : AnswerIn[m] \in {"rejected", "error"}
             /\ \A n \in Paths : AnswerIn[n] \in {"accepted", "error"} => n \in DeliveredIn
  <2>1. Held = {} /\ Undelivered = {} /\ Remembers(Goals(Tree), Held, Undelivered, status, yielded)
    BY <1>1, <1>4 DEF NothingForgotten, Undelivered
  <2>2. \A g \in Goals(Tree) : SettledIn(status, g)
    BY <2>1 DEF Remembers
  <2>3. ASSUME NEW g \in GoalsOf
        PROVE  AnswerIn[g] # "none" \/ \E m \in Above[g] : AnswerIn[m] \in {"rejected", "error"}
    <3>1. g \in Paths /\ SettledIn(status, g)
      BY <1>2, <2>2, <2>3
    <3>2. CASE status[g] \in Answers
      BY <3>1, <3>2 DEF AnswerIn, Answered, Answers
    <3>3. CASE \E m \in Paths : IsPrefix(m, g) /\ m # g /\ status[m] \in {"rejected", "error"}
      <4>1. PICK m \in Paths : IsPrefix(m, g) /\ m # g /\ status[m] \in {"rejected", "error"}
        BY <3>3
      <4>2. m \in Above[g]
        BY <1>2, <3>1, <4>1
      <4>3. AnswerIn[m] \in {"rejected", "error"}
        BY <4>1 DEF AnswerIn, Answered, Answers
      <4> QED
        BY <4>2, <4>3
    <3> QED
      BY <3>1, <3>2, <3>3 DEF SettledIn, Paths
  <2>4. ASSUME NEW n \in Paths, AnswerIn[n] \in {"accepted", "error"} PROVE n \in DeliveredIn
    <3>1. status[n] \notin {"none", "rejected"}
      BY <2>4 DEF AnswerIn, Answered, Answers
    <3>2. yielded[n] # 0
      BY <2>1, <3>1 DEF Remembers, Paths
    <3>3. yielded[n] \in 0 .. 1
      BY <1>1 DEF RunOK
    <3> QED
      BY <3>2, <3>3 DEF DeliveredIn
  <2> QED
    BY <2>3, <2>4
<1>5. S!Finish
  <2>1. ~cancelled => \A n \in GoalsOf : S!Settled(n)
    BY <1>4 DEF S!Settled, Above, AnswerIn
  <2>2. ~cancelled => \A n \in S!Nodes : S!Matters(n) => n \in DeliveredIn
    BY <1>2, <1>4 DEF S!Nodes, S!Matters, Above, AnswerIn
  <2> QED
    BY <1>3, <2>1, <2>2 DEF S!Finish, S!tree, Above, GoalsOf, RequestedIn, AnswerIn, DeliveredIn, Outside
<1> QED
  BY <1>5 DEF S!Next

\* A step the search does not see.
LEMMA NotSeen ==
  ASSUME UNCHANGED <<strategy, template, status, yielded, cancelled>>, Outside' = Outside
  PROVE  UNCHANGED S!vars
<1>1. Above' = Above /\ GoalsOf' = GoalsOf /\ AnswerIn' = AnswerIn /\ RequestedIn' = RequestedIn
      /\ DeliveredIn' = DeliveredIn
  BY DEF Above, GoalsOf, AnswerIn, RequestedIn, DeliveredIn, Answered, Paths
<1> QED
  BY <1>1 DEF S!vars, Above, GoalsOf, RequestedIn, AnswerIn, DeliveredIn, Outside

\* A cancellation is a Stop of the search.
LEMMA CancelSeen ==
  ASSUME Cancel, IInv
  PROVE  S!Next
<1>1. UNCHANGED <<strategy, template, status, yielded, main>> /\ cancelled = FALSE /\ cancelled' = TRUE
  BY DEF Cancel, asked, pool, visit, IInv, RunOK
<1>2. Above' = Above /\ GoalsOf' = GoalsOf /\ AnswerIn' = AnswerIn /\ RequestedIn' = RequestedIn
      /\ DeliveredIn' = DeliveredIn
  BY <1>1 DEF Above, GoalsOf, AnswerIn, RequestedIn, DeliveredIn, Answered, Paths
<1>3. S!Stop
  BY <1>1, <1>2 DEF S!Stop, S!tree, Above, GoalsOf, RequestedIn, AnswerIn, DeliveredIn
<1> QED
  BY <1>3 DEF S!Next

\* A worker sends and answers; the rest of what it does is not seen.
LEMMA WorkSeen ==
  ASSUME IInv, NEW p \in Paths, Work(p)
  PROVE  S!Next \/ UNCHANGED S!vars
<1>1. /\ UNCHANGED <<strategy, template, yielded, cancelled, main>>
      /\ status[p] \in Asking
      /\ \E a \in {"queued", "ready", "sent"} \cup Answers : status' = [status EXCEPT ![p] = a]
  <2>1. CASE Malformed(p) \/ GiveUp(p) \/ SendRequest(p)
    BY <2>1 DEF Malformed, GiveUp, SendRequest, Reply, asked, visit, Asking, Answers
  <2>2. CASE Respond(p)
    BY <2>2 DEF Respond, Reply, asked, visit, Asking
  <2>3. CASE Fail(p)
    <3>1. PICK a \in {"ready", "error"} : Reply(p, a)
      BY <2>3 DEF Fail
    <3> QED
      BY <2>3, <3>1 DEF Fail, Reply, asked, visit, Asking, Answers
  <2> QED
    BY <2>1, <2>2, <2>3 DEF Work
<1> QED
  BY <1>1, IsAnswer

\* A worker that takes a path after a cancellation answers it.
LEMMA ReceiveSeen ==
  ASSUME IInv, Receive
  PROVE  S!Next \/ UNCHANGED S!vars
<1> DEFINE p == Head(jobs)
<1>1. jobs \in Seq(Paths) /\ jobs # <<>> /\ IsInjective(jobs)
  BY DEF Receive, IInv, PoolOK
<1>2. p \in Paths /\ p \in ToSet(jobs)
  BY <1>1, HeadTailOnce
<1>3. status[p] \in Asking
  BY <1>2 DEF IInv, PoolOK, Asking
<1>4. PICK a \in {"ready", "error"} : Reply(p, a)
  BY DEF Receive
<1>5. /\ UNCHANGED <<strategy, template, yielded, cancelled, main>>
      /\ status' = [status EXCEPT ![p] = a]
  BY <1>4 DEF Receive, Reply, asked, visit
<1>6. a \in {"queued", "ready", "sent"} \cup Answers
  BY DEF Answers
<1> HIDE DEF p
<1> QED
  BY <1>2, <1>3, <1>5, <1>6, IsAnswer

\* The goroutine of a level asks for a path.
LEMMA SubmitterSeen ==
  ASSUME IInv, Quiet, NEW k \in DOMAIN stack, Submitter(k)
  PROVE  S!Next \/ UNCHANGED S!vars
<1>1. UNCHANGED <<strategy, template, yielded, cancelled, main>>
  BY DEF Submitter, StopSubmitting, ContinueSubmitting, Submit, SubmitCancelled, Publish,
         PublishCancelled, SubmitterOnly, asked
<1>2. ~Outside /\ ~Outside'
  BY <1>1 DEF Quiet, Outside
<1>3. CASE Submit(k)
  <2>1. PICK p \in Undelivered : status[p] = "none" /\ Enqueue(p)
    BY <1>3, SubmitAsks
  <2>2. status' = [status EXCEPT ![p] = "queued"]
    BY <2>1 DEF Enqueue
  <2> QED
    BY <1>1, <1>2, <2>1, <2>2, IsRequest
<1>4. CASE ~Submit(k)
  <2>1. UNCHANGED status
    BY <1>4 DEF Submitter, StopSubmitting, ContinueSubmitting, SubmitCancelled, Publish,
         PublishCancelled, pool
  <2> QED
    BY <1>1, <1>2, <2>1, NotSeen DEF Outside
<1> QED
  BY <1>3, <1>4

\* The goroutines of an eager visit ask and deliver.
LEMMA BurstSeen ==
  ASSUME IInv, Quiet, NEW p \in DOMAIN burst, Burst(p)
  PROVE  S!Next \/ UNCHANGED S!vars
<1>1. UNCHANGED <<strategy, template, cancelled, main>>
  BY DEF Burst, BurstSubmit, BurstCancelled, BurstReply, BurstOnly, asked
<1>2. /\ main = "join" /\ p \in Undelivered /\ (burst[p] = "submit" <=> status[p] = "none")
      /\ \A q \in {0, 1} : Changed(yielded, p, q) = [yielded EXCEPT ![p] = @ + q]
  BY VisitFacts
<1>3. ~Outside /\ ~Outside'
  BY <1>1, <1>2 DEF Outside
<1>4. CASE BurstSubmit(p)
  <2>1. status[p] = "none" /\ status' = [status EXCEPT ![p] = "queued"] /\ UNCHANGED yielded
    BY <1>2, <1>4 DEF BurstSubmit, Enqueue
  <2> QED
    BY <1>1, <1>2, <1>3, <2>1, IsRequest
<1>5. CASE BurstCancelled(p)
  <2>1. UNCHANGED <<status, yielded>>
    BY <1>5 DEF BurstCancelled, pool
  <2> QED
    BY <1>1, <1>3, <2>1, NotSeen DEF Outside
<1>6. CASE BurstReply(p)
  <2>1. PICK a \in {0, 1} : a = IF Deliverable(p) THEN 1 ELSE 0
    OBVIOUS
  <2>2. yielded' = Changed(yielded, p, a) /\ UNCHANGED status
    BY <1>2, <1>6, <2>1 DEF BurstReply, pool
  <2>3. a = 1 => Deliverable(p)
    BY <2>1
  <2> QED
    BY <1>1, <1>2, <1>3, <2>1, <2>2, <2>3, IsDelivery
<1> QED
  BY <1>4, <1>5, <1>6 DEF Burst

\* The goroutine of Run takes a reply.
LEMMA ConsumeSeen ==
  ASSUME IInv, Quiet, ConsumeEager \/ Consume \/ ConsumeAdaptive
  PROVE  S!Next \/ UNCHANGED S!vars
<1>1. Waits /\ MainOnly /\ main = "run" /\ main' \in {"run", "join"}
  BY DEF ConsumeEager, Consume, ConsumeAdaptive, Waits
<1>2. UNCHANGED <<strategy, template, status, cancelled>> /\ ~Outside /\ ~Outside'
  BY <1>1, MainOnlyFacts DEF Outside
<1>3. /\ cur \in Undelivered
      /\ \A q \in {0, 1} : Changed(yielded, cur, q) = [yielded EXCEPT ![cur] = @ + q]
  BY <1>1, CurFacts
<1>4. \E a \in {0, 1} : yielded' = Changed(yielded, cur, a) /\ (a = 1 => Deliverable(cur))
  <2>1. CASE ConsumeEager
    <3>1. PICK a \in {0, 1} : a = IF Deliverable(cur) THEN 1 ELSE 0
      OBVIOUS
    <3>2. yielded' = [yielded EXCEPT ![cur] = @ + a]
      BY <2>1, <3>1 DEF ConsumeEager
    <3>3. yielded' = Changed(yielded, cur, a)
      BY <1>3, <3>2
    <3>4. a = 1 => Deliverable(cur)
      BY <3>1
    <3> QED
      BY <3>3, <3>4
  <2>2. CASE Consume \/ ConsumeAdaptive
    <3>1. PICK a \in {0, 1} : a = IF ~cancelled /\ Deliverable(cur) THEN 1 ELSE 0
      OBVIOUS
    <3>2. yielded' = [yielded EXCEPT ![cur] = @ + a]
      BY <2>2, <3>1 DEF Consume, ConsumeAdaptive, Deliver
    <3>3. yielded' = Changed(yielded, cur, a)
      BY <1>3, <3>2
    <3>4. a = 1 => Deliverable(cur)
      BY <3>1
    <3> QED
      BY <3>3, <3>4
  <2> QED
    BY <2>1, <2>2
<1>5. PICK a \in {0, 1} : yielded' = Changed(yielded, cur, a) /\ (a = 1 => Deliverable(cur))
  BY <1>3, <1>4
<1>6. PICK p : p = cur
  OBVIOUS
<1> QED
  BY <1>2, <1>3, <1>5, <1>6, IsDelivery

\* runPriority takes a reply.
LEMMA TakeCompletedSeen ==
  ASSUME IInv, TakeCompleted
  PROVE  S!Next \/ UNCHANGED S!vars
<1>1. PICK p : p = Head(completed)
  OBVIOUS
<1>2. /\ Priority /\ main = "run" /\ main' = "run" /\ completed # <<>> /\ MainOnly
      /\ Deliver(p)
  BY <1>1 DEF TakeCompleted
<1>3. UNCHANGED <<strategy, template, status, cancelled>> /\ ~Outside /\ ~Outside'
  BY <1>2, MainOnlyFacts DEF Outside
<1>4. completed \in Seq(Paths) /\ IsInjective(completed)
  BY DEF IInv, TasksOK
<1>5. p \in Paths /\ p \in ToSet(completed)
  BY <1>1, <1>2, <1>4, HeadTailOnce
<1>6. p \in Undelivered
  BY <1>2, <1>5, PriorityFacts DEF TasksHeld
<1>7. yielded[p] = 0 /\ DOMAIN yielded = Paths
  BY <1>6 DEF IInv, RunOK
<1>8. PICK a \in {0, 1} : a = IF ~cancelled /\ Deliverable(p) THEN 1 ELSE 0
  OBVIOUS
<1>9. yielded' = [yielded EXCEPT ![p] = yielded[p] + a]
  BY <1>2, <1>5, <1>7, <1>8 DEF Deliver
<1>10. yielded[p] + a = a
  BY <1>7
<1>11. yielded' = Changed(yielded, p, a)
  BY <1>9, <1>10 DEF Changed
<1>12. a = 1 => Deliverable(p)
  BY <1>8
<1> QED
  BY <1>3, <1>6, <1>11, <1>12, IsDelivery

\* runPriority asks for a path.
LEMMA DispatchSeen ==
  ASSUME IInv, Dispatch
  PROVE  S!Next \/ UNCHANGED S!vars
<1>1. PICK p : p = Head(deque)
  OBVIOUS
<1>2. /\ main = "dispatch" /\ main' = "run" /\ status' = [status EXCEPT ![p] = "queued"]
      /\ UNCHANGED <<strategy, template, yielded, cancelled>>
  BY <1>1 DEF Dispatch, Enqueue, asked
<1>3. ~Outside /\ ~Outside' /\ Priority /\ deque # <<>>
  BY <1>2 DEF Outside, IInv, Where, CanDispatch
<1>4. deque \in Seq(Paths) /\ IsInjective(deque)
  BY DEF IInv, TasksOK
<1>5. p \in Paths /\ p \in ToSet(deque)
  BY <1>1, <1>3, <1>4, HeadTailOnce
<1>6. p \in Undelivered /\ status[p] = "none"
  BY <1>3, <1>5, PriorityFacts DEF TasksHeld, IInv, TasksOK
<1> QED
  BY <1>2, <1>3, <1>6, IsRequest

\* Run returns with nothing in its hands, or after a cancellation.
LEMMA ReturnsEmpty ==
  ASSUME IInv, Quiet, LeaveEager \/ PriorityQuit \/ Return
  PROVE  cancelled \/ Held = {}
<1>1. CASE LeaveEager
  BY <1>1 DEF LeaveEager, IInv, Where
<1>2. CASE PriorityQuit
  <2> SUFFICES ASSUME ~cancelled PROVE Held = {}
    OBVIOUS
  <2>1. Priority /\ deque = <<>> /\ inFlight = 0
    BY <1>2 DEF PriorityQuit
  <2>2. /\ IsFiniteSet(waiting) /\ Cardinality(waiting) + Len(completed) <= 0
        /\ completed \in Seq(Paths) /\ Len(completed) \in Nat /\ Cardinality(waiting) \in Nat
    BY <2>1, FS_CardinalityType DEF IInv, TasksOK
  <2>3. Cardinality(waiting) = 0 /\ Len(completed) = 0
    <3> PICK m, n : m = Cardinality(waiting) /\ n = Len(completed)
      OBVIOUS
    <3> QED
      BY <2>2
  <2>4. waiting = {} /\ completed = <<>>
    BY <2>2, <2>3, FS_EmptySet
  <2>5. TasksHeld = {}
    BY <2>1, <2>4, EmptyToSet DEF TasksHeld
  <2> QED
    BY <2>1, <2>5, PriorityFacts
<1>3. CASE Return
  <2>1. ~Priority /\ main = "run" /\ stack = <<>>
    BY <1>3 DEF Return
  <2>2. cur = NoPath /\ next = <<>> /\ DOMAIN burst = {} /\ TasksHeld = {}
    BY <2>1 DEF IInv, OthersOK, Where, Quiet
  <2>3. FramesHeld = {}
    BY <2>1, StackNone DEF FramesHeld
  <2> QED
    BY <2>2, <2>3, EmptyToSet DEF Held, Others
<1> QED
  BY <1>1, <1>2, <1>3

\* Run returns, with every path in its place or after a cancellation.
LEMMA ReturnSeen ==
  ASSUME IInv, Quiet, LeaveEager \/ PriorityQuit \/ Return
  PROVE  S!Next \/ UNCHANGED S!vars
<1>1. MainOnly /\ main' = "returned" /\ main \in {"run", "quit"} /\ UNCHANGED yielded
  BY DEF LeaveEager, PriorityQuit, Return
<1>2. UNCHANGED <<strategy, template, status, cancelled>> /\ ~Outside /\ Outside'
  BY <1>1, MainOnlyFacts DEF Outside
<1>3. cancelled \/ Held = {}
  BY ReturnsEmpty
<1> QED
  BY <1>1, <1>2, <1>3, IsFinish

\* The goroutine of Run.
LEMMA MainSeen ==
  ASSUME IInv, Quiet, Main
  PROVE  S!Next \/ UNCHANGED S!vars
<1>1. CASE ConsumeEager \/ Consume \/ ConsumeAdaptive
  BY <1>1, ConsumeSeen
<1>2. CASE LeaveEager \/ PriorityQuit \/ Return
  BY <1>2, ReturnSeen
<1>3. CASE Dispatch
  BY <1>3, DispatchSeen
<1>4. CASE TakeCompleted
  BY <1>4, TakeCompletedSeen
<1>5. CASE TakePending \/ QuitEager \/ NextBatch \/ BurstJoined \/ StartDispatch \/ DispatchCancelled
  <2>1. MainOnly /\ UNCHANGED yielded /\ ~Outside /\ ~Outside'
    BY <1>5 DEF TakePending, QuitEager, NextBatch, BurstJoined, StartDispatch, DispatchCancelled, Outside
  <2>2. UNCHANGED <<strategy, template, status, cancelled>>
    BY <2>1, MainOnlyFacts
  <2> QED
    BY <2>1, <2>2, NotSeen DEF Outside
<1>6. CASE Close
  <2>1. UNCHANGED <<strategy, template, status, yielded, cancelled>> /\ Outside /\ Outside'
    BY <1>6 DEF Close, Outside, asked
  <2> QED
    BY <2>1, NotSeen
<1> QED
  BY <1>1, <1>2, <1>3, <1>4, <1>5, <1>6 DEF Main

\* Every step of a run is a step of the search or is not seen.
LEMMA StepSeen ==
  ASSUME IInv, Quiet, [Next]_vars
  PROVE  [S!Next]_S!vars
<1>1. CASE Cancel
  BY <1>1, CancelSeen
<1>2. CASE Receive
  BY <1>2, ReceiveSeen
<1>3. CASE \E p \in Paths : Work(p)
  BY <1>3, WorkSeen
<1>4. CASE \E k \in DOMAIN stack : Submitter(k)
  BY <1>4, SubmitterSeen
<1>5. CASE \E p \in DOMAIN burst : Burst(p)
  BY <1>5, BurstSeen
<1>6. CASE \E p \in waiting : Complete(p) \/ Abandon(p)
  <2>1. UNCHANGED <<strategy, template, status, yielded, cancelled, main>>
    BY <1>6, MainOnlyFacts DEF Complete, Abandon
  <2> QED
    BY <2>1, NotSeen DEF Outside
<1>7. CASE Main
  BY <1>7, MainSeen
<1>8. CASE Stay \/ UNCHANGED vars
  <2>1. UNCHANGED <<strategy, template, status, yielded, cancelled, main>>
    BY <1>8 DEF Stay, vars
  <2> QED
    BY <2>1, NotSeen DEF Outside
<1> QED
  BY <1>1, <1>2, <1>3, <1>4, <1>5, <1>6, <1>7, <1>8 DEF Next

\* A run starts as a search does.
LEMMA InitSeen ==
  ASSUME Init
  PROVE  S!Init
<1>1. IInv
  BY InitIInv
<1>2. /\ GoalsOf \subseteq Paths /\ DOMAIN Above = Paths
  BY <1>1, SearchTree DEF IInv
<1>3. cancelled = FALSE /\ main = "run"
  BY DEF Init
<1>4. \A p \in Paths : status[p] = "none" /\ yielded[p] = 0
  BY DEF Init, Paths
<1>5. RequestedIn = {} /\ DeliveredIn = {} /\ AnswerIn = [n \in Paths |-> "none"]
  BY <1>4 DEF RequestedIn, DeliveredIn, AnswerIn, Answered, Answers
<1> QED
  BY <1>2, <1>3, <1>5 DEF S!Init, S!Nodes, Above, GoalsOf, RequestedIn, AnswerIn, DeliveredIn

(* A run of every strategy is a search: it asks for a path once, and only    *)
(* below accepted ones; it delivers at most once; and it returns uncancelled *)
(* only when every candidate was answered and delivered or lies below a path *)
(* that was turned down (strategy.go:133-139, traversal.go:23-93).           *)
THEOREM SearchImplemented == Spec => ImplementsSearch
<1>1. Init => S!Init
  BY InitSeen
<1>2. IInv /\ Quiet /\ [Next]_vars => [S!Next]_S!vars
  BY StepSeen
<1>3. Spec => [](IInv /\ Quiet)
  BY Invariant
<1> QED
  BY <1>1, <1>2, <1>3, PTL DEF Spec, ImplementsSearch, S!Spec

-----------------------------------------------------------------------------
(* The accounting.  A candidate is outstanding until it is counted: queued,  *)
(* taken but not tried, or not asked for and below a path that is held.      *)
GoalsBelow(p) == {g \in Goals(Tree) : IsPrefix(p, g)}
BelowAny(D) == {g \in Goals(Tree) : \E p \in D : IsPrefix(p, g)}

Untried(g, st, tr) == st[g] = "queued" \/ (st[g] = "ready" /\ tr[g] = 0)
Unasked(H, g, st) == st[g] = "none" /\ \E x \in H : IsPrefix(x, g)
Out(H, st, tr) == {g \in Goals(Tree) : Untried(g, st, tr) \/ Unasked(H, g, st)}
Outstanding == Out(Held, status, tries)

\* What the tree of a run is made of.
LEMMA GoalFacts ==
  ASSUME Chosen
  PROVE  /\ IsPlan(Tree) /\ Goals(Tree) \subseteq Nodes(Tree)
         /\ \A p \in Nodes(Tree) : p \in Seq(AllValues(Tree))
         /\ \A g \in Goals(Tree) : Leaf(g)
         /\ \A p \in Nodes(Tree) : Leaf(p) <=> p \in Goals(Tree)
         /\ \A p \in Nodes(Tree), g \in Goals(Tree) : Leaf(p) /\ IsPrefix(p, g) => p = g
<1>1. IsPlan(Tree) /\ \A p \in Nodes(Tree) : Leaf(p) <=> IsLeaf(Tree, p)
  BY SpaceOfTree
<1>2. Goals(Tree) \subseteq Nodes(Tree)
  BY <1>1, AllPathsAreNodes
<1>3. \A p \in Nodes(Tree) : /\ p \in Seq(AllValues(Tree))
                             /\ IsLeaf(Tree, p) <=> p \in Goals(Tree)
  BY <1>1, NodesFacts
<1>4. \A g \in Goals(Tree) : Leaf(g)
  BY <1>1, <1>2, <1>3
<1>5. ASSUME NEW p \in Nodes(Tree), NEW g \in Goals(Tree), Leaf(p), IsPrefix(p, g) PROVE p = g
  <2>1. Len(p) = Len(g)
    BY <1>1, <1>2, <1>4, <1>5 DEF IsLeaf
  <2>2. p \in Seq(AllValues(Tree)) /\ g \in Seq(AllValues(Tree))
    BY <1>2, <1>3
  <2> QED
    BY <1>5, <2>1, <2>2, PrefixOrder
<1> QED
  BY <1>1, <1>2, <1>3, <1>4, <1>5

\* Held paths make way: the outstanding candidates below those that are dropped and
\* counted are the ones that go.
LEMMA OutShrinks ==
  ASSUME Chosen, NEW H, NEW st, NEW y, NEW tr, Spine(H, st, y), DOMAIN st = Nodes(Tree),
         NEW D, D \subseteq H, \A p \in D : ~Leaf(p) \/ st[p] = "none",
         NEW H2, H2 \subseteq Nodes(Tree), \A x \in H2 : \E z \in H \ D : IsPrefix(z, x)
  PROVE  Out(H2, st, tr) \subseteq Out(H, st, tr) \ BelowAny(D) /\ BelowAny(D) \subseteq Out(H, st, tr)
<1> DEFINE S1 == Seq(AllValues(Tree))
<1>1. /\ Goals(Tree) \subseteq Nodes(Tree) /\ \A p \in Nodes(Tree) : p \in S1
      /\ \A g \in Goals(Tree) : Leaf(g)
  BY GoalFacts
<1>2. /\ H \subseteq Nodes(Tree) /\ \A x, z \in H : IsPrefix(x, z) => x = z
      /\ \A x \in H, q \in Nodes(Tree) : IsPrefix(x, q) /\ q # x => st[q] = "none"
  BY DEF Spine
<1>3. ASSUME NEW g \in BelowAny(D) PROVE g \in Out(H, st, tr) /\ st[g] = "none"
  <2>1. PICK p \in D : IsPrefix(p, g)
    BY DEF BelowAny
  <2>2. g \in Goals(Tree) /\ g \in Nodes(Tree) /\ p \in H
    BY <1>1 DEF BelowAny
  <2>3. st[g] = "none"
    BY <1>1, <1>2, <2>1, <2>2
  <2> QED
    BY <2>1, <2>2, <2>3 DEF Out, Unasked
<1>4. ASSUME NEW g \in Out(H2, st, tr) PROVE g \in Out(H, st, tr) /\ g \notin BelowAny(D)
  <2>1. g \in Goals(Tree) /\ g \in Nodes(Tree) /\ g \in S1 /\ (Untried(g, st, tr) \/ Unasked(H2, g, st))
    BY <1>1 DEF Out
  <2>2. CASE Untried(g, st, tr)
    <3>1. st[g] # "none"
      BY <2>2 DEF Untried
    <3>2. g \notin BelowAny(D)
      BY <1>3, <3>1
    <3> QED
      BY <2>1, <2>2, <3>2 DEF Out
  <2>3. CASE Unasked(H2, g, st)
    <3>1. PICK x \in H2 : IsPrefix(x, g) /\ st[g] = "none"
      BY <2>3 DEF Unasked
    <3>2. PICK z \in H \ D : IsPrefix(z, x)
      OBVIOUS
    <3>3. x \in S1 /\ z \in S1
      BY <1>1, <1>2
    <3> HIDE DEF S1
    <3>4. IsPrefix(z, g)
      BY <2>1, <3>1, <3>2, <3>3, PrefixTransitive DEF S1
    <3>5. g \in Out(H, st, tr)
      BY <2>1, <3>1, <3>2, <3>4 DEF Out, Unasked
    <3>6. ASSUME NEW p \in D, IsPrefix(p, g) PROVE FALSE
      <4>1. p \in H /\ p \in S1
        BY <1>1, <1>2
      <4>2. IsPrefix(z, p) \/ IsPrefix(p, z)
        BY <2>1, <3>3, <3>4, <3>6, <4>1, PrefixesCompare DEF S1
      <4>3. z = p
        BY <1>2, <3>2, <4>1, <4>2
      <4> QED
        BY <3>2, <4>3
    <3> QED
      BY <3>5, <3>6 DEF BelowAny
  <2> QED
    BY <2>1, <2>2, <2>3
<1> QED
  BY <1>3, <1>4

\* The others stay, if nothing is forgotten.
LEMMA OutKept ==
  ASSUME Chosen, NEW H, NEW st, NEW y, NEW tr, Spine(H, st, y), DOMAIN st = Nodes(Tree),
         NEW D, NEW H2, NEW R2, NEW y2, Remembers(Goals(Tree), H2, R2, st, y2),
         \A x \in H \ D : x \in H2 \/ (Leaf(x) /\ st[x] # "none") \/ st[x] = "accepted"
  PROVE  Out(H, st, tr) \ BelowAny(D) \subseteq Out(H2, st, tr)
<1> DEFINE S1 == Seq(AllValues(Tree))
<1>1. /\ Goals(Tree) \subseteq Nodes(Tree) /\ \A p \in Nodes(Tree) : p \in S1
      /\ \A p \in Nodes(Tree), g \in Goals(Tree) : Leaf(p) /\ IsPrefix(p, g) => p = g
  BY GoalFacts
<1>2. /\ H \subseteq Nodes(Tree)
      /\ \A x \in H, q \in Nodes(Tree) : IsPrefix(x, q) /\ q # x => st[q] = "none"
      /\ \A x \in H, q \in Nodes(Tree) : IsPrefix(q, x) /\ q # x => st[q] \in {"none", "accepted"}
  BY DEF Spine
<1> SUFFICES ASSUME NEW g \in Out(H, st, tr), g \notin BelowAny(D) PROVE g \in Out(H2, st, tr)
  OBVIOUS
<1>3. g \in Goals(Tree) /\ g \in Nodes(Tree) /\ g \in S1 /\ (Untried(g, st, tr) \/ Unasked(H, g, st))
  BY <1>1 DEF Out
<1>4. CASE Untried(g, st, tr)
  BY <1>3, <1>4 DEF Out
<1>5. CASE Unasked(H, g, st)
  <2>1. PICK x \in H : IsPrefix(x, g) /\ st[g] = "none"
    BY <1>5 DEF Unasked
  <2>2. x \notin D /\ x \in Nodes(Tree) /\ x \in S1
    BY <1>1, <1>2, <1>3, <2>1 DEF BelowAny
  <2>3. CASE \E z \in H2 : IsPrefix(z, g)
    BY <1>3, <2>1, <2>3 DEF Out, Unasked
  <2>4. CASE SettledIn(st, g)
    <3>1. PICK m \in Nodes(Tree) : IsPrefix(m, g) /\ m # g /\ st[m] \in {"rejected", "error"}
      BY <2>1, <2>4 DEF SettledIn, Answers
    <3>2. m \in S1
      BY <1>1
    <3> HIDE DEF S1
    <3>3. IsPrefix(m, x) \/ IsPrefix(x, m)
      BY <1>3, <2>1, <2>2, <3>1, <3>2, PrefixesCompare DEF S1
    <3>4. m = x
      BY <1>2, <2>2, <3>1, <3>3
    <3>5. ~Leaf(x)
      BY <1>1, <1>3, <2>1, <2>2, <3>1, <3>4
    <3>6. x \in H2
      BY <2>2, <3>1, <3>4, <3>5
    <3> QED
      BY <1>3, <2>1, <3>6 DEF Out, Unasked
  <2> QED
    BY <1>3, <2>3, <2>4 DEF Remembers
<1> QED
  BY <1>3, <1>4, <1>5

\* What happens to one path concerns that candidate only.
LEMMA OutStatus ==
  ASSUME NEW H, NEW st, NEW tr, NEW p, NEW st2, NEW tr2,
         \A g \in Goals(Tree) : g # p => st2[g] = st[g] /\ tr2[g] = tr[g]
  PROVE  Out(H, st2, tr2) \ {p} = Out(H, st, tr) \ {p}
BY DEF Out, Untried, Unasked

\* Sets that differ in p at most.
LEMMA CountOne ==
  ASSUME NEW O, NEW P, NEW p, IsFiniteSet(O), P \ {p} = O \ {p}
  PROVE  /\ IsFiniteSet(P) /\ Cardinality(O) \in Nat /\ Cardinality(P) \in Nat
         /\ (p \in O <=> p \in P) => Cardinality(P) = Cardinality(O)
         /\ p \in O /\ p \notin P => Cardinality(P) = Cardinality(O) - 1
<1>1. Cardinality(O) \in Nat
  BY FS_CardinalityType
<1>2. (p \in O <=> p \in P) => P = O
  OBVIOUS
<1>3. p \in O /\ p \notin P => P = O \ {p}
  OBVIOUS
<1>4. p \notin O /\ p \in P => P = O \cup {p}
  OBVIOUS
<1>5. IsFiniteSet(O \ {p}) /\ (p \in O => Cardinality(O \ {p}) = Cardinality(O) - 1)
  BY FS_RemoveElement
<1>6. IsFiniteSet(O \cup {p})
  BY FS_AddElement
<1>7. IsFiniteSet(P)
  BY <1>2, <1>3, <1>4, <1>5, <1>6
<1>8. Cardinality(P) \in Nat
  BY <1>7, FS_CardinalityType
<1> QED
  BY <1>1, <1>2, <1>3, <1>5, <1>7, <1>8

-----------------------------------------------------------------------------
(* What is tried, skipped and outstanding together.                          *)
Accounts ==
  /\ tried + skipped + Cardinality(Outstanding) <= Cardinality(Goals(Tree))
  /\ ~cancelled /\ ~BFSPasses =>
       tried + skipped + Cardinality(Outstanding) = Cardinality(Goals(Tree))

\* All of it can be counted, and below a path lies what recordPruned counts.
LEMMA OutFinite ==
  ASSUME RunOK
  PROVE  /\ Cardinality(Goals(Tree)) \in Nat
         /\ \A H, st, tr : IsFiniteSet(Out(H, st, tr)) /\ Cardinality(Out(H, st, tr)) \in Nat
         /\ \A p \in Paths : /\ IsFiniteSet(GoalsBelow(p)) /\ Skips[template][p] \in Nat
                             /\ Cardinality(GoalsBelow(p)) = Skips[template][p]
<1>1. Chosen /\ IsPlan(Tree) /\ Paths = Nodes(Tree)
  BY Context
<1>2. IsFiniteSet(Goals(Tree)) /\ Cardinality(Goals(Tree)) \in Nat
  BY <1>1, GoalsCount, FS_CardinalityType
<1>3. ASSUME NEW H, NEW st, NEW tr
      PROVE  IsFiniteSet(Out(H, st, tr)) /\ Cardinality(Out(H, st, tr)) \in Nat
  <2>1. Out(H, st, tr) \in SUBSET Goals(Tree)
    BY DEF Out
  <2>2. IsFiniteSet(Out(H, st, tr))
    BY <1>2, <2>1, FS_Subset
  <2> QED
    BY <2>2, FS_CardinalityType
<1>4. ASSUME NEW p \in Paths
      PROVE  /\ IsFiniteSet(GoalsBelow(p)) /\ Skips[template][p] \in Nat
             /\ Cardinality(GoalsBelow(p)) = Skips[template][p]
  <2>1. Skips[template][p] = Pruned(Tree, p)
    BY <1>1, SpaceOfTree DEF Skips, Chosen, Tree
  <2>2. IsFiniteSet(GoalsBelow(p)) /\ Cardinality(GoalsBelow(p)) = Pruned(Tree, p)
    BY <1>1, PrunedCounts DEF GoalsBelow
  <2>3. Cardinality(GoalsBelow(p)) \in Nat
    BY <2>2, FS_CardinalityType
  <2> QED
    BY <2>1, <2>2, <2>3
<1> QED
  BY <1>2, <1>3, <1>4

\* The candidates of a run stay.
LEMMA OutNext ==
  ASSUME UNCHANGED <<strategy, template>>
  PROVE  /\ Outstanding' = Out(Held', status', tries')
         /\ Goals(Tree)' = Goals(Tree) /\ BFSPasses' = BFSPasses
BY DEF Outstanding, Out, Untried, Unasked, Tree, BFSPasses

\* The sum is kept, or falls short of what it was.
LEMMA AccountsStep ==
  ASSUME RunOK, RunOK', Accounts, UNCHANGED <<strategy, template>>, ~cancelled' => ~cancelled,
         tried' + skipped' + Cardinality(Outstanding')
           <= tried + skipped + Cardinality(Outstanding),
         ~cancelled' /\ ~BFSPasses => tried' + skipped' + Cardinality(Outstanding')
                                        = tried + skipped + Cardinality(Outstanding)
  PROVE  Accounts'
<1>1. Goals(Tree)' = Goals(Tree) /\ BFSPasses' = BFSPasses
  BY OutNext
<1>2. Cardinality(Outstanding) \in Nat /\ Cardinality(Goals(Tree)) \in Nat
  BY OutFinite DEF Outstanding
<1>3. Cardinality(Outstanding') \in Nat
  <2>1. Outstanding' = Out(Held', status', tries')
    BY OutNext
  <2> QED
    BY <2>1, OutFinite
<1>4. tried \in Nat /\ skipped \in Nat /\ tried' \in Nat /\ skipped' \in Nat
  BY DEF RunOK
<1>5. PICK c : c = Cardinality(Outstanding)
  OBVIOUS
<1>6. PICK d : d = Cardinality(Outstanding')
  OBVIOUS
<1>7. PICK n : n = Cardinality(Goals(Tree))
  OBVIOUS
<1>8. /\ tried + skipped + c <= n
      /\ ~cancelled /\ ~BFSPasses => tried + skipped + c = n
  BY <1>5, <1>7 DEF Accounts
<1>9. tried' + skipped' + d <= n
  BY <1>2, <1>3, <1>4, <1>5, <1>6, <1>7, <1>8
<1>10. ~cancelled' /\ ~BFSPasses => tried' + skipped' + d = n
  BY <1>5, <1>6, <1>8
<1>11. tried' + skipped' + Cardinality(Outstanding') <= Cardinality(Goals(Tree)')
  BY <1>1, <1>6, <1>7, <1>9
<1>12. ~cancelled' /\ ~BFSPasses' => tried' + skipped' + Cardinality(Outstanding') = Cardinality(Goals(Tree)')
  BY <1>1, <1>6, <1>7, <1>10
<1> QED
  BY <1>11, <1>12 DEF Accounts

\* What a move does to the outstanding candidates.
LEMMA OutMoves ==
  ASSUME IInv, IInv', UNCHANGED <<strategy, template, status, tries, cancelled>>,
         NEW D, Moves(D), \A p \in D : ~Leaf(p) \/ status[p] = "none"
  PROVE  /\ Outstanding' \subseteq Outstanding \ BelowAny(D) /\ BelowAny(D) \subseteq Outstanding
         /\ ~cancelled => Outstanding' = Outstanding \ BelowAny(D)
<1>1. RunOK /\ SpineOK /\ SpineOK' /\ NothingForgotten'
  BY DEF IInv
<1>2. Chosen /\ Paths = Nodes(Tree) /\ Tree' = Tree /\ Paths' = Paths
  BY <1>1, Context DEF Tree, Paths
<1> DEFINE H == Held  H2 == Held'  st == status  y == yielded  tr == tries  R2 == Undelivered'
           y2 == yielded'
<1>3. Spine(H, st, y) /\ DOMAIN st = Nodes(Tree) /\ H2 \subseteq Nodes(Tree)
  BY <1>1, <1>2 DEF SpineOK, Spine, Paths
<1>4. D \subseteq H /\ (\A x \in H2 : \E z \in H \ D : IsPrefix(z, x))
      /\ \A p \in D : ~Leaf(p) \/ st[p] = "none"
  BY DEF Moves
<1>5. Outstanding' = Out(H2, st, tr) /\ Outstanding = Out(H, st, tr)
  BY OutNext DEF Outstanding
<1>6. ASSUME ~cancelled
      PROVE  /\ Remembers(Goals(Tree), H2, R2, st, y2)
             /\ \A x \in H \ D : x \in H2 \/ (Leaf(x) /\ st[x] # "none") \/ st[x] = "accepted"
  BY <1>1, <1>2, <1>6 DEF NothingForgotten, Moves
<1> HIDE DEF H, H2, st, y, tr, R2, y2
<1>7. Out(H2, st, tr) \subseteq Out(H, st, tr) \ BelowAny(D) /\ BelowAny(D) \subseteq Out(H, st, tr)
  BY <1>2, <1>3, <1>4, OutShrinks
<1>8. ASSUME ~cancelled PROVE Out(H, st, tr) \ BelowAny(D) \subseteq Out(H2, st, tr)
  BY <1>2, <1>3, <1>6, <1>8, OutKept
<1> QED
  BY <1>5, <1>7, <1>8

\* Held paths move, and nothing is counted.
LEMMA AccountsMove ==
  ASSUME IInv, IInv', Accounts, UNCHANGED <<strategy, template, status, tries, cancelled, tried, skipped>>,
         Moves({})
  PROVE  Accounts'
<1>1. RunOK /\ RunOK'
  BY DEF IInv
<1>2. Outstanding' \subseteq Outstanding /\ (~cancelled => Outstanding' = Outstanding)
  <2>1. BelowAny({}) = {}
    BY DEF BelowAny
  <2> DEFINE D == {}
  <2>2. Moves(D) /\ \A p \in D : ~Leaf(p) \/ status[p] = "none"
    OBVIOUS
  <2> HIDE DEF D
  <2>3. /\ Outstanding' \subseteq Outstanding \ BelowAny(D)
        /\ ~cancelled => Outstanding' = Outstanding \ BelowAny(D)
    BY <2>2, OutMoves
  <2> QED
    BY <2>1, <2>3 DEF D
<1>3. IsFiniteSet(Outstanding) /\ Cardinality(Outstanding) \in Nat
  BY <1>1, OutFinite DEF Outstanding
<1>4. Cardinality(Outstanding') \in Nat /\ Cardinality(Outstanding') <= Cardinality(Outstanding)
  BY <1>2, <1>3, FS_Subset, FS_CardinalityType
<1>5. tried \in Nat /\ skipped \in Nat
  BY <1>1 DEF RunOK
<1>6. tried' + skipped' + Cardinality(Outstanding') <= tried + skipped + Cardinality(Outstanding)
  BY <1>3, <1>4, <1>5
<1>7. ~cancelled => tried' + skipped' + Cardinality(Outstanding') = tried + skipped + Cardinality(Outstanding)
  BY <1>2
<1> QED
  BY <1>1, <1>6, <1>7, AccountsStep

\* A held path is dropped, and counted with what is below it.
LEMMA AccountsPrune ==
  ASSUME IInv, IInv', Accounts, UNCHANGED <<strategy, template, status, tries, cancelled, tried>>,
         NEW p \in Held, Moves({p}), ~Leaf(p) \/ status[p] = "none",
         skipped' <= skipped + Skips[template][p],
         ~cancelled /\ ~BFSPasses => skipped' = skipped + Skips[template][p]
  PROVE  Accounts'
<1>1. RunOK /\ RunOK' /\ p \in Paths
  BY DEF IInv, SpineOK, Spine, Paths
<1> DEFINE B == GoalsBelow(p)
<1>2. /\ Outstanding' \subseteq Outstanding \ B /\ B \subseteq Outstanding
      /\ ~cancelled => Outstanding' = Outstanding \ B
  <2> DEFINE D == {p}
  <2>1. BelowAny(D) = B
    BY DEF BelowAny, GoalsBelow
  <2>2. Moves(D) /\ \A q \in D : ~Leaf(q) \/ status[q] = "none"
    OBVIOUS
  <2> HIDE DEF D, B
  <2>3. /\ Outstanding' \subseteq Outstanding \ BelowAny(D) /\ BelowAny(D) \subseteq Outstanding
        /\ ~cancelled => Outstanding' = Outstanding \ BelowAny(D)
    BY <2>2, OutMoves
  <2> QED
    BY <2>1, <2>3
<1>3. /\ IsFiniteSet(Outstanding) /\ Cardinality(Outstanding) \in Nat
      /\ Cardinality(B) = Skips[template][p] /\ Skips[template][p] \in Nat
  BY <1>1, OutFinite DEF Outstanding
<1> HIDE DEF B
<1>4. /\ IsFiniteSet(Outstanding \ B)
      /\ Cardinality(Outstanding \ B) = Cardinality(Outstanding) - Cardinality(B)
  <2> DEFINE O == Outstanding
  <2>1. O \cap B = B /\ IsFiniteSet(O)
    BY <1>2, <1>3
  <2> HIDE DEF O
  <2>2. IsFiniteSet(O \ B) /\ Cardinality(O \ B) = Cardinality(O) - Cardinality(O \cap B)
    BY <2>1, FS_Difference
  <2> QED
    BY <2>1, <2>2 DEF O
<1>5. Cardinality(Outstanding') \in Nat /\ Cardinality(Outstanding') <= Cardinality(Outstanding \ B)
  BY <1>2, <1>4, FS_Subset, FS_CardinalityType
<1>6. tried \in Nat /\ skipped \in Nat /\ skipped' \in Nat
  BY <1>1 DEF RunOK
<1>7. PICK c : c = Cardinality(Outstanding)
  OBVIOUS
<1>8. PICK d : d = Cardinality(Outstanding')
  OBVIOUS
<1>9. PICK k : k = Skips[template][p]
  OBVIOUS
<1>10. /\ d <= c - k /\ skipped' <= skipped + k /\ c \in Nat /\ d \in Nat /\ k \in Nat
       /\ ~cancelled /\ ~BFSPasses => d = c - k /\ skipped' = skipped + k
  BY <1>2, <1>3, <1>4, <1>5, <1>7, <1>8, <1>9
<1>11. tried' + skipped' + d <= tried + skipped + c
  BY <1>6, <1>10
<1>12. ~cancelled /\ ~BFSPasses => tried' + skipped' + d = tried + skipped + c
  BY <1>6, <1>10
<1> QED
  BY <1>1, <1>7, <1>8, <1>11, <1>12, AccountsStep

\* One path is asked for, tried or answered.
LEMMA AccountsStatus ==
  ASSUME IInv, IInv', Accounts, UNCHANGED <<strategy, template, cancelled>>, Held' = Held,
         NEW p \in Paths, NEW a, status' = [status EXCEPT ![p] = a],
         \A q \in Paths : q # p => tries'[q] = tries[q],
         \/ (p \in Outstanding <=> p \in Outstanding') /\ tried' + skipped' = tried + skipped
         \/ /\ p \in Outstanding /\ p \notin Outstanding'
            /\ tried' + skipped' = tried + skipped + 1 \/ (cancelled /\ tried' + skipped' = tried + skipped)
  PROVE  Accounts'
<1>1. RunOK /\ RunOK'
  BY DEF IInv
<1>2. Goals(Tree) \subseteq Paths /\ Paths = DOMAIN status
  BY <1>1, Context DEF Paths
<1> DEFINE O == Outstanding  O2 == Outstanding'
<1>3. O2 \ {p} = O \ {p}
  <2> DEFINE H == Held  st == status  st2 == status'  tr == tries  tr2 == tries'
  <2>1. \A g \in Goals(Tree) : g # p => st2[g] = st[g] /\ tr2[g] = tr[g]
    BY <1>2
  <2>2. O = Out(H, st, tr) /\ O2 = Out(H, st2, tr2)
    BY OutNext DEF Outstanding
  <2> HIDE DEF H, st, st2, tr, tr2, O, O2
  <2>3. Out(H, st2, tr2) \ {p} = Out(H, st, tr) \ {p}
    BY <2>1 DEF Out, Untried, Unasked
  <2> QED
    BY <2>2, <2>3
<1>4. IsFiniteSet(O)
  BY <1>1, OutFinite DEF Outstanding
<1>5. (p \in O <=> p \in O2) \/ (p \in O /\ p \notin O2)
  OBVIOUS
<1> HIDE DEF O, O2
<1>6. /\ Cardinality(O) \in Nat /\ Cardinality(O2) \in Nat
      /\ (p \in O <=> p \in O2) => Cardinality(O2) = Cardinality(O)
      /\ p \in O /\ p \notin O2 => Cardinality(O2) = Cardinality(O) - 1
  BY <1>3, <1>4, CountOne
<1>7. PICK c : c = Cardinality(O)
  OBVIOUS
<1>8. PICK d : d = Cardinality(O2)
  OBVIOUS
<1>9. PICK s : s = tried + skipped
  OBVIOUS
<1>10. PICK t : t = tried' + skipped'
  OBVIOUS
<1>11. \/ d = c /\ t = s
       \/ d = c - 1 /\ t = s + 1
       \/ d = c - 1 /\ cancelled /\ t = s
  BY <1>6, <1>7, <1>8, <1>9, <1>10 DEF O, O2
<1>12. c \in Nat /\ d \in Nat /\ s \in Nat /\ t \in Nat
  BY <1>1, <1>6, <1>7, <1>8, <1>9, <1>10 DEF RunOK
<1>13. t + d <= s + c /\ (~cancelled => t + d = s + c)
  BY <1>11, <1>12
<1>14. tried' + skipped' + Cardinality(O2) <= tried + skipped + Cardinality(O)
  BY <1>7, <1>8, <1>9, <1>10, <1>13
<1>15. ~cancelled => tried' + skipped' + Cardinality(O2) = tried + skipped + Cardinality(O)
  BY <1>7, <1>8, <1>9, <1>10, <1>13
<1> QED
  BY <1>1, <1>14, <1>15, AccountsStep DEF O, O2

-----------------------------------------------------------------------------
(* What the accounting rests on besides: a request that was sent was         *)
(* counted; only an answer is delivered; without extensions BFS makes one    *)
(* pass over a level; and an uncancelled run returns with nothing held.      *)
SentCounted == \A p \in Paths : status[p] = "sent" => tries[p] > 0
AnswersOnly == \A p \in Paths : ~Answered(p) => yielded[p] = 0
OnePass == strategy = "bfs" /\ Space[template].count = 1 =>
             \A k \in DOMAIN stack : stack[k].later = <<>>
AllTaken == Outside /\ ~cancelled => Held = {}

Asks(p) == status[p] = "none" /\ Enqueue(p)
PathsOnly == UNCHANGED <<strategy, template, cancelled, status, tries, tried>>

\* A step is a cancellation, a worker's, asks for a path, or leaves the requests alone.
LEMMA StepKinds ==
  ASSUME IInv, Quiet, [Next]_vars
  PROVE  \/ Cancel \/ Receive \/ \E p \in Paths : Work(p)
         \/ /\ \E p \in Paths : p \in Held /\ Asks(p)
            /\ UNCHANGED <<strategy, template, cancelled, tried, skipped, yielded>> /\ Held' = Held
         \/ PathsOnly
<1>1. RunOK /\ Held \subseteq Paths
  BY DEF IInv, SpineOK, Spine, Paths
<1>2. Undelivered \subseteq Paths
  BY <1>1 DEF Undelivered
<1>3. CASE \E k \in DOMAIN stack : Submitter(k)
  <2> PICK k \in DOMAIN stack : Submitter(k)
    BY <1>3
  <2>1. UNCHANGED <<strategy, template, cancelled, tried, skipped, yielded>>
    BY DEF Submitter, StopSubmitting, ContinueSubmitting, Submit, SubmitCancelled, Publish,
           PublishCancelled, SubmitterOnly, asked
  <2>2. CASE Submit(k)
    <3>1. \E p \in Paths : p \in Held /\ Asks(p)
      BY <1>2, <2>2, SubmitAsks DEF Asks, Undelivered
    <3>2. Held' = Held
      BY SubmitterKeeps
    <3> QED
      BY <2>1, <3>1, <3>2
  <2>3. CASE ~Submit(k)
    <3>1. UNCHANGED <<status, tries>>
      BY <2>3 DEF Submitter, StopSubmitting, ContinueSubmitting, SubmitCancelled, Publish,
             PublishCancelled, pool
    <3> QED
      BY <2>1, <3>1 DEF PathsOnly
  <2> QED
    BY <2>2, <2>3
<1>4. CASE \E p \in DOMAIN burst : Burst(p)
  <2> PICK p \in DOMAIN burst : Burst(p)
    BY <1>4
  <2>1. UNCHANGED <<strategy, template, cancelled, tried, skipped>>
    BY DEF Burst, BurstSubmit, BurstCancelled, BurstReply, BurstOnly, asked
  <2>2. CASE BurstSubmit(p)
    <3>1. p \in Paths /\ p \in Held /\ status[p] = "none" /\ Held' = Held
      BY <2>2, VisitFacts, BurstSubmitKeeps DEF BurstSubmit
    <3>2. Enqueue(p) /\ UNCHANGED yielded
      BY <2>2 DEF BurstSubmit
    <3> QED
      BY <2>1, <3>1, <3>2 DEF Asks
  <2>3. CASE ~BurstSubmit(p)
    <3>1. UNCHANGED <<status, tries>>
      BY <2>3 DEF Burst, BurstCancelled, BurstReply, pool
    <3> QED
      BY <2>1, <3>1 DEF PathsOnly
  <2> QED
    BY <2>2, <2>3
<1>5. CASE Dispatch
  <2>1. UNCHANGED <<strategy, template, cancelled, tried, skipped, yielded>>
    BY <1>5 DEF Dispatch, asked
  <2> QED
    BY <1>1, <1>5, <2>1, DispatchKeeps DEF Asks
<1>6. CASE Main /\ ~Dispatch
  <2>1. MainOnly \/ Close
    BY <1>6 DEF Main, TakePending, ConsumeEager, QuitEager, LeaveEager, Consume, ConsumeAdaptive,
           NextBatch, BurstJoined, PriorityQuit, StartDispatch, DispatchCancelled, TakeCompleted, Return
  <2> QED
    BY <2>1 DEF PathsOnly, MainOnly, Close, asked, pool
<1>7. CASE \E p \in waiting : Complete(p) \/ Abandon(p)
  BY <1>7 DEF Complete, Abandon, PathsOnly, MainOnly, asked, pool
<1>8. CASE Stay \/ UNCHANGED vars
  BY <1>8 DEF Stay, PathsOnly, vars
<1> QED
  BY <1>3, <1>4, <1>5, <1>6, <1>7, <1>8 DEF Next

\* What becomes of the request of one path in a step.
Turn(p, a) == /\ status' = [status EXCEPT ![p] = a]
              /\ \A q \in Paths : q # p => tries'[q] = tries[q]
Turns(p) ==
  \/ status[p] = "none" /\ Turn(p, "queued") /\ tries'[p] = tries[p]
  \/ status[p] = "queued" /\ ~cancelled /\ Turn(p, "ready") /\ tries'[p] = 0
  \/ status[p] = "queued" /\ cancelled /\ Turn(p, "error")
  \/ status[p] = "ready" /\ Turn(p, "sent") /\ tries'[p] = tries[p] + 1
  \/ status[p] = "ready" /\ tries[p] = 0 /\ Turn(p, "error")
  \/ status[p] = "sent" /\ Turn(p, "ready") /\ tries'[p] = tries[p]
  \/ status[p] = "sent" /\ \E a \in Answers : Turn(p, a)

\* A worker turns one request, and so does who asks for a path.
LEMMA WorkTurns ==
  ASSUME IInv, NEW p \in Paths, Work(p) \/ Asks(p)
  PROVE  Turns(p)
<1>1. DOMAIN tries = Paths /\ tries \in [Paths -> 0 .. MaxRetries]
  BY DEF IInv, PoolOK
<1>2. CASE Asks(p)
  BY <1>2 DEF Asks, Enqueue, Turns, Turn
<1>3. CASE SendRequest(p)
  <2>1. Turn(p, "sent") /\ tries'[p] = tries[p] + 1
    BY <1>1, <1>3 DEF SendRequest, Turn
  <2> QED
    BY <1>3, <2>1 DEF SendRequest, Turns
<1>4. CASE Malformed(p) \/ GiveUp(p)
  <2>1. Turn(p, "error")
    BY <1>1, <1>4 DEF Malformed, GiveUp, Reply, Turn
  <2> QED
    BY <1>4, <2>1 DEF Malformed, GiveUp, Turns
<1>5. CASE Respond(p)
  <2>1. PICK a \in Answers : Reply(p, a)
    BY <1>5 DEF Respond
  <2>2. Turn(p, a)
    BY <1>1, <2>1 DEF Reply, Turn
  <2> QED
    BY <1>5, <2>2 DEF Respond, Turns
<1>6. CASE Fail(p)
  <2>1. PICK a \in {"ready", "error"} : Reply(p, a)
    BY <1>6 DEF Fail
  <2>2. Turn(p, a)
    BY <1>1, <2>1 DEF Reply, Turn
  <2>3. a = "ready" => tries'[p] = tries[p]
    BY <1>1, <2>1 DEF Reply, Answers
  <2>4. status[p] = "sent" /\ "error" \in Answers
    BY <1>6 DEF Fail, Answers
  <2> QED
    BY <2>1, <2>2, <2>3, <2>4 DEF Turns
<1> QED
  BY <1>2, <1>3, <1>4, <1>5, <1>6 DEF Work

\* The worker that takes a path turns its request.
LEMMA ReceiveTurns ==
  ASSUME IInv, Receive
  PROVE  \E p \in Paths : status[p] = "queued" /\ Turns(p)
<1>1. jobs \in Seq(Paths) /\ jobs # <<>> /\ IsInjective(jobs)
  BY DEF Receive, IInv, PoolOK
<1>2. PICK p : p = Head(jobs)
  OBVIOUS
<1>3. p \in Paths /\ p \in ToSet(jobs)
  BY <1>1, <1>2, HeadTailOnce
<1>4. status[p] = "queued" /\ DOMAIN tries = Paths
  BY <1>3 DEF IInv, PoolOK
<1>5. tries[p] = 0
  BY <1>3, <1>4 DEF IInv, PoolOK
<1>6. PICK a : a = (IF cancelled THEN "error" ELSE "ready") /\ Reply(p, a)
  BY <1>2 DEF Receive
<1>7. Turn(p, a)
  BY <1>3, <1>4, <1>6 DEF Turn, Reply
<1>8. ~cancelled => a = "ready" /\ tries'[p] = 0
  BY <1>3, <1>4, <1>5, <1>6 DEF Reply
<1> QED
  BY <1>3, <1>4, <1>6, <1>7, <1>8 DEF Turns

\* What was answered stays answered, and what is sent is counted.
LEMMA TurnsKeep ==
  ASSUME IInv, SentCounted, (\E p \in Paths : Turns(p)) \/ UNCHANGED <<status, tries>>
  PROVE  SentCounted' /\ Paths' = Paths /\ \A q \in Paths : Answered(q) => Answered(q)'
<1>1. Paths = DOMAIN status /\ tries \in [Paths -> 0 .. MaxRetries] /\ MaxRetries \in Nat
  BY FuzzAssumption DEF IInv, PoolOK, Paths
<1>2. CASE UNCHANGED <<status, tries>>
  BY <1>2 DEF SentCounted, Paths, Answered
<1>3. CASE \E p \in Paths : Turns(p)
  <2> PICK p \in Paths : Turns(p)
    BY <1>3
  <2>1. PICK a : Turn(p, a)
    BY DEF Turns
  <2>2. Paths' = Paths /\ \A q \in Paths : status'[q] = IF q = p THEN a ELSE status[q]
    BY <1>1, <2>1 DEF Turn, Paths
  <2>3. a = "sent" => tries'[p] > 0
    <3> SUFFICES ASSUME a = "sent" PROVE tries'[p] > 0
      OBVIOUS
    <3>1. status'[p] = "sent"
      BY <2>2
    <3>2. tries'[p] = tries[p] + 1
      BY <1>1, <3>1 DEF Turns, Turn, Answers, Paths
    <3> QED
      BY <1>1, <3>2
  <2>4. \A q \in Paths : q # p => tries'[q] = tries[q]
    BY <2>1 DEF Turn
  <2>5. SentCounted'
    BY <2>2, <2>3, <2>4 DEF SentCounted
  <2>6. ~Answered(p)
    BY DEF Turns, Answered, Answers
  <2> QED
    BY <2>2, <2>5, <2>6 DEF Answered
<1> QED
  BY <1>2, <1>3

\* A delivery is that of an answer.
LEMMA Yields ==
  ASSUME IInv, Quiet, [Next]_vars
  PROVE  \/ UNCHANGED yielded
         \/ \E p \in Paths : Answered(p) /\ \A q \in Paths : q # p => yielded'[q] = yielded[q]
<1>1. DOMAIN yielded = Paths
  BY DEF IInv, RunOK
<1>2. CASE ConsumeEager \/ Consume \/ ConsumeAdaptive
  <2>1. Waits /\ Answered(cur)
    BY <1>2 DEF ConsumeEager, Consume, ConsumeAdaptive, Waits
  <2>2. \A q \in Paths : q # cur => yielded'[q] = yielded[q]
    BY <1>1, <1>2 DEF ConsumeEager, Consume, ConsumeAdaptive, Deliver
  <2> QED
    BY <2>1, <2>2, CurFacts
<1>3. CASE TakeCompleted
  <2>1. completed \in Seq(Paths) /\ completed # <<>> /\ IsInjective(completed)
    BY <1>3 DEF TakeCompleted, IInv, TasksOK
  <2>2. PICK p : p = Head(completed)
    OBVIOUS
  <2>3. p \in Paths /\ p \in ToSet(completed)
    BY <2>1, <2>2, HeadTailOnce
  <2>4. Answered(p)
    BY <2>3 DEF IInv, TasksOK
  <2>5. Deliver(p)
    BY <1>3, <2>2 DEF TakeCompleted
  <2>6. \A q \in Paths : q # p => yielded'[q] = yielded[q]
    BY <1>1, <2>5 DEF Deliver
  <2> QED
    BY <2>3, <2>4, <2>6
<1>4. CASE \E p \in DOMAIN burst : Burst(p)
  <2> PICK p \in DOMAIN burst : Burst(p)
    BY <1>4
  <2>1. CASE BurstReply(p)
    <3>1. p \in Paths
      BY VisitFacts
    <3>2. Answered(p) /\ \A q \in Paths : q # p => yielded'[q] = yielded[q]
      BY <1>1, <2>1 DEF BurstReply
    <3> QED
      BY <3>1, <3>2
  <2> QED
    BY <2>1 DEF Burst, BurstSubmit, BurstCancelled
<1>5. CASE Main /\ ~ConsumeEager /\ ~Consume /\ ~ConsumeAdaptive /\ ~TakeCompleted
  BY <1>5 DEF Main, TakePending, QuitEager, LeaveEager, NextBatch, BurstJoined, PriorityQuit,
         StartDispatch, Dispatch, DispatchCancelled, Return, Close
<1>6. CASE Cancel \/ Receive \/ \E p \in Paths : Work(p)
  BY <1>6 DEF Cancel, Receive, Work, Malformed, GiveUp, SendRequest, Respond, Fail
<1>7. CASE \E k \in DOMAIN stack : Submitter(k)
  BY <1>7 DEF Submitter, StopSubmitting, ContinueSubmitting, Submit, SubmitCancelled, Publish,
         PublishCancelled, SubmitterOnly
<1>8. CASE \E p \in waiting : Complete(p) \/ Abandon(p)
  BY <1>8 DEF Complete, Abandon
<1>9. CASE Stay \/ UNCHANGED vars
  BY <1>9 DEF Stay, vars
<1> QED
  BY <1>2, <1>3, <1>4, <1>5, <1>6, <1>7, <1>8, <1>9 DEF Next

\* What is sent stays counted, and only answers are delivered.
LEMMA AnswersKept ==
  ASSUME IInv, Quiet, SentCounted, AnswersOnly, [Next]_vars
  PROVE  SentCounted' /\ AnswersOnly'
<1>1. (\E p \in Paths : Turns(p)) \/ UNCHANGED <<status, tries>>
  <2>1. Cancel => UNCHANGED <<status, tries>>
    BY DEF Cancel, pool
  <2>2. PathsOnly => UNCHANGED <<status, tries>>
    BY DEF PathsOnly
  <2> QED
    BY <2>1, <2>2, StepKinds, WorkTurns, ReceiveTurns
<1>2. SentCounted' /\ Paths' = Paths /\ \A q \in Paths : Answered(q) => Answered(q)'
  BY <1>1, TurnsKeep
<1>3. AnswersOnly'
  <2> SUFFICES ASSUME NEW q \in Paths, ~Answered(q)' PROVE yielded'[q] = 0
    BY <1>2 DEF AnswersOnly
  <2>1. ~Answered(q) /\ yielded[q] = 0
    BY <1>2 DEF AnswersOnly
  <2> QED
    BY <2>1, Yields
<1> QED
  BY <1>2, <1>3

\* Without extensions a level is one batch.
LEMMA OneLevelBatch ==
  ASSUME Space[template].count = 1, NEW q, NEW d
  PROVE  Tail(LevelBatches(q, d)) = <<>>
<1> PICK bs : bs = LevelBatches(q, d)
  OBVIOUS
<1>1. bs = [e \in 1 .. 1 |-> bs[e]]
  <2>1. PICK X : X = [e \in 1 .. 1 |-> Extend(q, Level(Space[template].levels[d].words, e))]
    OBVIOUS
  <2>2. bs = X
    BY <2>1 DEF LevelBatches
  <2> QED
    BY <2>1, <2>2
<1>2. PICK x : x = bs[1]
  OBVIOUS
<1>3. bs \in [1 .. 1 -> {x}] /\ DOMAIN bs = 1 .. 1
  BY <1>1, <1>2
<1>4. bs \in Seq({x}) /\ 1 \in Nat
  BY <1>3, SeqDef
<1>5. Len(bs) = 1 /\ bs # <<>>
  <2>1. Len(bs) \in Nat /\ DOMAIN bs = 1 .. Len(bs)
    BY <1>4, LenProperties
  <2>2. 1 \in 1 .. Len(bs) /\ Len(bs) \notin 2 .. Len(bs)
    BY <1>3, <2>1
  <2>3. Len(bs) = 1
    BY <2>1, <2>2
  <2> QED
    BY <2>3, EmptySeq
<1>6. Tail(bs) \in Seq({x}) /\ Len(Tail(bs)) = 0
  BY <1>4, <1>5, HeadTailProperties
<1> QED
  BY <1>6, EmptySeq

\* BFS makes one pass.
LEMMA OnePassKept ==
  ASSUME IInv, Quiet, OnePass, [Next]_vars
  PROVE  OnePass'
<1>1. UNCHANGED <<strategy, template>>
  <2>1. CASE Cancel \/ Receive \/ \E p \in Paths : Work(p)
    BY <2>1 DEF Cancel, Receive, Work, Malformed, GiveUp, SendRequest, Respond, Fail, asked
  <2> QED
    BY <2>1, StepKinds DEF PathsOnly
<1> SUFFICES ASSUME strategy = "bfs", Space[template].count = 1
             PROVE  \A k \in DOMAIN stack' : stack'[k].later = <<>>
  BY <1>1 DEF OnePass
<1>2. /\ \A k \in DOMAIN stack : stack[k].later = <<>>
      /\ Len(stack) <= 1 /\ stack \in Seq(Frames(DOMAIN status))
  BY DEF OnePass, IInv, Where, FramesOK, StackOK
<1>3. CASE \E k \in DOMAIN stack : Submitter(k)
  <2> PICK k \in DOMAIN stack : Submitter(k)
    BY <1>3
  <2>1. PICK g : stack' = [stack EXCEPT ![k] = g] /\ g.later = stack[k].later
    BY DEF Submitter, StopSubmitting, ContinueSubmitting, Submit, SubmitCancelled, Publish,
           PublishCancelled, FrameTo, At, Frame
  <2> QED
    BY <1>2, <2>1
<1>4. CASE TakePending
  <2> PICK f, g : f = Top /\ g = Frame(f.todo, f.pc, f.hand, Tail(f.pend), f.later)
    OBVIOUS
  <2>1. stack' = [stack EXCEPT ![Inner] = g] /\ g.later = f.later
    <3>1. stack' = [stack EXCEPT ![Inner] = PopPending]
      BY <1>4 DEF TakePending, FrameTo
    <3>2. PopPending = g
      BY DEF PopPending
    <3>3. g.later = f.later
      BY DEF Frame
    <3> QED
      BY <3>1, <3>2, <3>3
  <2>2. stack # <<>> /\ FramesOK
    BY <1>4 DEF TakePending, IInv
  <2>3. Inner \in DOMAIN stack /\ Top = stack[Inner]
    BY <2>2, TopFacts
  <2> QED
    BY <1>2, <2>1, <2>3
<1>5. CASE NextBatch
  <2>1. stack # <<>> /\ FramesOK
    BY <1>5 DEF NextBatch, IInv
  <2>2. Inner \in DOMAIN stack /\ Top = stack[Inner]
    BY <2>1, TopFacts
  <2>3. Top.later = <<>>
    BY <1>2, <2>2
  <2>4. CASE stack' = Front(stack)
    <3>1. PICK s, F : s = stack /\ F = Frames(DOMAIN status)
      OBVIOUS
    <3>2. s \in Seq(F) /\ s # <<>> /\ Len(s) <= 1
      BY <1>2, <2>1, <3>1
    <3>4. Len(s) = 1
      <4>1. Len(s) \in Nat \ {0}
        BY <3>2, EmptySeq
      <4> PICK n : n = Len(s)
        OBVIOUS
      <4>2. n \in Nat \ {0} /\ n <= 1
        BY <3>2, <4>1
      <4>3. n = 1
        BY <4>2
      <4> QED
        BY <4>3
    <3>3. Front(s) = <<>>
      BY <3>2, <3>4 DEF Front
    <3> QED
      BY <2>4, <3>1, <3>3
  <2>5. CASE \E bs : bs = LevelBatches(next, Len(Head(next)) + 1) /\ stack' = <<Evaluate(Head(bs), Tail(bs))>>
    <3> PICK bs : bs = LevelBatches(next, Len(Head(next)) + 1) /\ stack' = <<Evaluate(Head(bs), Tail(bs))>>
      BY <2>5
    <3>1. Tail(bs) = <<>>
      BY OneLevelBatch
    <3>2. PICK g : g = Evaluate(Head(bs), Tail(bs))
      OBVIOUS
    <3>3. g.later = <<>>
      BY <3>1, <3>2 DEF Evaluate, Frame
    <3>4. stack' = <<g>>
      BY <3>2
    <3> QED
      BY <3>3, <3>4
  <2> QED
    BY <1>5, <2>3, <2>4, <2>5 DEF NextBatch
<1>6. CASE LeaveEager
  BY <1>6 DEF LeaveEager
<1>7. CASE \E p \in DOMAIN burst : Burst(p)
  BY <1>2, <1>7 DEF Burst, BurstSubmit, BurstCancelled, BurstReply, BurstOnly
<1>8. CASE Main /\ ~TakePending /\ ~NextBatch /\ ~LeaveEager
  BY <1>2, <1>8 DEF Main, ConsumeEager, QuitEager, Consume, ConsumeAdaptive, BurstJoined, PriorityQuit,
     StartDispatch, Dispatch, DispatchCancelled, TakeCompleted, Return, Close, VisitIdle
<1>9. CASE Cancel \/ Receive \/ (\E p \in Paths : Work(p)) \/ (\E p \in waiting : Complete(p) \/ Abandon(p))
           \/ Stay \/ UNCHANGED vars
  BY <1>2, <1>9 DEF Cancel, Receive, Work, Malformed, GiveUp, SendRequest, Respond, Fail, Complete, Abandon,
     Stay, vars, visit, VisitIdle
<1> QED
  BY <1>3, <1>4, <1>5, <1>6, <1>7, <1>8, <1>9 DEF Next

\* Until a cancellation Run returns with nothing held.
LEMMA AllTakenKept ==
  ASSUME IInv, Quiet, AllTaken, [Next]_vars
  PROVE  AllTaken'
<1> SUFFICES ASSUME Outside', ~cancelled' PROVE Held' = {}
  BY DEF AllTaken
<1>1. CASE LeaveEager \/ PriorityQuit \/ Return
  <2>1. cancelled' = cancelled
    BY <1>1, MainOnlyFacts DEF LeaveEager, PriorityQuit, Return
  <2>2. Held' \subseteq Held
    BY <1>1, LeaveEagerKeeps, WalksKeep
  <2> QED
    BY <1>1, <2>1, <2>2, ReturnsEmpty
<1>2. CASE Cancel
  BY <1>2 DEF Cancel
<1>3. CASE Close
  <2>1. Outside /\ cancelled' = cancelled
    BY <1>3 DEF Close, Outside
  <2>2. Held' = Held
    BY <1>3, WalksKeep
  <2> QED
    BY <2>1, <2>2 DEF AllTaken
<1>4. CASE Main /\ ~LeaveEager /\ ~PriorityQuit /\ ~Return /\ ~Close
  <2>1. main' \in {"run", "join", "quit", "dispatch"}
    BY <1>4 DEF Main, TakePending, ConsumeEager, QuitEager, Consume, ConsumeAdaptive,
           NextBatch, BurstJoined, StartDispatch, Dispatch, DispatchCancelled, TakeCompleted
  <2> QED
    BY <2>1 DEF Outside
<1>5. CASE \E k \in DOMAIN stack : Submitter(k)
  <2>1. UNCHANGED <<cancelled, main>>
    BY <1>5 DEF Submitter, StopSubmitting, ContinueSubmitting, Submit, SubmitCancelled, Publish,
           PublishCancelled, SubmitterOnly
  <2>2. Held' = Held
    BY <1>5, SubmitterKeeps
  <2> QED
    BY <2>1, <2>2 DEF AllTaken, Outside
<1>6. CASE \E p \in DOMAIN burst : Burst(p)
  <2>1. main = "join" /\ main' = main
    BY <1>6, VisitFacts DEF Burst, BurstSubmit, BurstCancelled, BurstReply, BurstOnly
  <2> QED
    BY <2>1 DEF Outside
<1>7. CASE \E p \in waiting : Complete(p) \/ Abandon(p)
  <2>1. UNCHANGED <<cancelled, main>>
    BY <1>7, MainOnlyFacts DEF Complete, Abandon
  <2>2. Held' \subseteq Held
    BY <1>7, WaitingKeeps
  <2> QED
    BY <2>1, <2>2 DEF AllTaken, Outside
<1>8. CASE Receive \/ (\E p \in Paths : Work(p)) \/ Stay \/ UNCHANGED vars
  <2>1. UNCHANGED <<strategy, template, cancelled, visit>>
    BY <1>8 DEF Receive, Work, Malformed, GiveUp, SendRequest, Respond, Fail, Stay, vars, visit, asked
  <2>2. Held' = Held /\ main' = main
    BY <2>1, HeldSame DEF visit
  <2> QED
    BY <2>1, <2>2 DEF AllTaken, Outside
<1> QED
  BY <1>1, <1>2, <1>3, <1>4, <1>5, <1>6, <1>7, <1>8 DEF Next

\* A probe that is turned down is counted with what is below it, in the only pass.
LEMMA PrunedWhole ==
  ASSUME IInv, OnePass, NEW p \in Paths, ~Leaf(p), ~cancelled, ~BFSPasses,
         status[p] # "accepted", strategy = "bfs" => stack # <<>>, PruneRejected(p)
  PROVE  skipped' = skipped + Skips[template][p]
<1>1. Chosen /\ IsPlan(Tree) /\ Paths = Nodes(Tree) /\ FramesOK
  BY Context DEF IInv
<1>2. /\ Space[template].last = LastDepth(Tree) /\ Space[template].count = VariantCount(Tree)
      /\ VariantCount(Tree) \in Nat \ {0} /\ LastDepth(Tree) \in Nat \ {0}
  BY <1>1, SpaceOfTree, VariantCountPositive, FindPlaceholdersLists
<1>3. Len(p) \in 1 .. LastDepth(Tree) /\ Len(p) # LastDepth(Tree)
  BY <1>1, <1>2, NodesFacts DEF Leaf
<1>4. Space[template].last > 1
  <2> PICK n, m : n = Len(p) /\ m = LastDepth(Tree)
    OBVIOUS
  <2>1. m > 1
    BY <1>2, <1>3
  <2> QED
    BY <1>2, <2>1
<1>5. strategy = "bfs" => Top.later = <<>>
  <2> SUFFICES ASSUME strategy = "bfs" PROVE Top.later = <<>>
    OBVIOUS
  <2>1. Space[template].count = 1
    BY <1>2, <1>4 DEF BFSPasses
  <2>2. Inner \in DOMAIN stack /\ Top = stack[Inner]
    BY <1>1, TopFacts
  <2> QED
    BY <2>1, <2>2 DEF OnePass
<1> QED
  BY <1>5 DEF PruneRejected, CountsPruned

\* A reply is taken.
LEMMA AccountsTaken ==
  ASSUME IInv, IInv', Accounts, OnePass, MainOnly, NEW p \in Held, Answered(p),
         PruneRejected(p), strategy = "bfs" => stack # <<>>,
         ~Descends(p) => Held' = Held \ {p},
         Descends(p) => Held' = Held \/ Replaced(p)
  PROVE  Accounts'
<1>1. UNCHANGED <<strategy, template, status, tries, cancelled, tried>>
  BY MainOnlyFacts
<1>2. RunOK /\ Held \subseteq Paths /\ skipped \in Nat /\ cancelled \in BOOLEAN
  BY DEF IInv, RunOK, SpineOK, Spine, Paths
<1>3. p \in Paths /\ Skips[template][p] \in Nat
  BY <1>2, OutFinite
<1>4. CASE Descends(p)
  <2>1. UNCHANGED skipped /\ status[p] = "accepted" /\ ~cancelled
    BY <1>2, <1>4 DEF Descends, PruneRejected
  <2>2. CASE Held' = Held
    <3>1. Moves({})
      BY <2>2, MovesNone
    <3> QED
      BY <1>1, <2>1, <3>1, AccountsMove
  <2>3. CASE Replaced(p)
    <3>1. PICK N : Refines(Tree, N, p) /\ Held' = (Held \ {p}) \cup N
      BY <2>3 DEF Replaced
    <3>2. PICK E, M : E = {p} /\ M = [q \in {p} |-> N]
      OBVIOUS
    <3>3. AllBelow(M, E) = N /\ M[p] = N
      BY <3>2 DEF AllBelow
    <3>4. Expands(E, M)
      BY <2>1, <3>1, <3>2, <3>3 DEF Expands
    <3>5. Moves({})
      BY <3>4, MovesBelow
    <3> QED
      BY <1>1, <2>1, <3>5, AccountsMove
  <2> QED
    BY <1>4, <2>2, <2>3
<1>5. CASE ~Descends(p) /\ (cancelled \/ Leaf(p))
  <2>1. UNCHANGED skipped
    BY <1>2, <1>5 DEF PruneRejected
  <2> DEFINE D == {}
  <2>2. /\ D \subseteq Held /\ Held' \subseteq Held \ D
        /\ ~cancelled => \A x \in Held \ D : x \in Held' \/ (Leaf(x) /\ status[x] # "none")
    BY <1>5 DEF Answered, Answers
  <2> HIDE DEF D
  <2>3. Moves(D)
    BY <2>2, MovesSome
  <2>4. Moves({})
    BY <2>3 DEF D
  <2> QED
    BY <1>1, <2>1, <2>4, AccountsMove
<1>6. CASE ~Descends(p) /\ ~cancelled /\ ~Leaf(p)
  <2>1. status[p] # "accepted"
    BY <1>6 DEF Descends
  <2> DEFINE D == {p}
  <2>2. /\ D \subseteq Held /\ Held' \subseteq Held \ D
        /\ ~cancelled => \A x \in Held \ D : x \in Held' \/ (Leaf(x) /\ status[x] # "none")
    BY <1>6
  <2> HIDE DEF D
  <2>3. Moves(D)
    BY <2>2, MovesSome
  <2>4. Moves({p})
    BY <2>3 DEF D
  <2>5. ~cancelled /\ ~BFSPasses => skipped' = skipped + Skips[template][p]
    BY <1>3, <1>6, <2>1, PrunedWhole
  <2>6. skipped' <= skipped + Skips[template][p]
    BY <1>2, <1>3 DEF PruneRejected
  <2> QED
    BY <1>1, <1>6, <2>4, <2>5, <2>6, AccountsPrune
<1> QED
  BY <1>4, <1>5, <1>6

\* What a turn adds to the counters.
Booked(p) ==
  /\ UNCHANGED <<strategy, template, cancelled>> /\ Held' = Held
  /\ \/ ~(status[p] = "ready" /\ tries[p] = 0) /\ UNCHANGED <<tried, skipped>>
     \/ status[p] = "ready" /\ tries[p] = 0 /\ tried' + skipped' = tried + skipped + Counts(p)
     \/ status[p] = "ready" /\ tries[p] = 0 /\ cancelled /\ UNCHANGED <<tried, skipped>>

\* Whether a candidate is outstanding after a turn.
LEMMA TurnedOut ==
  ASSUME IInv, IInv', SentCounted, UNCHANGED <<strategy, template, cancelled>>, Held' = Held,
         NEW p \in Paths, Turns(p), status[p] = "none" => p \in Held
  PROVE  /\ p \notin Goals(Tree) => p \notin Outstanding /\ p \notin Outstanding'
         /\ p \in Goals(Tree) /\ ~(status[p] = "ready" /\ tries[p] = 0) =>
              \/ p \in Outstanding <=> p \in Outstanding'
              \/ cancelled /\ p \in Outstanding /\ p \notin Outstanding'
         /\ p \in Goals(Tree) /\ status[p] = "ready" /\ tries[p] = 0 =>
              p \in Outstanding /\ p \notin Outstanding'
<1>1. /\ tries \in [Paths -> 0 .. MaxRetries] /\ MaxRetries \in Nat /\ DOMAIN status = Paths
      /\ RunOK /\ Held \subseteq Paths
  BY FuzzAssumption DEF IInv, PoolOK, RunOK, SpineOK, Spine, Paths
<1>2. IsPrefix(p, p)
  <2>1. p \in Seq(AllValues(Tree))
    BY <1>1, Context, NodesFacts
  <2> QED
    BY <2>1, PrefixOrder
<1>3. /\ Outstanding = Out(Held, status, tries)
      /\ Outstanding' = Out(Held, status', tries')
  BY OutNext DEF Outstanding
<1>4. p \notin Goals(Tree) => p \notin Outstanding /\ p \notin Outstanding'
  BY <1>3 DEF Out
<1> SUFFICES ASSUME p \in Goals(Tree)
             PROVE  /\ ~(status[p] = "ready" /\ tries[p] = 0) =>
                         \/ p \in Outstanding <=> p \in Outstanding'
                         \/ cancelled /\ p \in Outstanding /\ p \notin Outstanding'
                    /\ status[p] = "ready" /\ tries[p] = 0 => p \in Outstanding /\ p \notin Outstanding'
  BY <1>4
<1> PICK a, b, t, r : a = status[p] /\ b = status'[p] /\ t = tries[p] /\ r = tries'[p]
  OBVIOUS
<1>5. /\ p \in Outstanding <=> a = "queued" \/ (a = "ready" /\ t = 0) \/ (a = "none" /\ \E x \in Held : IsPrefix(x, p))
      /\ p \in Outstanding' <=> b = "queued" \/ (b = "ready" /\ r = 0) \/ (b = "none" /\ \E x \in Held : IsPrefix(x, p))
  BY <1>3 DEF Out, Untried, Unasked
<1>6. \/ a = "none" /\ b = "queued"
      \/ a = "queued" /\ ~cancelled /\ b = "ready" /\ r = 0
      \/ a = "queued" /\ cancelled /\ b = "error"
      \/ a = "ready" /\ b = "sent"
      \/ a = "ready" /\ t = 0 /\ b = "error"
      \/ a = "sent" /\ b = "ready" /\ r = t /\ t > 0
      \/ a = "sent" /\ b \in Answers
  <2>1. a = "sent" => t > 0
    BY DEF SentCounted
  <2>2. ASSUME NEW c, Turn(p, c) PROVE b = c
    BY <1>1, <2>2 DEF Turn
  <2> QED
    BY <2>1, <2>2 DEF Turns
<1>7. a = "none" => \E x \in Held : IsPrefix(x, p)
  BY <1>2
<1>8. t \in Nat
  BY <1>1
<1> QED
  BY <1>5, <1>6, <1>7, <1>8 DEF Answers

\* One path is asked for, tried or answered, and the counters keep pace.
LEMMA AccountsTurned ==
  ASSUME IInv, IInv', Accounts, SentCounted, NEW p \in Paths, Turns(p), Booked(p),
         status[p] = "none" => p \in Held
  PROVE  Accounts'
<1>1. UNCHANGED <<strategy, template, cancelled>> /\ Held' = Held
  BY DEF Booked
<1>2. /\ p \notin Goals(Tree) => p \notin Outstanding /\ p \notin Outstanding'
      /\ p \in Goals(Tree) /\ ~(status[p] = "ready" /\ tries[p] = 0) =>
           \/ p \in Outstanding <=> p \in Outstanding'
           \/ cancelled /\ p \in Outstanding /\ p \notin Outstanding'
      /\ p \in Goals(Tree) /\ status[p] = "ready" /\ tries[p] = 0 =>
           p \in Outstanding /\ p \notin Outstanding'
  BY <1>1, TurnedOut
<1>3. Counts(p) = IF p \in Goals(Tree) THEN 1 ELSE 0
  <2>1. RunOK
    BY DEF IInv
  <2>2. Leaf(p) <=> p \in Goals(Tree)
    BY <2>1, Context, NodesFacts
  <2> QED
    BY <2>2 DEF Counts
<1>4. tried \in Nat /\ skipped \in Nat /\ tried' \in Nat /\ skipped' \in Nat
  BY DEF IInv, RunOK
<1>5. \/ (p \in Outstanding <=> p \in Outstanding') /\ tried' + skipped' = tried + skipped
      \/ /\ p \in Outstanding /\ p \notin Outstanding'
         /\ tried' + skipped' = tried + skipped + 1 \/ (cancelled /\ tried' + skipped' = tried + skipped)
  <2>1. CASE ~(status[p] = "ready" /\ tries[p] = 0)
    BY <1>2, <2>1 DEF Booked
  <2>2. CASE status[p] = "ready" /\ tries[p] = 0
    <3> PICK n, m, c : n = tried + skipped /\ m = tried' + skipped' /\ c = Counts(p)
      OBVIOUS
    <3>1. m = n + c \/ (cancelled /\ m = n)
      BY <2>2 DEF Booked
    <3>2. CASE p \in Goals(Tree)
      <4>1. c = 1 /\ p \in Outstanding /\ p \notin Outstanding'
        BY <1>2, <1>3, <2>2, <3>2
      <4> QED
        BY <3>1, <4>1
    <3>3. CASE p \notin Goals(Tree)
      <4>1. c = 0 /\ p \notin Outstanding /\ p \notin Outstanding' /\ n \in Nat
        BY <1>2, <1>3, <1>4, <3>3
      <4>2. m = n
        BY <3>1, <4>1
      <4> QED
        BY <4>1, <4>2
    <3> QED
      BY <3>2, <3>3
  <2> QED
    BY <2>1, <2>2
<1>6. PICK a : Turn(p, a)
  BY DEF Turns
<1>7. status' = [status EXCEPT ![p] = a] /\ \A q \in Paths : q # p => tries'[q] = tries[q]
  BY <1>6 DEF Turn
<1> QED
  BY <1>1, <1>5, <1>7, AccountsStatus

\* A path that could not be asked for is dropped.
LEMMA AccountsDropped ==
  ASSUME IInv, IInv', Accounts, PathsOnly, cancelled, NEW p \in Held, status[p] = "none",
         Held' = Held \ {p}, skipped' <= skipped + Skips[template][p]
  PROVE  Accounts'
<1> DEFINE D == {p}
<1>1. D \subseteq Held /\ Held' \subseteq Held \ D
  OBVIOUS
<1> HIDE DEF D
<1>2. Moves(D)
  BY <1>1, MovesSome
<1>3. Moves({p})
  BY <1>2 DEF D
<1> QED
  BY <1>3, AccountsPrune DEF PathsOnly

\* Nothing is counted, and nothing goes but what was answered or what a cancellation drops.
LEMMA AccountsStill ==
  ASSUME IInv, IInv', Accounts, PathsOnly, UNCHANGED skipped, Held' \subseteq Held,
         ~cancelled => \A x \in Held : x \in Held' \/ (Leaf(x) /\ status[x] # "none")
  PROVE  Accounts'
<1> DEFINE D == {}
<1>1. /\ D \subseteq Held /\ Held' \subseteq Held \ D
      /\ ~cancelled => \A x \in Held \ D : x \in Held' \/ (Leaf(x) /\ status[x] # "none")
  OBVIOUS
<1> HIDE DEF D
<1>2. Moves(D)
  BY <1>1, MovesSome
<1>3. Moves({})
  BY <1>2 DEF D
<1> QED
  BY <1>3, AccountsMove DEF PathsOnly

\* The goroutine of Run.
LEMMA AccountsMain ==
  ASSUME IInv, IInv', Quiet, Accounts, OnePass, PathsOnly, Main
  PROVE  Accounts'
<1>0. Held \subseteq Paths /\ RunOK /\ skipped \in Nat
  BY DEF IInv, RunOK, SpineOK, Spine, Paths
<1>1. CASE TakePending
  <2>1. CASE Held' = Held /\ UNCHANGED skipped
    BY <2>1, AccountsStill
  <2>2. CASE \E p \in Held : cancelled /\ status[p] = "none" /\ Held' = Held \ {p} /\ PruneUnsent(p)
    <3> PICK p \in Held : cancelled /\ status[p] = "none" /\ Held' = Held \ {p} /\ PruneUnsent(p)
      BY <2>2
    <3>1. Skips[template][p] \in Nat
      BY <1>0, OutFinite
    <3>2. skipped' <= skipped + Skips[template][p]
      BY <1>0, <3>1 DEF PruneUnsent
    <3> QED
      BY <3>2, AccountsDropped
  <2> QED
    BY <1>1, <2>1, <2>2, TakePendingKeeps
<1>2. CASE ConsumeEager
  <2>1. Waits /\ Answered(cur) /\ UNCHANGED skipped /\ Eager
    BY <1>2 DEF ConsumeEager, Waits
  <2>2. Held' = Held \ {cur} /\ cur \in Held
    BY <1>2, <2>1, ConsumeEagerKeeps, CurFacts
  <2>3. Leaf(cur) /\ status[cur] # "none"
    BY <2>1, <2>2 DEF IInv, Where, Answered, Answers
  <2> QED
    BY <2>1, <2>2, <2>3, AccountsStill
<1>3. CASE QuitEager
  <2>1. cancelled /\ UNCHANGED skipped
    BY <1>3 DEF QuitEager
  <2> QED
    BY <1>3, <2>1, QuitEagerKeeps, AccountsStill
<1>4. CASE LeaveEager
  <2>1. UNCHANGED skipped
    BY <1>4 DEF LeaveEager
  <2> QED
    BY <1>4, <2>1, LeaveEagerKeeps, AccountsStill
<1>5. CASE Consume \/ ConsumeAdaptive
  <2>1. Waits /\ Answered(cur) /\ PruneRejected(cur) /\ MainOnly
    BY <1>5 DEF Consume, ConsumeAdaptive, Waits
  <2>2. cur \in Held /\ stack # <<>>
    BY <2>1, CurFacts
  <2>3. /\ ~Descends(cur) => Held' = Held \ {cur}
        /\ Descends(cur) => Held' = Held \/ Replaced(cur)
    BY <1>5, ConsumeKeeps, ConsumeAdaptiveKeeps
  <2> PICK p : p = cur
    OBVIOUS
  <2> QED
    BY <2>1, <2>2, <2>3, AccountsTaken
<1>6. CASE NextBatch
  <2>1. UNCHANGED skipped
    BY <1>6 DEF NextBatch
  <2> QED
    BY <1>6, <2>1, NextBatchKeeps, AccountsMove DEF PathsOnly
<1>7. CASE BurstJoined \/ PriorityQuit \/ StartDispatch \/ Return \/ Close
  <2>1. UNCHANGED skipped
    BY <1>7 DEF BurstJoined, PriorityQuit, StartDispatch, Return, Close
  <2> QED
    BY <1>7, <2>1, WalksKeep, AccountsStill
<1>8. CASE Dispatch
  <2>1. UNCHANGED skipped
    BY <1>8 DEF Dispatch
  <2> QED
    BY <1>8, <2>1, DispatchKeeps, AccountsStill
<1>9. CASE DispatchCancelled
  <2>1. cancelled
    BY <1>9, DispatchCancelledKeeps
  <2>2. PICK p \in Held : /\ status[p] = "none" /\ Held' = Held \ {p}
                          /\ skipped' = skipped + Skips[template][p]
    BY <1>9, DispatchCancelledKeeps
  <2>3. Skips[template][p] \in Nat
    BY <1>0, OutFinite
  <2>4. skipped' <= skipped + Skips[template][p]
    BY <1>0, <2>2, <2>3
  <2> QED
    BY <2>1, <2>2, <2>4, AccountsDropped
<1>10. CASE TakeCompleted
  <2>1. MainOnly /\ strategy # "bfs"
    BY <1>10 DEF TakeCompleted, Priority
  <2>2. PICK p \in Held : /\ Answered(p) /\ PruneRejected(p)
                          /\ ~Descends(p) => Held' = Held \ {p}
                          /\ Descends(p) => Replaced(p)
    BY <1>10, TakeCompletedKeeps
  <2> QED
    BY <2>1, <2>2, AccountsTaken
<1> QED
  BY <1>1, <1>2, <1>3, <1>4, <1>5, <1>6, <1>7, <1>8, <1>9, <1>10 DEF Main

\* A goroutine of an eager visit.
LEMMA AccountsBurst ==
  ASSUME IInv, IInv', Quiet, Accounts, PathsOnly, NEW p \in DOMAIN burst, Burst(p)
  PROVE  Accounts'
<1>1. UNCHANGED skipped
  BY DEF Burst, BurstSubmit, BurstCancelled, BurstReply, BurstOnly
<1>2. CASE BurstSubmit(p)
  BY <1>1, <1>2, BurstSubmitKeeps, AccountsStill
<1>3. CASE BurstCancelled(p)
  <2>1. cancelled
    BY <1>3 DEF BurstCancelled
  <2> QED
    BY <1>1, <1>3, <2>1, BurstCancelledKeeps, AccountsStill
<1>4. CASE BurstReply(p)
  <2>1. Leaf(p) /\ status[p] # "none"
    BY <1>4, VisitFacts DEF BurstReply, Answered, Answers
  <2>2. Held' = Held \ {p}
    BY <1>4, BurstReplyKeeps
  <2> QED
    BY <1>1, <2>1, <2>2, AccountsStill
<1> QED
  BY <1>2, <1>3, <1>4 DEF Burst

\* The counters keep pace with every step.
LEMMA AccountsKept ==
  ASSUME IInv, IInv', Quiet, Accounts, SentCounted, OnePass, [Next]_vars
  PROVE  Accounts'
<1>0. tried \in Nat /\ skipped \in Nat /\ cancelled \in BOOLEAN
  BY DEF IInv, RunOK
<1>1. CASE Cancel
  <2>1. /\ UNCHANGED <<strategy, template, visit, status, tries, tried, skipped>>
        /\ cancelled' = TRUE
    BY <1>1 DEF Cancel, asked, pool
  <2>2. Held' = Held
    BY <2>1, HeldSame
  <2>3. Outstanding' = Outstanding
    BY <2>1, <2>2, OutNext DEF Outstanding
  <2>4. RunOK /\ RunOK'
    BY DEF IInv
  <2>5. tried' + skipped' + Cardinality(Outstanding') <= tried + skipped + Cardinality(Outstanding)
    <3>1. Cardinality(Outstanding) \in Nat
      BY <2>4, OutFinite DEF Outstanding
    <3> QED
      BY <1>0, <2>1, <2>3, <3>1
  <2> QED
    BY <2>1, <2>4, <2>5, AccountsStep
<1>2. CASE Receive
  <2>1. PICK p \in Paths : status[p] = "queued" /\ Turns(p)
    BY <1>2, ReceiveTurns
  <2>2. UNCHANGED <<strategy, template, visit, cancelled, tried, skipped>>
    BY <1>2 DEF Receive, asked
  <2>3. Booked(p)
    BY <2>1, <2>2, HeldSame DEF Booked
  <2> QED
    BY <2>1, <2>3, AccountsTurned
<1>3. CASE \E p \in Paths : Work(p)
  <2> PICK p \in Paths : Work(p)
    BY <1>3
  <2>1. UNCHANGED <<strategy, template, visit, cancelled>> /\ status[p] \in {"ready", "sent"}
    BY DEF Work, Malformed, GiveUp, SendRequest, Respond, Fail, asked
  <2>2. Held' = Held
    BY <2>1, HeldSame
  <2>3. Counts(p) \in Nat
    BY DEF Counts
  <2>4. \/ ~(status[p] = "ready" /\ tries[p] = 0) /\ UNCHANGED <<tried, skipped>>
        \/ status[p] = "ready" /\ tries[p] = 0 /\ tried' + skipped' = tried + skipped + Counts(p)
        \/ status[p] = "ready" /\ tries[p] = 0 /\ cancelled /\ UNCHANGED <<tried, skipped>>
    <3>1. CASE Malformed(p)
      <4>1. status[p] = "ready" /\ tries[p] = 0 /\ tried' = tried /\ skipped' = skipped + Counts(p)
        BY <3>1 DEF Malformed
      <4> QED
        BY <1>0, <2>3, <4>1
    <3>2. CASE GiveUp(p)
      BY <3>2 DEF GiveUp
    <3>3. CASE SendRequest(p)
      <4>1. /\ status[p] = "ready" /\ skipped' = skipped
            /\ tried' = tried + (IF tries[p] = 0 THEN Counts(p) ELSE 0)
        BY <3>3 DEF SendRequest
      <4> QED
        BY <1>0, <2>3, <4>1
    <3>4. CASE Respond(p) \/ Fail(p)
      BY <3>4 DEF Respond, Fail
    <3> QED
      BY <3>1, <3>2, <3>3, <3>4 DEF Work
  <2>5. Booked(p)
    BY <2>1, <2>2, <2>4 DEF Booked
  <2>6. Turns(p)
    BY WorkTurns
  <2> QED
    BY <2>1, <2>5, <2>6, AccountsTurned
<1>4. CASE /\ \E p \in Paths : p \in Held /\ Asks(p)
           /\ UNCHANGED <<strategy, template, cancelled, tried, skipped, yielded>> /\ Held' = Held
  <2> PICK p \in Paths : p \in Held /\ Asks(p)
    BY <1>4
  <2>1. Booked(p) /\ Turns(p)
    BY <1>4, WorkTurns DEF Asks, Booked
  <2> QED
    BY <2>1, AccountsTurned
<1>5. CASE PathsOnly
  <2>1. CASE \E k \in DOMAIN stack : Submitter(k)
    <3>1. UNCHANGED skipped
      BY <2>1 DEF Submitter, StopSubmitting, ContinueSubmitting, Submit, SubmitCancelled, Publish,
             PublishCancelled, SubmitterOnly
    <3> QED
      BY <1>5, <2>1, <3>1, SubmitterKeeps, AccountsStill
  <2>2. CASE \E p \in DOMAIN burst : Burst(p)
    BY <1>5, <2>2, AccountsBurst
  <2>3. CASE \E p \in waiting : Complete(p) \/ Abandon(p)
    <3>1. UNCHANGED skipped
      BY <2>3 DEF Complete, Abandon
    <3> QED
      BY <1>5, <2>3, <3>1, WaitingKeeps, AccountsStill
  <2>4. CASE Main
    BY <1>5, <2>4, AccountsMain
  <2>5. CASE Stay \/ UNCHANGED vars
    <3>1. UNCHANGED <<strategy, template, visit, skipped>>
      BY <2>5 DEF Stay, vars, visit
    <3> QED
      BY <1>5, <3>1, HeldSame, AccountsStill
  <2> QED
    BY <1>1, <1>2, <1>3, <2>1, <2>2, <2>3, <2>4, <2>5 DEF Next
<1> QED
  BY <1>1, <1>2, <1>3, <1>4, <1>5, StepKinds

\* At first nothing is counted and every candidate is outstanding.
LEMMA InitAccounts ==
  ASSUME Init
  PROVE  SentCounted /\ AnswersOnly /\ OnePass /\ AllTaken /\ Accounts
<1>1. IInv /\ RunOK
  BY InitIInv DEF IInv
<1>2. \A p \in Paths : status[p] = "none" /\ yielded[p] = 0
  BY DEF Init, Paths
<1>3. main = "run" /\ cancelled = FALSE /\ tried = 0 /\ skipped = 0
  BY DEF Init
<1>4. SentCounted /\ AnswersOnly /\ AllTaken
  BY <1>2, <1>3 DEF SentCounted, AnswersOnly, AllTaken, Outside
<1>5. OnePass
  <2> SUFFICES ASSUME strategy = "bfs", Space[template].count = 1
               PROVE  \A k \in DOMAIN stack : stack[k].later = <<>>
    BY DEF OnePass
  <2> PICK bs : bs = LevelBatches(<< <<>> >>, 1)
    OBVIOUS
  <2>1. stack = <<Evaluate(Head(bs), Tail(bs))>>
    BY DEF Init
  <2>2. Tail(bs) = <<>>
    BY OneLevelBatch
  <2>3. PICK g : g = Evaluate(Head(bs), Tail(bs))
    OBVIOUS
  <2>4. g.later = <<>>
    BY <2>2, <2>3 DEF Evaluate, Frame
  <2>5. stack = <<g>>
    BY <2>1, <2>3
  <2> QED
    BY <2>4, <2>5
<1>6. Goals(Tree) \subseteq Paths
  BY <1>1, Context
<1>7. ASSUME NEW g \in Goals(Tree) PROVE g \in Outstanding
  <2>1. ~SettledIn(status, g)
    BY <1>2, <1>6 DEF SettledIn, Answers, Paths
  <2>2. Remembers(Goals(Tree), Held, Undelivered, status, yielded)
    BY <1>1, <1>3 DEF IInv, NothingForgotten
  <2>3. \E x \in Held : IsPrefix(x, g)
    BY <2>1, <2>2 DEF Remembers
  <2>4. status[g] = "none"
    BY <1>2, <1>6
  <2> QED
    BY <2>3, <2>4 DEF Outstanding, Out, Unasked
<1>8. Outstanding = Goals(Tree)
  BY <1>7 DEF Outstanding, Out
<1>9. Cardinality(Goals(Tree)) \in Nat
  BY <1>1, OutFinite
<1>10. Accounts
  BY <1>3, <1>8, <1>9 DEF Accounts
<1> QED
  BY <1>4, <1>5, <1>10

\* The counters and the outstanding candidates, with what they rest on.
Books == SentCounted /\ AnswersOnly /\ OnePass /\ AllTaken /\ Accounts

LEMMA BooksKept == Spec => [](IInv /\ Books)
<1>1. Init => IInv /\ Quiet /\ Books
  BY InitIInv, InitQuiet, InitAccounts DEF Books
<1>2. IInv /\ Quiet /\ Books /\ [Next]_vars => (IInv /\ Quiet /\ Books)'
  <2> SUFFICES ASSUME IInv, Quiet, Books, [Next]_vars PROVE (IInv /\ Quiet /\ Books)'
    OBVIOUS
  <2>1. IInv'
    BY NextKeeps
  <2>2. Quiet'
    BY WorkQuiet, SubmitterQuiet, BurstQuiet, MainQuiet DEF Next
  <2>3. SentCounted' /\ AnswersOnly'
    BY AnswersKept DEF Books
  <2>4. OnePass' /\ AllTaken'
    BY OnePassKept, AllTakenKept DEF Books
  <2>5. Accounts'
    BY <2>1, AccountsKept DEF Books
  <2> QED
    BY <2>1, <2>2, <2>3, <2>4, <2>5 DEF Books
<1> QED
  BY <1>1, <1>2, PTL DEF Spec

\* When Run has returned uncancelled, no candidate is outstanding.
LEMMA NoneOutstanding ==
  ASSUME IInv, AnswersOnly, AllTaken, main = "closed", ~cancelled
  PROVE  Outstanding = {}
<1>1. Held = {} /\ Undelivered = {}
  BY DEF AllTaken, Outside, Undelivered
<1>2. RunOK /\ Remembers(Goals(Tree), Held, Undelivered, status, yielded)
  BY DEF IInv, NothingForgotten
<1>3. Goals(Tree) \subseteq Paths
  BY <1>2, Context
<1> SUFFICES ASSUME NEW g \in Outstanding PROVE FALSE
  OBVIOUS
<1>4. g \in Goals(Tree) /\ status[g] \in {"queued", "ready"}
  BY <1>1 DEF Outstanding, Out, Untried, Unasked
<1>5. yielded[g] = 0 /\ status[g] \notin {"none", "rejected"}
  BY <1>3, <1>4 DEF AnswersOnly, Answered, Answers
<1>6. g \in Undelivered
  BY <1>2, <1>3, <1>4, <1>5 DEF Remembers, Paths
<1> QED
  BY <1>1, <1>6

(* Completed = Tried + Skipped never exceeds TotalCandidates, and reaches it *)
(* in an uncancelled run, whatever is rejected, fails or cannot be sent      *)
(* (traversal.go:76-87, worker.go:142-189), but for a BFS in passes; the     *)
(* list of a FUZZ placeholder is not empty.                                  *)
THEOREM AccountingCorrect == Spec => [](PrimaryListed(Tree) => Accounting)
<1>1. IInv /\ Books => (PrimaryListed(Tree) => Accounting)
  <2> SUFFICES ASSUME IInv, Books, PrimaryListed(Tree) PROVE Accounting
    OBVIOUS
  <2> PICK c, n : c = Cardinality(Outstanding) /\ n = Cardinality(Goals(Tree))
    OBVIOUS
  <2>1. RunOK /\ tried \in Nat /\ skipped \in Nat
    BY DEF IInv, RunOK
  <2>2. c \in Nat /\ n \in Nat
    BY <2>1, OutFinite DEF Outstanding
  <2>3. Chosen /\ IsPlan(Tree)
    BY <2>1, Context
  <2>4. Estimate = n
    BY <2>3, SpaceOfTree, EstimateIsRight DEF Estimate
  <2>5. /\ tried + skipped + c <= n
        /\ ~cancelled /\ ~BFSPasses => tried + skipped + c = n
    BY DEF Books, Accounts
  <2>6. tried + skipped <= Estimate
    BY <2>1, <2>2, <2>4, <2>5
  <2>7. ASSUME ~BFSPasses, main = "closed", ~cancelled PROVE tried + skipped = Estimate
    <3>1. c = 0
      BY <2>7, NoneOutstanding, FS_EmptySet DEF Books
    <3> QED
      BY <2>1, <2>4, <2>5, <2>7, <3>1
  <2> QED
    BY <2>6, <2>7 DEF Accounting, CompletedIsTotal
<1> QED
  BY <1>1, BooksKept, PTL
=============================================================================
