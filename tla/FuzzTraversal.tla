---------------------------- MODULE FuzzTraversal ----------------------------
(* A run of the fuzzer: Runner.Run with its five strategies                 *)
(* (src/internal/fuzz/strategy.go, traversal.go), the Executor they submit  *)
(* their requests to, and its pool of workers (pool.go, worker.go).         *)
(*                                                                          *)
(* Threads: the goroutine of Run ("main"); the goroutine of every           *)
(* evaluateLevel call and the producer of the eager strategy (a frame of    *)
(* `stack`); the goroutines of an eager visit (`burst`); those that wait    *)
(* for a reply in the priority strategy (`waiting`); Threads workers, of    *)
(* which only the number counts.                                            *)
EXTENDS FuzzPlan, Functions, Integers

CONSTANTS Plans,       \* the plans, by name
          Runs,        \* what a run may be asked for: a strategy and a plan
          Threads,     \* the workers
          JobBuffer,   \* the capacity of jobsChan, max(512, 32 * workers)
          PendingBuffer, \* the capacity of a pending channel, 64 in the code
          MaxRetries   \* the tries of a request, 3 in the code

ASSUME FuzzAssumption ==
  /\ \A r \in Runs : /\ r.strategy \in {"eager", "dfs", "bfs", "priority", "adaptive"}
                     /\ r.plan \in DOMAIN Plans
  /\ Threads \in Nat \ {0} /\ JobBuffer \in Nat \ {0}
  /\ PendingBuffer \in Nat \ {0} /\ MaxRetries \in Nat \ {0}
ASSUME PlanAssumption == \A p \in DOMAIN Plans : IsPlan(Plans[p])

VARIABLES
  strategy, template, \* what the run was asked for: the latter names a plan
  cancelled,        \* ctx.Done() is closed
  jobs, closed,     \* jobsChan: its items and whether Close was called
  status,           \* what became of every path
  tries,            \* the requests sent for a path
  tried, skipped,   \* counters of the statistics collector
  yielded,          \* how often the result of a path was delivered
  main,             \* where the goroutine of Run stands
  stack,            \* the levels being evaluated, the innermost last
  cur,              \* the path whose reply main waits for
  next,             \* BFS: the paths accepted at this depth, in order
  deque, inFlight, waiting, completed,  \* priority: tasks and completions
  burst             \* the goroutines of an eager visit, by path

vars == <<strategy, template, cancelled, jobs, closed, status, tries, tried, skipped,
          yielded, main, stack, cur, next, deque, inFlight, waiting, completed, burst>>

pool == <<jobs, closed, status, tries>>
visit == <<main, stack, cur, next, deque, inFlight, waiting, completed, burst>>
asked == <<strategy, template>>

\* What FuzzPlan says of the plan of the run, computed once for every plan.
Space == [p \in DOMAIN Plans |->
            [paths |-> AllPaths(Plans[p]), last |-> LastDepth(Plans[p]),
             estimate |-> EstimateCandidates(Plans[p]),
             candidates |-> IterateCandidates(Plans[p]), levels |-> Levels(Plans[p]),
             count |-> VariantCount(Plans[p])]]
Paths == DOMAIN status
Estimate == Space[template].estimate
Leaf(path) == Len(path) = Space[template].last
Skips == [p \in DOMAIN Plans |-> [path \in Space[p].paths |-> Pruned(Plans[p], path)]]
Below == [p \in DOMAIN Plans |-> [path \in Space[p].paths |->
            IF Len(path) = Space[p].last THEN <<>> ELSE Children(Plans[p], path)]]
NoPath == <<>>
Answers == {"accepted", "rejected", "error"}
Answered(p) == status[p] \in Answers
Busy == {p \in Paths : status[p] \in {"ready", "sent"}}

\* A call of evaluateLevel: the requests it has still to submit, its goroutine, the
\* request that was just sent, its pending channel, and the batches that follow when
\* it is drained.
Frame(todo, pc, hand, pend, later) ==
  [todo |-> todo, pc |-> pc, hand |-> hand, pend |-> pend, later |-> later]

Evaluate(batch, later) == Frame(batch, "check", NoPath, <<>>, later)
At(f, pc) == Frame(f.todo, pc, NoPath, f.pend, f.later)

Inner == Len(stack)
Top == stack[Inner]

Singles(paths) == [i \in DOMAIN paths |-> <<paths[i]>>]

\* BFS visits the first level one extension index after the other.
LevelBatches(paths, d) ==
  LET level == Space[template].levels[d] IN
  [e \in 1 .. (IF level.ph = "FUZZ" THEN Space[template].count ELSE 1) |->
     Extend(paths, Level(level.words, e))]

\* The orders in which adaptive scores may sort the values of a level.
Orders(paths) == Bijection(DOMAIN paths, ToSet(paths))

\* adaptVisit: one call per value above the last level, one call for a last level.
AdaptFrame(order) ==
  IF Leaf(order[1]) THEN Evaluate(order, <<>>)
                            ELSE Evaluate(<<order[1]>>, Tail(Singles(order)))

\* runPriority: all words with the first extension, then with the second.
PriorityTasks ==
  LET batches == LevelBatches(<< <<>> >>, 1)
      pairs == Nested(batches, [i \in DOMAIN batches[1] |-> i]) IN
  [i \in DOMAIN pairs |-> pairs[i][1][pairs[i][2]]]

-----------------------------------------------------------------------------
Init ==
  /\ \E r \in Runs : strategy = r.strategy /\ template = r.plan
  /\ cancelled = FALSE /\ jobs = <<>> /\ closed = FALSE
  /\ status = [p \in Space[template].paths |-> "none"]
  /\ tries = [p \in Paths |-> 0] /\ yielded = tries
  /\ tried = 0 /\ skipped = 0
  /\ main = "run" /\ cur = NoPath /\ next = <<>>
  /\ inFlight = 0 /\ waiting = {} /\ completed = <<>>
  /\ burst = [p \in {} |-> ""]
  /\ deque = IF strategy = "priority" THEN PriorityTasks ELSE <<>>
  /\ CASE strategy = "eager" -> stack = <<Evaluate(Space[template].candidates, <<>>)>>
       [] strategy = "dfs" -> stack = <<Evaluate(PathsTo(Plans[template], 1), <<>>)>>
       [] strategy = "bfs" -> LET batches == LevelBatches(<< <<>> >>, 1) IN
                              stack = <<Evaluate(Head(batches), Tail(batches))>>
       [] strategy = "adaptive" -> \E o \in Orders(PathsTo(Plans[template], 1)) : stack = <<AdaptFrame(o)>>
       [] OTHER -> stack = <<>>

Cancel ==
  /\ ~cancelled /\ main # "closed"
  /\ cancelled' = TRUE
  /\ UNCHANGED <<asked, pool, tried, skipped, yielded, visit>>

-----------------------------------------------------------------------------
(* The executor and its workers.                                            *)
CanSend == ~closed /\ Len(jobs) < JobBuffer

\* ExecuteAsync puts the request into jobsChan ...
Enqueue(p) ==
  /\ CanSend
  /\ jobs' = Append(jobs, p)
  /\ status' = [status EXCEPT ![p] = "queued"]
  /\ UNCHANGED <<closed, tries>>

Reply(p, answer) ==
  /\ status' = [status EXCEPT ![p] = answer]
  /\ tries' = [tries EXCEPT ![p] = IF answer \in Answers THEN 0 ELSE @]

\* Slip: after a cancellation an item is dropped without a reply.
ReceiveSilent ==
  /\ jobs # <<>> /\ Cardinality(Busy) < Threads
  /\ jobs' = Tail(jobs)
  /\ Reply(Head(jobs), IF cancelled THEN "queued" ELSE "ready")
  /\ UNCHANGED <<asked, cancelled, closed, tried, skipped, yielded, visit>>

\* A worker takes an item; after a cancellation it is answered, not sent.
Receive ==
  /\ jobs # <<>> /\ Cardinality(Busy) < Threads
  /\ jobs' = Tail(jobs)
  /\ Reply(Head(jobs), IF cancelled THEN "error" ELSE "ready")
  /\ UNCHANGED <<asked, cancelled, closed, tried, skipped, yielded, visit>>

Counts(p) == IF Leaf(p) THEN 1 ELSE 0

\* The request cannot be built: a candidate that was not tried is skipped.
Malformed(p) ==
  /\ status[p] = "ready" /\ tries[p] = 0
  /\ skipped' = skipped + Counts(p)
  /\ Reply(p, "error")
  /\ UNCHANGED <<asked, cancelled, jobs, closed, tried, yielded, visit>>

\* The pause gate or the rate limiter ends with the context: nothing is counted.
GiveUp(p) ==
  /\ status[p] = "ready" /\ tries[p] = 0 /\ cancelled
  /\ Reply(p, "error")
  /\ UNCHANGED <<asked, cancelled, jobs, closed, tried, skipped, yielded, visit>>

\* Slip: every retry counts the candidate again.
SendRequestAgain(p) ==
  /\ status[p] = "ready"
  /\ tries' = [tries EXCEPT ![p] = @ + 1]
  /\ tried' = tried + Counts(p)
  /\ status' = [status EXCEPT ![p] = "sent"]
  /\ UNCHANGED <<asked, cancelled, jobs, closed, skipped, yielded, visit>>

\* A request is sent; the first one counts its candidate as tried.
SendRequest(p) ==
  /\ status[p] = "ready"
  /\ tries' = [tries EXCEPT ![p] = @ + 1]
  /\ tried' = tried + (IF tries[p] = 0 THEN Counts(p) ELSE 0)
  /\ status' = [status EXCEPT ![p] = "sent"]
  /\ UNCHANGED <<asked, cancelled, jobs, closed, skipped, yielded, visit>>

\* The response passes the filters, or does not, or its body cannot be read.
Respond(p) ==
  /\ status[p] = "sent"
  /\ \E answer \in Answers : Reply(p, answer)
  /\ UNCHANGED <<asked, cancelled, jobs, closed, tried, skipped, yielded, visit>>

\* The network fails: try again, unless cancelled or tried often enough.
Fail(p) ==
  /\ status[p] = "sent"
  /\ Reply(p, IF cancelled \/ tries[p] = MaxRetries THEN "error" ELSE "ready")
  /\ UNCHANGED <<asked, cancelled, jobs, closed, tried, skipped, yielded, visit>>

Work(p) == Malformed(p) \/ GiveUp(p) \/ SendRequest(p) \/ Respond(p) \/ Fail(p)

-----------------------------------------------------------------------------
(* The goroutine of a frame: evaluateLevel, or the producer of runEager.    *)
Eager == strategy = "eager"

FrameTo(k, frame) == stack' = [stack EXCEPT ![k] = frame]

SubmitterOnly == UNCHANGED <<asked, cancelled, tried, skipped, yielded, main, cur, next,
                             deque, inFlight, waiting, completed, burst>>

\* The producer of runEager looks at ctx once per word of the primary list.
PerWord == Len(Space[template].candidates) \div
             (IF Active(Plans[template], "FUZZ") THEN Len(Space[template].levels[1].words) ELSE 1)
LooksAtCtx(k) == Eager => Len(stack[k].todo) % PerWord = 0

StopSubmitting(k) ==
  /\ stack[k].pc = "check"
  /\ stack[k].todo = <<>> \/ (cancelled /\ LooksAtCtx(k))
  /\ FrameTo(k, At(stack[k], "closed"))
  /\ UNCHANGED pool /\ SubmitterOnly

ContinueSubmitting(k) ==
  /\ stack[k].pc = "check" /\ stack[k].todo # <<>>
  /\ ~(cancelled /\ LooksAtCtx(k))
  /\ FrameTo(k, At(stack[k], "submit"))
  /\ UNCHANGED pool /\ SubmitterOnly

Submit(k) ==
  /\ stack[k].pc = "submit"
  /\ Enqueue(Head(stack[k].todo))
  /\ LET f == stack[k] IN FrameTo(k, Frame(f.todo, "publish", Head(f.todo), f.pend, f.later))
  /\ SubmitterOnly

\* ExecuteAsync sees the cancellation; runEager stops, evaluateLevel reports it.
SubmitCancelled(k) ==
  /\ stack[k].pc = "submit" /\ cancelled
  /\ FrameTo(k, At(stack[k], IF Eager THEN "closed" ELSE "publish"))
  /\ UNCHANGED pool /\ SubmitterOnly

Publish(k) ==
  /\ stack[k].pc = "publish"
  /\ Len(stack[k].pend) < (IF Eager THEN JobBuffer ELSE PendingBuffer)
  /\ LET f == stack[k]
         call == [path |-> Head(f.todo), err |-> f.hand = NoPath] IN
     FrameTo(k, Frame(Tail(f.todo), "check", NoPath, Append(f.pend, call), f.later))
  /\ UNCHANGED pool /\ SubmitterOnly

PublishCancelled(k) ==
  /\ Eager /\ cancelled /\ stack[k].pc = "publish"
  /\ FrameTo(k, At(stack[k], "closed"))
  /\ UNCHANGED pool /\ SubmitterOnly

Submitter(k) == \/ StopSubmitting(k)
                \/ ContinueSubmitting(k)
                \/ Submit(k)
                \/ SubmitCancelled(k)
                \/ Publish(k)
                \/ PublishCancelled(k)

-----------------------------------------------------------------------------
(* What a strategy does with a result.                                      *)
Deliverable(p) == status[p] \in {"accepted", "error"}

\* Slip: the strategies deliver results also after a cancellation, and twice on error.
DeliverTwice(p) ==
  yielded' = [yielded EXCEPT ![p] = @ + (IF status[p] = "error" THEN 2 ELSE 1)]

\* A result that arrives after the cancellation is not delivered.
Deliver(p) ==
  yielded' = [yielded EXCEPT ![p] = @ + (IF ~cancelled /\ Deliverable(p) THEN 1 ELSE 0)]

\* runBFS counts what it prunes only in the pass of the last extension.
CountsPruned == strategy # "bfs" \/ Top.later = <<>>

\* Slip: a probe that failed is not counted as pruned.
PruneRejectedOnly(p) ==
  skipped' = skipped + (IF ~cancelled /\ status[p] = "rejected" /\ ~Leaf(p) /\ CountsPruned
                          THEN Skips[template][p] ELSE 0)

\* The subtree of a probe that is not accepted is skipped.
PruneRejected(p) ==
  skipped' = skipped + (IF ~cancelled /\ status[p] # "accepted" /\ ~Leaf(p) /\ CountsPruned
                          THEN Skips[template][p] ELSE 0)

\* A request that could not be submitted: dfs counts it at every level.
PruneUnsent(p) ==
  skipped' = skipped + (IF (strategy = "dfs" \/ ~Leaf(p)) /\ CountsPruned
                          THEN Skips[template][p] ELSE 0)

Descends(p) == ~cancelled /\ status[p] = "accepted" /\ ~Leaf(p)

\* The leaves below a path, visited at once by the eager policy.
LeavesBelow(p) == {q \in Paths : Leaf(q) /\ IsPrefix(p, q)}

PopPending == Frame(Top.todo, Top.pc, Top.hand, Tail(Top.pend), Top.later)

MainOnly == UNCHANGED <<asked, cancelled, pool, tried>>
PriorityIdle == UNCHANGED <<deque, inFlight, waiting, completed>>

\* The consumer loop takes the next call of the innermost level.
TakePending ==
  /\ main = "run" /\ stack # <<>> /\ cur = NoPath /\ Top.pend # <<>>
  /\ FrameTo(Inner, PopPending)
  /\ LET call == Head(Top.pend) IN
     \/ /\ call.err /\ PruneUnsent(call.path) /\ UNCHANGED cur
     \/ /\ ~call.err /\ cur' = call.path /\ UNCHANGED skipped
  /\ UNCHANGED <<main, next, yielded, burst>> /\ MainOnly /\ PriorityIdle

\* runEager delivers whatever it gets from the reply channel.
ConsumeEager ==
  /\ Eager /\ main = "run" /\ cur # NoPath /\ Answered(cur)
  /\ yielded' = [yielded EXCEPT ![cur] = @ + (IF Deliverable(cur) THEN 1 ELSE 0)]
  /\ cur' = NoPath
  /\ UNCHANGED <<main, stack, next, skipped, burst>> /\ MainOnly /\ PriorityIdle

\* ... or sees the cancellation, and waits for its producer before it returns.
QuitEager ==
  /\ Eager /\ main = "run" /\ cur # NoPath /\ cancelled
  /\ main' = "quit" /\ cur' = NoPath
  /\ UNCHANGED <<stack, next, yielded, skipped, burst>> /\ MainOnly /\ PriorityIdle

ProducerJoined == Top.pc = "closed"

\* Slip: runEager returns without waiting for its producer.
LeaveEagerAtOnce ==
  /\ main = "quit"
  /\ main' = "returned"
  /\ UNCHANGED <<stack, cur, next, yielded, skipped, burst>> /\ MainOnly /\ PriorityIdle

LeaveEager ==
  /\ main = "quit" /\ ProducerJoined
  /\ main' = "returned" /\ stack' = <<>>
  /\ UNCHANGED <<cur, next, yielded, skipped, burst>> /\ MainOnly /\ PriorityIdle

\* dfsVisit, and the loop of a depth of runBFS.
Consume ==
  /\ strategy \in {"dfs", "bfs"} /\ main = "run" /\ cur # NoPath /\ Answered(cur)
  /\ Deliver(cur) /\ PruneRejected(cur)
  /\ LET p == cur IN
     \/ /\ ~Descends(p) /\ UNCHANGED <<stack, next>>
     \/ /\ Descends(p) /\ strategy = "dfs"
        /\ stack' = Append(stack, Evaluate(Below[template][p], <<>>))
        /\ UNCHANGED next
     \/ /\ Descends(p) /\ strategy = "bfs"
        /\ next' = Append(next, p)
        /\ UNCHANGED stack
  /\ cur' = NoPath
  /\ UNCHANGED <<main, burst>> /\ MainOnly /\ PriorityIdle

\* adaptVisit chooses a policy for what is below an accepted value.
ConsumeAdaptive ==
  /\ strategy = "adaptive" /\ main = "run" /\ cur # NoPath /\ Answered(cur)
  /\ Deliver(cur) /\ PruneRejected(cur)
  /\ LET p == cur IN
     \/ /\ ~Descends(p) /\ UNCHANGED <<main, stack, burst>>
     \/ /\ Descends(p)
        /\ \E o \in Orders(Below[template][p]) : stack' = Append(stack, AdaptFrame(o))
        /\ UNCHANGED <<main, burst>>
     \/ /\ Descends(p)
        /\ burst' = [q \in LeavesBelow(p) |-> "submit"]
        /\ main' = "join"
        /\ UNCHANGED stack
  /\ cur' = NoPath
  /\ UNCHANGED next /\ MainOnly /\ PriorityIdle

Drained == Top.pc = "closed" /\ Top.pend = <<>>

\* The call is over: the next batch, the next depth of BFS, or back to the caller.
NextBatch ==
  /\ main = "run" /\ stack # <<>> /\ cur = NoPath /\ Drained
  /\ \/ /\ Top.later # <<>> /\ ~(strategy = "adaptive" /\ cancelled)
        /\ stack' = [stack EXCEPT ![Inner] = Evaluate(Head(Top.later), Tail(Top.later))]
        /\ UNCHANGED next
     \/ /\ Top.later = <<>> /\ next # <<>>
        /\ LET batches == LevelBatches(next, Len(Head(next)) + 1) IN
           stack' = <<Evaluate(Head(batches), Tail(batches))>>
        /\ next' = <<>>
     \/ /\ \/ Top.later = <<>> /\ next = <<>>
           \/ strategy = "adaptive" /\ cancelled
        /\ stack' = Front(stack)
        /\ UNCHANGED next
  /\ UNCHANGED <<main, cur, yielded, skipped, burst>> /\ MainOnly /\ PriorityIdle

-----------------------------------------------------------------------------
(* The goroutines of an eager visit call Execute, each for one candidate.   *)
BurstOnly == UNCHANGED <<asked, cancelled, tried, skipped, main, stack, cur, next>>

BurstEnds(p) == burst' = Restrict(burst, DOMAIN burst \ {p})

BurstSubmit(p) ==
  /\ burst[p] = "submit" /\ Enqueue(p)
  /\ burst' = [burst EXCEPT ![p] = "await"]
  /\ UNCHANGED yielded /\ BurstOnly /\ PriorityIdle

\* ctx.Done() in ExecuteAsync, or while the reply is awaited.
BurstCancelled(p) ==
  /\ cancelled /\ BurstEnds(p)
  /\ UNCHANGED <<pool, yielded>> /\ BurstOnly /\ PriorityIdle

BurstReply(p) ==
  /\ burst[p] = "await" /\ Answered(p) /\ BurstEnds(p)
  /\ yielded' = [yielded EXCEPT ![p] = @ + (IF Deliverable(p) THEN 1 ELSE 0)]
  /\ UNCHANGED pool /\ BurstOnly /\ PriorityIdle

Burst(p) == BurstSubmit(p) \/ BurstCancelled(p) \/ BurstReply(p)

\* Slip: the eager visit does not wait for its goroutines.
BurstNotJoined ==
  /\ main = "join"
  /\ main' = "run"
  /\ UNCHANGED <<stack, cur, next, yielded, skipped, burst>> /\ MainOnly /\ PriorityIdle

BurstJoined ==
  /\ main = "join" /\ DOMAIN burst = {}
  /\ main' = "run"
  /\ UNCHANGED <<stack, cur, next, yielded, skipped, burst>> /\ MainOnly /\ PriorityIdle

-----------------------------------------------------------------------------
(* runPriority.  It submits from the goroutine of Run itself.               *)
Priority == strategy = "priority"
VisitIdle == UNCHANGED <<stack, cur, next, burst>>
CanDispatch == deque # <<>> /\ inFlight < Threads

PriorityQuit ==
  /\ Priority /\ main = "run"
  /\ \/ cancelled /\ (CanDispatch \/ inFlight > 0)
     \/ deque = <<>> /\ inFlight = 0
  /\ main' = "returned"
  /\ UNCHANGED <<yielded, skipped>> /\ MainOnly /\ PriorityIdle /\ VisitIdle

StartDispatch ==
  /\ Priority /\ main = "run" /\ CanDispatch /\ ~cancelled
  /\ main' = "dispatch"
  /\ UNCHANGED <<yielded, skipped>> /\ MainOnly /\ PriorityIdle /\ VisitIdle

Dispatch ==
  /\ main = "dispatch" /\ Enqueue(Head(deque))
  /\ main' = "run" /\ deque' = Tail(deque)
  /\ inFlight' = inFlight + 1 /\ waiting' = waiting \cup {Head(deque)}
  /\ UNCHANGED <<asked, cancelled, tried, skipped, yielded, completed>> /\ VisitIdle

DispatchCancelled ==
  /\ main = "dispatch" /\ cancelled
  /\ main' = "run" /\ deque' = Tail(deque)
  /\ skipped' = skipped + Skips[template][Head(deque)]
  /\ UNCHANGED <<yielded, inFlight, waiting, completed>> /\ MainOnly /\ VisitIdle

\* The goroutine of a task passes the reply on, or ends with the context.
Complete(p) ==
  /\ p \in waiting /\ Answered(p)
  /\ waiting' = waiting \ {p} /\ completed' = Append(completed, p)
  /\ UNCHANGED <<main, deque, inFlight, yielded, skipped>> /\ MainOnly /\ VisitIdle

Abandon(p) ==
  /\ p \in waiting /\ cancelled
  /\ waiting' = waiting \ {p}
  /\ UNCHANGED <<main, deque, inFlight, completed, yielded, skipped>> /\ MainOnly /\ VisitIdle

\* Slip: moving the variants to the front forgets the other tasks.
RequeuedOnly(p, tasks) ==
  LET all == IF Leaf(p) THEN tasks ELSE Below[template][p] \o tasks
      variants == {t \in ToSet(all) : Len(t) = 1 /\ t[1].word = Last(p).word}
  IN IF HasExtensions(Plans[template]) /\ Last(p).word # NoWord THEN Within(all, variants) ELSE all

\* Children go to the front; then the other variants of an accepted word.
Requeued(p, tasks) ==
  LET all == IF Leaf(p) THEN tasks ELSE Below[template][p] \o tasks
      variants == {t \in ToSet(all) : Len(t) = 1 /\ t[1].word = Last(p).word}
  IN IF HasExtensions(Plans[template]) /\ Last(p).word # NoWord
       THEN Within(all, variants) \o Within(all, ToSet(all) \ variants) ELSE all

TakeCompleted ==
  /\ Priority /\ main = "run" /\ ~CanDispatch /\ completed # <<>>
  /\ LET p == Head(completed) IN
     /\ Deliver(p) /\ PruneRejected(p)
     /\ deque' = IF ~cancelled /\ status[p] = "accepted" THEN Requeued(p, deque) ELSE deque
  /\ completed' = Tail(completed) /\ inFlight' = inFlight - 1
  /\ UNCHANGED <<main, waiting>> /\ MainOnly /\ VisitIdle

-----------------------------------------------------------------------------
\* The traversal is over; Run returns, and its deferred Close closes jobsChan.
Return ==
  /\ ~Priority /\ main = "run" /\ stack = <<>>
  /\ main' = "returned"
  /\ UNCHANGED <<stack, cur, next, yielded, skipped, burst>> /\ MainOnly /\ PriorityIdle

Close ==
  /\ main = "returned"
  /\ main' = "closed" /\ closed' = TRUE
  /\ UNCHANGED <<asked, cancelled, jobs, status, tries, tried, skipped, yielded, stack, cur, next,
                 deque, inFlight, waiting, completed, burst>>

\* The workers end when jobsChan is closed and empty.
Finished == main = "closed" /\ jobs = <<>> /\ Busy = {} /\ waiting = {}

Stay == Finished /\ UNCHANGED vars

Main == \/ TakePending
        \/ ConsumeEager
        \/ QuitEager
        \/ LeaveEager
        \/ Consume
        \/ ConsumeAdaptive
        \/ NextBatch
        \/ BurstJoined
        \/ PriorityQuit
        \/ StartDispatch
        \/ Dispatch
        \/ DispatchCancelled
        \/ TakeCompleted
        \/ Return
        \/ Close

Next ==
  \/ Cancel
  \/ Receive
  \/ \E p \in Paths : Work(p)
  \/ \E k \in DOMAIN stack : Submitter(k)
  \/ \E p \in DOMAIN burst : Burst(p)
  \/ \E p \in waiting : Complete(p) \/ Abandon(p)
  \/ Main
  \/ Stay

\* Go schedules every goroutine; the client's timeout ends every request.
Fairness ==
  /\ WF_vars(Receive) /\ WF_vars(Main)
  /\ WF_vars(\E p \in Paths : Work(p))
  /\ WF_vars(\E k \in DOMAIN stack : Submitter(k))
  /\ WF_vars(\E p \in DOMAIN burst : Burst(p))
  /\ WF_vars(\E p \in waiting : Complete(p) \/ Abandon(p))

Spec == Init /\ [][Next]_vars /\ Fairness

-----------------------------------------------------------------------------
(* Type invariant: counters, states and channel capacities of a run         *)
(* (src/internal/fuzz/strategy.go, traversal.go).                           *)
TypeOK ==
  /\ cancelled \in BOOLEAN /\ closed \in BOOLEAN
  /\ jobs \in Seq(Paths) /\ Len(jobs) <= JobBuffer
  /\ status \in [Paths -> {"none", "queued", "ready", "sent"} \cup Answers]
  /\ tries \in [Paths -> 0 .. MaxRetries]
  /\ yielded \in [Paths -> 0 .. 1]
  /\ tried \in Nat /\ skipped \in Nat
  /\ main \in {"run", "join", "quit", "dispatch", "returned", "closed"}
  /\ cur \in Paths \cup {NoPath}
  /\ \A k \in DOMAIN stack :
       /\ stack[k].pc \in {"check", "submit", "publish", "closed"}
       /\ Len(stack[k].pend) <= (IF Eager THEN JobBuffer ELSE PendingBuffer)
  /\ inFlight \in 0 .. Threads /\ waiting \subseteq Paths
  /\ Len(completed) <= Threads * 4

(* Close comes after every sender: once jobsChan is closed no goroutine of  *)
(* a level, of an eager visit or of runPriority can reach its send, on      *)
(* every early return of every strategy (strategy.go:29-31, 133-139).       *)
Senders == {k \in DOMAIN stack : stack[k].pc # "closed"}
CloseIsLast ==
  closed => /\ Senders = {} /\ main = "closed"
            /\ \A p \in DOMAIN burst : burst[p] # "submit"

(* Completed = Tried + Skipped reaches TotalCandidates in an uncancelled    *)
(* run, whatever is rejected, fails or cannot be sent (traversal.go:76-87,  *)
(* worker.go:142-189; src/NEWS/v0.5.6.md:8), and never exceeds it.          *)
CompletedIsTotal ==
  main = "closed" /\ ~cancelled => tried + skipped = Estimate

BFSPasses == strategy = "bfs" /\ Space[template].count > 1 /\ Space[template].last > 1

Accounting ==
  /\ tried + skipped <= Estimate
  /\ ~BFSPasses => CompletedIsTotal

(* A probe never loses the placeholder of its own level: "we never truncate *)
(* into or before current/earlier level placeholders" (traversal.go:154-155) *)
(* so the probes of two values, from whose answers the search goes deeper or *)
(* not, are two different requests.                                          *)
Requests == [p \in DOMAIN Plans |->
               [path \in Space[p].paths |-> BuildJob(Plans[p], path)]]

ProbesDiffer ==
  \A p, q \in Paths :
    p # q /\ Len(p) = Len(q) /\ tries[p] > 0 /\ tries[q] > 0 =>
      Requests[template][p] # Requests[template][q]

(* Run returns and the workers end, with or without a cancellation, if the  *)
(* server answers or the client times out (strategy.go:327-398).            *)
RunEnds == <>Finished

-----------------------------------------------------------------------------
(* The run implements the abstract search of Search.tla.                    *)
Ancestors == [p \in DOMAIN Plans |->
                [path \in Space[p].paths |-> {q \in Space[p].paths : IsStrictPrefix(q, path)}]]
Candidates == [p \in DOMAIN Plans |-> ToSet(Space[p].candidates)]

S == INSTANCE Search WITH
       above <- Ancestors[template],
       goals <- Candidates[template],
       requested <- {p \in Paths : status[p] # "none"},
       answer <- [p \in Paths |-> IF Answered(p) THEN status[p] ELSE "none"],
       delivered <- {p \in Paths : yielded[p] > 0},
       stopped <- cancelled,
       over <- main \in {"returned", "closed"}

ImplementsSearch == S!Spec
=============================================================================
