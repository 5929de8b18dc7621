----------------------------- MODULE Recursion -----------------------------
(***************************************************************************)
(* The recursive scanner: recursion.Manager.Run drives the worker pool of  *)
(* engine.Start through two bounded channels.  The manager goroutine owns  *)
(* the frontier of generators and the visited set; workers fetch a URL and *)
(* report one result.  A result that answers as a directory puts a new     *)
(* generator (the wordlist under that directory) on the frontier.          *)
(*                                                                         *)
(* One action is one step of a goroutine between two points where another  *)
(* goroutine, or a cancellation of the scan context, can be observed.  A   *)
(* URL stands for its normalised form; what a server answers is data,      *)
(* chosen from Answers.  Display filters, statistics and the wildcard      *)
(* detector (off in every command) are left out.                           *)
(***************************************************************************)
EXTENDS Integers, Sequences, FiniteSets

CONSTANTS Url,          \* normalised URLs
          Worker,       \* worker goroutines; both channels hold that many
          NoUrl,        \* an absent redirect target
          NoJob,        \* no job in hand
          NoGen,        \* no active generator
          NoResult,     \* no result being handled
          Seeds,        \* the seed URLs, in order
          Discovered,   \* URLs of adaptive discovery (robots, sitemap), in order
          Candidates,   \* Candidates[strategy][u]: the word variants tried under u
          Answers,      \* Answers[u]: what the server may answer for u
          Configs,      \* the configurations a scan may be started with
          MaxDepth      \* --max-depth

Strategy == {"bfs", "dfs", "priority"}

(***************************************************************************)
(* accepted: passed the traversal filter; recurse: the status matches      *)
(* --recurse-on; redirected: the client followed a redirect, and at is     *)
(* where it ended; target: the Location of a 3xx the client did not        *)
(* follow, body: that 3xx had a body.  links and tech are the same-host    *)
(* links and the framework paths the response reveals.                     *)
(***************************************************************************)
Answer == [accepted: BOOLEAN, recurse: BOOLEAN, redirected: BOOLEAN, at: Url,
           target: Url \cup {NoUrl}, body: BOOLEAN,
           links: SUBSET Url, tech: SUBSET Url]

Config == [strategy: Strategy, onlyRedirects: BOOLEAN]

ASSUME WorkerAssumption == IsFiniteSet(Worker) /\ Worker # {}
ASSUME DepthAssumption == MaxDepth \in Nat
ASSUME SiteAssumption ==
    /\ Seeds \in Seq(Url)
    /\ Discovered \in Seq(Url)
    /\ \A i, j \in 1..Len(Seeds \o Discovered) :
          (Seeds \o Discovered)[i] = (Seeds \o Discovered)[j] => i = j
    /\ Candidates \in [Strategy -> [Url -> Seq(SUBSET Url)]]
    /\ Answers \in [Url -> SUBSET Answer]
    /\ \A u \in Url : Answers[u] # {}
    /\ Configs \subseteq Config
ASSUME AbsentAssumption ==
    /\ NoUrl \notin Url
    /\ NoJob \notin [url: Url, depth: Nat]
    /\ NoGen \notin [dir: BOOLEAN, depth: Nat, buffer: SUBSET Url, words: Seq(SUBSET Url)]

Job == [url: Url, depth: Nat]

Generator == [dir: BOOLEAN, depth: Nat, buffer: SUBSET Url, words: Seq(SUBSET Url)]

Result == [url: Url, depth: Nat, accepted: BOOLEAN, recurse: BOOLEAN,
           target: Url \cup {NoUrl}, body: BOOLEAN, links: SUBSET Url, tech: SUBSET Url]

VARIABLES
    conf,        \* the configuration of this scan
    cancelled,   \* the scan context is done
    pc,          \* where the manager goroutine is
    mode,        \* "run", or why it drains: "abort" (cancelled), "finish" (no work left)
    exit,        \* how Run returned
    frontier,    \* pending generators
    active,      \* the generator jobs are taken from
    nextJob,     \* the job waiting for room in the jobs channel
    visited,     \* URLs claimed by some generator
    pending,     \* Run's count of unanswered jobs
    result,      \* the result being handled
    wordlist,    \* the wordlist cache: "unread", "ready" or "broken"
    jobs, jobsClosed, results,   \* the two channels
    worker,      \* what each worker is doing, and the job it holds
    sent,        \* history: URLs dispatched to the pool
    assumed,     \* history: redirect targets taken as already fetched
    expanded     \* history: directories whose wordlist was put on the frontier

mgrVars == <<pc, mode, exit, frontier, active, nextJob, visited, pending, result, wordlist>>
chanVars == <<jobs, jobsClosed, results>>
histVars == <<sent, assumed, expanded>>
vars == <<conf, cancelled, mgrVars, chanVars, worker, histVars>>

Capacity == Cardinality(Worker)

\* The pool closes the results channel once every worker has returned.
ResultsClosed == \A w \in Worker : worker[w].pc = "exited"

---------------------------------------------------------------------------
(* Generators and the frontier. *)

Slice(urls, depth) == [dir |-> FALSE, depth |-> depth, buffer |-> urls, words |-> <<>>]

Directory(u, depth) ==
    [dir |-> TRUE, depth |-> depth, buffer |-> {}, words |-> Candidates[conf.strategy][u]]

PushFront(g, q) == <<g>> \o q

PushFrontUnlessEmpty(urls, depth, q) ==
    IF urls = {} THEN q ELSE PushFront(Slice(urls, depth), q)

\* The unvisited variants of g's i-th remaining word.
Fresh(g, i) == g.words[i] \ visited

Init ==
    /\ conf \in Configs
    /\ cancelled = FALSE
    /\ pc = "loop" /\ mode = "run" /\ exit = "none"
    /\ frontier = [i \in 1..Len(Discovered) |->
                      Slice({Discovered[Len(Discovered) - i + 1]}, 0)]
                  \o [i \in 1..Len(Seeds) |-> Slice({Seeds[i]}, 0)]
    /\ active = NoGen /\ nextJob = NoJob /\ result = NoResult
    /\ visited = {(Seeds \o Discovered)[i] : i \in 1..Len(Seeds \o Discovered)}
    /\ pending = 0 /\ wordlist = "unread"
    /\ jobs = <<>> /\ jobsClosed = FALSE /\ results = <<>>
    /\ worker = [w \in Worker |-> [pc |-> "idle", job |-> NoJob]]
    /\ sent = {} /\ assumed = {} /\ expanded = {}

---------------------------------------------------------------------------
(* The manager goroutine. *)

\* Slip: the loop forgets the jobs in flight.
HasWorkQueued == frontier # <<>> \/ active # NoGen \/ nextJob # NoJob

HasWork == frontier # <<>> \/ active # NoGen \/ nextJob # NoJob \/ pending > 0

\* Slip: the drain loop is entered with the jobs channel open.
StartDrainOpen(why) ==
    /\ pc' = "drain" /\ mode' = why /\ UNCHANGED jobsClosed

\* closeJobs, then the drain loop: results are consumed until the pool is gone.
StartDrain(why) ==
    /\ pc' = "drain" /\ mode' = why /\ jobsClosed' = TRUE

\* Run returns; the deferred closeJobs closes the jobs channel on every path.
Return(how) ==
    /\ pc' = "returned" /\ exit' = how /\ jobsClosed' = TRUE

LoopHead ==
    /\ pc = "loop"
    /\ \/ /\ ~HasWork
          /\ StartDrain("finish")
          /\ UNCHANGED <<frontier, active>>
       \/ /\ HasWork /\ cancelled
          /\ StartDrain("abort")
          /\ UNCHANGED <<frontier, active>>
       \/ /\ HasWork /\ ~cancelled
          /\ IF active = NoGen /\ frontier # <<>>
             THEN active' = Head(frontier) /\ frontier' = Tail(frontier)
             ELSE UNCHANGED <<active, frontier>>
          /\ pc' = IF nextJob = NoJob /\ active' # NoGen THEN "next" ELSE "select"
          /\ UNCHANGED <<mode, jobsClosed>>
    /\ UNCHANGED <<conf, cancelled, exit, nextJob, visited, pending, result, wordlist,
                   jobs, results, worker, histVars>>

\* Generator.Next: hand out a buffered job; a directory generator refills its
\* buffer with the unvisited variants of its next word, and stops at a
\* cancellation.
NextBuffered ==
    /\ ~(active.dir /\ cancelled)
    /\ \E u \in active.buffer :
          /\ nextJob' = [url |-> u, depth |-> active.depth]
          /\ active' = [active EXCEPT !.buffer = @ \ {u}]
    /\ pc' = "select"
    /\ UNCHANGED visited

NextWord ==
    /\ ~(active.dir /\ cancelled)
    /\ active.buffer = {}
    /\ \E i \in 1..Len(active.words) : \E u \in Fresh(active, i) :
          /\ \A j \in 1..(i - 1) : Fresh(active, j) = {}
          /\ visited' = visited \cup Fresh(active, i)
          /\ nextJob' = [url |-> u, depth |-> active.depth]
          /\ active' = [active EXCEPT !.buffer = Fresh(active, i) \ {u},
                                      !.words = SubSeq(@, i + 1, Len(@))]
    /\ pc' = "select"

NextExhausted ==
    /\ \/ active.dir /\ cancelled
       \/ active.buffer = {} /\ \A i \in 1..Len(active.words) : Fresh(active, i) = {}
    /\ active' = NoGen
    /\ pc' = "loop"
    /\ UNCHANGED <<nextJob, visited>>

NextJob ==
    /\ pc = "next"
    /\ NextBuffered \/ NextWord \/ NextExhausted
    /\ UNCHANGED <<conf, cancelled, mode, exit, frontier, pending, result, wordlist,
                   chanVars, worker, histVars>>

\* The select of the main loop; without a job in hand it has no send case.
SelectDone ==
    /\ pc = "select" /\ cancelled
    /\ StartDrain("abort")
    /\ UNCHANGED <<conf, cancelled, exit, frontier, active, nextJob, visited, pending,
                   result, wordlist, jobs, results, worker, histVars>>

SendJob ==
    /\ pc = "select"
    /\ nextJob # NoJob /\ Len(jobs) < Capacity
    /\ jobs' = Append(jobs, nextJob)
    /\ sent' = sent \cup {nextJob.url}
    /\ pending' = pending + 1
    /\ nextJob' = NoJob
    /\ pc' = "loop"
    /\ UNCHANGED <<conf, cancelled, mode, exit, frontier, active, visited, result,
                   wordlist, jobsClosed, results, worker, assumed, expanded>>

ReceiveResult ==
    /\ pc = "select" /\ results # <<>>
    /\ result' = Head(results) /\ results' = Tail(results)
    /\ pending' = pending - 1
    /\ pc' = "handle"
    /\ UNCHANGED <<conf, cancelled, mode, exit, frontier, active, nextJob, visited,
                   wordlist, jobs, jobsClosed, worker, histVars>>

ReceiveClosed ==
    /\ pc = "select" /\ results = <<>> /\ ResultsClosed
    /\ Return("closed")
    /\ UNCHANGED <<conf, cancelled, mode, frontier, active, nextJob, visited, pending,
                   result, wordlist, jobs, results, worker, histVars>>

\* Draining handles every result the workers still deliver, without counting them.
DrainResult ==
    /\ pc = "drain" /\ results # <<>>
    /\ result' = Head(results) /\ results' = Tail(results)
    /\ pc' = "handle"
    /\ UNCHANGED <<conf, cancelled, mode, exit, frontier, active, nextJob, visited,
                   pending, wordlist, jobs, jobsClosed, worker, histVars>>

DrainEnd ==
    /\ pc = "drain" /\ results = <<>> /\ ResultsClosed
    /\ Return(IF mode = "finish" THEN "done" ELSE "cancelled")
    /\ UNCHANGED <<conf, cancelled, mode, frontier, active, nextJob, visited, pending,
                   result, wordlist, jobs, results, worker, histVars>>

---------------------------------------------------------------------------
(***************************************************************************)
(* handleResult, in the three stretches its context checks cut it into:    *)
(* up to the redirect rules, the links and framework paths, the directory. *)
(* The abort drain passes context.Background(), which is never done.       *)
(***************************************************************************)
CtxErr == cancelled /\ mode # "abort"

Back == pc' = (IF mode = "run" THEN "loop" ELSE "drain") /\ result' = NoResult

\* Slip: an empty RedirectURL is followed too.
AlwaysRedirect(r) == TRUE

IsRedirect(r) == r.target # NoUrl
Parent(r) == IF IsRedirect(r) THEN r.target ELSE r.url

\* Slip: the depth limit is off by one.
PastLimit(r) == r.depth > MaxDepth

AtLimit(r) == r.depth >= MaxDepth

\* A rejected result, or one whose status is not in --recurse-on, is a leaf; so
\* is a redirect at the depth limit, to a visited URL, or seen after cancellation.
HandleLeaf ==
    /\ \/ ~result.accepted
       \/ ~result.recurse
       \/ IsRedirect(result) /\ (CtxErr \/ AtLimit(result))
       \/ IsRedirect(result) /\ result.target # result.url /\ result.target \in visited
    /\ Back
    /\ UNCHANGED <<frontier, visited, assumed>>

\* Slip: a redirect is followed without a look at the visited set.
FollowsAgain(r) ==
    /\ r.accepted /\ r.recurse /\ IsRedirect(r)
    /\ ~CtxErr /\ ~AtLimit(r) /\ r.target # r.url

FollowsTo(r) ==
    /\ r.accepted /\ r.recurse /\ IsRedirect(r)
    /\ ~CtxErr /\ ~AtLimit(r)
    /\ r.target # r.url /\ r.target \notin visited

\* A redirect without a body puts its target on the frontier, at the same depth.
HandleRedirect ==
    /\ FollowsTo(result) /\ ~result.body
    /\ visited' = visited \cup {result.target}
    /\ frontier' = Append(frontier, Slice({result.target}, result.depth))
    /\ Back
    /\ UNCHANGED assumed

\* A redirect with a body is taken as already followed by the client.
HandleFollowed ==
    /\ FollowsTo(result) /\ result.body
    /\ visited' = visited \cup {result.target}
    /\ assumed' = assumed \cup {result.target}
    /\ pc' = "expand"
    /\ UNCHANGED <<frontier, result>>

HandleDirectory ==
    /\ result.accepted /\ result.recurse
    /\ ~IsRedirect(result)
          \/ (result.target = result.url /\ ~CtxErr /\ ~AtLimit(result))
    /\ pc' = "expand"
    /\ UNCHANGED <<frontier, visited, assumed, result>>

Handle ==
    /\ pc = "handle"
    /\ HandleLeaf \/ HandleRedirect \/ HandleFollowed \/ HandleDirectory
    /\ UNCHANGED <<conf, cancelled, mode, exit, active, nextJob, pending, wordlist,
                   chanVars, worker, sent, expanded>>

\* Framework paths, then links, go to the front of the frontier one level down.
Expand ==
    /\ pc = "expand"
    /\ IF CtxErr \/ AtLimit(result)
       THEN Back /\ UNCHANGED <<frontier, visited>>
       ELSE LET tech  == result.tech \ visited
                links == result.links \ (visited \cup tech)
            IN /\ visited' = visited \cup tech \cup links
               /\ frontier' = PushFrontUnlessEmpty(links, result.depth + 1,
                                 PushFrontUnlessEmpty(tech, result.depth + 1, frontier))
               /\ pc' = "open"
               /\ UNCHANGED result
    /\ UNCHANGED <<conf, cancelled, mode, exit, active, nextJob, pending, wordlist,
                   chanVars, worker, histVars>>

\* SliceReader.Words: refused under a done context; otherwise read once, and the
\* outcome of that one read is kept.
Loads == ~CtxErr /\ wordlist # "broken" /\ wordlist' = "ready"
LoadFails ==
    \/ CtxErr /\ UNCHANGED wordlist
    \/ ~CtxErr /\ wordlist # "ready" /\ wordlist' = "broken"

\* Slip: the active generator is replaced, not put back.
SuspendNone == frontier

Suspend == IF active = NoGen THEN frontier ELSE PushFront(active, frontier)

\* Depth-first: the new directory is taken up at once, the active generator waits
\* in front.  Breadth-first: it goes to the back.
OpenDirectory ==
    /\ pc = "open" /\ Loads
    /\ LET g == Directory(Parent(result), result.depth + 1)
       IN IF conf.strategy = "bfs"
          THEN frontier' = Append(frontier, g) /\ UNCHANGED active
          ELSE frontier' = Suspend /\ active' = g
    /\ expanded' = expanded \cup {Parent(result)}
    /\ Back
    /\ UNCHANGED <<conf, cancelled, mode, exit, nextJob, visited, pending, chanVars,
                   worker, sent, assumed>>

\* An error of handleResult makes the main loop return at once; drain loops go on.
OpenFails ==
    /\ pc = "open" /\ LoadFails
    /\ IF mode = "run"
       THEN Return("error") /\ UNCHANGED result
       ELSE Back /\ UNCHANGED <<exit, jobsClosed>>
    /\ UNCHANGED <<conf, cancelled, mode, frontier, active, nextJob, visited, pending,
                   jobs, results, worker, histVars>>

Manager ==
    \/ LoopHead \/ NextJob
    \/ SelectDone \/ SendJob \/ ReceiveResult \/ ReceiveClosed
    \/ DrainResult \/ DrainEnd
    \/ Handle \/ Expand \/ OpenDirectory \/ OpenFails

---------------------------------------------------------------------------
(* The workers of engine.Start. *)

Set(w, where, job) == worker' = [worker EXCEPT ![w] = [pc |-> where, job |-> job]]

Take(w) ==
    /\ worker[w].pc = "idle" /\ jobs # <<>>
    /\ Set(w, "got", Head(jobs))
    /\ jobs' = Tail(jobs)
    /\ UNCHANGED <<jobsClosed, results>>

JobsEnd(w) ==
    /\ worker[w].pc = "idle" /\ jobs = <<>> /\ jobsClosed
    /\ Set(w, "exited", NoJob)
    /\ UNCHANGED chanVars

\* Slip: a worker gives a job up without a cancellation.
DropAnyTime(w) ==
    /\ worker[w].pc = "got"
    /\ Set(w, "idle", NoJob)
    /\ UNCHANGED chanVars

\* A cancellation seen with a job in hand loses the job: the worker returns (its
\* own check, the rate limiter) or goes on to the next job (the checks in process).
Drop(w) ==
    /\ worker[w].pc = "got" /\ cancelled
    /\ \E where \in {"exited", "idle"} : Set(w, where, NoJob)
    /\ UNCHANGED chanVars

Request(w) ==
    /\ worker[w].pc = "got" /\ ~cancelled
    /\ Set(w, "busy", worker[w].job)
    /\ UNCHANGED chanVars

\* With --only-redirects, below the root, a response that was not redirected is
\* reported as rejected before any other filter.
ResultOf(job, a) ==
    LET hidden == conf.onlyRedirects /\ ~a.redirected /\ job.depth # 0
    IN [url |-> IF a.redirected /\ ~hidden THEN a.at ELSE job.url,
        depth |-> job.depth,
        accepted |-> a.accepted /\ ~hidden, recurse |-> a.recurse,
        target |-> IF a.redirected THEN NoUrl ELSE a.target,
        body |-> a.body, links |-> a.links, tech |-> a.tech]

\* The request is answered and its result sent; the delay between requests ends
\* early at a cancellation, and the worker with it.
Respond(w) ==
    /\ worker[w].pc = "busy" /\ Len(results) < Capacity
    /\ \E a \in Answers[worker[w].job.url] :
          results' = Append(results, ResultOf(worker[w].job, a))
    /\ \E where \in {"idle", "exited"} :
          /\ where = "exited" => cancelled
          /\ Set(w, where, NoJob)
    /\ UNCHANGED <<jobs, jobsClosed>>

Work(w) ==
    /\ Take(w) \/ JobsEnd(w) \/ Drop(w) \/ Request(w) \/ Respond(w)
    /\ UNCHANGED <<conf, cancelled, mgrVars, histVars>>

\* The user's stop, a signal or a time limit cancels the scan context.
Cancel ==
    /\ ~cancelled
    /\ cancelled' = TRUE
    /\ UNCHANGED <<conf, mgrVars, chanVars, worker, histVars>>

\* Run has returned and nothing is left to do for the caller.
Returned == pc = "returned" /\ UNCHANGED vars

Next == Manager \/ (\E w \in Worker : Work(w)) \/ Cancel \/ Returned

Spec == Init /\ [][Next]_vars

FairSpec == Spec /\ WF_vars(Manager) /\ \A w \in Worker : WF_vars(Work(w))

---------------------------------------------------------------------------
(* Properties. *)

TypeOK ==
    /\ conf \in Config /\ cancelled \in BOOLEAN
    /\ pc \in {"loop", "next", "select", "handle", "expand", "open", "drain", "returned"}
    /\ mode \in {"run", "abort", "finish"}
    /\ exit \in {"none", "done", "cancelled", "closed", "error"}
    /\ frontier \in Seq(Generator)
    /\ active \in Generator \cup {NoGen}
    /\ nextJob \in Job \cup {NoJob}
    /\ visited \subseteq Url /\ sent \subseteq Url
    /\ assumed \subseteq Url /\ expanded \subseteq Url
    /\ pending \in Nat
    /\ result \in Result \cup {NoResult}
    /\ wordlist \in {"unread", "ready", "broken"}
    /\ jobs \in Seq(Job) /\ jobsClosed \in BOOLEAN /\ results \in Seq(Result)
    /\ worker \in [Worker -> [pc: {"idle", "got", "busy", "exited"}, job: Job \cup {NoJob}]]

Holding == {w \in Worker : worker[w].pc \in {"got", "busy"}}
InFlight == Len(jobs) + Cardinality(Holding) + Len(results)

\* While Run loops, pending counts the jobs between the send and the receive:
\* exactly, until a cancellation lets workers drop jobs.
Accounting ==
    mode = "run" => /\ pending >= InFlight
                    /\ ~cancelled => pending = InFlight

Held(u) == nextJob # NoJob /\ nextJob.url = u

\* No URL is dispatched to the pool twice, whatever mixture of words, links,
\* redirects and framework paths discovers it.
DispatchedOnce ==
    [][Len(jobs') > Len(jobs) => nextJob.url \notin sent]_vars

\* No request goes deeper than --max-depth, by any route.
WithinDepth ==
    /\ \A i \in 1..Len(jobs) : jobs[i].depth <= MaxDepth
    /\ \A w \in Worker : worker[w].pc = "busy" => worker[w].job.depth <= MaxDepth

\* Generator g still has word set s ahead of it.
Covers(g, s) == \E i \in 1..Len(g.words) : g.words[i] = s

Generators == {frontier[i] : i \in 1..Len(frontier)} \cup ({active} \ {NoGen})

\* A scan that is not cancelled loses no work: a claimed URL has been dispatched, is
\* waiting to be, or was taken as fetched; a word under an expanded directory has
\* had its variants claimed, or is still in a generator (manager.go:736-741).
NothingLost ==
    ~cancelled /\ exit # "error" =>
       /\ \A u \in visited :
             u \in sent \cup assumed \/ Held(u) \/ \E g \in Generators : u \in g.buffer
       /\ \A u \in expanded : \A i \in 1..Len(Candidates[conf.strategy][u]) :
             LET s == Candidates[conf.strategy][u][i]
             IN s \subseteq visited \/ \E g \in Generators : Covers(g, s)

\* When Run reports a complete scan there is nothing left anywhere: no generator,
\* no job, no result, and every worker has returned; likewise after an orderly stop.
CleanExit ==
    exit \in {"done", "cancelled"} =>
       /\ ResultsClosed /\ results = <<>> /\ jobsClosed
       /\ exit = "done" => frontier = <<>> /\ active = NoGen /\ nextJob = NoJob

\* handleResult says of a redirect to another path "enqueue the destination URL to be
\* scanned and return": after a complete scan every claimed URL has been requested.
RedirectsAreScanned ==
    exit = "done" /\ ~cancelled => visited \subseteq sent

\* engine.Start: the caller "must drain results to avoid blocking workers".  No worker
\* is left sending to a full channel that nobody reads any more.
NoWorkerStranded ==
    pc = "returned" => \A w \in Worker :
        worker[w].pc = "busy" => Len(results) < Capacity

\* Run always returns, whatever the server answers and whenever it is cancelled.
RunReturns == <>(pc = "returned")
=============================================================================
