-------------------------- MODULE RecursionProofs --------------------------
(***************************************************************************)
(* Proofs about Recursion for every site, number of workers and depth.     *)
(*                                                                         *)
(* Inv is inductive: the types, what the program counter says about the    *)
(* other variables (Control), and the job accounting, which is what keeps  *)
(* pending from going negative.  The second half of the module says which  *)
(* URLs a scan dispatches: none too deep, none twice, and none that it     *)
(* claimed is lost.                                                        *)
(***************************************************************************)
EXTENDS Recursion, SequenceTheorems, FiniteSetTheorems, TLAPS

Control ==
    /\ pc \in {"loop", "next", "select"} => mode = "run"
    /\ pc = "drain" => mode # "run"
    /\ pc \in {"handle", "expand", "open"} => result \in Result
    /\ pc = "next" => active \in Generator \ {NoGen} /\ nextJob = NoJob
    /\ \A w \in Worker : worker[w].pc \in {"got", "busy"} => worker[w].job \in Job

Inv == TypeOK /\ Control /\ Accounting

---------------------------------------------------------------------------
(* Lemmas about the operators on generators and the frontier. *)

\* A sequence grows by one element at either end, and shrinks at the front.
LEMMA SeqOps ==
    ASSUME NEW S, NEW q \in Seq(S), NEW e \in S
    PROVE  /\ Append(q, e) \in Seq(S)
           /\ Len(Append(q, e)) = Len(q) + 1
           /\ PushFront(e, q) \in Seq(S)
           /\ q # <<>> => /\ Head(q) \in S /\ Tail(q) \in Seq(S)
                          /\ Len(Tail(q)) = Len(q) - 1 /\ Len(q) > 0
<1>1. <<e>> \in Seq(S)
    OBVIOUS
<1>2. <<e>> \o q \in Seq(S)
    BY <1>1, ConcatProperties
<1> QED
    BY <1>2, HeadTailProperties, EmptySeq DEF PushFront

\* The generators that the manager builds are generators.
LEMMA MadeGenerators ==
    ASSUME SiteAssumption, conf \in Config
    PROVE  /\ \A urls \in SUBSET Url, d \in Nat : Slice(urls, d) \in Generator
           /\ \A u \in Url, d \in Nat : Directory(u, d) \in Generator
<1>1. \A urls \in SUBSET Url, d \in Nat : Slice(urls, d) \in Generator
    BY DEF Slice, Generator
<1>2. \A u \in Url : Candidates[conf.strategy][u] \in Seq(SUBSET Url)
    BY DEF SiteAssumption, Config
<1>3. \A u \in Url, d \in Nat : Directory(u, d) \in Generator
    BY <1>2 DEF Directory, Generator
<1> QED
    BY <1>1, <1>3

\* Links and framework paths keep the frontier a sequence of generators.
LEMMA PushUnlessEmptyType ==
    ASSUME SiteAssumption, conf \in Config,
           NEW q \in Seq(Generator), NEW urls \in SUBSET Url, NEW d \in Nat
    PROVE  PushFrontUnlessEmpty(urls, d, q) \in Seq(Generator)
<1>1. Slice(urls, d) \in Generator
    BY MadeGenerators
<1> QED
    BY <1>1, SeqOps DEF PushFrontUnlessEmpty

\* What is left of a generator's words after the i-th is a list of words.
LEMMA RemainingWords ==
    ASSUME NEW g \in Generator, NEW i \in 1..Len(g.words)
    PROVE  /\ g.words[i] \in SUBSET Url
           /\ SubSeq(g.words, i + 1, Len(g.words)) \in Seq(SUBSET Url)
<1>1. g.words \in Seq(SUBSET Url) /\ Len(g.words) \in Nat
    BY DEF Generator
<1>2. \A k \in 1..Len(g.words) : g.words[k] \in SUBSET Url
    BY <1>1, ElementOfSeq
<1>3. SubSeq(g.words, i + 1, Len(g.words)) \in Seq(SUBSET Url)
    BY <1>1, <1>2, SubSeqProperties
<1> QED
    BY <1>2, <1>3

---------------------------------------------------------------------------
(* Type correctness. *)

\* The jobs in flight are counted by a natural number.
LEMMA InFlightNat ==
    ASSUME TypeOK, WorkerAssumption
    PROVE  /\ IsFiniteSet(Holding) /\ Cardinality(Holding) \in Nat
           /\ Len(jobs) \in Nat /\ Len(results) \in Nat /\ InFlight \in Nat
           /\ InFlight >= Len(results)
<1>1. IsFiniteSet(Holding)
    BY FS_Subset DEF Holding, WorkerAssumption
<1>2. Cardinality(Holding) \in Nat
    BY <1>1, FS_CardinalityType
<1>3. Len(jobs) \in Nat /\ Len(results) \in Nat
    BY DEF TypeOK
<1> QED
    BY <1>1, <1>2, <1>3 DEF InFlight

\* The first generators: slices of one URL each, at depth 0.
DiscoveredSlices == [i \in 1..Len(Discovered) |->
                        Slice({Discovered[Len(Discovered) - i + 1]}, 0)]
SeedSlices == [i \in 1..Len(Seeds) |-> Slice({Seeds[i]}, 0)]

LEMMA InitFrontier ==
    ASSUME SiteAssumption, Init, NEW G, \A u \in Url : Slice({u}, 0) \in G
    PROVE  /\ frontier = DiscoveredSlices \o SeedSlices
           /\ DiscoveredSlices \in Seq(G) /\ SeedSlices \in Seq(G) /\ frontier \in Seq(G)
<1>1. DiscoveredSlices \in Seq(G)
  <2>1. Discovered \in Seq(Url) /\ Len(Discovered) \in Nat
    BY LenProperties DEF SiteAssumption
  <2>2. \A i \in 1..Len(Discovered) : Discovered[Len(Discovered) - i + 1] \in Url
    BY <2>1, ElementOfSeq
  <2>3. \A i \in 1..Len(Discovered) : Slice({Discovered[Len(Discovered) - i + 1]}, 0) \in G
    BY <2>2
  <2> QED
    BY <2>1, <2>3, IsASeq DEF DiscoveredSlices
<1>2. SeedSlices \in Seq(G)
  <2>1. Seeds \in Seq(Url) /\ Len(Seeds) \in Nat
    BY LenProperties DEF SiteAssumption
  <2>2. \A i \in 1..Len(Seeds) : Seeds[i] \in Url
    BY <2>1, ElementOfSeq
  <2>3. \A i \in 1..Len(Seeds) : Slice({Seeds[i]}, 0) \in G
    BY <2>2
  <2> QED
    BY <2>1, <2>3, IsASeq DEF SeedSlices
<1>3. frontier = DiscoveredSlices \o SeedSlices
    BY DEF Init, DiscoveredSlices, SeedSlices
<1> QED
    BY <1>1, <1>2, <1>3, ConcatProperties

LEMMA InitInv ==
    ASSUME SiteAssumption, WorkerAssumption, Init
    PROVE  Inv
<1>1. conf \in Config
    BY DEF SiteAssumption, Init
<1>2. frontier \in Seq(Generator)
    BY <1>1, InitFrontier, MadeGenerators
<1>3. visited \subseteq Url
  <2>1. Seeds \o Discovered \in Seq(Url)
    BY ConcatProperties DEF SiteAssumption
  <2>2. \A i \in 1..Len(Seeds \o Discovered) : (Seeds \o Discovered)[i] \in Url
    BY <2>1, ElementOfSeq
  <2> QED
    BY <2>2 DEF Init
<1>4. worker \in [Worker -> [pc: {"idle", "got", "busy", "exited"}, job: Job \cup {NoJob}]]
    BY DEF Init
<1>5. /\ cancelled \in BOOLEAN /\ mode = "run" /\ pc = "loop" /\ exit = "none"
      /\ active = NoGen /\ nextJob = NoJob /\ result = NoResult
      /\ pending = 0 /\ wordlist = "unread" /\ jobsClosed \in BOOLEAN
      /\ jobs = <<>> /\ results = <<>> /\ sent = {} /\ assumed = {} /\ expanded = {}
    BY DEF Init
<1>6. TypeOK
    BY <1>1, <1>2, <1>3, <1>4, <1>5 DEF TypeOK
<1>7. Control
    BY DEF Control, Init
<1>8. Accounting
  <2>1. Holding = {}
    BY DEF Holding, Init
  <2> QED
    BY <1>5, <2>1, FS_EmptySet DEF Accounting, InFlight
<1> QED
    BY <1>6, <1>7, <1>8 DEF Inv

\* The accounting is untouched by a step that moves no job.
LEMMA AccountingKept ==
    ASSUME Accounting, mode' = "run" => mode = "run",
           UNCHANGED <<cancelled, pending, jobs, results, worker>>
    PROVE  Accounting'
BY DEF Accounting, InFlight, Holding

LEMMA LoopHeadInv ==
    ASSUME Inv, LoopHead
    PROVE  Inv'
<1>1. /\ frontier' \in Seq(Generator)
      /\ active' \in Generator \cup {NoGen}
      /\ pc' = "next" => active' \in Generator \ {NoGen} /\ nextJob = NoJob
      /\ pc' \in {"next", "select", "drain"} /\ mode' \in {"run", "abort", "finish"}
      /\ jobsClosed' \in BOOLEAN
      /\ pc' # "drain" => mode' = mode
      /\ pc' = "drain" => mode' # "run"
  <2>1. CASE ~HasWork \/ cancelled
    BY <2>1 DEF Inv, TypeOK, LoopHead, StartDrain
  <2>2. CASE active = NoGen /\ frontier # <<>> /\ HasWork /\ ~cancelled
    <3>1. Head(frontier) \in Generator /\ Tail(frontier) \in Seq(Generator)
        BY <2>2, SeqOps DEF Inv, TypeOK
    <3> QED
        BY <2>2, <3>1 DEF Inv, TypeOK, LoopHead
  <2>3. CASE ~(active = NoGen /\ frontier # <<>>) /\ HasWork /\ ~cancelled
    BY <2>3 DEF Inv, TypeOK, LoopHead
  <2> QED
    BY <2>1, <2>2, <2>3
<1>2. UNCHANGED <<conf, cancelled, exit, nextJob, visited, pending, result, wordlist,
                  jobs, results, worker, sent, assumed, expanded>>
    BY DEF LoopHead, histVars
<1>3. pc = "loop" /\ mode = "run"
    BY DEF LoopHead, Inv, Control
<1>4. TypeOK'
    BY <1>1, <1>2 DEF Inv, TypeOK
<1>5. Control'
    BY <1>1, <1>2, <1>3 DEF Inv, Control
<1>6. Accounting'
    BY <1>1, <1>2, <1>3, AccountingKept DEF Inv
<1> QED
    BY <1>4, <1>5, <1>6 DEF Inv

LEMMA NextJobInv ==
    ASSUME SiteAssumption, Inv, NextJob
    PROVE  Inv'
<1>1. active \in Generator /\ nextJob = NoJob /\ mode = "run"
    BY DEF NextJob, Inv, Control
<1>2. /\ active.buffer \in SUBSET Url /\ active.depth \in Nat
      /\ active.words \in Seq(SUBSET Url) /\ Len(active.words) \in Nat
    BY <1>1 DEF Generator
<1>3. /\ active' \in Generator \cup {NoGen}
      /\ nextJob' \in Job \cup {NoJob}
      /\ visited' \subseteq Url
      /\ pc' \in {"select", "loop"}
  <2>1. CASE NextBuffered
    <3>1. PICK u \in active.buffer : /\ nextJob' = [url |-> u, depth |-> active.depth]
                                     /\ active' = [active EXCEPT !.buffer = @ \ {u}]
        BY <2>1 DEF NextBuffered
    <3>2. nextJob' \in Job
        BY <1>2, <3>1 DEF Job
    <3>3. active' \in Generator
        BY <1>1, <1>2, <3>1 DEF Generator
    <3> QED
        BY <2>1, <3>2, <3>3 DEF NextBuffered, Inv, TypeOK
  <2>2. CASE NextWord
    <3>0. PICK i \in 1..Len(active.words) : \E u \in Fresh(active, i) :
             /\ visited' = visited \cup Fresh(active, i)
             /\ nextJob' = [url |-> u, depth |-> active.depth]
             /\ active' = [active EXCEPT !.buffer = Fresh(active, i) \ {u},
                                         !.words = SubSeq(@, i + 1, Len(@))]
        BY <2>2 DEF NextWord
    <3>1. PICK u \in Fresh(active, i) :
             /\ visited' = visited \cup Fresh(active, i)
             /\ nextJob' = [url |-> u, depth |-> active.depth]
             /\ active' = [active EXCEPT !.buffer = Fresh(active, i) \ {u},
                                         !.words = SubSeq(@, i + 1, Len(@))]
        BY <3>0
    <3>2. /\ active.words[i] \in SUBSET Url
          /\ SubSeq(active.words, i + 1, Len(active.words)) \in Seq(SUBSET Url)
        BY <1>1, RemainingWords
    <3>3. Fresh(active, i) \in SUBSET Url
        BY <3>2 DEF Fresh
    <3>4. nextJob' \in Job
        BY <1>2, <3>1, <3>3 DEF Job
    <3>5. active' \in Generator
        BY <1>1, <1>2, <3>1, <3>2, <3>3 DEF Generator
    <3> QED
        BY <2>2, <3>1, <3>3, <3>4, <3>5 DEF NextWord, Inv, TypeOK
  <2>3. CASE NextExhausted
    BY <2>3 DEF NextExhausted, Inv, TypeOK
  <2> QED
    BY <2>1, <2>2, <2>3 DEF NextJob
<1>4. UNCHANGED <<conf, cancelled, mode, exit, frontier, pending, result, wordlist,
                  jobs, jobsClosed, results, worker, sent, assumed, expanded>>
    BY DEF NextJob, chanVars, histVars
<1>5. TypeOK'
    BY <1>3, <1>4 DEF Inv, TypeOK
<1>6. Control'
    BY <1>1, <1>3, <1>4 DEF Inv, Control
<1>7. Accounting'
    BY <1>4, AccountingKept DEF Inv
<1> QED
    BY <1>5, <1>6, <1>7 DEF Inv

LEMMA SelectDoneInv ==
    ASSUME Inv, SelectDone
    PROVE  Inv'
<1>1. /\ UNCHANGED <<conf, cancelled, exit, frontier, active, nextJob, visited, pending,
                     result, wordlist, jobs, results, worker, sent, assumed, expanded>>
      /\ pc' = "drain" /\ mode' = "abort" /\ jobsClosed' = TRUE
    BY DEF SelectDone, StartDrain, histVars
<1>2. TypeOK'
    BY <1>1 DEF Inv, TypeOK
<1>3. Control'
    BY <1>1 DEF Inv, Control
<1>4. Accounting'
    BY <1>1 DEF Accounting
<1> QED
    BY <1>2, <1>3, <1>4 DEF Inv

\* A send moves the job in hand into the jobs channel, and counts it.
LEMMA SendJobInv ==
    ASSUME WorkerAssumption, AbsentAssumption, Inv, SendJob
    PROVE  Inv'
<1>1. /\ UNCHANGED <<conf, cancelled, mode, exit, frontier, active, visited, result,
                     wordlist, jobsClosed, results, worker, assumed, expanded>>
      /\ pc' = "loop" /\ mode = "run" /\ nextJob' = NoJob
      /\ jobs' = Append(jobs, nextJob) /\ pending' = pending + 1
      /\ sent' = sent \cup {nextJob.url}
    BY DEF SendJob, Inv, Control
<1>2. nextJob \in Job /\ nextJob.url \in Url
    BY DEF SendJob, Inv, TypeOK, Job
<1>3. jobs' \in Seq(Job) /\ Len(jobs') = Len(jobs) + 1
    BY <1>1, <1>2, SeqOps DEF Inv, TypeOK
<1>4. TypeOK'
    BY <1>1, <1>2, <1>3 DEF Inv, TypeOK
<1>5. Control'
    BY <1>1 DEF Inv, Control
<1>6. InFlight' = InFlight + 1
    BY <1>1, <1>3, InFlightNat DEF InFlight, Holding, Inv
<1>7. Accounting'
    BY <1>1, <1>6, InFlightNat DEF Accounting, Inv, TypeOK
<1> QED
    BY <1>4, <1>5, <1>7 DEF Inv

\* A result is counted off.  There is one, so something was in flight, and pending
\* stays a natural number.
LEMMA ReceiveResultInv ==
    ASSUME WorkerAssumption, Inv, ReceiveResult
    PROVE  Inv'
<1>1. /\ UNCHANGED <<conf, cancelled, mode, exit, frontier, active, nextJob, visited,
                     wordlist, jobs, jobsClosed, worker, sent, assumed, expanded>>
      /\ pc' = "handle" /\ mode = "run" /\ pending' = pending - 1
      /\ results # <<>> /\ result' = Head(results) /\ results' = Tail(results)
    BY DEF ReceiveResult, Inv, Control, histVars
<1>2. /\ result' \in Result /\ results' \in Seq(Result)
      /\ Len(results') = Len(results) - 1 /\ Len(results) > 0
    BY <1>1, SeqOps DEF Inv, TypeOK
<1>3. InFlight' = InFlight - 1 /\ InFlight >= 1
    BY <1>1, <1>2, InFlightNat DEF InFlight, Holding, Inv
<1>4. pending' \in Nat
    BY <1>1, <1>3, InFlightNat DEF Inv, Accounting, TypeOK
<1>5. TypeOK'
    BY <1>1, <1>2, <1>4 DEF Inv, TypeOK
<1>6. Control'
    BY <1>1, <1>2 DEF Inv, Control
<1>7. Accounting'
    BY <1>1, <1>3, InFlightNat DEF Accounting, Inv, TypeOK
<1> QED
    BY <1>5, <1>6, <1>7 DEF Inv

LEMMA DrainInv ==
    ASSUME Inv, ReceiveClosed \/ DrainResult \/ DrainEnd
    PROVE  Inv'
<1>1. /\ UNCHANGED <<conf, cancelled, mode, frontier, active, nextJob, visited, pending,
                     wordlist, jobs, worker, sent, assumed, expanded>>
      /\ \/ /\ pc = "drain" /\ pc' = "handle" /\ results # <<>>
            /\ result' = Head(results) /\ results' = Tail(results)
            /\ UNCHANGED <<exit, jobsClosed>>
         \/ /\ pc' = "returned" /\ UNCHANGED <<result, results>>
            /\ jobsClosed' = TRUE /\ exit' \in {"closed", "done", "cancelled"}
    BY DEF ReceiveClosed, DrainResult, DrainEnd, Return, histVars
<1>2. /\ result' \in Result \cup {NoResult} /\ results' \in Seq(Result)
      /\ pc' = "handle" => result' \in Result
  <2>1. result \in Result \cup {NoResult} /\ results \in Seq(Result)
    BY DEF Inv, TypeOK
  <2>2. results # <<>> => Head(results) \in Result /\ Tail(results) \in Seq(Result)
    BY <2>1, SeqOps
  <2> QED
    BY <1>1, <2>1, <2>2
<1>3. pc = "drain" => mode # "run"
    BY DEF Inv, Control
<1>4. TypeOK'
    BY <1>1, <1>2 DEF Inv, TypeOK
<1>5. Control'
    BY <1>1, <1>2 DEF Inv, Control
<1>6. Accounting'
  <2>1. CASE pc = "drain" /\ pc' = "handle"
    BY <1>1, <1>3, <2>1 DEF Accounting
  <2>2. CASE pc' = "returned" /\ UNCHANGED results
    BY <1>1, <2>2, AccountingKept DEF Inv
  <2> QED
    BY <1>1, <2>1, <2>2
<1> QED
    BY <1>4, <1>5, <1>6 DEF Inv

\* What the steps of handleResult leave alone, and where they go.
LEMMA HandlingInv ==
    ASSUME Inv, pc \in {"handle", "expand", "open"},
           pc' \in {"expand", "open", "loop", "drain", "returned"},
           pc' = "loop" => mode = "run",
           pc' = "drain" => mode # "run",
           result' \in {result, NoResult}, pc' \in {"expand", "open"} => result' = result,
           frontier' \in Seq(Generator), active' \in Generator \cup {NoGen},
           visited' \subseteq Url, assumed' \subseteq Url, expanded' \subseteq Url,
           wordlist' \in {"unread", "ready", "broken"},
           exit' \in {"none", "done", "cancelled", "closed", "error"},
           jobsClosed' \in BOOLEAN,
           UNCHANGED <<conf, cancelled, mode, nextJob, pending, jobs, results, worker, sent>>
    PROVE  Inv'
<1>1. result \in Result
    BY DEF Inv, Control
<1>2. TypeOK'
    BY <1>1 DEF Inv, TypeOK
<1>3. Control'
    BY <1>1 DEF Inv, Control
<1>4. Accounting'
    BY AccountingKept DEF Inv
<1> QED
    BY <1>2, <1>3, <1>4 DEF Inv

\* Going back to the loop that called handleResult.
LEMMA BackTo ==
    ASSUME Inv, Back
    PROVE  /\ pc' \in {"loop", "drain"} /\ result' = NoResult
           /\ pc' = "loop" => mode = "run"
           /\ pc' = "drain" => mode # "run"
BY DEF Back

LEMMA HandleInv ==
    ASSUME SiteAssumption, Inv, Handle
    PROVE  Inv'
<1>1. result \in Result /\ result.depth \in Nat /\ conf \in Config
      /\ frontier \in Seq(Generator)
    BY DEF Handle, Inv, Control, TypeOK, Result
<1>2. /\ pc = "handle"
      /\ UNCHANGED <<conf, cancelled, mode, exit, active, nextJob, pending, wordlist,
                     jobs, jobsClosed, results, worker, sent, expanded>>
    BY DEF Handle, chanVars
<1>3. FollowsTo(result) => result.target \in Url
    BY <1>1 DEF FollowsTo, IsRedirect, Result
<1>4. /\ pc' \in {"expand", "loop", "drain"}
      /\ pc' = "loop" => mode = "run"
      /\ pc' = "drain" => mode # "run"
      /\ result' \in {result, NoResult} /\ (pc' = "expand" => result' = result)
      /\ frontier' \in Seq(Generator)
      /\ visited' \subseteq Url /\ assumed' \subseteq Url
  <2>1. CASE HandleLeaf
    BY <1>1, <2>1, BackTo DEF HandleLeaf, Inv, TypeOK
  <2>2. CASE HandleRedirect
    <3>1. result.target \in Url
        BY <1>3, <2>2 DEF HandleRedirect
    <3>2. Slice({result.target}, result.depth) \in Generator
        BY <1>1, <3>1, MadeGenerators
    <3>3. frontier' \in Seq(Generator)
        BY <1>1, <2>2, <3>2, SeqOps DEF HandleRedirect
    <3> QED
        BY <2>2, <3>1, <3>3, BackTo DEF HandleRedirect, Inv, TypeOK
  <2>3. CASE HandleFollowed
    BY <1>1, <1>3, <2>3 DEF HandleFollowed, Inv, TypeOK
  <2>4. CASE HandleDirectory
    BY <1>1, <2>4 DEF HandleDirectory, Inv, TypeOK
  <2> QED
    BY <2>1, <2>2, <2>3, <2>4 DEF Handle
<1>5. active' \in Generator \cup {NoGen} /\ expanded' \subseteq Url
      /\ wordlist' \in {"unread", "ready", "broken"} /\ jobsClosed' \in BOOLEAN
      /\ exit' \in {"none", "done", "cancelled", "closed", "error"}
    BY <1>2 DEF Inv, TypeOK
<1> QED
    BY <1>2, <1>4, <1>5, HandlingInv

LEMMA ExpandInv ==
    ASSUME SiteAssumption, Inv, Expand
    PROVE  Inv'
<1>1. result \in Result /\ conf \in Config /\ frontier \in Seq(Generator)
      /\ visited \subseteq Url
    BY DEF Expand, Inv, Control, TypeOK
<1>2. result.depth \in Nat /\ result.tech \subseteq Url /\ result.links \subseteq Url
    BY <1>1 DEF Result
<1>3. /\ pc = "expand"
      /\ UNCHANGED <<conf, cancelled, mode, exit, active, nextJob, pending, wordlist,
                     jobs, jobsClosed, results, worker, sent, assumed, expanded>>
    BY DEF Expand, chanVars, histVars
<1>4. /\ pc' \in {"open", "loop", "drain"}
      /\ pc' = "loop" => mode = "run"
      /\ pc' = "drain" => mode # "run"
      /\ result' \in {result, NoResult} /\ (pc' = "open" => result' = result)
      /\ frontier' \in Seq(Generator) /\ visited' \subseteq Url
  <2>1. CASE CtxErr \/ AtLimit(result)
    BY <1>1, <2>1, BackTo DEF Expand
  <2>2. CASE ~(CtxErr \/ AtLimit(result))
    <3> DEFINE tech  == result.tech \ visited
               links == result.links \ (visited \cup tech)
               inner == PushFrontUnlessEmpty(tech, result.depth + 1, frontier)
    <3>1. /\ visited' = visited \cup tech \cup links
          /\ frontier' = PushFrontUnlessEmpty(links, result.depth + 1, inner)
          /\ pc' = "open" /\ result' = result
        BY <2>2 DEF Expand
    <3>2. tech \in SUBSET Url /\ links \in SUBSET Url /\ result.depth + 1 \in Nat
        BY <1>2
    <3> HIDE DEF tech, links
    <3>3. inner \in Seq(Generator)
        BY <1>1, <3>2, PushUnlessEmptyType
    <3> HIDE DEF inner
    <3>4. frontier' \in Seq(Generator)
        BY <1>1, <3>1, <3>2, <3>3, PushUnlessEmptyType
    <3> QED
        BY <1>1, <3>1, <3>2, <3>4
  <2> QED
    BY <2>1, <2>2
<1>5. active' \in Generator \cup {NoGen} /\ expanded' \subseteq Url
      /\ assumed' \subseteq Url
      /\ wordlist' \in {"unread", "ready", "broken"} /\ jobsClosed' \in BOOLEAN
      /\ exit' \in {"none", "done", "cancelled", "closed", "error"}
    BY <1>3 DEF Inv, TypeOK
<1> QED
    BY <1>3, <1>4, <1>5, HandlingInv

LEMMA OpenInv ==
    ASSUME SiteAssumption, Inv, OpenDirectory \/ OpenFails
    PROVE  Inv'
<1>1. result \in Result /\ conf \in Config /\ frontier \in Seq(Generator)
      /\ active \in Generator \cup {NoGen} /\ pc = "open"
    BY DEF OpenDirectory, OpenFails, Inv, Control, TypeOK
<1>2. result.depth + 1 \in Nat /\ Parent(result) \in Url
    BY <1>1 DEF Result, Parent, IsRedirect
<1>3. UNCHANGED <<conf, cancelled, mode, nextJob, visited, pending, jobs, results,
                  worker, sent, assumed>>
    BY DEF OpenDirectory, OpenFails, chanVars, histVars
<1>4. visited' \subseteq Url /\ assumed' \subseteq Url
    BY <1>3 DEF Inv, TypeOK
<1>5. CASE OpenDirectory
  <2>1. Directory(Parent(result), result.depth + 1) \in Generator
    BY <1>1, <1>2, MadeGenerators
  <2>2. Suspend \in Seq(Generator)
    BY <1>1, SeqOps DEF Suspend
  <2>3. frontier' \in Seq(Generator) /\ active' \in Generator \cup {NoGen}
    <3> DEFINE g == Directory(Parent(result), result.depth + 1)
    <3> HIDE DEF g
    <3>1. \/ frontier' = Append(frontier, g) /\ active' = active
          \/ frontier' = Suspend /\ active' = g
        BY <1>5 DEF OpenDirectory, g
    <3>2. g \in Generator
        BY <2>1 DEF g
    <3>3. Append(frontier, g) \in Seq(Generator)
        BY <1>1, <3>2, SeqOps
    <3> QED
        BY <1>1, <2>2, <3>1, <3>2, <3>3
  <2>4. expanded' \subseteq Url
    BY <1>2, <1>5 DEF OpenDirectory, Inv, TypeOK
  <2>5. wordlist' \in {"unread", "ready", "broken"} /\ jobsClosed' \in BOOLEAN
        /\ exit' \in {"none", "done", "cancelled", "closed", "error"}
    BY <1>5 DEF OpenDirectory, Loads, chanVars, Inv, TypeOK
  <2>6. Back
    BY <1>5 DEF OpenDirectory
  <2> QED
    BY <1>1, <1>3, <1>4, <2>3, <2>4, <2>5, <2>6, BackTo, HandlingInv
<1>6. CASE OpenFails
  <2>1. frontier' \in Seq(Generator) /\ active' \in Generator \cup {NoGen}
        /\ expanded' \subseteq Url
    BY <1>6 DEF OpenFails, histVars, Inv, TypeOK
  <2>2. wordlist' \in {"unread", "ready", "broken"}
    BY <1>6 DEF OpenFails, LoadFails, Inv, TypeOK
  <2>3. /\ exit' \in {"none", "done", "cancelled", "closed", "error"}
        /\ jobsClosed' \in BOOLEAN
        /\ (pc' = "returned" /\ result' = result) \/ Back
    BY <1>6 DEF OpenFails, Return, Inv, TypeOK
  <2> QED
    BY <1>1, <1>3, <1>4, <2>1, <2>2, <2>3, BackTo, HandlingInv
<1> QED
    BY <1>5, <1>6

---------------------------------------------------------------------------
(* The workers. *)

\* Holding, when one worker goes from one place to another.
LEMMA HoldingMoves ==
    ASSUME TypeOK, WorkerAssumption, NEW w \in Worker, NEW where, NEW job,
           Set(w, where, job)
    PROVE  /\ where \in {"got", "busy"} /\ worker[w].pc \notin {"got", "busy"}
                 => Cardinality(Holding') = Cardinality(Holding) + 1
           /\ where \notin {"got", "busy"} /\ worker[w].pc \in {"got", "busy"}
                 => Cardinality(Holding') = Cardinality(Holding) - 1
           /\ (where \in {"got", "busy"} <=> worker[w].pc \in {"got", "busy"})
                 => Holding' = Holding
<1>1. /\ \A v \in Worker \ {w} : worker'[v] = worker[v]
      /\ worker'[w].pc = where
    BY DEF Set, TypeOK
<1>2. IsFiniteSet(Holding)
    BY InFlightNat
<1>3. CASE where \in {"got", "busy"} /\ worker[w].pc \notin {"got", "busy"}
  <2>1. Holding' = Holding \cup {w} /\ w \notin Holding
    BY <1>1, <1>3 DEF Holding
  <2> QED
    BY <1>2, <1>3, <2>1, FS_AddElement
<1>4. CASE where \notin {"got", "busy"} /\ worker[w].pc \in {"got", "busy"}
  <2>1. Holding' = Holding \ {w} /\ w \in Holding
    BY <1>1, <1>4 DEF Holding
  <2> QED
    BY <1>2, <1>4, <2>1, FS_RemoveElement
<1>5. CASE where \in {"got", "busy"} <=> worker[w].pc \in {"got", "busy"}
  <2>1. Holding' = Holding
    BY <1>1, <1>5 DEF Holding
  <2> QED
    BY <1>5, <2>1
<1> QED
    BY <1>3, <1>4, <1>5

\* A worker reports a result of the declared form.
LEMMA ResultOfType ==
    ASSUME SiteAssumption, conf \in Config, NEW job \in Job, NEW a \in Answers[job.url]
    PROVE  ResultOf(job, a) \in Result
<1>1. a \in Answer /\ job.url \in Url /\ job.depth \in Nat
    BY DEF SiteAssumption, Job
<1> QED
    BY <1>1 DEF ResultOf, Result, Answer, Config

LEMMA WorkInv ==
    ASSUME SiteAssumption, WorkerAssumption, Inv, NEW w \in Worker, Work(w)
    PROVE  Inv'
<1>1. UNCHANGED <<conf, cancelled, pc, mode, exit, frontier, active, nextJob, visited,
                  pending, result, wordlist, sent, assumed, expanded>>
    BY DEF Work, mgrVars, histVars
<1>2. SUFFICES /\ jobs' \in Seq(Job) /\ jobsClosed' \in BOOLEAN /\ results' \in Seq(Result)
               /\ \E where \in {"idle", "got", "busy", "exited"}, job \in Job \cup {NoJob} :
                     Set(w, where, job) /\ (where \in {"got", "busy"} => job \in Job)
               /\ InFlight' <= InFlight /\ InFlight' \in Nat
               /\ ~cancelled => InFlight' = InFlight
  <2>1. worker' \in [Worker -> [pc: {"idle", "got", "busy", "exited"}, job: Job \cup {NoJob}]]
        /\ \A v \in Worker : worker'[v].pc \in {"got", "busy"} => worker'[v].job \in Job
    BY <1>2 DEF Set, Inv, TypeOK, Control
  <2>2. TypeOK'
    BY <1>1, <1>2, <2>1 DEF Inv, TypeOK
  <2>3. Control'
    BY <1>1, <2>1 DEF Inv, Control
  <2>4. Accounting'
    BY <1>1, <1>2, InFlightNat DEF Inv, Accounting, TypeOK
  <2> QED
    BY <2>2, <2>3, <2>4 DEF Inv
<1>3. /\ jobs \in Seq(Job) /\ jobsClosed \in BOOLEAN /\ results \in Seq(Result)
      /\ conf \in Config
      /\ worker[w].pc \in {"got", "busy"} => worker[w].job \in Job
      /\ Cardinality(Holding) \in Nat /\ Len(jobs) \in Nat /\ Len(results) \in Nat
    BY InFlightNat DEF Inv, TypeOK, Control
<1>4. CASE Take(w)
  <2>1. /\ Head(jobs) \in Job /\ Tail(jobs) \in Seq(Job) /\ Len(Tail(jobs)) = Len(jobs) - 1
        /\ Len(jobs) > 0
    BY <1>3, <1>4, SeqOps DEF Take
  <2>2. Cardinality(Holding') = Cardinality(Holding) + 1
    BY <1>4, HoldingMoves DEF Take, Inv
  <2> QED
    BY <1>3, <1>4, <2>1, <2>2 DEF Take, InFlight
<1>5. CASE JobsEnd(w)
  <2>1. Holding' = Holding
    <3>1. TypeOK /\ worker[w].pc = "idle" /\ Set(w, "exited", NoJob)
        BY <1>5 DEF JobsEnd, Inv
    <3>2. ~("exited" \in {"got", "busy"}) /\ ~(worker[w].pc \in {"got", "busy"})
        BY <3>1
    <3> QED
        BY <3>1, <3>2, HoldingMoves
  <2> QED
    BY <1>3, <1>5, <2>1 DEF JobsEnd, InFlight, chanVars
<1>6. CASE Drop(w)
  <2>1. PICK where \in {"exited", "idle"} : Set(w, where, NoJob)
    BY <1>6 DEF Drop
  <2>2. Cardinality(Holding') = Cardinality(Holding) - 1
    BY <1>6, <2>1, HoldingMoves DEF Drop, Inv
  <2>3. IsFiniteSet(Holding') /\ Cardinality(Holding') \in Nat
    <3>1. IsFiniteSet(Holding')
        BY FS_Subset DEF Holding, WorkerAssumption
    <3> QED
        BY <3>1, FS_CardinalityType
  <2> QED
    BY <1>3, <1>6, <2>1, <2>2, <2>3 DEF Drop, InFlight, chanVars
<1>7. CASE Request(w)
  <2>1. Holding' = Holding
    <3>1. TypeOK /\ worker[w].pc = "got" /\ Set(w, "busy", worker[w].job)
        BY <1>7 DEF Request, Inv
    <3> QED
        BY <3>1, HoldingMoves
  <2> QED
    BY <1>3, <1>7, <2>1 DEF Request, InFlight, chanVars
<1>8. CASE Respond(w)
  <2>1. PICK a \in Answers[worker[w].job.url] :
           results' = Append(results, ResultOf(worker[w].job, a))
    BY <1>8 DEF Respond
  <2>2. PICK where \in {"idle", "exited"} : Set(w, where, NoJob)
    BY <1>8 DEF Respond
  <2>3. ResultOf(worker[w].job, a) \in Result
    BY <1>3, <1>8, <2>1, ResultOfType DEF Respond
  <2>4. results' \in Seq(Result) /\ Len(results') = Len(results) + 1
    BY <1>3, <2>1, <2>3, SeqOps
  <2>5. Cardinality(Holding') = Cardinality(Holding) - 1
    BY <1>8, <2>2, HoldingMoves DEF Respond, Inv
  <2> QED
    BY <1>3, <1>8, <2>2, <2>4, <2>5 DEF Respond, InFlight
<1> QED
    BY <1>4, <1>5, <1>6, <1>7, <1>8 DEF Work

LEMMA CancelInv ==
    ASSUME Inv, Cancel
    PROVE  Inv'
<1>1. cancelled' = TRUE
      /\ UNCHANGED <<conf, pc, mode, exit, frontier, active, nextJob, visited, pending,
                     result, wordlist, jobs, jobsClosed, results, worker, sent, assumed,
                     expanded>>
    BY DEF Cancel, mgrVars, chanVars, histVars
<1>2. TypeOK'
    BY <1>1 DEF Inv, TypeOK
<1>3. Control'
    BY <1>1 DEF Inv, Control
<1>4. Accounting'
    BY <1>1 DEF Inv, Accounting, InFlight, Holding
<1> QED
    BY <1>2, <1>3, <1>4 DEF Inv

LEMMA StutterInv ==
    ASSUME Inv, UNCHANGED vars
    PROVE  Inv'
<1>1. UNCHANGED <<conf, cancelled, pc, mode, exit, frontier, active, nextJob, visited,
                  pending, result, wordlist, jobs, jobsClosed, results, worker, sent,
                  assumed, expanded>>
    BY DEF vars, mgrVars, chanVars, histVars
<1>2. TypeOK'
    BY <1>1 DEF Inv, TypeOK
<1>3. Control'
    BY <1>1 DEF Inv, Control
<1>4. Accounting'
    BY <1>1 DEF Inv, Accounting, InFlight, Holding
<1> QED
    BY <1>2, <1>3, <1>4 DEF Inv

\* Inv is inductive.
LEMMA StepInv ==
    ASSUME SiteAssumption, WorkerAssumption, AbsentAssumption, Inv, [Next]_vars
    PROVE  Inv'
<1>1. CASE Manager
    BY <1>1, LoopHeadInv, NextJobInv, SelectDoneInv, SendJobInv, ReceiveResultInv,
       DrainInv, HandleInv, ExpandInv, OpenInv DEF Manager
<1>2. CASE \E w \in Worker : Work(w)
    BY <1>2, WorkInv
<1>3. CASE Cancel
    BY <1>3, CancelInv
<1>4. CASE Returned \/ UNCHANGED vars
    BY <1>4, StutterInv DEF Returned
<1> QED
    BY <1>1, <1>2, <1>3, <1>4 DEF Next

THEOREM Invariance == Spec => []Inv
<1>1. Init => Inv
    BY InitInv, SiteAssumption, WorkerAssumption
<1>2. Inv /\ [Next]_vars => Inv'
    BY StepInv, SiteAssumption, WorkerAssumption, AbsentAssumption
<1> QED
    BY <1>1, <1>2, PTL DEF Spec

\* Every variable keeps its type: in particular pending never goes negative, so the
\* loop cannot end early because it lost count (manager.go, Run).
THEOREM TypeCorrect == Spec => []TypeOK
<1>1. Inv => TypeOK
    BY DEF Inv
<1> QED
    BY <1>1, Invariance, PTL

\* pending covers every job that is in a channel or in a worker's hands, and counts
\* exactly those until a cancellation lets workers drop jobs (manager.go, Run).
THEOREM AccountingCorrect == Spec => []Accounting
<1>1. Inv => Accounting
    BY DEF Inv
<1> QED
    BY <1>1, Invariance, PTL

---------------------------------------------------------------------------
(***************************************************************************)
(* The end of Run.  A finish drain starts with nothing pending, so that    *)
(* nothing is in flight (Accounting) and no result can put work back;      *)
(* Over carries that, and what DrainEnd has seen, to the end.              *)
(***************************************************************************)
NothingLeft == frontier = <<>> /\ active = NoGen /\ nextJob = NoJob
NothingMoves == jobs = <<>> /\ results = <<>> /\ Holding = {}

Over ==
    /\ exit # "none" => pc = "returned" /\ jobsClosed
    /\ exit \in {"done", "cancelled"} => ResultsClosed /\ results = <<>>
    /\ exit = "done" => mode = "finish"
    /\ mode = "finish" => pc \in {"drain", "returned"} /\ NothingLeft /\ NothingMoves

LEMMA InitOver == Init => Over
BY DEF Init, Over

\* No work, and every job accounted for: nothing moves.
LEMMA StartFinish ==
    ASSUME WorkerAssumption, Inv, exit = "none", LoopHead, ~HasWork
    PROVE  Over'
<1>1. pc = "loop" /\ mode = "run" /\ NothingLeft /\ ~(pending > 0)
    BY DEF LoopHead, Inv, Control, HasWork, NothingLeft
<1>2. pending \in Nat /\ pending >= InFlight
    BY <1>1 DEF Inv, TypeOK, Accounting
<1>3. /\ Len(jobs) = 0 /\ Len(results) = 0 /\ Cardinality(Holding) = 0
      /\ IsFiniteSet(Holding)
  <2>1. pending = 0
    BY <1>1, <1>2
  <2>2. /\ IsFiniteSet(Holding) /\ Cardinality(Holding) \in Nat
        /\ Len(jobs) \in Nat /\ Len(results) \in Nat
    BY InFlightNat DEF Inv
  <2>3. Len(jobs) + Cardinality(Holding) + Len(results) <= 0
    BY <1>2, <2>1, <2>2 DEF InFlight
  <2> QED
    BY <2>2, <2>3
<1>4. NothingMoves
  <2>1. jobs = <<>> /\ results = <<>>
    BY <1>3, EmptySeq DEF Inv, TypeOK
  <2>2. Holding = {}
    BY <1>3, FS_EmptySet
  <2> QED
    BY <2>1, <2>2 DEF NothingMoves
<1>5. /\ pc' = "drain" /\ mode' = "finish"
      /\ UNCHANGED <<exit, frontier, active, nextJob, jobs, results, worker>>
    BY DEF LoopHead, StartDrain
<1> QED
    BY <1>1, <1>4, <1>5 DEF Over, NothingLeft, NothingMoves, Holding

\* Steps of the manager.
LEMMA ManagerOver ==
    ASSUME WorkerAssumption, Inv, Over, Manager
    PROVE  Over'
<1>1. CASE LoopHead
  <2>1. exit = "none" /\ mode # "finish" /\ exit' = exit
    BY <1>1 DEF LoopHead, Over
  <2>2. CASE ~HasWork
    BY <1>1, <2>1, <2>2, StartFinish
  <2>3. CASE HasWork
    BY <1>1, <2>1, <2>3 DEF LoopHead, StartDrain, Over
  <2> QED
    BY <2>2, <2>3
<1>2. CASE NextJob \/ SelectDone \/ SendJob \/ ReceiveResult
  <2>1. pc \in {"next", "select"} /\ exit' = exit /\ mode' \in {mode, "abort"}
    BY <1>2 DEF NextJob, SelectDone, StartDrain, SendJob, ReceiveResult
  <2> QED
    BY <2>1 DEF Over
<1>3. CASE Handle \/ Expand \/ OpenDirectory \/ OpenFails
  <2>1. pc \in {"handle", "expand", "open"} /\ mode' = mode /\ mode # "finish" /\ exit = "none"
    BY <1>3 DEF Handle, Expand, OpenDirectory, OpenFails, Over
  <2>2. exit' = exit \/ (exit' = "error" /\ pc' = "returned" /\ jobsClosed' = TRUE)
    BY <1>3 DEF Handle, Expand, OpenDirectory, OpenFails, Return
  <2> QED
    BY <2>1, <2>2 DEF Over
<1>4. CASE DrainResult
  <2>1. mode # "finish" /\ exit = "none" /\ exit' = exit /\ mode' = mode
    BY <1>4 DEF DrainResult, Over, NothingMoves
  <2> QED
    BY <2>1 DEF Over
<1>5. CASE ReceiveClosed
  <2>1. /\ mode # "finish" /\ mode' = mode
        /\ exit' = "closed" /\ pc' = "returned" /\ jobsClosed' = TRUE
    BY <1>5 DEF ReceiveClosed, Return, Over
  <2> QED
    BY <2>1 DEF Over
<1>6. CASE DrainEnd
  <2>1. /\ pc' = "returned" /\ jobsClosed' = TRUE /\ ResultsClosed /\ results = <<>>
        /\ exit' = IF mode = "finish" THEN "done" ELSE "cancelled"
        /\ UNCHANGED <<mode, frontier, active, nextJob, jobs, results, worker>>
    BY <1>6 DEF DrainEnd, Return
  <2> QED
    BY <2>1 DEF Over, NothingLeft, NothingMoves, ResultsClosed, Holding
<1> QED
    BY <1>1, <1>2, <1>3, <1>4, <1>5, <1>6 DEF Manager

\* With nothing in flight the workers can only return; returned ones do nothing.
LEMMA WorkOver ==
    ASSUME Inv, Over, NEW w \in Worker, Work(w)
    PROVE  Over'
<1>1. UNCHANGED <<pc, mode, exit, frontier, active, nextJob>>
    BY DEF Work, mgrVars
<1>2. worker[w].pc # "exited"
    BY DEF Work, Take, JobsEnd, Drop, Request, Respond
<1>3. exit \notin {"done", "cancelled"}
    BY <1>2 DEF Over, ResultsClosed
<1>4. exit # "none" => jobsClosed'
  <2>1. jobsClosed' = jobsClosed
    BY DEF Work, Take, JobsEnd, Drop, Request, Respond, chanVars
  <2> QED
    BY <2>1 DEF Over
<1>5. CASE mode = "finish"
  <2>1. NothingMoves
    BY <1>5 DEF Over
  <2>2. worker[w].pc \notin {"got", "busy"}
    BY <2>1 DEF NothingMoves, Holding
  <2>3. JobsEnd(w)
    BY <2>1, <2>2 DEF Work, Take, Drop, Request, Respond, NothingMoves
  <2>4. worker' = [worker EXCEPT ![w] = [pc |-> "exited", job |-> NoJob]]
        /\ UNCHANGED <<jobs, results>>
    BY <2>3 DEF JobsEnd, Set, chanVars
  <2>5. \A v \in Worker : worker'[v].pc \in {"got", "busy"} => worker[v].pc \in {"got", "busy"}
    BY <2>4 DEF Inv, TypeOK
  <2>6. NothingMoves'
    BY <2>1, <2>4, <2>5 DEF NothingMoves, Holding
  <2> QED
    BY <1>1, <1>3, <1>4, <1>5, <2>6 DEF Over, NothingLeft
<1>6. CASE mode # "finish"
    BY <1>1, <1>3, <1>4, <1>6 DEF Over
<1> QED
    BY <1>5, <1>6

LEMMA StepOver ==
    ASSUME WorkerAssumption, Inv, Over, [Next]_vars
    PROVE  Over'
<1>1. CASE Cancel \/ Returned \/ UNCHANGED vars
  <2>1. UNCHANGED <<pc, mode, exit, frontier, active, nextJob, jobs, jobsClosed, results, worker>>
    BY <1>1 DEF Cancel, Returned, vars, mgrVars, chanVars
  <2> QED
    BY <2>1 DEF Over, NothingLeft, NothingMoves, Holding, ResultsClosed
<1> QED
    BY <1>1, ManagerOver, WorkOver DEF Next

LEMMA OverInvariance == Spec => [](Inv /\ Over)
<1>1. Inv /\ Over /\ [Next]_vars => Over'
    BY StepOver, WorkerAssumption
<1> QED
    BY <1>1, InitOver, Invariance, PTL DEF Spec

\* Run returns nil, or context.Canceled after its drain, only when every worker has
\* returned and no result is left; and nil only when the frontier is empty too.
THEOREM CleanExitCorrect == Spec => []CleanExit
<1>1. Over => CleanExit
    BY DEF Over, CleanExit, NothingLeft
<1> QED
    BY <1>1, OverInvariance, PTL

---------------------------------------------------------------------------
(***************************************************************************)
(* The depth limit.  A depth travels from a generator to its jobs, to      *)
(* their results, and to the generators made from those, one deeper; so    *)
(* the invariant follows it through every place.  The one check, in        *)
(* handleResult, lies before the step that goes deeper, hence the last     *)
(* conjunct of Shallow.                                                    *)
(***************************************************************************)
ShallowGenerator == {g \in Generator : g.depth <= MaxDepth}
ShallowJob == {j \in Job : j.depth <= MaxDepth}
ShallowResult == {r \in Result : r.depth <= MaxDepth}

Shallow ==
    /\ frontier \in Seq(ShallowGenerator)
    /\ active # NoGen => active \in ShallowGenerator
    /\ nextJob # NoJob => nextJob \in ShallowJob
    /\ jobs \in Seq(ShallowJob) /\ results \in Seq(ShallowResult)
    /\ \A w \in Worker : worker[w].pc \in {"got", "busy"} => worker[w].job \in ShallowJob
    /\ pc \in {"handle", "expand", "open"} => result \in ShallowResult
    /\ pc = "open" => result.depth < MaxDepth

LEMMA ShallowMade ==
    ASSUME SiteAssumption, conf \in Config, NEW d \in Nat, d <= MaxDepth
    PROVE  /\ \A urls \in SUBSET Url : Slice(urls, d) \in ShallowGenerator
           /\ \A u \in Url : Directory(u, d) \in ShallowGenerator
<1>1. \A urls \in SUBSET Url : Slice(urls, d).depth = d
    BY DEF Slice
<1>2. \A u \in Url : Directory(u, d).depth = d
    BY DEF Directory
<1> QED
    BY <1>1, <1>2, MadeGenerators DEF ShallowGenerator

LEMMA ShallowPush ==
    ASSUME SiteAssumption, conf \in Config, NEW d \in Nat, d <= MaxDepth,
           NEW q \in Seq(ShallowGenerator), NEW urls \in SUBSET Url
    PROVE  PushFrontUnlessEmpty(urls, d, q) \in Seq(ShallowGenerator)
<1>1. Slice(urls, d) \in ShallowGenerator
    BY ShallowMade
<1> QED
    BY <1>1, SeqOps DEF PushFrontUnlessEmpty

LEMMA InitShallow ==
    ASSUME SiteAssumption, WorkerAssumption, DepthAssumption, Init
    PROVE  Shallow
<1>1. conf \in Config
    BY DEF SiteAssumption, Init
<1>2. \A u \in Url : Slice({u}, 0) \in ShallowGenerator
  <2>1. 0 \in Nat /\ 0 <= MaxDepth
    BY DepthAssumption DEF DepthAssumption
  <2>2. \A urls \in SUBSET Url : Slice(urls, 0) \in ShallowGenerator
    BY <1>1, <2>1, ShallowMade
  <2> QED
    BY <2>2
<1>3. frontier \in Seq(ShallowGenerator)
    BY <1>2, InitFrontier
<1> QED
    BY <1>3 DEF Shallow, Init

\* Nothing that Shallow reads has changed.
LEMMA ShallowKept ==
    ASSUME Shallow,
           UNCHANGED <<frontier, active, nextJob, jobs, results, worker>>,
           pc' \in {"handle", "expand", "open"} => pc' = pc /\ result' = result
    PROVE  Shallow'
BY DEF Shallow

LEMMA LoopHeadShallow ==
    ASSUME Inv, Shallow, LoopHead
    PROVE  Shallow'
<1>1. UNCHANGED <<nextJob, jobs, results, worker>> /\ pc' \in {"next", "select", "drain"}
    BY DEF LoopHead, StartDrain
<1>2. \/ frontier' = frontier /\ active' = active
      \/ frontier # <<>> /\ active' = Head(frontier) /\ frontier' = Tail(frontier)
    BY DEF LoopHead
<1>3. frontier' \in Seq(ShallowGenerator) /\ (active' # NoGen => active' \in ShallowGenerator)
  <2>1. /\ frontier \in Seq(ShallowGenerator)
        /\ active # NoGen => active \in ShallowGenerator
    BY DEF Shallow
  <2>2. frontier # <<>> => /\ Head(frontier) \in ShallowGenerator
                          /\ Tail(frontier) \in Seq(ShallowGenerator)
    BY <2>1, SeqOps
  <2> QED
    BY <1>2, <2>1, <2>2
<1> QED
    BY <1>1, <1>3 DEF Shallow

LEMMA NextJobShallow ==
    ASSUME SiteAssumption, Inv, Inv', Shallow, NextJob
    PROVE  Shallow'
<1>1. UNCHANGED <<frontier, jobs, results, worker>> /\ pc' \in {"select", "loop"}
    BY DEF NextJob, NextBuffered, NextWord, NextExhausted, chanVars
<1>2. active \in ShallowGenerator
    BY DEF NextJob, Inv, Control, Shallow
<1>3. active' # NoGen => active' \in Generator /\ active'.depth = active.depth
    BY <1>2 DEF NextJob, NextBuffered, NextWord, NextExhausted, Inv, TypeOK,
                ShallowGenerator, Generator
<1>4. nextJob' # NoJob => nextJob' \in Job /\ nextJob'.depth = active.depth
  <2>1. nextJob = NoJob
    BY DEF NextJob, Inv, Control
  <2>2. nextJob' # NoJob => nextJob' \in Job
    BY DEF Inv, TypeOK
  <2>3. CASE NextBuffered
    BY <2>2, <2>3 DEF NextBuffered
  <2>4. CASE NextWord
    BY <2>2, <2>4 DEF NextWord
  <2>5. CASE NextExhausted
    BY <2>1, <2>5 DEF NextExhausted
  <2> QED
    BY <2>3, <2>4, <2>5 DEF NextJob
<1> QED
    BY <1>1, <1>2, <1>3, <1>4 DEF Shallow, ShallowGenerator, ShallowJob

LEMMA SendJobShallow ==
    ASSUME Shallow, SendJob
    PROVE  Shallow'
<1>1. /\ UNCHANGED <<frontier, active, results, worker>> /\ pc' = "loop"
      /\ nextJob # NoJob /\ nextJob' = NoJob /\ jobs' = Append(jobs, nextJob)
    BY DEF SendJob
<1>2. jobs' \in Seq(ShallowJob)
    BY <1>1, SeqOps DEF Shallow
<1> QED
    BY <1>1, <1>2 DEF Shallow

LEMMA ReceiveShallow ==
    ASSUME Shallow, ReceiveResult \/ DrainResult
    PROVE  Shallow'
<1>1. /\ UNCHANGED <<frontier, active, nextJob, jobs, worker>> /\ pc' = "handle"
      /\ results # <<>> /\ result' = Head(results) /\ results' = Tail(results)
    BY DEF ReceiveResult, DrainResult
<1>2. result' \in ShallowResult /\ results' \in Seq(ShallowResult)
    BY <1>1, SeqOps DEF Shallow
<1> QED
    BY <1>1, <1>2 DEF Shallow

LEMMA HandleShallow ==
    ASSUME SiteAssumption, Inv, Shallow, Handle
    PROVE  Shallow'
<1>1. /\ UNCHANGED <<active, nextJob, jobs, results, worker>> /\ pc = "handle"
      /\ result \in ShallowResult /\ conf \in Config
    BY DEF Handle, chanVars, Shallow, Inv, TypeOK
<1>2. pc' # "open" /\ (pc' \in {"handle", "expand"} => result' = result)
    BY DEF Handle, HandleLeaf, HandleRedirect, HandleFollowed, HandleDirectory, Back
<1>3. frontier' \in Seq(ShallowGenerator)
  <2>1. CASE HandleRedirect
    <3>1. result.target \in Url /\ result.depth \in Nat /\ result.depth <= MaxDepth
        BY <1>1, <2>1 DEF HandleRedirect, FollowsTo, IsRedirect, ShallowResult, Result
    <3>2. Slice({result.target}, result.depth) \in ShallowGenerator
        BY <1>1, <3>1, ShallowMade
    <3> QED
        BY <2>1, <3>2, SeqOps DEF HandleRedirect, Shallow
  <2>2. CASE ~HandleRedirect
    BY <2>2 DEF Handle, HandleLeaf, HandleFollowed, HandleDirectory, Shallow
  <2> QED
    BY <2>1, <2>2
<1> QED
    BY <1>1, <1>2, <1>3 DEF Shallow

\* The depth check lies here: what goes on to the directory is above the limit.
LEMMA ExpandShallow ==
    ASSUME SiteAssumption, DepthAssumption, Inv, Shallow, Expand
    PROVE  Shallow'
<1>1. /\ UNCHANGED <<active, nextJob, jobs, results, worker>> /\ pc = "expand"
      /\ result \in ShallowResult /\ conf \in Config
    BY DEF Expand, chanVars, Shallow, Inv, TypeOK
<1>2. CASE CtxErr \/ AtLimit(result)
  <2>1. frontier' = frontier /\ pc' \in {"loop", "drain"}
    BY <1>2 DEF Expand, Back
  <2> QED
    BY <1>1, <2>1 DEF Shallow
<1>3. CASE ~(CtxErr \/ AtLimit(result))
  <2> DEFINE tech  == result.tech \ visited
             links == result.links \ (visited \cup tech)
             inner == PushFrontUnlessEmpty(tech, result.depth + 1, frontier)
  <2>1. /\ frontier' = PushFrontUnlessEmpty(links, result.depth + 1, inner)
        /\ pc' = "open" /\ result' = result
    BY <1>3 DEF Expand
  <2>2. /\ tech \in SUBSET Url /\ links \in SUBSET Url
        /\ result.depth \in Nat /\ result.depth < MaxDepth
    BY <1>1, <1>3, DepthAssumption DEF ShallowResult, Result, AtLimit
  <2>3. result.depth + 1 \in Nat /\ result.depth + 1 <= MaxDepth
    BY <2>2, DepthAssumption
  <2> HIDE DEF tech, links
  <2>4. inner \in Seq(ShallowGenerator)
    BY <1>1, <2>2, <2>3, ShallowPush DEF Shallow
  <2> HIDE DEF inner
  <2>5. frontier' \in Seq(ShallowGenerator)
    BY <1>1, <2>1, <2>2, <2>3, <2>4, ShallowPush
  <2> QED
    BY <1>1, <2>1, <2>2, <2>5 DEF Shallow
<1> QED
    BY <1>2, <1>3

LEMMA OpenShallow ==
    ASSUME SiteAssumption, DepthAssumption, Inv, Shallow, OpenDirectory
    PROVE  Shallow'
<1>1. /\ UNCHANGED <<nextJob, jobs, results, worker>> /\ pc = "open"
      /\ pc' \in {"loop", "drain"}
      /\ result \in ShallowResult /\ conf \in Config /\ result.depth < MaxDepth
      /\ frontier \in Seq(ShallowGenerator)
      /\ active # NoGen => active \in ShallowGenerator
    BY DEF OpenDirectory, Back, chanVars, Shallow, Inv, TypeOK
<1>2. /\ result.depth + 1 \in Nat /\ result.depth + 1 <= MaxDepth
      /\ Parent(result) \in Url
    BY <1>1, DepthAssumption DEF ShallowResult, Result, Parent, IsRedirect
<1> DEFINE g == Directory(Parent(result), result.depth + 1)
<1>3. g \in ShallowGenerator
    BY <1>1, <1>2, ShallowMade
<1>4. \/ frontier' = Append(frontier, g) /\ active' = active
      \/ frontier' = Suspend /\ active' = g
    BY DEF OpenDirectory
<1> HIDE DEF g
<1>5. Suspend \in Seq(ShallowGenerator) /\ Append(frontier, g) \in Seq(ShallowGenerator)
    BY <1>1, <1>3, SeqOps DEF Suspend
<1> QED
    BY <1>1, <1>3, <1>4, <1>5 DEF Shallow

LEMMA WorkShallow ==
    ASSUME SiteAssumption, Inv, Shallow, NEW w \in Worker, Work(w)
    PROVE  Shallow'
<1>1. UNCHANGED <<pc, frontier, active, nextJob, result>>
    BY DEF Work, mgrVars
<1>2. /\ jobs \in Seq(ShallowJob) /\ results \in Seq(ShallowResult) /\ conf \in Config
      /\ worker[w].pc \in {"got", "busy"} => worker[w].job \in ShallowJob
    BY DEF Shallow, Inv, TypeOK
<1>3. SUFFICES /\ jobs' \in Seq(ShallowJob) /\ results' \in Seq(ShallowResult)
               /\ \E where \in {"idle", "got", "busy", "exited"}, job \in Job \cup {NoJob} :
                     Set(w, where, job) /\ (where \in {"got", "busy"} => job \in ShallowJob)
  <2>1. \A v \in Worker : worker'[v].pc \in {"got", "busy"} => worker'[v].job \in ShallowJob
    BY <1>3 DEF Set, Shallow, Inv, TypeOK
  <2> QED
    BY <1>1, <1>3, <2>1 DEF Shallow
<1>4. CASE Take(w)
  <2>1. Head(jobs) \in ShallowJob /\ Tail(jobs) \in Seq(ShallowJob)
    BY <1>2, <1>4, SeqOps DEF Take
  <2> QED
    BY <1>2, <1>4, <2>1 DEF Take, ShallowJob
<1>5. CASE JobsEnd(w) \/ Drop(w)
    BY <1>2, <1>5 DEF JobsEnd, Drop, chanVars
<1>6. CASE Request(w)
    BY <1>2, <1>6 DEF Request, chanVars, ShallowJob
<1>7. CASE Respond(w)
  <2>1. PICK a \in Answers[worker[w].job.url] :
           results' = Append(results, ResultOf(worker[w].job, a))
    BY <1>7 DEF Respond
  <2>2. worker[w].job \in ShallowJob
    BY <1>2, <1>7 DEF Respond
  <2>3. ResultOf(worker[w].job, a) \in Result
    BY <1>2, <2>2, ResultOfType DEF ShallowJob
  <2>4. ResultOf(worker[w].job, a) \in ShallowResult
    BY <2>2, <2>3 DEF ResultOf, ShallowResult, ShallowJob
  <2>5. results' \in Seq(ShallowResult)
    BY <1>2, <2>1, <2>4, SeqOps
  <2> QED
    BY <1>2, <1>7, <2>5 DEF Respond
<1> QED
    BY <1>4, <1>5, <1>6, <1>7 DEF Work

LEMMA StepShallow ==
    ASSUME SiteAssumption, DepthAssumption, Inv, Inv', Shallow, [Next]_vars
    PROVE  Shallow'
<1>1. CASE SelectDone \/ ReceiveClosed \/ DrainEnd \/ OpenFails \/ Cancel \/ Returned
           \/ UNCHANGED vars
    BY <1>1, ShallowKept DEF SelectDone, StartDrain, ReceiveClosed, DrainEnd, OpenFails,
       Return, Back, Cancel, Returned, vars, mgrVars, chanVars
<1>2. CASE LoopHead \/ NextJob \/ SendJob \/ ReceiveResult \/ DrainResult \/ Handle
           \/ Expand \/ OpenDirectory
    BY <1>2, LoopHeadShallow, NextJobShallow, SendJobShallow, ReceiveShallow,
       HandleShallow, ExpandShallow, OpenShallow
<1>3. CASE \E w \in Worker : Work(w)
    BY <1>3, WorkShallow
<1> QED
    BY <1>1, <1>2, <1>3 DEF Next, Manager

\* No request goes deeper than --max-depth, whichever of words, links, redirects and
\* framework paths leads to it (manager.go, handleResult).
THEOREM DepthCorrect == Spec => []WithinDepth
<1>1. Init => Inv /\ Shallow
    BY InitInv, InitShallow, SiteAssumption, WorkerAssumption, DepthAssumption
<1>2. Inv /\ Shallow /\ [Next]_vars => (Inv /\ Shallow)'
    BY StepInv, StepShallow, SiteAssumption, WorkerAssumption, AbsentAssumption,
       DepthAssumption
<1>3. Inv /\ Shallow => WithinDepth
  <2> SUFFICES ASSUME Shallow PROVE WithinDepth
    OBVIOUS
  <2>1. \A i \in 1..Len(jobs) : jobs[i] \in ShallowJob
    BY ElementOfSeq DEF Shallow
  <2> QED
    BY <2>1 DEF WithinDepth, Shallow, ShallowJob
<1> QED
    BY <1>1, <1>2, <1>3, PTL DEF Spec

---------------------------------------------------------------------------
(***************************************************************************)
(* No URL twice.  The visited set is consulted when a URL is put in a      *)
(* generator's buffer, long before it is sent.  What carries the check     *)
(* across that gap is Exclusive: a claimed URL is in at most one place, a  *)
(* buffer, the manager's hand or the set of sent URLs.                     *)
(***************************************************************************)
\* Claimed, neither sent nor in hand.
Free == {u \in visited \ sent : nextJob # NoJob => u # nextJob.url}

Within(q, S) == \A i \in 1..Len(q) : q[i].buffer \subseteq S
Disjoint(q) == \A i, j \in 1..Len(q) : i # j => q[i].buffer \cap q[j].buffer = {}
Apart(g, q) == \A i \in 1..Len(q) : g.buffer \cap q[i].buffer = {}

Exclusive ==
    /\ sent \subseteq visited
    /\ nextJob # NoJob => nextJob.url \in visited \ sent
    /\ Within(frontier, Free) /\ Disjoint(frontier)
    /\ active # NoGen => active.buffer \subseteq Free /\ Apart(active, frontier)

---------------------------------------------------------------------------
(* Buffers of a frontier that grows and shrinks. *)

\* The elements of a sequence with one more in front.
LEMMA PushFrontAt ==
    ASSUME NEW S, NEW q \in Seq(S), NEW g \in S
    PROVE  /\ Len(q) \in Nat /\ Len(PushFront(g, q)) = Len(q) + 1
           /\ PushFront(g, q)[1] = g
           /\ \A i \in 2..(Len(q) + 1) : i - 1 \in 1..Len(q) /\ PushFront(g, q)[i] = q[i - 1]
           /\ \A i \in 1..(Len(q) + 1) : i = 1 \/ i \in 2..(Len(q) + 1)
<1>1. <<g>> \in Seq(S) /\ Len(<<g>>) = 1 /\ <<g>>[1] = g /\ Len(q) \in Nat
    OBVIOUS
<1> QED
    BY <1>1, ConcatProperties DEF PushFront

LEMMA PushApart ==
    ASSUME NEW q \in Seq(Generator), NEW g \in Generator, NEW S,
           Within(q, S), Disjoint(q), g.buffer \subseteq S, Apart(g, q)
    PROVE  Within(PushFront(g, q), S) /\ Disjoint(PushFront(g, q))
<1>1. /\ Len(q) \in Nat /\ Len(PushFront(g, q)) = Len(q) + 1
      /\ PushFront(g, q)[1] = g
      /\ \A i \in 2..(Len(q) + 1) : i - 1 \in 1..Len(q) /\ PushFront(g, q)[i] = q[i - 1]
      /\ \A i \in 1..(Len(q) + 1) : i = 1 \/ i \in 2..(Len(q) + 1)
    BY PushFrontAt
<1>2. Within(PushFront(g, q), S)
    BY <1>1 DEF Within
<1>3. Disjoint(PushFront(g, q))
  <2> SUFFICES ASSUME NEW i \in 1..(Len(q) + 1), NEW j \in 1..(Len(q) + 1), i # j
               PROVE  PushFront(g, q)[i].buffer \cap PushFront(g, q)[j].buffer = {}
    BY <1>1 DEF Disjoint
  <2>1. CASE i = 1
    BY <1>1, <2>1 DEF Apart
  <2>2. CASE j = 1
    BY <1>1, <2>2 DEF Apart
  <2>3. CASE i # 1 /\ j # 1
    BY <1>1, <2>3 DEF Disjoint
  <2> QED
    BY <2>1, <2>2, <2>3
<1> QED
    BY <1>2, <1>3

LEMMA PopApart ==
    ASSUME NEW q \in Seq(Generator), NEW S, q # <<>>, Within(q, S), Disjoint(q)
    PROVE  /\ Within(Tail(q), S) /\ Disjoint(Tail(q))
           /\ Head(q).buffer \subseteq S /\ Apart(Head(q), Tail(q))
<1>1. /\ Len(q) \in Nat /\ Len(q) >= 1 /\ Len(Tail(q)) = Len(q) - 1
      /\ Head(q) = q[1] /\ \A i \in 1..Len(Tail(q)) : Tail(q)[i] = q[i + 1]
    BY HeadTailProperties, EmptySeq
<1>2. \A i \in 1..Len(Tail(q)) : i + 1 \in 1..Len(q) /\ i + 1 # 1
    BY <1>1
<1>3. \A i, j \in 1..Len(Tail(q)) : i # j => i + 1 # j + 1
    BY <1>1
<1>4. 1 \in 1..Len(q)
    BY <1>1
<1> QED
    BY <1>1, <1>2, <1>3, <1>4 DEF Within, Disjoint, Apart

\* A generator of URLs outside S goes on either end of a frontier within S; whatever
\* was apart from the frontier and within S stays apart.
LEMMA InsertFresh ==
    ASSUME NEW q \in Seq(Generator), NEW g \in Generator, NEW S,
           Within(q, S), Disjoint(q), g.buffer \cap S = {}
    PROVE  /\ Within(Append(q, g), S \cup g.buffer) /\ Disjoint(Append(q, g))
           /\ Within(PushFront(g, q), S \cup g.buffer) /\ Disjoint(PushFront(g, q))
           /\ \A h : h.buffer \subseteq S /\ Apart(h, q) =>
                 Apart(h, Append(q, g)) /\ Apart(h, PushFront(g, q))
<1>1. /\ Len(q) \in Nat /\ Len(Append(q, g)) = Len(q) + 1
      /\ Append(q, g)[Len(q) + 1] = g
      /\ \A i \in 1..Len(q) : Append(q, g)[i] = q[i]
    BY AppendProperties
<1>2. \A i \in 1..(Len(q) + 1) : i = Len(q) + 1 \/ i \in 1..Len(q)
    BY <1>1
<1>3. Apart(g, q)
    BY DEF Apart, Within
<1>4. Within(q, S \cup g.buffer)
    BY DEF Within
<1>5. Within(PushFront(g, q), S \cup g.buffer) /\ Disjoint(PushFront(g, q))
    BY <1>3, <1>4, PushApart
<1>6. Within(Append(q, g), S \cup g.buffer)
    BY <1>1, <1>2, <1>4 DEF Within
<1>7. Disjoint(Append(q, g))
  <2> SUFFICES ASSUME NEW i \in 1..(Len(q) + 1), NEW j \in 1..(Len(q) + 1), i # j
               PROVE  Append(q, g)[i].buffer \cap Append(q, g)[j].buffer = {}
    BY <1>1 DEF Disjoint
  <2>1. CASE i = Len(q) + 1
    BY <1>1, <1>2, <1>3, <2>1 DEF Apart
  <2>2. CASE j = Len(q) + 1
    BY <1>1, <1>2, <1>3, <2>2 DEF Apart
  <2>3. CASE i # Len(q) + 1 /\ j # Len(q) + 1
    BY <1>1, <1>2, <2>3 DEF Disjoint
  <2> QED
    BY <2>1, <2>2, <2>3
<1>8. ASSUME NEW h, h.buffer \subseteq S, Apart(h, q)
      PROVE  Apart(h, Append(q, g)) /\ Apart(h, PushFront(g, q))
  <2>1. h.buffer \cap g.buffer = {}
    BY <1>8
  <2>2. Apart(h, Append(q, g))
    BY <1>1, <1>2, <1>8, <2>1 DEF Apart
  <2>3. Apart(h, PushFront(g, q))
    <3>1. /\ Len(PushFront(g, q)) = Len(q) + 1 /\ PushFront(g, q)[1] = g
          /\ \A i \in 2..(Len(q) + 1) : i - 1 \in 1..Len(q) /\ PushFront(g, q)[i] = q[i - 1]
          /\ \A i \in 1..(Len(q) + 1) : i = 1 \/ i \in 2..(Len(q) + 1)
        BY PushFrontAt
    <3> QED
        BY <1>8, <2>1, <3>1 DEF Apart
  <2> QED
    BY <2>2, <2>3
<1> QED
    BY <1>5, <1>6, <1>7, <1>8

\* Links and framework paths not yet visited.
LEMMA InsertUnlessEmpty ==
    ASSUME SiteAssumption, conf \in Config,
           NEW q \in Seq(Generator), NEW urls \in SUBSET Url, NEW d \in Nat, NEW S,
           Within(q, S), Disjoint(q), urls \cap S = {}
    PROVE  /\ Within(PushFrontUnlessEmpty(urls, d, q), S \cup urls)
           /\ Disjoint(PushFrontUnlessEmpty(urls, d, q))
           /\ \A h : h.buffer \subseteq S /\ Apart(h, q) =>
                 Apart(h, PushFrontUnlessEmpty(urls, d, q))
<1>1. Slice(urls, d) \in Generator
    BY MadeGenerators
<1>2. Slice(urls, d).buffer = urls
    BY DEF Slice
<1>3. CASE urls = {}
  <2>1. PushFrontUnlessEmpty(urls, d, q) = q /\ S \cup urls = S
    BY <1>3 DEF PushFrontUnlessEmpty
  <2> QED
    BY <2>1
<1>4. CASE urls # {}
  <2>1. PushFrontUnlessEmpty(urls, d, q) = PushFront(Slice(urls, d), q)
    BY <1>4 DEF PushFrontUnlessEmpty
  <2> DEFINE g == Slice(urls, d)
  <2>2. g \in Generator /\ g.buffer = urls
    BY <1>1, <1>2
  <2> HIDE DEF g
  <2>3. /\ Within(PushFront(g, q), S \cup urls) /\ Disjoint(PushFront(g, q))
        /\ \A h : h.buffer \subseteq S /\ Apart(h, q) => Apart(h, PushFront(g, q))
    BY <2>2, InsertFresh
  <2> QED
    BY <2>1, <2>3 DEF g
<1> QED
    BY <1>3, <1>4

---------------------------------------------------------------------------
(* The invariant. *)

LEMMA InitExclusive ==
    ASSUME SiteAssumption, Init
    PROVE  Exclusive
<1> DEFINE n == Len(Discovered)
           m == Len(Seeds)
           all == Seeds \o Discovered
           at(i) == IF i <= n THEN m + n - i + 1 ELSE i - n
<1>1. Seeds \in Seq(Url) /\ Discovered \in Seq(Url) /\ n \in Nat /\ m \in Nat
    BY LenProperties DEF SiteAssumption
<1>2. /\ Len(all) = m + n
      /\ \A i \in 1..m : all[i] = Seeds[i]
      /\ \A i \in 1..n : all[m + i] = Discovered[i]
    BY <1>1, ConcatProperties
<1>3. \A i, j \in 1..Len(all) : all[i] = all[j] => i = j
    BY DEF SiteAssumption
<1>4. visited = {all[i] : i \in 1..Len(all)} /\ sent = {} /\ nextJob = NoJob /\ active = NoGen
    BY DEF Init
<1>5. /\ Len(frontier) = n + m
      /\ \A i \in 1..n : frontier[i] = DiscoveredSlices[i]
      /\ \A i \in 1..m : frontier[n + i] = SeedSlices[i]
  <2>1. Len(DiscoveredSlices) = n /\ Len(SeedSlices) = m
    BY <1>1 DEF DiscoveredSlices, SeedSlices
  <2>2. conf \in Config
    BY DEF Init, SiteAssumption
  <2>3. \A u \in Url : Slice({u}, 0) \in Generator
    BY <2>2, MadeGenerators
  <2>4. /\ frontier = DiscoveredSlices \o SeedSlices
        /\ DiscoveredSlices \in Seq(Generator) /\ SeedSlices \in Seq(Generator)
    BY <2>3, InitFrontier
  <2>5. \A d, s \in Seq(Generator) :
           /\ Len(d \o s) = Len(d) + Len(s)
           /\ \A i \in 1..Len(d) : (d \o s)[i] = d[i]
           /\ \A i \in 1..Len(s) : (d \o s)[Len(d) + i] = s[i]
    BY ConcatProperties
  <2> HIDE DEF n, m
  <2> QED
    BY <2>1, <2>4, <2>5
<1>6. /\ \A i \in 1..n : DiscoveredSlices[i].buffer = {Discovered[n - i + 1]}
      /\ \A i \in 1..m : SeedSlices[i].buffer = {Seeds[i]}
    BY DEF DiscoveredSlices, SeedSlices, Slice
<1> HIDE DEF all, n, m
<1>7. \A i \in 1..(n + m) : at(i) \in 1..Len(all) /\ frontier[i].buffer = {all[at(i)]}
  <2> TAKE i \in 1..(n + m)
  <2>1. CASE i <= n
    <3>1. i \in 1..n /\ n - i + 1 \in 1..n /\ at(i) = m + (n - i + 1)
        BY <1>1, <2>1
    <3>2. frontier[i].buffer = {all[m + (n - i + 1)]}
        BY <1>2, <1>5, <1>6, <3>1
    <3> QED
        BY <1>1, <1>2, <3>1, <3>2
  <2>2. CASE i > n
    <3>1. i - n \in 1..m /\ i = n + (i - n) /\ at(i) = i - n
        BY <1>1, <2>2
    <3>2. frontier[n + (i - n)].buffer = {all[i - n]}
        BY <1>2, <1>5, <1>6, <3>1
    <3> QED
        BY <1>1, <1>2, <3>1, <3>2
  <2> QED
    BY <1>1, <2>1, <2>2
<1>8. \A i, j \in 1..(n + m) : i # j => at(i) # at(j)
    BY <1>1
<1> HIDE DEF at
<1>9. Disjoint(frontier)
  <2> SUFFICES ASSUME NEW i \in 1..(n + m), NEW j \in 1..(n + m), i # j
               PROVE  frontier[i].buffer \cap frontier[j].buffer = {}
    BY <1>5 DEF Disjoint
  <2>1. /\ at(i) \in 1..Len(all) /\ frontier[i].buffer = {all[at(i)]}
        /\ at(j) \in 1..Len(all) /\ frontier[j].buffer = {all[at(j)]}
        /\ at(i) # at(j)
    BY <1>7, <1>8
  <2>2. all[at(i)] # all[at(j)]
    BY <1>3, <2>1
  <2> QED
    BY <2>1, <2>2
<1>10. Within(frontier, Free)
  <2>1. Free = visited
    BY <1>4 DEF Free
  <2> SUFFICES ASSUME NEW i \in 1..(n + m) PROVE frontier[i].buffer \subseteq visited
    BY <1>5, <2>1 DEF Within
  <2>2. at(i) \in 1..Len(all) /\ frontier[i].buffer = {all[at(i)]}
    BY <1>7
  <2>3. \A k \in 1..Len(all) : all[k] \in visited
    BY <1>4
  <2> QED
    BY <2>2, <2>3
<1> QED
    BY <1>4, <1>9, <1>10 DEF Exclusive

\* Nothing that Exclusive reads has changed, but that more is claimed.
LEMMA ExclusiveKept ==
    ASSUME Exclusive, UNCHANGED <<frontier, active, nextJob, sent>>, visited \subseteq visited'
    PROVE  Exclusive'
<1>1. Free \subseteq Free'
    BY DEF Free
<1> QED
    BY <1>1 DEF Exclusive, Within, Disjoint, Apart

LEMMA LoopHeadExclusive ==
    ASSUME Inv, Exclusive, LoopHead
    PROVE  Exclusive'
<1>1. Free' = Free /\ UNCHANGED <<visited, sent, nextJob>>
    BY DEF LoopHead, histVars, Free
<1>2. CASE frontier' = frontier /\ active' = active
    BY <1>1, <1>2, ExclusiveKept
<1>3. CASE frontier # <<>> /\ active' = Head(frontier) /\ frontier' = Tail(frontier)
  <2>1. frontier \in Seq(Generator) /\ Within(frontier, Free) /\ Disjoint(frontier)
    BY DEF Inv, TypeOK, Exclusive
  <2>2. /\ Within(Tail(frontier), Free) /\ Disjoint(Tail(frontier))
        /\ Head(frontier).buffer \subseteq Free /\ Apart(Head(frontier), Tail(frontier))
    BY <1>3, <2>1, PopApart
  <2> QED
    BY <1>1, <1>3, <2>2 DEF Exclusive
<1> QED
    BY <1>2, <1>3 DEF LoopHead

LEMMA NextJobExclusive ==
    ASSUME Inv, Exclusive, NextJob
    PROVE  Exclusive'
<1>1. /\ active # NoGen /\ active \in Generator /\ nextJob = NoJob
      /\ UNCHANGED <<frontier, sent>>
    BY DEF NextJob, Inv, Control, histVars
<1>2. /\ Free = visited \ sent /\ sent \subseteq visited
      /\ Within(frontier, Free) /\ Disjoint(frontier)
      /\ active.buffer \subseteq Free /\ Apart(active, frontier)
    BY <1>1 DEF Exclusive, Free
\* A URL goes from the buffer, or from a word's fresh variants F, into hand.
<1>3. SUFFICES ASSUME active' # NoGen \/ nextJob' # NoJob
               PROVE  Exclusive'
  <2>1. CASE active' = NoGen /\ nextJob' = NoJob
    <3>1. visited \subseteq visited'
        BY DEF NextJob, NextBuffered, NextWord, NextExhausted
    <3>2. Free \subseteq Free'
        BY <1>1, <2>1, <3>1 DEF Free
    <3>3. Within(frontier, Free') /\ sent \subseteq visited'
        BY <1>2, <3>1, <3>2 DEF Within
    <3> QED
        BY <1>1, <1>2, <2>1, <3>3 DEF Exclusive
  <2> QED
    BY <1>3, <2>1
<1>4. CASE NextBuffered
  <2>1. PICK u \in active.buffer : /\ nextJob' = [url |-> u, depth |-> active.depth]
                                   /\ active' = [active EXCEPT !.buffer = @ \ {u}]
    BY <1>4 DEF NextBuffered
  <2>2. nextJob'.url = u /\ active'.buffer = active.buffer \ {u} /\ visited' = visited
    BY <1>1, <1>4, <2>1 DEF NextBuffered, Generator
  <2>3. Free \ {u} \subseteq Free' /\ u \in visited \ sent
    BY <1>1, <1>2, <2>2 DEF Free
  <2>4. Within(frontier, Free')
    BY <1>2, <2>3 DEF Within, Apart
  <2>5. active'.buffer \subseteq Free' /\ Apart(active', frontier)
    BY <1>2, <2>2, <2>3 DEF Apart
  <2> QED
    BY <1>1, <1>2, <2>2, <2>3, <2>4, <2>5 DEF Exclusive
<1>5. CASE NextWord
  <2>1. PICK i \in 1..Len(active.words) : \E u \in Fresh(active, i) :
           /\ visited' = visited \cup Fresh(active, i)
           /\ nextJob' = [url |-> u, depth |-> active.depth]
           /\ active' = [active EXCEPT !.buffer = Fresh(active, i) \ {u},
                                       !.words = SubSeq(@, i + 1, Len(@))]
    BY <1>5 DEF NextWord
  <2> DEFINE F == Fresh(active, i)
  <2>2. PICK u \in F :
           /\ visited' = visited \cup F
           /\ nextJob' = [url |-> u, depth |-> active.depth]
           /\ active' = [active EXCEPT !.buffer = F \ {u},
                                       !.words = SubSeq(@, i + 1, Len(@))]
    BY <2>1
  <2>3. F \cap visited = {}
    BY DEF Fresh
  <2> HIDE DEF F
  <2>4. nextJob'.url = u /\ active'.buffer = F \ {u}
    BY <1>1, <2>2 DEF Generator
  <2>5. Free \cup (F \ {u}) \subseteq Free' /\ u \in visited' \ sent
    BY <1>1, <1>2, <2>2, <2>3, <2>4 DEF Free
  <2>6. Within(frontier, Free')
    BY <1>2, <2>5 DEF Within
  <2>7. active'.buffer \subseteq Free' /\ Apart(active', frontier)
    BY <1>2, <2>3, <2>4, <2>5 DEF Apart, Within
  <2> QED
    BY <1>1, <1>2, <2>2, <2>4, <2>5, <2>6, <2>7 DEF Exclusive
<1>6. CASE NextExhausted
    BY <1>1, <1>3, <1>6 DEF NextExhausted
<1> QED
    BY <1>4, <1>5, <1>6 DEF NextJob

\* The URL in hand joins the sent ones: what is free stays free.
LEMMA SendJobExclusive ==
    ASSUME Exclusive, SendJob
    PROVE  Exclusive'
<1>1. /\ UNCHANGED <<frontier, active, visited>> /\ nextJob # NoJob /\ nextJob' = NoJob
      /\ sent' = sent \cup {nextJob.url}
    BY DEF SendJob
<1>2. Free' = Free
    BY <1>1 DEF Free
<1> QED
    BY <1>1, <1>2 DEF Exclusive

LEMMA HandleExclusive ==
    ASSUME SiteAssumption, Inv, Exclusive, Handle
    PROVE  Exclusive'
<1>1. UNCHANGED <<active, nextJob, sent>>
    BY DEF Handle
<1>2. CASE HandleRedirect
  <2>1. /\ result \in Result /\ conf \in Config /\ frontier \in Seq(Generator)
        /\ sent \subseteq visited
        /\ Within(frontier, Free) /\ Disjoint(frontier)
        /\ active # NoGen => active.buffer \subseteq Free /\ Apart(active, frontier)
    BY DEF Handle, Inv, TypeOK, Control, Exclusive
  <2>2. /\ result.target \in Url /\ result.target \notin visited /\ result.depth \in Nat
        /\ visited' = visited \cup {result.target}
        /\ frontier' = Append(frontier, Slice({result.target}, result.depth))
    BY <1>2, <2>1 DEF HandleRedirect, FollowsTo, IsRedirect, Result
  <2> DEFINE g == Slice({result.target}, result.depth)
  <2>3. g \in Generator /\ g.buffer = {result.target}
    BY <2>1, <2>2, MadeGenerators DEF Slice
  <2>4. frontier' = Append(frontier, g) /\ g.buffer \cap Free = {}
    BY <2>2, <2>3 DEF Free
  <2> HIDE DEF g
  <2>5. /\ Within(frontier', Free \cup g.buffer) /\ Disjoint(frontier')
        /\ active # NoGen => Apart(active, frontier')
    BY <2>1, <2>3, <2>4, InsertFresh
  <2>6. Free \cup g.buffer \subseteq Free'
    <3>1. result.target \notin sent /\ (nextJob # NoJob => nextJob.url # result.target)
        BY <2>1, <2>2 DEF Exclusive
    <3> QED
        BY <1>1, <2>2, <2>3, <3>1 DEF Free
  <2>7. Within(frontier', Free') /\ (active # NoGen => active.buffer \subseteq Free')
    BY <2>1, <2>5, <2>6 DEF Within
  <2> QED
    BY <1>1, <2>1, <2>2, <2>5, <2>7 DEF Exclusive
<1>3. CASE HandleLeaf \/ HandleFollowed \/ HandleDirectory
  <2>1. UNCHANGED frontier /\ visited \subseteq visited'
    BY <1>3 DEF HandleLeaf, HandleFollowed, HandleDirectory
  <2> QED
    BY <1>1, <2>1, ExclusiveKept
<1> QED
    BY <1>2, <1>3 DEF Handle

\* Links are filtered by the visited set, and by the framework paths put there just
\* before; so both are new to every buffer, and to each other's.
LEMMA ExpandExclusive ==
    ASSUME SiteAssumption, Inv, Exclusive, Expand
    PROVE  Exclusive'
<1>1. UNCHANGED <<active, nextJob, sent>>
    BY DEF Expand, histVars
<1>2. CASE CtxErr \/ AtLimit(result)
  <2>1. UNCHANGED <<frontier, visited>>
    BY <1>2 DEF Expand
  <2> QED
    BY <1>1, <2>1, ExclusiveKept
<1>3. CASE ~(CtxErr \/ AtLimit(result))
  <2> DEFINE tech  == result.tech \ visited
             links == result.links \ (visited \cup tech)
             inner == PushFrontUnlessEmpty(tech, result.depth + 1, frontier)
  <2>1. /\ visited' = visited \cup tech \cup links
        /\ frontier' = PushFrontUnlessEmpty(links, result.depth + 1, inner)
    BY <1>3 DEF Expand
  <2>2. /\ conf \in Config /\ frontier \in Seq(Generator) /\ result.depth + 1 \in Nat
        /\ tech \in SUBSET Url /\ links \in SUBSET Url
    BY DEF Expand, Inv, TypeOK, Control, Result
  <2>3. /\ sent \subseteq visited /\ Within(frontier, Free) /\ Disjoint(frontier)
        /\ active # NoGen => active.buffer \subseteq Free /\ Apart(active, frontier)
        /\ nextJob # NoJob => nextJob.url \in visited \ sent
    BY DEF Exclusive
  <2>4. tech \cap visited = {} /\ links \cap visited = {} /\ links \cap tech = {}
        /\ Free \subseteq visited
    BY DEF Free
  <2> HIDE DEF tech, links
  <2>5. /\ Within(inner, Free \cup tech) /\ Disjoint(inner) /\ inner \in Seq(Generator)
        /\ active # NoGen => Apart(active, inner)
    <3>1. tech \cap Free = {}
        BY <2>4
    <3> QED
        BY <2>2, <2>3, <3>1, InsertUnlessEmpty, PushUnlessEmptyType
  <2> HIDE DEF inner
  <2>6. /\ Within(frontier', (Free \cup tech) \cup links) /\ Disjoint(frontier')
        /\ active # NoGen => Apart(active, frontier')
    <3>1. links \cap (Free \cup tech) = {} /\ (active # NoGen => active.buffer \subseteq Free \cup tech)
        BY <2>3, <2>4
    <3> QED
        BY <2>1, <2>2, <2>5, <3>1, InsertUnlessEmpty
  <2>7. (Free \cup tech) \cup links \subseteq Free'
    BY <1>1, <2>1, <2>3, <2>4 DEF Free
  <2>8. Within(frontier', Free') /\ (active # NoGen => active.buffer \subseteq Free')
    BY <2>3, <2>6, <2>7 DEF Within
  <2> QED
    BY <1>1, <2>1, <2>3, <2>6, <2>8 DEF Exclusive
<1> QED
    BY <1>2, <1>3

\* A directory starts with an empty buffer; an active generator put back in front was
\* apart from the frontier already.
LEMMA OpenExclusive ==
    ASSUME SiteAssumption, Inv, Exclusive, OpenDirectory
    PROVE  Exclusive'
<1> DEFINE g == Directory(Parent(result), result.depth + 1)
<1>1. /\ UNCHANGED <<nextJob, sent, visited>>
      /\ \/ frontier' = Append(frontier, g) /\ active' = active
         \/ frontier' = Suspend /\ active' = g
    BY DEF OpenDirectory
<1>2. /\ frontier \in Seq(Generator) /\ (active # NoGen => active \in Generator)
      /\ Within(frontier, Free) /\ Disjoint(frontier) /\ sent \subseteq visited
      /\ active # NoGen => active.buffer \subseteq Free /\ Apart(active, frontier)
      /\ nextJob # NoJob => nextJob.url \in visited \ sent
    BY DEF Inv, TypeOK, Exclusive
<1>3. g \in Generator /\ g.buffer = {}
  <2>1. conf \in Config /\ result \in Result
    BY DEF OpenDirectory, Inv, TypeOK, Control
  <2>2. result.depth + 1 \in Nat /\ Parent(result) \in Url
    BY <2>1 DEF Result, Parent, IsRedirect
  <2> QED
    BY <2>1, <2>2, MadeGenerators DEF Directory
<1> HIDE DEF g
<1>4. Free' = Free
    BY <1>1 DEF Free
<1>5. CASE frontier' = Append(frontier, g) /\ active' = active
  <2>1. /\ Within(frontier', Free \cup g.buffer) /\ Disjoint(frontier')
        /\ active # NoGen => Apart(active, frontier')
    BY <1>2, <1>3, <1>5, InsertFresh
  <2>2. Free \cup g.buffer = Free
    BY <1>3
  <2> QED
    BY <1>1, <1>2, <1>4, <1>5, <2>1, <2>2 DEF Exclusive
<1>6. CASE frontier' = Suspend /\ active' = g
  <2>1. Within(frontier', Free) /\ Disjoint(frontier')
    <3>1. CASE active = NoGen
        BY <1>2, <1>6, <3>1 DEF Suspend
    <3>2. CASE active # NoGen
        BY <1>2, <1>6, <3>2, PushApart DEF Suspend
    <3> QED
        BY <3>1, <3>2
  <2>2. Apart(g, frontier') /\ g.buffer \subseteq Free
    BY <1>3 DEF Apart
  <2> QED
    BY <1>1, <1>2, <1>4, <1>6, <2>1, <2>2 DEF Exclusive
<1> QED
    BY <1>1, <1>5, <1>6

LEMMA StepExclusive ==
    ASSUME SiteAssumption, Inv, Exclusive, [Next]_vars
    PROVE  Exclusive'
<1>1. CASE SelectDone \/ ReceiveResult \/ ReceiveClosed \/ DrainResult \/ DrainEnd
           \/ OpenFails \/ (\E w \in Worker : Work(w)) \/ Cancel \/ Returned
           \/ UNCHANGED vars
  <2>1. UNCHANGED <<frontier, active, nextJob, sent, visited>>
    BY <1>1 DEF SelectDone, ReceiveResult, ReceiveClosed, DrainResult, DrainEnd, OpenFails,
       Work, Cancel, Returned, vars, mgrVars, histVars
  <2> QED
    BY <2>1, ExclusiveKept
<1>2. CASE LoopHead \/ NextJob \/ SendJob \/ Handle \/ Expand \/ OpenDirectory
    BY <1>2, LoopHeadExclusive, NextJobExclusive, SendJobExclusive, HandleExclusive,
       ExpandExclusive, OpenExclusive
<1> QED
    BY <1>1, <1>2 DEF Next, Manager

\* Only a send makes the jobs channel longer.
LEMMA OnlySendsGrow ==
    ASSUME Inv, [Next]_vars, Len(jobs') > Len(jobs)
    PROVE  SendJob
<1>1. jobs \in Seq(Job) /\ Len(jobs) \in Nat
    BY DEF Inv, TypeOK
<1>2. ~UNCHANGED jobs
    BY <1>1
<1>3. ASSUME NEW w \in Worker, Take(w)
      PROVE  FALSE
  <2>1. Len(jobs') = Len(jobs) - 1
    BY <1>1, <1>3, SeqOps DEF Take
  <2> QED
    BY <1>1, <2>1
<1>4. ~\E w \in Worker : Work(w)
    BY <1>2, <1>3 DEF Work, JobsEnd, Drop, Request, Respond, chanVars
<1> QED
    BY <1>2, <1>4 DEF Next, Manager, LoopHead, NextJob, SelectDone, ReceiveResult,
       ReceiveClosed, DrainResult, DrainEnd, Handle, Expand, OpenDirectory, OpenFails,
       Cancel, Returned, vars, chanVars

THEOREM ExclusiveInvariance == Spec => [](Inv /\ Exclusive)
<1>1. Init => Inv /\ Exclusive
    BY InitInv, InitExclusive, SiteAssumption, WorkerAssumption
<1>2. Inv /\ Exclusive /\ [Next]_vars => (Inv /\ Exclusive)'
    BY StepInv, StepExclusive, SiteAssumption, WorkerAssumption, AbsentAssumption
<1> QED
    BY <1>1, <1>2, PTL DEF Spec

\* No URL is dispatched to the pool twice (the visited map of manager.go, Run and
\* handleResult, and of generator.go).
THEOREM OnceCorrect == Spec => DispatchedOnce
<1>1. Inv /\ Exclusive /\ [Next]_vars => [Len(jobs') > Len(jobs) => nextJob.url \notin sent]_vars
  <2> SUFFICES ASSUME Inv, Exclusive, [Next]_vars, Len(jobs') > Len(jobs)
               PROVE  nextJob.url \notin sent
    OBVIOUS
  <2>1. nextJob # NoJob
    BY OnlySendsGrow DEF SendJob
  <2> QED
    BY <2>1 DEF Exclusive
<1> QED
    BY <1>1, ExclusiveInvariance, PTL DEF Spec, DispatchedOnce

---------------------------------------------------------------------------
(***************************************************************************)
(* Nothing lost.  The property is inductive beside Inv and Over: a claimed *)
(* URL stays in some place (Placed), and a word under an expanded          *)
(* directory stays ahead of a generator until all its variants are claimed *)
(* (Ahead).  A generator that changes is replaced by one that covers it.   *)
(***************************************************************************)
Placed(u) == u \in sent \cup assumed \/ Held(u) \/ \E g \in Generators : u \in g.buffer
Ahead(s) == s \subseteq visited \/ \E g \in Generators : Covers(g, s)

Going == ~cancelled /\ exit # "error"

LEMMA NothingLostParts ==
    NothingLost <=>
      (Going => /\ \A u \in visited : Placed(u)
                /\ \A u \in expanded : \A i \in 1..Len(Candidates[conf.strategy][u]) :
                      Ahead(Candidates[conf.strategy][u][i]))
BY DEF NothingLost, Placed, Ahead, Going

\* What a step must keep, and what it must place.
LEMMA LostStep ==
    ASSUME NothingLost, Going' => Going, conf' = conf,
           Going => /\ \A u \in visited : Placed(u) => Placed(u)'
                    /\ \A u \in visited' \ visited : Placed(u)'
                    /\ \A s : Ahead(s) => Ahead(s)'
                    /\ \A u \in expanded' \ expanded :
                          \A i \in 1..Len(Candidates[conf.strategy][u]) :
                             Ahead(Candidates[conf.strategy][u][i])'
    PROVE  NothingLost'
<1> SUFFICES ASSUME Going'
             PROVE  /\ \A u \in visited' : Placed(u)'
                    /\ \A u \in expanded' : \A i \in 1..Len(Candidates[conf.strategy][u]) :
                          Ahead(Candidates[conf.strategy][u][i])'
    BY DEF NothingLost, Placed, Ahead, Going
<1>1. /\ \A u \in visited : Placed(u)
      /\ \A u \in expanded : \A i \in 1..Len(Candidates[conf.strategy][u]) :
            Ahead(Candidates[conf.strategy][u][i])
    BY NothingLostParts
<1> QED
    BY <1>1

\* A step that keeps every generator, and the URL in hand unless it sends it.
LEMMA PlacesKept ==
    ASSUME Generators \subseteq Generators', visited \subseteq visited',
           sent \subseteq sent', assumed \subseteq assumed',
           nextJob' = nextJob \/ nextJob = NoJob \/ nextJob.url \in sent'
    PROVE  /\ \A u : Placed(u) => Placed(u)'
           /\ \A s : Ahead(s) => Ahead(s)'
<1>1. ASSUME NEW u, Placed(u) PROVE Placed(u)'
  <2>1. Held(u) => Held(u)' \/ u \in sent'
    BY DEF Held
  <2> QED
    BY <1>1, <2>1 DEF Placed
<1>2. ASSUME NEW s, Ahead(s) PROVE Ahead(s)'
    BY <1>2 DEF Ahead, Covers
<1> QED
    BY <1>1, <1>2

\* The elements of a frontier that grows and shrinks.
Elems(q) == {q[i] : i \in 1..Len(q)}

LEMMA ElemsOps ==
    ASSUME NEW S, NEW q \in Seq(S), NEW g \in S
    PROVE  /\ Elems(Append(q, g)) = Elems(q) \cup {g}
           /\ Elems(PushFront(g, q)) = Elems(q) \cup {g}
           /\ q # <<>> => Elems(q) = Elems(Tail(q)) \cup {Head(q)}
<1>1. Elems(Append(q, g)) = Elems(q) \cup {g}
  <2>1. /\ Len(q) \in Nat /\ Len(Append(q, g)) = Len(q) + 1
        /\ Append(q, g)[Len(q) + 1] = g
        /\ \A i \in 1..Len(q) : Append(q, g)[i] = q[i]
    BY AppendProperties
  <2>2. \A i \in 1..(Len(q) + 1) : i = Len(q) + 1 \/ i \in 1..Len(q)
    BY <2>1
  <2>3. Len(q) + 1 \in 1..(Len(q) + 1) /\ 1..Len(q) \subseteq 1..(Len(q) + 1)
    BY <2>1
  <2> QED
    BY <2>1, <2>2, <2>3 DEF Elems
<1>2. Elems(PushFront(g, q)) = Elems(q) \cup {g}
  <2>1. /\ Len(q) \in Nat /\ Len(PushFront(g, q)) = Len(q) + 1
        /\ PushFront(g, q)[1] = g
        /\ \A i \in 2..(Len(q) + 1) : i - 1 \in 1..Len(q) /\ PushFront(g, q)[i] = q[i - 1]
        /\ \A i \in 1..(Len(q) + 1) : i = 1 \/ i \in 2..(Len(q) + 1)
    BY PushFrontAt
  <2>2. 1 \in 1..(Len(q) + 1)
    BY <2>1
  <2>3. \A i \in 1..Len(q) : i + 1 \in 2..(Len(q) + 1) /\ i + 1 \in 1..(Len(q) + 1) /\ (i + 1) - 1 = i
    BY <2>1
  <2>4. \A i \in 1..Len(q) : PushFront(g, q)[i + 1] = q[i]
    BY <2>1, <2>3
  <2>5. \A e : e \in Elems(PushFront(g, q)) => e \in Elems(q) \cup {g}
    BY <2>1 DEF Elems
  <2>6. \A e : e \in Elems(q) \cup {g} => e \in Elems(PushFront(g, q))
    BY <2>1, <2>2, <2>3, <2>4 DEF Elems
  <2> QED
    BY <2>5, <2>6
<1>3. ASSUME q # <<>> PROVE Elems(q) = Elems(Tail(q)) \cup {Head(q)}
  <2>1. /\ Len(q) \in Nat /\ Len(q) >= 1 /\ Len(Tail(q)) = Len(q) - 1
        /\ Head(q) = q[1] /\ \A i \in 1..Len(Tail(q)) : Tail(q)[i] = q[i + 1]
    BY <1>3, HeadTailProperties, EmptySeq
  <2>2. \A i \in 1..Len(Tail(q)) : i + 1 \in 1..Len(q)
    BY <2>1
  <2>3. \A i \in 1..Len(q) : i = 1 \/ (i - 1 \in 1..Len(Tail(q)) /\ (i - 1) + 1 = i)
    BY <2>1
  <2>4. 1 \in 1..Len(q)
    BY <2>1
  <2>5. \A i \in 1..Len(q) : q[i] \in Elems(Tail(q)) \cup {Head(q)}
    <3> TAKE i \in 1..Len(q)
    <3>1. CASE i = 1
        BY <2>1, <3>1
    <3>2. CASE i # 1
      <4>1. i - 1 \in 1..Len(Tail(q)) /\ Tail(q)[i - 1] = q[i]
        BY <2>1, <2>3, <3>2
      <4> QED
        BY <4>1 DEF Elems
    <3> QED
        BY <3>1, <3>2
  <2>6. \A e : e \in Elems(Tail(q)) \cup {Head(q)} => e \in Elems(q)
    BY <2>1, <2>2, <2>4 DEF Elems
  <2>7. \A e \in Elems(q) : \E i \in 1..Len(q) : e = q[i]
    BY DEF Elems
  <2> QED
    BY <2>5, <2>6, <2>7
<1> QED
    BY <1>1, <1>2, <1>3

LEMMA GeneratorsAre == Generators = Elems(frontier) \cup ({active} \ {NoGen})
BY DEF Generators, Elems

\* No generator is the absent one.
LEMMA NoGenOutside ==
    ASSUME AbsentAssumption, Inv
    PROVE  NoGen \notin Generator /\ NoGen \notin Elems(frontier)
<1>1. NoGen \notin Generator
    BY DEF AbsentAssumption, Generator
<1>2. \A i \in 1..Len(frontier) : frontier[i] \in Generator
    BY ElementOfSeq DEF Inv, TypeOK
<1> QED
    BY <1>1, <1>2 DEF Elems

LEMMA InitLost ==
    ASSUME SiteAssumption, Init
    PROVE  NothingLost
<1> DEFINE n == Len(Discovered)
           m == Len(Seeds)
           all == Seeds \o Discovered
<1>1. /\ Seeds \in Seq(Url) /\ Discovered \in Seq(Url) /\ n \in Nat /\ m \in Nat
    BY LenProperties DEF SiteAssumption
<1>2. /\ Len(all) = m + n
      /\ \A i \in 1..m : all[i] = Seeds[i]
      /\ \A i \in 1..n : all[m + i] = Discovered[i]
    BY <1>1, ConcatProperties
<1>3. visited = {all[i] : i \in 1..Len(all)} /\ expanded = {}
    BY DEF Init
<1>4. /\ Len(frontier) = n + m
      /\ \A i \in 1..n : frontier[i].buffer = {Discovered[n - i + 1]}
      /\ \A i \in 1..m : frontier[n + i].buffer = {Seeds[i]}
  <2>1. /\ Len(DiscoveredSlices) = n /\ Len(SeedSlices) = m
        /\ \A i \in 1..n : DiscoveredSlices[i].buffer = {Discovered[n - i + 1]}
        /\ \A i \in 1..m : SeedSlices[i].buffer = {Seeds[i]}
    BY <1>1 DEF DiscoveredSlices, SeedSlices, Slice
  <2>2. conf \in Config
    BY DEF Init, SiteAssumption
  <2>3. \A u \in Url : Slice({u}, 0) \in Generator
    BY <2>2, MadeGenerators
  <2>4. /\ frontier = DiscoveredSlices \o SeedSlices
        /\ DiscoveredSlices \in Seq(Generator) /\ SeedSlices \in Seq(Generator)
    BY <2>3, InitFrontier
  <2>5. \A d, s \in Seq(Generator) :
           /\ Len(d \o s) = Len(d) + Len(s)
           /\ \A i \in 1..Len(d) : (d \o s)[i] = d[i]
           /\ \A i \in 1..Len(s) : (d \o s)[Len(d) + i] = s[i]
    BY ConcatProperties
  <2> HIDE DEF n, m
  <2>6. /\ Len(frontier) = n + m
        /\ \A i \in 1..n : frontier[i] = DiscoveredSlices[i]
        /\ \A i \in 1..m : frontier[n + i] = SeedSlices[i]
    <3>1. /\ Len(frontier) = Len(DiscoveredSlices) + Len(SeedSlices)
          /\ \A i \in 1..Len(DiscoveredSlices) : frontier[i] = DiscoveredSlices[i]
          /\ \A i \in 1..Len(SeedSlices) : frontier[Len(DiscoveredSlices) + i] = SeedSlices[i]
      BY <2>4, <2>5
    <3>2. Len(DiscoveredSlices) = n /\ Len(SeedSlices) = m
      BY <2>1
    <3> QED
      BY <3>1, <3>2
  <2> QED
    BY <2>1, <2>6
<1> HIDE DEF all, n, m
<1>5. \A i \in 1..Len(all) : \E k \in 1..Len(frontier) : all[i] \in frontier[k].buffer
  <2> TAKE i \in 1..Len(all)
  <2>1. CASE i <= m
    <3>1. i \in 1..m /\ n + i \in 1..Len(frontier)
        BY <1>1, <1>2, <1>4, <2>1
    <3> QED
        BY <1>2, <1>4, <3>1
  <2>2. CASE i > m
    <3>1. i - m \in 1..n /\ m + (i - m) = i
        BY <1>1, <1>2, <2>2
    <3>2. n - (i - m) + 1 \in 1..n /\ n - (n - (i - m) + 1) + 1 = i - m
        BY <1>1, <3>1
    <3>3. n - (i - m) + 1 \in 1..Len(frontier)
        BY <1>1, <1>4, <3>2
    <3>4. frontier[n - (i - m) + 1].buffer = {Discovered[i - m]}
        BY <1>4, <3>2
    <3>5. all[i] = Discovered[i - m]
        BY <1>2, <3>1
    <3> QED
        BY <3>3, <3>4, <3>5
  <2> QED
    BY <1>1, <1>2, <2>1, <2>2
<1>6. \A u \in visited : \E g \in Generators : u \in g.buffer
  <2>1. \A k \in 1..Len(frontier) : frontier[k] \in Generators
    BY DEF Generators
  <2>2. \A u \in visited : \E i \in 1..Len(all) : u = all[i]
    BY <1>3
  <2> QED
    BY <1>5, <2>1, <2>2
<1> QED
    BY <1>3, <1>6 DEF NothingLost

\* Steps that leave the generators and the claims alone.
LEMMA LostKept ==
    ASSUME NothingLost, Going' => Going,
           UNCHANGED <<conf, frontier, active, nextJob, visited, sent, assumed, expanded>>
    PROVE  NothingLost'
<1>1. Generators' = Generators
    BY DEF Generators
<1>2. /\ \A u : Placed(u) => Placed(u)'
      /\ \A s : Ahead(s) => Ahead(s)'
    BY <1>1, PlacesKept
<1> QED
    BY <1>2, LostStep

LEMMA LoopHeadLost ==
    ASSUME AbsentAssumption, Inv, NothingLost, LoopHead
    PROVE  NothingLost'
<1>1. UNCHANGED <<conf, cancelled, exit, nextJob, visited, sent, assumed, expanded>>
    BY DEF LoopHead, histVars
<1>2. Generators' = Generators
  <2>1. CASE UNCHANGED <<frontier, active>>
    BY <2>1 DEF Generators
  <2>2. CASE active = NoGen /\ frontier # <<>> /\ active' = Head(frontier) /\ frontier' = Tail(frontier)
    <3>1. frontier \in Seq(Generator) /\ Head(frontier) \in Generator
        BY <2>2, SeqOps DEF Inv, TypeOK
    <3>2. Elems(frontier) = Elems(Tail(frontier)) \cup {Head(frontier)}
        BY <2>2, <3>1, ElemsOps
    <3>3. NoGen \notin Generator
        BY NoGenOutside
    <3>4. Generators' = Elems(frontier') \cup ({active'} \ {NoGen})
        BY DEF Generators, Elems
    <3> QED
        BY <2>2, <3>1, <3>2, <3>3, <3>4, GeneratorsAre
  <2> QED
    BY <2>1, <2>2 DEF LoopHead
<1>3. /\ \A u : Placed(u) => Placed(u)'
      /\ \A s : Ahead(s) => Ahead(s)'
    BY <1>1, <1>2, PlacesKept
<1> QED
    BY <1>1, <1>3, LostStep DEF Going

\* The active generator gives a URL into hand; what it takes from its words it
\* claims, and every word before that had all its variants claimed.
LEMMA NextJobLost ==
    ASSUME AbsentAssumption, Inv, NothingLost, NextJob
    PROVE  NothingLost'
<1>1. /\ active \in Generator /\ nextJob = NoJob
      /\ UNCHANGED <<conf, cancelled, exit, frontier, sent, assumed, expanded>>
    BY DEF NextJob, Inv, Control, histVars
<1>2. /\ active.words \in Seq(SUBSET Url) /\ Len(active.words) \in Nat /\ active.depth \in Nat
      /\ NoGen \notin Generator /\ active # NoGen
    BY <1>1, NoGenOutside DEF Generator
<1>3. SUFFICES ASSUME Going
               PROVE  /\ \A u \in visited : Placed(u) => Placed(u)'
                      /\ \A u \in visited' \ visited : Placed(u)'
                      /\ \A s : Ahead(s) => Ahead(s)'
    BY <1>1, LostStep DEF Going
<1>4. /\ Generators = Elems(frontier) \cup {active}
      /\ active' # NoGen => Generators' = Elems(frontier) \cup {active'}
      /\ active' = NoGen => Generators' = Elems(frontier)
  <2>1. Generators' = Elems(frontier') \cup ({active'} \ {NoGen})
    BY DEF Generators, Elems
  <2> QED
    BY <1>1, <1>2, <2>1, GeneratorsAre
\* It is enough to follow what the active generator holds.
<1>5. SUFFICES /\ visited \subseteq visited'
               /\ \A u \in active.buffer \cup (visited' \ visited) :
                     Held(u)' \/ (active' # NoGen /\ u \in active'.buffer)
               /\ \A s : Covers(active, s) =>
                     s \subseteq visited' \/ (active' # NoGen /\ Covers(active', s))
  <2>1. \A u : Placed(u) => u \in sent \cup assumed \/ (\E g \in Elems(frontier) : u \in g.buffer)
                            \/ u \in active.buffer
    BY <1>1, <1>4 DEF Placed, Held
  <2>2. \A g \in Elems(frontier) : g \in Generators'
    BY <1>4
  <2>3. active' # NoGen => active' \in Generators'
    BY <1>4
  <2>4. \A u : \/ u \in sent \cup assumed \/ (\E g \in Elems(frontier) : u \in g.buffer)
               \/ Held(u)' \/ (active' # NoGen /\ u \in active'.buffer)
               => Placed(u)'
    BY <1>1, <2>2, <2>3 DEF Placed
  <2>5. \A s : Ahead(s) => s \subseteq visited \/ (\E g \in Elems(frontier) : Covers(g, s))
                            \/ Covers(active, s)
    BY <1>4 DEF Ahead
  <2>6. \A s : \/ s \subseteq visited' \/ (\E g \in Elems(frontier) : Covers(g, s))
               \/ (active' # NoGen /\ Covers(active', s))
               => Ahead(s)'
    BY <2>2, <2>3 DEF Ahead, Covers
  <2>7. \A u \in visited : Placed(u) => Placed(u)'
    BY <1>5, <2>1, <2>4
  <2>8. \A u \in visited' \ visited : Placed(u)'
    BY <1>5, <2>4
  <2>9. \A s : Ahead(s) => Ahead(s)'
    BY <1>5, <2>5, <2>6
  <2> QED
    BY <2>7, <2>8, <2>9
<1>6. CASE NextBuffered
  <2>1. PICK u \in active.buffer : /\ nextJob' = [url |-> u, depth |-> active.depth]
                                   /\ active' = [active EXCEPT !.buffer = @ \ {u}]
    BY <1>6 DEF NextBuffered
  <2>2. /\ nextJob'.url = u /\ visited' = visited /\ nextJob' \in Job
        /\ active'.buffer = active.buffer \ {u} /\ active'.words = active.words
        /\ active' \in Generator
    BY <1>1, <1>6, <2>1 DEF NextBuffered, Generator, Job
  <2>3. nextJob' # NoJob /\ active' # NoGen
    BY <1>2, <2>2 DEF AbsentAssumption, Job
  <2> QED
    BY <2>2, <2>3 DEF Held, Covers
<1>7. CASE NextWord
  <2>1. PICK i \in 1..Len(active.words) : \E u \in Fresh(active, i) :
           /\ \A j \in 1..(i - 1) : Fresh(active, j) = {}
           /\ visited' = visited \cup Fresh(active, i)
           /\ nextJob' = [url |-> u, depth |-> active.depth]
           /\ active' = [active EXCEPT !.buffer = Fresh(active, i) \ {u},
                                       !.words = SubSeq(@, i + 1, Len(@))]
    BY <1>7 DEF NextWord
  <2> DEFINE F == Fresh(active, i)
             rest == SubSeq(active.words, i + 1, Len(active.words))
  <2>2. PICK u \in F :
           /\ visited' = visited \cup F
           /\ nextJob' = [url |-> u, depth |-> active.depth]
           /\ active' = [active EXCEPT !.buffer = F \ {u}, !.words = rest]
    BY <1>1, <2>1 DEF Generator
  <2>3. F \in SUBSET Url /\ rest \in Seq(SUBSET Url) /\ F = active.words[i] \ visited
    BY <1>1, RemainingWords DEF Fresh
  <2>4. \A j \in 1..(i - 1) : active.words[j] \subseteq visited
    BY <2>1 DEF Fresh
  <2>5. \A j \in (i + 1)..Len(active.words) : \E k \in 1..Len(rest) : rest[k] = active.words[j]
    <3>1. i \in Nat /\ i + 1 \in 1..(Len(active.words) + 1)
      BY <1>2
    <3>2. \A k \in 1..Len(active.words) : active.words[k] \in SUBSET Url
      BY <1>2, ElementOfSeq
    <3>3. /\ Len(rest) = Len(active.words) - i
          /\ \A k \in 1..(Len(active.words) - i) : rest[k] = active.words[i + k]
      <4>1. /\ Len(rest) = IF i + 1 <= Len(active.words) THEN Len(active.words) - (i + 1) + 1 ELSE 0
            /\ \A k \in 1..Len(active.words) - (i + 1) + 1 : rest[k] = active.words[(i + 1) + k - 1]
        BY <1>2, <3>1, <3>2, SubSeqProperties
      <4> QED
        BY <1>2, <3>1, <4>1
    <3>4. \A j \in (i + 1)..Len(active.words) : j - i \in 1..(Len(active.words) - i) /\ i + (j - i) = j
      BY <1>2, <3>1
    <3> QED
      BY <3>3, <3>4
  <2> HIDE DEF F, rest
  <2>6. /\ nextJob'.url = u /\ nextJob' \in Job /\ active'.buffer = F \ {u}
        /\ active'.words = rest /\ active' \in Generator
    BY <1>1, <1>2, <2>2, <2>3 DEF Generator, Job
  <2>7. nextJob' # NoJob /\ active' # NoGen /\ active.buffer = {}
    BY <1>2, <1>7, <2>6 DEF AbsentAssumption, Job, NextWord
  <2>8. \A j \in 1..Len(active.words) : j \in 1..(i - 1) \/ j = i \/ j \in (i + 1)..Len(active.words)
    BY <1>2
  <2>9. \A s : Covers(active, s) => s \subseteq visited' \/ Covers(active', s)
    <3> SUFFICES ASSUME NEW j \in 1..Len(active.words)
                 PROVE  active.words[j] \subseteq visited' \/ Covers(active', active.words[j])
      BY DEF Covers
    <3>1. CASE j \in 1..(i - 1)
      BY <2>2, <2>4, <3>1
    <3>2. CASE j = i
      BY <2>2, <2>3, <3>2
    <3>3. CASE j \in (i + 1)..Len(active.words)
      BY <2>5, <2>6, <3>3 DEF Covers
    <3> QED
      BY <2>8, <3>1, <3>2, <3>3
  <2>10. \A v \in active.buffer \cup (visited' \ visited) : Held(v)' \/ v \in active'.buffer
    BY <2>2, <2>6, <2>7 DEF Held
  <2> QED
    BY <2>2, <2>7, <2>9, <2>10
<1>8. CASE NextExhausted
  <2>1. active.buffer = {} /\ visited' = visited
        /\ \A i \in 1..Len(active.words) : active.words[i] \subseteq visited
    BY <1>3, <1>8 DEF NextExhausted, Going, Fresh
  <2> QED
    BY <2>1 DEF Covers
<1> QED
    BY <1>6, <1>7, <1>8 DEF NextJob

LEMMA SendJobLost ==
    ASSUME NothingLost, SendJob
    PROVE  NothingLost'
<1>1. /\ UNCHANGED <<conf, cancelled, exit, frontier, active, visited, assumed, expanded>>
      /\ sent' = sent \cup {nextJob.url}
    BY DEF SendJob
<1>2. Generators' = Generators
    BY <1>1 DEF Generators
<1>3. /\ \A u : Placed(u) => Placed(u)'
      /\ \A s : Ahead(s) => Ahead(s)'
    BY <1>1, <1>2, PlacesKept
<1> QED
    BY <1>1, <1>3, LostStep DEF Going

\* A redirect's target is put on the frontier, or taken as fetched.
LEMMA HandleLost ==
    ASSUME SiteAssumption, Inv, NothingLost, Handle
    PROVE  NothingLost'
<1>1. UNCHANGED <<conf, cancelled, exit, active, nextJob, sent, expanded>>
    BY DEF Handle
<1>2. CASE HandleLeaf \/ HandleDirectory
    BY <1>1, <1>2, LostKept DEF HandleLeaf, HandleDirectory, Going
<1>3. CASE HandleRedirect
  <2> DEFINE g == Slice({result.target}, result.depth)
  <2>1. /\ visited' = visited \cup {result.target} /\ assumed' = assumed
        /\ frontier' = Append(frontier, g)
    BY <1>3 DEF HandleRedirect
  <2>2. g \in Generator /\ g.buffer = {result.target}
    <3>1. result \in Result /\ conf \in Config
      BY DEF Handle, Inv, TypeOK, Control
    <3>2. result.target \in Url /\ result.depth \in Nat
      BY <1>3, <3>1 DEF HandleRedirect, FollowsTo, IsRedirect, Result
    <3> QED
      BY <3>1, <3>2, MadeGenerators DEF Slice
  <2> HIDE DEF g
  <2>3. Elems(frontier') = Elems(frontier) \cup {g}
    BY <2>1, <2>2, ElemsOps DEF Inv, TypeOK
  <2>4. Generators' = Generators \cup {g}
    <3>1. Generators' = Elems(frontier') \cup ({active'} \ {NoGen})
      BY DEF Generators, Elems
    <3> QED
      BY <1>1, <2>3, <3>1, GeneratorsAre
  <2>5. /\ \A u : Placed(u) => Placed(u)'
        /\ \A s : Ahead(s) => Ahead(s)'
    BY <1>1, <2>1, <2>4, PlacesKept
  <2>6. \A u \in visited' \ visited : Placed(u)'
    BY <2>1, <2>2, <2>4 DEF Placed
  <2> QED
    BY <1>1, <2>5, <2>6, LostStep DEF Going
<1>4. CASE HandleFollowed
  <2>1. /\ visited' = visited \cup {result.target} /\ assumed' = assumed \cup {result.target}
        /\ frontier' = frontier
    BY <1>4 DEF HandleFollowed
  <2>2. Generators' = Generators
    BY <1>1, <2>1 DEF Generators
  <2>3. /\ \A u : Placed(u) => Placed(u)'
        /\ \A s : Ahead(s) => Ahead(s)'
    BY <1>1, <2>1, <2>2, PlacesKept
  <2>4. \A u \in visited' \ visited : Placed(u)'
    BY <2>1 DEF Placed
  <2> QED
    BY <1>1, <2>3, <2>4, LostStep DEF Going
<1> QED
    BY <1>2, <1>3, <1>4 DEF Handle

\* What a slice adds to a frontier.
LEMMA ElemsPush ==
    ASSUME SiteAssumption, conf \in Config,
           NEW q \in Seq(Generator), NEW urls \in SUBSET Url, NEW d \in Nat
    PROVE  /\ Elems(q) \subseteq Elems(PushFrontUnlessEmpty(urls, d, q))
           /\ \A u \in urls : \E g \in Elems(PushFrontUnlessEmpty(urls, d, q)) : u \in g.buffer
<1>1. CASE urls = {}
    BY <1>1 DEF PushFrontUnlessEmpty
<1>2. CASE urls # {}
  <2>1. PushFrontUnlessEmpty(urls, d, q) = PushFront(Slice(urls, d), q)
    BY <1>2 DEF PushFrontUnlessEmpty
  <2>2. Slice(urls, d) \in Generator /\ Slice(urls, d).buffer = urls
    BY MadeGenerators DEF Slice
  <2>3. Elems(PushFront(Slice(urls, d), q)) = Elems(q) \cup {Slice(urls, d)}
    BY <2>2, ElemsOps
  <2> QED
    BY <2>1, <2>2, <2>3
<1> QED
    BY <1>1, <1>2

\* Framework paths and links are claimed and put in a slice in one step.
LEMMA ExpandLost ==
    ASSUME SiteAssumption, Inv, NothingLost, Expand
    PROVE  NothingLost'
<1>1. UNCHANGED <<conf, cancelled, exit, active, nextJob, sent, assumed, expanded>>
    BY DEF Expand, histVars
<1>2. CASE CtxErr \/ AtLimit(result)
    BY <1>1, <1>2, LostKept DEF Expand, Going
<1>3. CASE ~(CtxErr \/ AtLimit(result))
  <2> DEFINE tech  == result.tech \ visited
             links == result.links \ (visited \cup tech)
             inner == PushFrontUnlessEmpty(tech, result.depth + 1, frontier)
  <2>1. /\ visited' = visited \cup tech \cup links
        /\ frontier' = PushFrontUnlessEmpty(links, result.depth + 1, inner)
    BY <1>3 DEF Expand
  <2>2. /\ conf \in Config /\ frontier \in Seq(Generator) /\ result.depth + 1 \in Nat
        /\ tech \in SUBSET Url /\ links \in SUBSET Url
    BY DEF Expand, Inv, TypeOK, Control, Result
  <2> HIDE DEF tech, links
  <2>3. /\ inner \in Seq(Generator) /\ Elems(frontier) \subseteq Elems(inner)
        /\ \A u \in tech : \E g \in Elems(inner) : u \in g.buffer
    BY <2>2, PushUnlessEmptyType, ElemsPush
  <2> HIDE DEF inner
  <2>4. /\ Elems(inner) \subseteq Elems(frontier')
        /\ \A u \in links : \E g \in Elems(frontier') : u \in g.buffer
    BY <2>1, <2>2, <2>3, ElemsPush
  <2>5. Generators' = Elems(frontier') \cup ({active'} \ {NoGen})
    BY DEF Generators, Elems
  <2>6. Generators \subseteq Generators'
    BY <1>1, <2>3, <2>4, <2>5, GeneratorsAre
  <2>7. /\ \A u : Placed(u) => Placed(u)'
        /\ \A s : Ahead(s) => Ahead(s)'
    BY <1>1, <2>1, <2>6, PlacesKept
  <2>8. \A u \in visited' \ visited : Placed(u)'
    BY <2>1, <2>3, <2>4, <2>5 DEF Placed
  <2> QED
    BY <1>1, <2>7, <2>8, LostStep DEF Going
<1> QED
    BY <1>2, <1>3

\* The words of a directory are ahead of its generator; the generator that was
\* active is put back.
LEMMA OpenLost ==
    ASSUME SiteAssumption, AbsentAssumption, Inv, NothingLost, OpenDirectory
    PROVE  NothingLost'
<1> DEFINE g == Directory(Parent(result), result.depth + 1)
<1>1. /\ UNCHANGED <<conf, cancelled, exit, nextJob, sent, visited, assumed>>
      /\ expanded' = expanded \cup {Parent(result)}
      /\ \/ frontier' = Append(frontier, g) /\ active' = active
         \/ frontier' = Suspend /\ active' = g
    BY DEF OpenDirectory
<1>2. frontier \in Seq(Generator) /\ (active # NoGen => active \in Generator)
    BY DEF Inv, TypeOK
<1>3. /\ g \in Generator /\ g.words = Candidates[conf.strategy][Parent(result)]
      /\ NoGen \notin Generator
  <2>1. conf \in Config /\ result \in Result
    BY DEF OpenDirectory, Inv, TypeOK, Control
  <2>2. result.depth + 1 \in Nat /\ Parent(result) \in Url
    BY <2>1 DEF Result, Parent, IsRedirect
  <2> QED
    BY <2>1, <2>2, MadeGenerators, NoGenOutside DEF Directory
<1> HIDE DEF g
<1>4. Generators' = Elems(frontier') \cup ({active'} \ {NoGen})
    BY DEF Generators, Elems
<1>5. Generators \cup {g} \subseteq Generators'
  <2>1. CASE frontier' = Append(frontier, g) /\ active' = active
    <3>1. Elems(frontier') = Elems(frontier) \cup {g}
      BY <1>2, <1>3, <2>1, ElemsOps
    <3> QED
      BY <1>4, <2>1, <3>1, GeneratorsAre
  <2>2. CASE frontier' = Suspend /\ active' = g
    <3>1. Elems(Suspend) = Elems(frontier) \cup ({active} \ {NoGen})
      <4>1. CASE active = NoGen
        BY <4>1 DEF Suspend
      <4>2. CASE active # NoGen
        BY <1>2, <4>2, ElemsOps DEF Suspend
      <4> QED
        BY <4>1, <4>2
    <3> QED
      BY <1>3, <1>4, <2>2, <3>1, GeneratorsAre
  <2> QED
    BY <1>1, <2>1, <2>2
<1>6. /\ \A u : Placed(u) => Placed(u)'
      /\ \A s : Ahead(s) => Ahead(s)'
    BY <1>1, <1>5, PlacesKept
<1>7. ASSUME NEW u \in expanded' \ expanded, NEW i \in 1..Len(Candidates[conf.strategy][u])
      PROVE  Ahead(Candidates[conf.strategy][u][i])'
  <2>1. \A s : Covers(g, s) => Ahead(s)'
    <3>1. g \in Generators'
      BY <1>5
    <3> QED
      BY <3>1 DEF Ahead, Covers
  <2>2. u = Parent(result)
    BY <1>1, <1>7
  <2>3. Covers(g, Candidates[conf.strategy][u][i])
    BY <1>3, <1>7, <2>2 DEF Covers
  <2> QED
    BY <1>1, <2>1, <2>3
<1> QED
    BY <1>1, <1>6, <1>7, LostStep DEF Going

\* An error ends Run for good, so the scan that failed is not taken up again.
LEMMA StepLost ==
    ASSUME SiteAssumption, AbsentAssumption, Inv, Over, NothingLost, [Next]_vars
    PROVE  NothingLost'
<1>1. CASE LoopHead \/ NextJob \/ SendJob \/ Handle \/ Expand \/ OpenDirectory
    BY <1>1, LoopHeadLost, NextJobLost, SendJobLost, HandleLost, ExpandLost, OpenLost
<1>2. CASE SelectDone \/ ReceiveResult \/ ReceiveClosed \/ DrainResult \/ DrainEnd
           \/ OpenFails \/ (\E w \in Worker : Work(w)) \/ Cancel \/ Returned
           \/ UNCHANGED vars
  <2>1. UNCHANGED <<conf, frontier, active, nextJob, visited, sent, assumed, expanded>>
    BY <1>2 DEF SelectDone, ReceiveResult, ReceiveClosed, DrainResult, DrainEnd, OpenFails,
       Work, Cancel, Returned, vars, mgrVars, histVars
  <2>2. cancelled => cancelled'
    BY <1>2 DEF SelectDone, ReceiveResult, ReceiveClosed, DrainResult, DrainEnd, OpenFails,
       Work, Cancel, Returned, vars
  <2>3. exit = "error" => exit' = "error"
    <3>1. exit = "error" => pc = "returned"
      BY DEF Over
    <3> QED
      BY <1>2, <3>1 DEF SelectDone, ReceiveResult, ReceiveClosed, DrainResult, DrainEnd,
         OpenFails, Return, Work, Cancel, Returned, vars, mgrVars
  <2> QED
    BY <2>1, <2>2, <2>3, LostKept DEF Going
<1> QED
    BY <1>1, <1>2 DEF Next, Manager

\* A scan that nobody stops and whose wordlist can be read loses no work: what the
\* visited set holds is sent, taken as fetched, in hand or in a generator, and every
\* word under an expanded directory has been claimed or lies ahead (manager.go, Run,
\* handleResult; generator.go, Next).
THEOREM NothingLostCorrect == Spec => []NothingLost
<1>1. Init => NothingLost
    BY InitLost, SiteAssumption
<1>2. Inv /\ Over /\ NothingLost /\ [Next]_vars => NothingLost'
    BY StepLost, SiteAssumption, AbsentAssumption
<1> QED
    BY <1>1, <1>2, OverInvariance, PTL DEF Spec
=============================================================================
