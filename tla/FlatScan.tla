------------------------------ MODULE FlatScan ------------------------------
(* A scan without recursion (src/cmd/scan.go): one goroutine feeds the URLs  *)
(* that adaptive discovery found and then runs wordlist.Producer, whose       *)
(* reader and producers (src/internal/wordlist/producer.go) share a channel   *)
(* of words and fill the channel of jobs; the workers of the engine request   *)
(* them and main prints the results.                                          *)
(*                                                                            *)
(* A URL is a pair of a word and an extension under the base URL.  The pause  *)
(* gate, which Pause models, either lets a caller through or, once the scan   *)
(* is cancelled, may turn it away.                                            *)
EXTENDS Responses, FiniteSets, SequencesExt

CONSTANTS
  Lines,        \* the lines of the wordlist, in order
  Blank,        \* the lines that are empty or comments
  Unclean,      \* the words that CleanWord rejects
  Extensions,   \* the parsed extensions, <<>> without --ext
  NoExtension,  \* the empty extension
  Malformed,    \* the URLs that Join rejects
  Unbuildable,  \* the URLs that Join accepts and http.NewRequest does not
  Key(_),       \* a URL in lower case and without a slash at its end
  Discoveries,  \* what discovery may find: a set of sequences of URLs
  Suites,       \* sets of filters
  Suite, Pages, \* the filters of this scan, and the responses of the target
  Producers, Workers,
  WordBuffer    \* the capacity of the channel of words

ASSUME WordBufferAssumption == WordBuffer \in Nat \ {0}
ASSUME SuiteAssumption == Suite \in Suites /\ \A suite \in Suites : WellFormed(suite)
\* At least one thread is required, and Produce starts eight producers.
ASSUME PoolAssumption ==
  /\ IsFiniteSet(Producers) /\ Producers # {}
  /\ IsFiniteSet(Workers) /\ Workers # {}
\* The parser of extensions keeps the first of equal ones.
ASSUME ListAssumption ==
  /\ Lines \in Seq(ToSet(Lines)) /\ \A list \in Discoveries : list \in Seq(ToSet(list))
  /\ Extensions \in Seq(ToSet(Extensions))
  /\ \A i, j \in DOMAIN Extensions : Extensions[i] = Extensions[j] => i = j
\* net/http leaves the length of a response at -1 or knows it.
ASSUME PageAssumption ==
  \A page \in Pages : page.declared \in Nat \cup {Unknown} /\ page.size \in Nat

VARIABLES
  ctx,       \* the context of the scan: "live" or "cancelled"
  base,      \* whether Join accepts the base URL
  found,     \* what discovery found
  feeder,    \* the goroutine that owns the channel of jobs
  reader,    \* the goroutine that reads the wordlist
  words, wordsOpen,
  producer,  \* the goroutines that make jobs of words
  failures,  \* how many errors lie in errCh
  jobs, jobsOpen,
  worker,    \* the goroutines of the pool
  results,   \* how many results lie in the channel of results
  main,      \* the loop over the results
  count,     \* the counters of the collector
  requested, \* how often a URL was requested
  late       \* how many requests a worker sent after the cancellation

feedVars == <<base, found, feeder>>
wordVars == <<reader, words, wordsOpen>>
jobVars == <<jobs, jobsOpen>>
poolVars == <<worker, results, requested, late>>
vars == <<ctx, feedVars, wordVars, producer, failures, jobVars, poolVars, main, count>>

-----------------------------------------------------------------------------
(* The words.                                                                *)
Variants(word) ==
  IF Extensions = <<>> THEN << <<word, NoExtension>> >>
  ELSE [i \in DOMAIN Extensions |-> <<word, Extensions[i]>>]

Clean(word) == word \notin Unclean
Joins(url) == url \notin Malformed

URLs == (UNION {ToSet(Variants(word)) : word \in ToSet(Lines) \ (Blank \cup Unclean)})
          \cup (UNION {ToSet(d) : d \in Discoveries})

SkipSet == {Key(url) : url \in ToSet(found)}

\* The capacities of errCh, jobs and results; readErr has room for its only error.
ErrBufferOfOne == 1 \* Slip: errCh has room for the first error only.
ErrBuffer == Cardinality(Producers)
JobBuffer == Cardinality(Workers)
ResultBuffer == Cardinality(Workers)

Count(counter) == count' = [count EXCEPT ![counter] = @ + 1]

\* Slip: a send that does not wait for room.
SubmitAtOnce(url) == jobs' = Append(jobs, url) /\ UNCHANGED <<jobsOpen, count>>

\* Who sends a job counts it as produced in a later step: by then a worker may
\* have requested it.
Submit(url) ==
  /\ Len(jobs) < JobBuffer
  /\ jobs' = Append(jobs, url)
  /\ UNCHANGED <<jobsOpen, count>>

-----------------------------------------------------------------------------
Idle == [at |-> "off", word |-> "none", next |-> 1]

Init ==
  /\ ctx = "live" /\ base \in {"good", "bad"} /\ found \in Discoveries
  /\ feeder = [at |-> "discovered", next |-> 1]
  /\ reader = [at |-> "off", next |-> 1] /\ words = <<>> /\ wordsOpen = TRUE
  /\ producer = [p \in Producers |-> Idle] /\ failures = 0
  /\ jobs = <<>> /\ jobsOpen = TRUE
  /\ worker = [w \in Workers |-> [at |-> "idle"]] /\ results = 0
  /\ main = "printing"
  /\ count = [c \in {"sent", "failed", "filtered", "succeeded", "skipped", "produced", "invalid"} |-> 0]
  /\ requested = [url \in URLs |-> 0] /\ late = [w \in Workers |-> 0]

Cancel ==
  /\ ctx = "live" /\ main = "printing" /\ ctx' = "cancelled"
  /\ UNCHANGED <<feedVars, wordVars, producer, failures, jobVars, poolVars, main, count>>

-----------------------------------------------------------------------------
(* The feeder.                                                               *)
CloseJobs ==
  /\ feeder' = [feeder EXCEPT !.at = "done"]
  /\ jobsOpen' = FALSE
  /\ UNCHANGED jobs

Repeated(i) == \E j \in 1 .. i - 1 : Key(found[j]) = Key(found[i])

FeedDiscovered ==
  /\ feeder.at = "discovered" /\ feeder.next <= Len(found)
  /\ IF Repeated(feeder.next)
       THEN feeder' = [feeder EXCEPT !.next = @ + 1] /\ UNCHANGED <<jobVars, count>>
       ELSE feeder' = [at |-> "counting", next |-> feeder.next + 1] /\ Submit(found[feeder.next])
  /\ UNCHANGED <<ctx, base, found, wordVars, producer, failures, poolVars, main>>

CountDiscovered ==
  /\ feeder.at = "counting" /\ feeder' = [feeder EXCEPT !.at = "discovered"]
  /\ Count("produced")
  /\ UNCHANGED <<ctx, base, found, wordVars, producer, failures, jobVars, poolVars, main>>

FeedCancelled ==
  /\ feeder.at = "discovered" /\ feeder.next <= Len(found)
  /\ ctx = "cancelled" /\ ~Repeated(feeder.next)
  /\ CloseJobs
  /\ UNCHANGED <<ctx, base, found, wordVars, producer, failures, poolVars, main, count>>

\* Produce checks the base URL and starts the reader and the producers.
Produce ==
  /\ feeder.at = "discovered" /\ feeder.next > Len(found)
  /\ IF base = "good"
       THEN /\ feeder' = [feeder EXCEPT !.at = "joining"]
            /\ reader' = [reader EXCEPT !.at = "reading"]
            /\ producer' = [p \in Producers |-> [Idle EXCEPT !.at = "idle"]]
            /\ UNCHANGED jobVars
       ELSE CloseJobs /\ UNCHANGED <<reader, producer>>
  /\ UNCHANGED <<ctx, base, found, words, wordsOpen, failures, poolVars, main, count>>

\* An error in errCh is returned at once, otherwise readErr is waited for.
ReadReported == reader.at \in {"ended", "broken", "cancelled"}

ProduceReturns ==
  /\ feeder.at = "joining" /\ \A p \in Producers : producer[p].at = "done"
  /\ failures > 0 \/ ReadReported
  /\ CloseJobs
  /\ UNCHANGED <<ctx, base, found, wordVars, producer, failures, poolVars, main, count>>

-----------------------------------------------------------------------------
(* The reader of the wordlist.                                               *)
ReaderQuits(how) ==
  /\ reader' = [reader EXCEPT !.at = how]
  /\ wordsOpen' = FALSE
  /\ UNCHANGED words

ReadWord ==
  /\ reader.at = "reading" /\ reader.next <= Len(Lines)
  /\ reader' = [reader EXCEPT !.next = @ + 1]
  /\ IF Lines[reader.next] \in Blank THEN UNCHANGED words
     ELSE Len(words) < WordBuffer /\ words' = Append(words, Lines[reader.next])
  /\ UNCHANGED <<ctx, feedVars, wordsOpen, producer, failures, jobVars, poolVars, main, count>>

ReadCancelled ==
  /\ reader.at = "reading" /\ reader.next <= Len(Lines)
  /\ Lines[reader.next] \notin Blank
  /\ ctx = "cancelled" /\ ReaderQuits("cancelled")
  /\ UNCHANGED <<ctx, feedVars, producer, failures, jobVars, poolVars, main, count>>

\* The file cannot be opened, or a line is too long for the scanner.
ReadFails ==
  /\ reader.at = "reading" /\ ReaderQuits("broken")
  /\ UNCHANGED <<ctx, feedVars, producer, failures, jobVars, poolVars, main, count>>

ReadEnds ==
  /\ reader.at = "reading" /\ reader.next > Len(Lines) /\ ReaderQuits("ended")
  /\ UNCHANGED <<ctx, feedVars, producer, failures, jobVars, poolVars, main, count>>

-----------------------------------------------------------------------------
(* A producer.                                                               *)
Becomes(p, at) == producer' = [producer EXCEPT ![p].at = at]

Receive(p) ==
  /\ producer[p].at = "idle" /\ words # <<>>
  /\ words' = Tail(words)
  /\ producer' = [producer EXCEPT ![p] =
       IF ctx = "cancelled" THEN [@ EXCEPT !.at = "done"]
       ELSE IF ~Clean(Head(words)) THEN @
       ELSE [at |-> "gate", word |-> Head(words), next |-> 1]]
  /\ UNCHANGED <<ctx, feedVars, reader, wordsOpen, failures, jobVars, poolVars, main, count>>

WordsEnd(p) ==
  /\ producer[p].at = "idle" /\ words = <<>> /\ ~wordsOpen
  /\ Becomes(p, "done")
  /\ UNCHANGED <<ctx, feedVars, wordVars, failures, jobVars, poolVars, main, count>>

\* The cancellation is seen at the channel of words, at the gate and at the channel of jobs.
Offering(p) ==
  /\ producer[p].at = "expanding" /\ producer[p].next <= Len(Variants(producer[p].word))
  /\ LET url == Variants(producer[p].word)[producer[p].next] IN
       Joins(url) /\ Key(url) \notin SkipSet

ProducerQuits(p) ==
  /\ ctx = "cancelled"
  /\ producer[p].at \in {"idle", "gate"} \/ Offering(p)
  /\ Becomes(p, "failing")
  /\ UNCHANGED <<ctx, feedVars, wordVars, failures, jobVars, poolVars, main, count>>

SendError(p) ==
  /\ producer[p].at = "failing" /\ Becomes(p, "done")
  /\ failures < ErrBuffer /\ failures' = failures + 1
  /\ UNCHANGED <<ctx, feedVars, wordVars, jobVars, poolVars, main, count>>

PassGate(p) ==
  /\ producer[p].at = "gate" /\ Becomes(p, "expanding")
  /\ UNCHANGED <<ctx, feedVars, wordVars, failures, jobVars, poolVars, main, count>>

\* On to the next variant of the word.
Advance(p, at) ==
  producer' = [producer EXCEPT ![p] = [at |-> at, word |-> @.word, next |-> @.next + 1]]

\* Slip: what discovery found is not looked up.
ExpandAll(p) ==
  /\ producer[p].at = "expanding" /\ producer[p].next <= Len(Variants(producer[p].word))
  /\ LET url == Variants(producer[p].word)[producer[p].next] IN
       \/ ~Joins(url) /\ Advance(p, "expanding") /\ Count("invalid") /\ UNCHANGED jobVars
       \/ Joins(url) /\ Advance(p, "counting") /\ Submit(url)
  /\ UNCHANGED <<ctx, feedVars, wordVars, failures, poolVars, main>>

Expand(p) ==
  /\ producer[p].at = "expanding" /\ producer[p].next <= Len(Variants(producer[p].word))
  /\ LET url == Variants(producer[p].word)[producer[p].next] IN
       IF ~Joins(url) THEN Advance(p, "expanding") /\ Count("invalid") /\ UNCHANGED jobVars
       ELSE IF Key(url) \in SkipSet THEN Advance(p, "expanding") /\ UNCHANGED <<jobVars, count>>
       ELSE Advance(p, "counting") /\ Submit(url)
  /\ UNCHANGED <<ctx, feedVars, wordVars, failures, poolVars, main>>

CountProduced(p) ==
  /\ producer[p].at = "counting" /\ Becomes(p, "expanding")
  /\ Count("produced")
  /\ UNCHANGED <<ctx, feedVars, wordVars, failures, jobVars, poolVars, main>>

Expanded(p) ==
  /\ producer[p].at = "expanding" /\ producer[p].next > Len(Variants(producer[p].word))
  /\ Becomes(p, "idle")
  /\ UNCHANGED <<ctx, feedVars, wordVars, failures, jobVars, poolVars, main, count>>

Producing(p) ==
  Receive(p) \/ WordsEnd(p) \/ ProducerQuits(p) \/ SendError(p)
  \/ PassGate(p) \/ Expand(p) \/ CountProduced(p) \/ Expanded(p)

-----------------------------------------------------------------------------
(* A worker of the pool.                                                     *)
Sets(w, to) == worker' = [worker EXCEPT ![w] = to]

Take(w) ==
  /\ worker[w].at = "idle" /\ jobs # <<>>
  /\ Sets(w, [at |-> "holding", job |-> Head(jobs)]) /\ jobs' = Tail(jobs)
  /\ UNCHANGED <<ctx, feedVars, wordVars, producer, failures, jobsOpen, results, requested, late, main, count>>

JobsEnd(w) ==
  /\ worker[w].at = "idle" /\ jobs = <<>> /\ ~jobsOpen
  /\ Sets(w, [at |-> "done"])
  /\ UNCHANGED <<ctx, feedVars, wordVars, producer, failures, jobVars, results, requested, late, main, count>>

\* The worker, the gate and the rate limiter end the worker; process only the job.
Drop(w) ==
  /\ worker[w].at = "holding" /\ ctx = "cancelled"
  /\ \E to \in {"done", "idle"} : Sets(w, [at |-> to])
  /\ UNCHANGED <<ctx, feedVars, wordVars, producer, failures, jobVars, results, requested, late, main, count>>

\* Slip: process trusts the check that the worker made before it waited.
BuildUnchecked(w) ==
  /\ worker[w].at = "holding" /\ worker[w].job \notin Unbuildable
  /\ Sets(w, [worker[w] EXCEPT !.at = "ready"])
  /\ UNCHANGED <<ctx, feedVars, wordVars, producer, failures, jobVars, results, requested, late, main, count>>

\* The last look at the context before the request is sent.
Build(w) ==
  /\ worker[w].at = "holding" /\ ctx = "live" /\ worker[w].job \notin Unbuildable
  /\ Sets(w, [worker[w] EXCEPT !.at = "ready"])
  /\ UNCHANGED <<ctx, feedVars, wordVars, producer, failures, jobVars, results, requested, late, main, count>>

\* Slip: a job that cannot be requested is not counted as skipped.
BuildFailsUncounted(w) ==
  /\ worker[w].at = "holding" /\ ctx = "live" /\ worker[w].job \in Unbuildable
  /\ Sets(w, [at |-> "reporting"]) /\ Count("failed")
  /\ UNCHANGED <<ctx, feedVars, wordVars, producer, failures, jobVars, results, requested, late, main>>

BuildFails(w) ==
  /\ worker[w].at = "holding" /\ ctx = "live" /\ worker[w].job \in Unbuildable
  /\ Sets(w, [at |-> "skipping"]) /\ Count("failed")
  /\ UNCHANGED <<ctx, feedVars, wordVars, producer, failures, jobVars, results, requested, late, main>>

CountSkipped(w) ==
  /\ worker[w].at = "skipping" /\ Sets(w, [at |-> "reporting"]) /\ Count("skipped")
  /\ UNCHANGED <<ctx, feedVars, wordVars, producer, failures, jobVars, results, requested, late, main>>

Send(w) ==
  /\ worker[w].at = "ready"
  /\ Sets(w, [worker[w] EXCEPT !.at = "flight"])
  /\ Count("sent")
  /\ requested' = [requested EXCEPT ![worker[w].job] = @ + 1]
  /\ late' = IF ctx = "cancelled" THEN [late EXCEPT ![w] = @ + 1] ELSE late
  /\ UNCHANGED <<ctx, feedVars, wordVars, producer, failures, jobVars, results, main>>

Respond(w) ==
  /\ worker[w].at = "flight"
  /\ \E page \in Pages :
       /\ Sets(w, [at |-> "reporting", page |-> page])
       /\ Count(ScanOutcome(Suite, page, FALSE))
  /\ UNCHANGED <<ctx, feedVars, wordVars, producer, failures, jobVars, results, requested, late, main>>

Fail(w) ==
  /\ worker[w].at = "flight" /\ Sets(w, [at |-> "reporting"]) /\ Count("failed")
  /\ UNCHANGED <<ctx, feedVars, wordVars, producer, failures, jobVars, results, requested, late, main>>

\* A worker that waits out the delay between two jobs ends when it is cancelled.
Report(w) ==
  /\ worker[w].at = "reporting" /\ results < ResultBuffer /\ results' = results + 1
  /\ \E to \in {"idle"} \cup (IF ctx = "cancelled" THEN {"done"} ELSE {}) : Sets(w, [at |-> to])
  /\ UNCHANGED <<ctx, feedVars, wordVars, producer, failures, jobVars, requested, late, main, count>>

Working(w) ==
  \/ Take(w) \/ JobsEnd(w) \/ Drop(w) \/ Build(w) \/ BuildFails(w) \/ CountSkipped(w)
  \/ Send(w) \/ Respond(w) \/ Fail(w) \/ Report(w)

-----------------------------------------------------------------------------
(* The loop over the results, and what follows it.                           *)
PrintResult ==
  /\ main = "printing" /\ results > 0 /\ results' = results - 1
  /\ UNCHANGED <<ctx, feedVars, wordVars, producer, failures, jobVars, worker, requested, late, main, count>>

MainLeaves ==
  /\ main = "printing" /\ results = 0 /\ \A w \in Workers : worker[w].at = "done"
  /\ main' = IF ctx = "live" THEN "complete" ELSE "stopped"
  /\ ctx' = "cancelled"
  /\ UNCHANGED <<feedVars, wordVars, producer, failures, jobVars, poolVars, count>>

Over == main # "printing" /\ feeder.at = "done" /\ reader.at # "reading"

Finished == Over /\ UNCHANGED vars

Feeding == FeedDiscovered \/ CountDiscovered \/ FeedCancelled \/ Produce \/ ProduceReturns
Reading == ReadWord \/ ReadCancelled \/ ReadFails \/ ReadEnds

Next ==
  \/ Cancel \/ Feeding \/ Reading \/ PrintResult \/ MainLeaves \/ Finished
  \/ \E p \in Producers : Producing(p)
  \/ \E w \in Workers : Working(w)

\* Every goroutine runs, and client.Do returns: a request has a timeout.
Fairness ==
  /\ WF_vars(Feeding) /\ WF_vars(Reading) /\ WF_vars(PrintResult \/ MainLeaves)
  /\ \A p \in Producers : WF_vars(Producing(p))
  /\ \A w \in Workers : WF_vars(Working(w))

Spec == Init /\ [][Next]_vars /\ Fairness

-----------------------------------------------------------------------------
TypeOK ==
  /\ ctx \in {"live", "cancelled"} /\ base \in {"good", "bad"} /\ found \in Discoveries
  /\ feeder \in [at : {"discovered", "counting", "joining", "done"}, next : 1 .. Len(found) + 1]
  /\ reader.at \in {"off", "reading", "ended", "broken", "cancelled"}
  /\ reader.next \in 1 .. Len(Lines) + 1
  /\ words \in Seq(ToSet(Lines) \ Blank) /\ Len(words) <= WordBuffer /\ wordsOpen \in BOOLEAN
  /\ \A p \in Producers :
       /\ producer[p].at \in {"off", "idle", "gate", "expanding", "counting", "failing", "done"}
       /\ producer[p].at \in {"gate", "expanding", "counting"} =>
            producer[p].next \in 1 .. Len(Variants(producer[p].word)) + 1
  /\ failures \in 0 .. Cardinality(Producers)
  /\ jobs \in Seq(URLs) /\ Len(jobs) <= JobBuffer /\ jobsOpen \in BOOLEAN
  /\ \A w \in Workers :
       /\ worker[w].at \in {"idle", "holding", "ready", "flight", "skipping", "reporting", "done"}
       /\ worker[w].at \in {"holding", "ready", "flight"} => worker[w].job \in URLs
  /\ results \in 0 .. ResultBuffer /\ main \in {"printing", "complete", "stopped"}
  /\ \A c \in DOMAIN count : count[c] \in Nat
  /\ requested \in [URLs -> Nat] /\ late \in [Workers -> Nat]

\* How often the code requests a URL: once if discovery found it, and once for
\* every line of the list that yields it, unless discovery found it or its like,
\* a URL that differs in case or by slashes at its end.
Yields(line, url) == line \notin Blank \cup Unclean /\ url \in ToSet(Variants(line))

Due(url) ==
  IF url \in Unbuildable THEN 0
  ELSE Cardinality({i \in DOMAIN found : found[i] = url /\ ~Repeated(i)})
         + IF base = "good" /\ Joins(url) /\ Key(url) \notin SkipSet
             THEN Cardinality({i \in DOMAIN Lines : Yields(Lines[i], url)}) ELSE 0

\* A scan that nobody cancels and whose wordlist can be read requests each URL
\* as often as it is due and no other, whichever producer and worker has it: none
\* is lost or repeated when the channels fill and close.  What is due leaves out
\* the likes of what discovery found; NothingSuppressed speaks of those.
EveryWordOnce ==
  main = "complete" /\ reader.at # "broken" => \A url \in URLs : requested[url] = Due(url)

\* docs/scanning/config.md, of adaptive scanning: "never suppresses or skips
\* candidates.  All paths in your wordlist are scanned."  Such a scan requests
\* every URL of the wordlist that can be requested at all.
NothingSuppressed ==
  main = "complete" /\ reader.at # "broken" /\ base = "good" =>
    \A i \in DOMAIN Lines, url \in URLs :
      Yields(Lines[i], url) /\ Joins(url) /\ url \notin Unbuildable => requested[url] > 0

InFlight == {w \in Workers : worker[w].at = "flight"}

\* The increments that a goroutine is about to make: of what it has just sent
\* through the channel, and of the job that it has already counted as failed.
Uncounted == {p \in Producers : producer[p].at = "counting"}
Unproduced == Cardinality(Uncounted) + (IF feeder.at = "counting" THEN 1 ELSE 0)
Skipping == {w \in Workers : worker[w].at = "skipping"}

\* The counters of the collector agree.  In every state, cancelled or not, and up
\* to the increments that are still to come, every request that was sent and
\* every job that was skipped because no request could be built is in flight or
\* has one outcome, and no more is requested or skipped than was produced.  A
\* scan that is complete has exactly as many of one as of the other.
Reconciled ==
  /\ count.sent + count.skipped + Cardinality(Skipping)
       = Cardinality(InFlight) + count.failed + count.filtered + count.succeeded
  /\ count.sent + count.skipped + Cardinality(Skipping) <= count.produced + Unproduced
  /\ main = "complete" => count.sent + count.skipped = count.produced

\* After the cancellation each worker sends at most the one request that it had
\* already checked, whatever is left in the channels.
StopIsPrompt == \A w \in Workers : late[w] <= 1

Answered == {w \in Workers : worker[w].at = "reporting" /\ "page" \in DOMAIN worker[w]}

\* The body breaks off where a scan sees it and a fuzz run does not.
Overlooked(suite, page) == SeenBroken(page, BodyLimit) /\ ~SeenBroken(page, FuzzLimit(suite))

\* Whatever the filters, a fuzz run, which skims a body that no filter needs,
\* shows every page that a worker reports and a scan shows.  It shows no other,
\* but for one whose body breaks off where only a scan sees it, between the
\* first 4096 bytes and the first 1 MB: a scan filters that page, and a fuzz run
\* takes it for whole.  Both record the same number of bytes for a whole page.
PipelinesAgree ==
  \A w \in Answered, suite \in Suites :
    LET page == worker[w].page IN
      /\ ScanOutcome(suite, page, FALSE) = "succeeded" => FuzzOutcome(suite, page) = "succeeded"
      /\ FuzzOutcome(suite, page) = "succeeded" =>
           ScanOutcome(suite, page, FALSE) = "succeeded" \/ Overlooked(suite, page)
      /\ ~page.broken => ScanBytes(suite, page, FALSE) = FuzzBytes(suite, page)

\* engine_test.go, "Chunked0 with filter 0", and docs/scanning/config.md say that
\* --fs and --ms bound the size of the body: a page that arrives in chunks is
\* shown if and only if it is shown when its header declares the same size.
SizeIsBodySize ==
  \A w \in Answered :
    LET page == worker[w].page
        declared == [page EXCEPT !.declared = page.size]
    IN ~page.broken =>
         (ScanOutcome(Suite, page, FALSE) = "succeeded"
            <=> ScanOutcome(Suite, declared, FALSE) = "succeeded")

\* A scan ends, cancelled or not: neither the reader, the producers, the feeder
\* nor the workers wait for each other for ever, and the jobs are closed.
ScanEnds == <>Over
=============================================================================
