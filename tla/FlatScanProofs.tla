--------------------------- MODULE FlatScanProofs ---------------------------
(***************************************************************************)
(* A scan without recursion, for every wordlist, extensions, target and    *)
(* number of producers and workers: its types, its counters, how soon it   *)
(* stops, what it shows, and that it requests each URL as often as listed. *)
(***************************************************************************)
EXTENDS FlatScan, FiniteSetTheorems, SequenceTheorems, TLAPS

Counters == {"sent", "failed", "filtered", "succeeded", "skipped", "produced", "invalid"}
Listed == ToSet(Lines) \ Blank

\* What a producer and a worker can be.
ProducerState ==
  [at : {"off", "idle", "failing", "done"}, word : Listed \cup {"none"}, next : Nat]
    \cup [at : {"gate", "expanding", "counting"}, word : Listed \ Unclean, next : Nat]

WorkerState ==
  [at : {"idle", "skipping", "reporting", "done"}]
    \cup [at : {"holding", "ready", "flight"}, job : URLs]
    \cup [at : {"reporting"}, page : Pages]

TypedFeed ==
  /\ ctx \in {"live", "cancelled"} /\ base \in {"good", "bad"} /\ found \in Discoveries
  /\ main \in {"printing", "complete", "stopped"}
  /\ feeder \in [at : {"discovered", "counting", "joining", "done"}, next : 1 .. Len(found) + 1]
TypedWords ==
  /\ reader \in [at : {"off", "reading", "ended", "broken", "cancelled"}, next : 1 .. Len(Lines) + 1]
  /\ words \in Seq(Listed) /\ Len(words) <= WordBuffer /\ wordsOpen \in BOOLEAN
TypedProducers ==
  /\ producer \in [Producers -> ProducerState]
  /\ \A p \in Producers : producer[p].at \in {"gate", "expanding", "counting"} =>
       producer[p].next \in 1 .. Len(Variants(producer[p].word)) + 1
  /\ failures \in 0 .. Cardinality(Producers)
TypedJobs == jobs \in Seq(URLs) /\ Len(jobs) <= JobBuffer /\ jobsOpen \in BOOLEAN
TypedPool ==
  /\ worker \in [Workers -> WorkerState] /\ results \in 0 .. ResultBuffer
  /\ requested \in [URLs -> Nat] /\ late \in [Workers -> Nat]
TypedCount == count \in [Counters -> Nat]

Typed == TypedFeed /\ TypedWords /\ TypedProducers /\ TypedJobs /\ TypedPool /\ TypedCount

---------------------------------------------------------------------------
(* The data. *)

\* A sequence is a sequence of any set that has its elements.
LEMMA SeqWithin ==
  ASSUME NEW q, q \in Seq(ToSet(q)), NEW S, ToSet(q) \subseteq S
  PROVE  q \in Seq(S) /\ Len(q) \in Nat /\ DOMAIN q = 1 .. Len(q)
         /\ \A i \in 1 .. Len(q) : q[i] \in S
<1>1. Len(q) \in Nat /\ DOMAIN q = 1 .. Len(q)
  OBVIOUS
<1>2. \A i \in 1 .. Len(q) : q[i] \in S
  BY <1>1 DEF ToSet
<1> QED
  BY <1>1, <1>2

LEMMA FoundURLs ==
  ASSUME NEW d \in Discoveries
  PROVE  d \in Seq(URLs) /\ Len(d) \in Nat /\ DOMAIN d = 1 .. Len(d)
         /\ \A i \in 1 .. Len(d) : d[i] \in URLs
<1>1. d \in Seq(ToSet(d))
  BY ListAssumption
<1>2. ToSet(d) \subseteq URLs
  BY DEF URLs
<1> QED
  BY <1>1, <1>2, SeqWithin

LEMMA ListedLines ==
  /\ Lines \in Seq(ToSet(Lines)) /\ Len(Lines) \in Nat /\ DOMAIN Lines = 1 .. Len(Lines)
  /\ \A i \in 1 .. Len(Lines) : Lines[i] \in ToSet(Lines)
BY ListAssumption, SeqWithin

\* The variants of a word are different URLs.
LEMMA VariantURLs ==
  ASSUME NEW word \in Listed \ Unclean
  PROVE  /\ Variants(word) \in Seq(URLs) /\ Len(Variants(word)) \in Nat
         /\ DOMAIN Variants(word) = 1 .. Len(Variants(word))
         /\ \A i \in 1 .. Len(Variants(word)) : Variants(word)[i] \in URLs
         /\ \A i, j \in 1 .. Len(Variants(word)) :
              Variants(word)[i] = Variants(word)[j] => i = j
<1> DEFINE v == Variants(word)
<1>1. Extensions \in Seq(ToSet(Extensions)) /\ Len(Extensions) \in Nat
      /\ DOMAIN Extensions = 1 .. Len(Extensions)
      /\ \A i, j \in 1 .. Len(Extensions) : Extensions[i] = Extensions[j] => i = j
  BY ListAssumption
<1>2. DOMAIN v = 1 .. Len(v) /\ Len(v) \in Nat /\ v = [i \in 1 .. Len(v) |-> v[i]]
      /\ \A i, j \in 1 .. Len(v) : v[i] = v[j] => i = j
  <2>1. CASE Extensions = <<>>
    <3>1. v = << <<word, NoExtension>> >>
      BY <2>1 DEF Variants
    <3> HIDE DEF v
    <3> QED
      BY <3>1
  <2>2. CASE Extensions # <<>>
    <3>1. v = [i \in 1 .. Len(Extensions) |-> <<word, Extensions[i]>>]
      BY <1>1, <2>2 DEF Variants
    <3> HIDE DEF v
    <3>2. DOMAIN v = 1 .. Len(Extensions) /\ Len(v) = Len(Extensions)
      BY <3>1, <1>1
    <3>3. \A i \in 1 .. Len(v) : v[i] = <<word, Extensions[i]>>
      BY <3>1, <3>2
    <3>4. ASSUME NEW i \in 1 .. Len(v), NEW j \in 1 .. Len(v), v[i] = v[j]
          PROVE  i = j
      <4>1. <<word, Extensions[i]>> = <<word, Extensions[j]>>
        BY <3>3, <3>4
      <4>2. Extensions[i] = Extensions[j]
        BY <4>1
      <4> QED
        BY <4>2, <3>2, <1>1
    <3>5. v = [i \in 1 .. Len(v) |-> v[i]]
      BY <3>1, <3>2, <3>3
    <3> QED
      BY <3>2, <3>4, <3>5, <1>1
  <2> QED
    BY <2>1, <2>2
<1>3. \A i \in 1 .. Len(v) : v[i] \in URLs
  BY <1>2 DEF URLs, ToSet, Listed
<1>4. v \in Seq(URLs)
  BY <1>2, <1>3
<1> QED
  BY <1>2, <1>3, <1>4

---------------------------------------------------------------------------
(* Type correctness. *)

LEMMA InitTyped == Init => Typed
<1> SUFFICES ASSUME Init PROVE Typed
  OBVIOUS
<1>1. TypedFeed
  BY FoundURLs DEF Init, TypedFeed
<1>2. TypedWords
  BY ListedLines, WordBufferAssumption DEF Init, TypedWords
<1>3. TypedProducers
  <2>1. Idle \in ProducerState /\ Idle.at = "off"
    BY DEF Idle, ProducerState
  <2>2. Cardinality(Producers) \in Nat
    BY PoolAssumption, FS_CardinalityType
  <2>3. producer = [p \in Producers |-> Idle] /\ failures = 0
    BY DEF Init
  <2> QED
    BY <2>1, <2>2, <2>3 DEF TypedProducers
<1>4. TypedJobs
  <2>1. Cardinality(Workers) \in Nat
    BY PoolAssumption, FS_CardinalityType
  <2> QED
    BY <2>1 DEF Init, TypedJobs, JobBuffer
<1>5. TypedPool
  <2>1. Cardinality(Workers) \in Nat
    BY PoolAssumption, FS_CardinalityType
  <2>2. [at |-> "idle"] \in WorkerState
    BY DEF WorkerState
  <2> QED
    BY <2>1, <2>2 DEF Init, TypedPool, ResultBuffer
<1>6. TypedCount
  BY DEF Init, TypedCount, Counters
<1> QED
  BY <1>1, <1>2, <1>3, <1>4, <1>5, <1>6 DEF Typed

\* The length of a queue that has room for another element.
LEMMA SubmitTyped ==
  ASSUME Typed, NEW url \in URLs, Submit(url)
  PROVE  TypedJobs' /\ count' = count
<1>1. jobs \in Seq(URLs) /\ Len(jobs) \in Nat /\ Cardinality(Workers) \in Nat
  BY PoolAssumption, FS_CardinalityType DEF Typed, TypedJobs
<1>2. TypedJobs'
  BY <1>1 DEF Submit, Typed, TypedJobs, JobBuffer
<1> QED
  BY <1>2 DEF Submit

LEMMA CountTyped ==
  ASSUME Typed, NEW c \in Counters, Count(c)
  PROVE  TypedCount'
BY DEF Count, Typed, TypedCount

LEMMA FeedTyped ==
  ASSUME Typed, Feeding
  PROVE  Typed'
<1>0. found \in Discoveries /\ Len(found) \in Nat /\ \A i \in 1 .. Len(found) : found[i] \in URLs
  BY FoundURLs DEF Typed, TypedFeed
<1>1. CASE FeedDiscovered
  <2>1. TypedFeed'
    <3>1. feeder'.next = feeder.next + 1 /\ feeder' \in [at : {"discovered", "counting"}, next : 1 .. Len(found) + 1]
      BY <1>0, <1>1 DEF FeedDiscovered, Typed, TypedFeed
    <3> QED
      BY <1>1, <3>1 DEF FeedDiscovered, Typed, TypedFeed
  <2>2. TypedJobs' /\ TypedCount'
    <3>1. CASE Repeated(feeder.next)
      BY <1>1, <3>1 DEF FeedDiscovered, jobVars, Typed, TypedJobs, TypedCount
    <3>2. CASE ~Repeated(feeder.next)
      <4>1. found[feeder.next] \in URLs /\ Submit(found[feeder.next])
        BY <1>0, <1>1, <3>2 DEF FeedDiscovered, Typed, TypedFeed
      <4> QED
        BY <4>1, SubmitTyped DEF Typed, TypedCount
    <3> QED
      BY <3>1, <3>2
  <2> QED
    BY <1>1, <2>1, <2>2 DEF FeedDiscovered, wordVars, poolVars, Typed, TypedWords, TypedProducers, TypedPool
<1>2. CASE FeedCancelled \/ ProduceReturns
  BY <1>2, <1>0 DEF FeedCancelled, ProduceReturns, CloseJobs, wordVars, poolVars,
     Typed, TypedFeed, TypedWords, TypedProducers, TypedJobs, TypedPool, TypedCount
<1>3. CASE Produce
  <2>1. TypedFeed' /\ TypedJobs'
    BY <1>3, <1>0 DEF Produce, CloseJobs, jobVars, Typed, TypedFeed, TypedJobs
  <2>2. TypedWords'
    BY <1>3 DEF Produce, Typed, TypedWords
  <2>3. TypedProducers'
    <3>1. [Idle EXCEPT !.at = "idle"] \in ProducerState /\ [Idle EXCEPT !.at = "idle"].at = "idle"
      BY DEF Idle, ProducerState
    <3>2. CASE base = "good"
      <4>1. producer' = [p \in Producers |-> [Idle EXCEPT !.at = "idle"]] /\ failures' = failures
        BY <1>3, <3>2 DEF Produce
      <4> QED
        BY <3>1, <4>1 DEF Typed, TypedProducers
    <3>3. CASE base # "good"
      BY <1>3, <3>3 DEF Produce, Typed, TypedProducers
    <3> QED
      BY <3>2, <3>3
  <2> QED
    BY <1>3, <2>1, <2>2, <2>3 DEF Produce, poolVars, Typed, TypedPool, TypedCount
<1>4. CASE CountDiscovered
  <2>1. TypedFeed' /\ TypedJobs'
    BY <1>4, <1>0 DEF CountDiscovered, jobVars, Typed, TypedFeed, TypedJobs
  <2>2. TypedCount'
    BY <1>4, CountTyped DEF CountDiscovered, Counters
  <2> QED
    BY <1>4, <2>1, <2>2 DEF CountDiscovered, wordVars, poolVars, Typed, TypedWords, TypedProducers, TypedPool
<1> QED
  BY <1>1, <1>2, <1>3, <1>4 DEF Feeding

LEMMA ReadTyped ==
  ASSUME Typed, Reading
  PROVE  Typed'
<1>0. TypedFeed' /\ TypedProducers' /\ TypedJobs' /\ TypedPool' /\ TypedCount'
  BY DEF Reading, ReadWord, ReadCancelled, ReadFails, ReadEnds, feedVars, jobVars, poolVars,
     Typed, TypedFeed, TypedProducers, TypedJobs, TypedPool, TypedCount
<1>1. CASE ReadWord
  <2>1. Lines[reader.next] \in ToSet(Lines) /\ Len(Lines) \in Nat /\ reader'.next \in 1 .. Len(Lines) + 1
        /\ reader'.at = "reading" /\ reader' \in [at : {"reading"}, next : 1 .. Len(Lines) + 1]
    BY <1>1, ListedLines DEF ReadWord, Typed, TypedWords
  <2>2. words \in Seq(Listed) /\ Len(words) \in Nat /\ WordBuffer \in Nat
    BY WordBufferAssumption DEF Typed, TypedWords
  <2>5. TypedWords'
    <3>1. CASE Lines[reader.next] \in Blank
      BY <1>1, <2>1, <3>1 DEF ReadWord, Typed, TypedWords
    <3>2. CASE Lines[reader.next] \notin Blank
      <4>1. Lines[reader.next] \in Listed
        BY <2>1, <3>2 DEF Listed
      <4>2. words' \in Seq(Listed) /\ Len(words') <= WordBuffer
        BY <1>1, <2>2, <3>2, <4>1 DEF ReadWord
      <4> QED
        BY <1>1, <2>1, <4>2 DEF ReadWord, Typed, TypedWords
    <3> QED
      BY <3>1, <3>2
  <2> QED
    BY <1>0, <2>5 DEF Typed
<1>2. CASE ReadCancelled \/ ReadFails \/ ReadEnds
  <2>1. TypedWords'
    BY <1>2 DEF ReadCancelled, ReadFails, ReadEnds, ReaderQuits, Typed, TypedWords
  <2> QED
    BY <1>0, <2>1 DEF Typed
<1> QED
  BY <1>1, <1>2 DEF Reading

\* A producer that only changes its place among those where it has no word.
LEMMA BecomesTyped ==
  ASSUME Typed, NEW p \in Producers, NEW at \in {"idle", "failing", "done"}, Becomes(p, at)
  PROVE  /\ producer' \in [Producers -> ProducerState]
         /\ \A q \in Producers : producer'[q].at \in {"gate", "expanding", "counting"} =>
              producer'[q].next \in 1 .. Len(Variants(producer'[q].word)) + 1
<1>1. producer[p] \in ProducerState
  BY DEF Typed, TypedProducers
<1>2. [producer[p] EXCEPT !.at = at] \in ProducerState /\ [producer[p] EXCEPT !.at = at].at = at
  BY <1>1 DEF ProducerState
<1>3. producer' = [producer EXCEPT ![p] = [producer[p] EXCEPT !.at = at]]
  BY DEF Becomes
<1> QED
  BY <1>2, <1>3 DEF Typed, TypedProducers

LEMMA ProducingTyped ==
  ASSUME Typed, NEW p \in Producers, Producing(p)
  PROVE  Typed'
<1>0. producer[p] \in ProducerState /\ producer \in [Producers -> ProducerState]
  BY DEF Typed, TypedProducers
<1>1. CASE Receive(p)
  <2>1. words \in Seq(Listed) /\ Len(words) \in Nat /\ words # <<>> /\ words' = Tail(words)
    BY <1>1 DEF Receive, Typed, TypedWords
  <2>2. Head(words) \in Listed /\ words' \in Seq(Listed) /\ Len(words') = Len(words) - 1
    BY <2>1, HeadTailProperties
  <2>3. TypedWords'
    BY <1>1, <2>1, <2>2, WordBufferAssumption DEF Receive, Typed, TypedWords
  <2>4. TypedProducers'
    <3>1. CASE ctx = "cancelled"
      <4>1. Becomes(p, "done") /\ failures' = failures
        BY <1>1, <3>1 DEF Receive, Becomes
      <4> QED
        BY <4>1, BecomesTyped DEF Typed, TypedProducers
    <3>2. CASE ctx # "cancelled" /\ ~Clean(Head(words))
      <4>1. producer' = [producer EXCEPT ![p] = producer[p]] /\ failures' = failures
        BY <1>1, <3>2 DEF Receive
      <4>2. producer' = producer
        BY <4>1, <1>0
      <4> QED
        BY <4>1, <4>2 DEF Typed, TypedProducers
    <3>3. CASE ctx # "cancelled" /\ Clean(Head(words))
      <4> DEFINE new == [at |-> "gate", word |-> Head(words), next |-> 1]
      <4>1. producer' = [producer EXCEPT ![p] = new] /\ failures' = failures
        BY <1>1, <3>3 DEF Receive
      <4>2. Head(words) \in Listed \ Unclean
        BY <2>2, <3>3 DEF Clean
      <4>3. new \in ProducerState /\ new.next = 1 /\ new.word = Head(words)
        BY <4>2 DEF ProducerState
      <4>4. 1 \in 1 .. Len(Variants(Head(words))) + 1
        BY <4>2, VariantURLs
      <4> HIDE DEF new
      <4>5. \A q \in Producers : producer'[q] = IF q = p THEN new ELSE producer[q]
        BY <4>1, <1>0
      <4>6. producer' \in [Producers -> ProducerState]
        BY <4>1, <4>3, <1>0
      <4> QED
        BY <4>1, <4>3, <4>4, <4>5, <4>6 DEF Typed, TypedProducers
    <3> QED
      BY <3>1, <3>2, <3>3
  <2> QED
    BY <1>1, <2>3, <2>4 DEF Receive, feedVars, jobVars, poolVars,
       Typed, TypedFeed, TypedJobs, TypedPool, TypedCount
<1>2. CASE WordsEnd(p) \/ ProducerQuits(p) \/ Expanded(p)
  <2>1. Becomes(p, "done") \/ Becomes(p, "failing") \/ Becomes(p, "idle")
    BY <1>2 DEF WordsEnd, ProducerQuits, Expanded
  <2>2. TypedProducers'
    BY <1>2, <2>1, BecomesTyped DEF WordsEnd, ProducerQuits, Expanded, Typed, TypedProducers
  <2> QED
    BY <1>2, <2>2 DEF WordsEnd, ProducerQuits, Expanded, feedVars, wordVars, jobVars, poolVars,
       Typed, TypedFeed, TypedWords, TypedJobs, TypedPool, TypedCount
<1>3. CASE SendError(p)
  <2>1. Becomes(p, "done") /\ Cardinality(Producers) \in Nat
    BY <1>3, PoolAssumption, FS_CardinalityType DEF SendError
  <2>2. TypedProducers'
    BY <1>3, <2>1, BecomesTyped DEF SendError, ErrBuffer, Typed, TypedProducers
  <2> QED
    BY <1>3, <2>2 DEF SendError, feedVars, wordVars, jobVars, poolVars,
       Typed, TypedFeed, TypedWords, TypedJobs, TypedPool, TypedCount
<1>4. CASE PassGate(p) \/ CountProduced(p)
  <2> DEFINE new == [producer[p] EXCEPT !.at = "expanding"]
  <2>1. producer' = [producer EXCEPT ![p] = new] /\ failures' = failures
    BY <1>4 DEF PassGate, CountProduced, Becomes
  <2>2. new \in ProducerState /\ new.word = producer[p].word /\ new.next = producer[p].next
        /\ producer[p].at \in {"gate", "counting"}
    BY <1>0, <1>4 DEF PassGate, CountProduced, ProducerState
  <2> HIDE DEF new
  <2>3. TypedProducers'
    <3>1. \A q \in Producers : producer'[q] = IF q = p THEN new ELSE producer[q]
      BY <2>1, <1>0
    <3>2. producer' \in [Producers -> ProducerState]
      BY <2>1, <2>2, <1>0
    <3> QED
      BY <2>1, <2>2, <3>1, <3>2 DEF Typed, TypedProducers
  <2>4. TypedCount'
    <3>1. CASE PassGate(p)
      BY <3>1 DEF PassGate, Typed, TypedCount
    <3>2. CASE CountProduced(p)
      BY <3>2, CountTyped DEF CountProduced, Counters
    <3> QED
      BY <1>4, <3>1, <3>2
  <2> QED
    BY <1>4, <2>3, <2>4 DEF PassGate, CountProduced, feedVars, wordVars, jobVars, poolVars,
       Typed, TypedFeed, TypedWords, TypedJobs, TypedPool
<1>5. CASE Expand(p)
  <2>1. producer[p].at = "expanding" /\ producer[p].word \in Listed \ Unclean
        /\ producer[p].next \in Nat /\ producer[p].next <= Len(Variants(producer[p].word))
        /\ producer[p].next >= 1
    BY <1>0, <1>5 DEF Expand, ProducerState, Typed, TypedProducers
  <2>2. Variants(producer[p].word)[producer[p].next] \in URLs
        /\ Len(Variants(producer[p].word)) \in Nat
    BY <2>1, VariantURLs
  <2>3. TypedProducers'
    <3>0. PICK at \in {"expanding", "counting"} : Advance(p, at)
      BY <1>5 DEF Expand
    <3> DEFINE new == [at |-> at, word |-> producer[p].word, next |-> producer[p].next + 1]
    <3>1. producer' = [producer EXCEPT ![p] = new] /\ failures' = failures
      BY <1>5, <3>0 DEF Expand, Advance
    <3>2. new \in ProducerState /\ new.word = producer[p].word /\ new.next = producer[p].next + 1
      BY <1>0, <2>1 DEF ProducerState
    <3> HIDE DEF new
    <3>3. \A q \in Producers : producer'[q] = IF q = p THEN new ELSE producer[q]
      BY <3>1, <1>0
    <3>4. producer' \in [Producers -> ProducerState]
      BY <3>1, <3>2, <1>0
    <3> QED
      BY <2>1, <2>2, <3>1, <3>2, <3>3, <3>4 DEF Typed, TypedProducers
  <2>4. TypedJobs' /\ TypedCount'
    <3> DEFINE url == Variants(producer[p].word)[producer[p].next]
    <3>1. CASE ~Joins(url)
      <4>1. Count("invalid") /\ UNCHANGED jobVars
        BY <1>5, <3>1 DEF Expand
      <4> QED
        BY <4>1, CountTyped DEF jobVars, Counters, Typed, TypedJobs
    <3>2. CASE Joins(url) /\ Key(url) \in SkipSet
      <4>1. UNCHANGED <<jobVars, count>>
        BY <1>5, <3>2 DEF Expand
      <4> QED
        BY <4>1 DEF jobVars, Typed, TypedJobs, TypedCount
    <3>3. CASE Joins(url) /\ Key(url) \notin SkipSet
      <4>1. Submit(url)
        BY <1>5, <3>3 DEF Expand
      <4> QED
        BY <4>1, <2>2, SubmitTyped DEF Typed, TypedCount
    <3> QED
      BY <3>1, <3>2, <3>3
  <2> QED
    BY <1>5, <2>3, <2>4 DEF Expand, feedVars, wordVars, poolVars, Typed, TypedFeed, TypedWords, TypedPool
<1> QED
  BY <1>1, <1>2, <1>3, <1>4, <1>5 DEF Producing

\* The job of a worker that has one.
LEMMA JobOf ==
  ASSUME Typed, NEW w \in Workers
  PROVE  /\ worker[w] \in WorkerState
         /\ worker[w].at \in {"idle", "holding", "ready", "flight", "skipping", "reporting", "done"}
         /\ worker[w].at \in {"holding", "ready", "flight"} => worker[w].job \in URLs
<1>1. worker[w] \in WorkerState
  BY DEF Typed, TypedPool
<1> QED
  BY <1>1 DEF WorkerState

LEMMA SetsTyped ==
  ASSUME Typed, NEW w \in Workers, NEW to \in WorkerState, Sets(w, to)
  PROVE  worker' \in [Workers -> WorkerState]
BY DEF Sets, Typed, TypedPool

LEMMA OutcomeCounted ==
  ASSUME NEW page
  PROVE  ScanOutcome(Suite, page, FALSE) \in {"succeeded", "filtered"}
BY DEF ScanOutcome

LEMMA WorkingTyped ==
  ASSUME Typed, NEW w \in Workers, Working(w)
  PROVE  Typed'
<1>0. TypedFeed' /\ TypedWords' /\ TypedProducers'
  BY DEF Working, Take, JobsEnd, Drop, Build, BuildFails, CountSkipped, Send, Respond, Fail, Report,
     feedVars, wordVars, jobVars, Typed, TypedFeed, TypedWords, TypedProducers
<1>1. CASE Take(w)
  <2>1. jobs \in Seq(URLs) /\ Len(jobs) \in Nat /\ jobs # <<>> /\ jobs' = Tail(jobs)
        /\ Cardinality(Workers) \in Nat
    BY <1>1, PoolAssumption, FS_CardinalityType DEF Take, Typed, TypedJobs
  <2>2. Head(jobs) \in URLs /\ jobs' \in Seq(URLs) /\ Len(jobs') = Len(jobs) - 1
    BY <2>1, HeadTailProperties
  <2>3. [at |-> "holding", job |-> Head(jobs)] \in WorkerState
    BY <2>2 DEF WorkerState
  <2>4. worker' \in [Workers -> WorkerState]
    BY <1>1, <2>3, SetsTyped DEF Take
  <2>5. TypedJobs'
    BY <1>1, <2>1, <2>2 DEF Take, Typed, TypedJobs, JobBuffer
  <2> QED
    BY <1>0, <1>1, <2>4, <2>5 DEF Take, Typed, TypedPool, TypedCount
<1>2. CASE JobsEnd(w) \/ Drop(w)
  <2>1. [at |-> "done"] \in WorkerState /\ [at |-> "idle"] \in WorkerState
    BY DEF WorkerState
  <2>2. worker' \in [Workers -> WorkerState]
    BY <1>2, <2>1, SetsTyped DEF JobsEnd, Drop
  <2> QED
    BY <1>0, <1>2, <2>2 DEF JobsEnd, Drop, jobVars, Typed, TypedJobs, TypedPool, TypedCount
<1>3. CASE Build(w)
  <2>1. [worker[w] EXCEPT !.at = "ready"] \in WorkerState
    BY <1>3, JobOf DEF Build, WorkerState
  <2>2. worker' \in [Workers -> WorkerState]
    BY <1>3, <2>1, SetsTyped DEF Build
  <2> QED
    BY <1>0, <1>3, <2>2 DEF Build, jobVars, Typed, TypedJobs, TypedPool, TypedCount
<1>4. CASE BuildFails(w) \/ CountSkipped(w) \/ Fail(w) \/ Respond(w)
  <2>1. [at |-> "reporting"] \in WorkerState /\ [at |-> "skipping"] \in WorkerState
        /\ \A page \in Pages : [at |-> "reporting", page |-> page] \in WorkerState
    BY DEF WorkerState
  <2>2. worker' \in [Workers -> WorkerState]
    <3>1. CASE BuildFails(w) \/ CountSkipped(w) \/ Fail(w)
      BY <3>1, <2>1, SetsTyped DEF BuildFails, CountSkipped, Fail
    <3>2. CASE Respond(w)
      <4>1. PICK page \in Pages : Sets(w, [at |-> "reporting", page |-> page])
        BY <3>2 DEF Respond
      <4> QED
        BY <4>1, <2>1, SetsTyped
    <3> QED
      BY <1>4, <3>1, <3>2
  <2>3. TypedCount'
    <3>1. CASE BuildFails(w) \/ Fail(w)
      BY <3>1, CountTyped DEF BuildFails, Fail, Counters
    <3>2. CASE CountSkipped(w)
      BY <3>2, CountTyped DEF CountSkipped, Counters
    <3>3. CASE Respond(w)
      <4>1. PICK page \in Pages : Count(ScanOutcome(Suite, page, FALSE))
        BY <3>3 DEF Respond
      <4> DEFINE c == ScanOutcome(Suite, page, FALSE)
      <4>2. c \in Counters
        BY OutcomeCounted DEF Counters
      <4> HIDE DEF c
      <4>3. Count(c)
        BY <4>1 DEF c
      <4> QED
        BY <4>2, <4>3, CountTyped
    <3> QED
      BY <1>4, <3>1, <3>2, <3>3
  <2> QED
    BY <1>0, <1>4, <2>2, <2>3 DEF BuildFails, CountSkipped, Fail, Respond, jobVars, Typed, TypedJobs, TypedPool
<1>5. CASE Send(w)
  <2>1. [worker[w] EXCEPT !.at = "flight"] \in WorkerState /\ worker[w].job \in URLs
    BY <1>5, JobOf DEF Send, WorkerState
  <2>2. worker' \in [Workers -> WorkerState]
    BY <1>5, <2>1, SetsTyped DEF Send
  <2>3. requested' \in [URLs -> Nat] /\ late' \in [Workers -> Nat]
    BY <1>5, <2>1 DEF Send, Typed, TypedPool
  <2>4. TypedCount'
    BY <1>5, CountTyped DEF Send, Counters
  <2> QED
    BY <1>0, <1>5, <2>2, <2>3, <2>4 DEF Send, jobVars, Typed, TypedJobs, TypedPool
<1>6. CASE Report(w)
  <2>1. [at |-> "done"] \in WorkerState /\ [at |-> "idle"] \in WorkerState
    BY DEF WorkerState
  <2>2. worker' \in [Workers -> WorkerState]
    <3>1. PICK to \in {"idle", "done"} : Sets(w, [at |-> to])
      BY <1>6 DEF Report
    <3> QED
      BY <3>1, <2>1, SetsTyped
  <2>3. results' \in 0 .. ResultBuffer
    BY <1>6, PoolAssumption, FS_CardinalityType DEF Report, ResultBuffer, Typed, TypedPool
  <2> QED
    BY <1>0, <1>6, <2>2, <2>3 DEF Report, jobVars, Typed, TypedJobs, TypedPool, TypedCount
<1> QED
  BY <1>1, <1>2, <1>3, <1>4, <1>5, <1>6 DEF Working

LEMMA StepTyped == Typed /\ [Next]_vars => Typed'
<1> SUFFICES ASSUME Typed, [Next]_vars PROVE Typed'
  OBVIOUS
<1>1. CASE Cancel
  BY <1>1 DEF Cancel, feedVars, wordVars, jobVars, poolVars,
     Typed, TypedFeed, TypedWords, TypedProducers, TypedJobs, TypedPool, TypedCount
<1>2. CASE PrintResult
  <2>1. results' \in 0 .. ResultBuffer
    BY <1>2, PoolAssumption, FS_CardinalityType DEF PrintResult, ResultBuffer, Typed, TypedPool
  <2> QED
    BY <1>2, <2>1 DEF PrintResult, feedVars, wordVars, jobVars,
       Typed, TypedFeed, TypedWords, TypedProducers, TypedJobs, TypedPool, TypedCount
<1>3. CASE MainLeaves
  BY <1>3 DEF MainLeaves, feedVars, wordVars, jobVars, poolVars,
     Typed, TypedFeed, TypedWords, TypedProducers, TypedJobs, TypedPool, TypedCount
<1>4. CASE UNCHANGED vars
  BY <1>4 DEF vars, feedVars, wordVars, jobVars, poolVars,
     Typed, TypedFeed, TypedWords, TypedProducers, TypedJobs, TypedPool, TypedCount
<1> QED
  BY <1>1, <1>2, <1>3, <1>4, FeedTyped, ReadTyped, ProducingTyped, WorkingTyped DEF Next, Finished

LEMMA AlwaysTyped == Spec => []Typed
BY InitTyped, StepTyped, PTL DEF Spec

\* The channels stay within their capacities, and everything has its type.
THEOREM TypeCorrect == Spec => []TypeOK
<1>1. Typed => TypeOK
  <2> SUFFICES ASSUME Typed PROVE TypeOK
    OBVIOUS
  <2>1. \A p \in Producers : producer[p].at \in {"off", "idle", "gate", "expanding", "counting", "failing", "done"}
    BY DEF Typed, TypedProducers, ProducerState
  <2>2. \A c \in DOMAIN count : count[c] \in Nat
    BY DEF Typed, TypedCount
  <2>3. reader.at \in {"off", "reading", "ended", "broken", "cancelled"}
        /\ reader.next \in 1 .. Len(Lines) + 1
    BY DEF Typed, TypedWords
  <2>4. words \in Seq(ToSet(Lines) \ Blank) /\ Len(words) <= WordBuffer /\ wordsOpen \in BOOLEAN
    BY DEF Typed, TypedWords, Listed
  <2> QED
    BY <2>1, <2>2, <2>3, <2>4, JobOf DEF TypeOK, Typed, TypedFeed, TypedProducers, TypedJobs, TypedPool
<1> QED
  BY <1>1, AlwaysTyped, PTL

---------------------------------------------------------------------------
(* What is shown. *)

\* A body that is read counts as many bytes as one that is skimmed: only the
\* length of an empty one stays unknown.
LEMMA SameBytes ==
  ASSUME NEW suite, NEW page,
         page.declared \in Nat \cup {Unknown}, page.size \in Nat, ~page.broken
  PROVE  ScanBytes(suite, page, FALSE) = FuzzBytes(suite, page)
<1>1. \A limit : ~SeenBroken(page, limit)
  BY DEF SeenBroken
<1>2. \A limit : Measured(page, limit) = Measured(page, BodyLimit)
  BY <1>1 DEF Measured
<1>3. Measured(page, BodyLimit) < 0 => page.size = 0
  BY <1>1 DEF Measured, Unknown
<1> DEFINE m == Measured(page, BodyLimit)
<1>4. Measured(page, FuzzLimit(suite)) = m
  BY <1>2
<1>5. m < 0 => page.size = 0
  BY <1>3
<1> HIDE DEF m
<1>6. Recorded(page, m, page.size) = Recorded(page, m, 0)
  BY <1>5 DEF Recorded
<1> QED
  BY <1>4, <1>6 DEF ScanBytes, FuzzBytes, m

\* The limit of a fuzz run is the lower one: it sees no break that a scan misses.
LEMMA SameOutcome ==
  ASSUME NEW suite, NEW page, page.size \in Nat
  PROVE  /\ ScanOutcome(suite, page, FALSE) = "succeeded" => FuzzOutcome(suite, page) = "succeeded"
         /\ FuzzOutcome(suite, page) = "succeeded" =>
              ScanOutcome(suite, page, FALSE) = "succeeded" \/ Overlooked(suite, page)
<1> DEFINE limit == FuzzLimit(suite)
<1>1. SeenBroken(page, limit) => SeenBroken(page, BodyLimit)
  BY DEF SeenBroken, FuzzLimit, SkimLimit, BodyLimit
<1>2. Skims(suite) => limit = SkimLimit
  BY DEF FuzzLimit
<1> HIDE DEF limit
<1>3. /\ ScanOutcome(suite, page, FALSE) = "succeeded" <=>
           /\ EarlyStages(suite, page, FALSE) /\ LateSize(suite, page, BodyLimit)
           /\ ~SeenBroken(page, BodyLimit) /\ MatchResponse(suite, page)
      /\ FuzzOutcome(suite, page) = "succeeded" <=>
           /\ EarlyStages(suite, page, FALSE) /\ LateSize(suite, page, limit)
           /\ ~SeenBroken(page, limit) /\ MatchResponse(suite, page)
  BY <1>2 DEF ScanOutcome, FuzzOutcome, BodyStage, limit
<1>4. (SeenBroken(page, limit) <=> SeenBroken(page, BodyLimit)) =>
        (LateSize(suite, page, limit) <=> LateSize(suite, page, BodyLimit))
  BY DEF LateSize, Measured
<1> QED
  BY <1>1, <1>3, <1>4 DEF Overlooked, limit

\* Whatever the filters and the pages are, a fuzz run shows what a scan shows,
\* and beyond that only a page whose break it overlooks.
THEOREM PipelinesAgreeCorrect == Spec => []PipelinesAgree
<1>1. Typed => PipelinesAgree
  <2> SUFFICES ASSUME Typed, NEW w \in Answered, NEW suite \in Suites
               PROVE  LET page == worker[w].page IN
                        /\ ScanOutcome(suite, page, FALSE) = "succeeded" =>
                             FuzzOutcome(suite, page) = "succeeded"
                        /\ FuzzOutcome(suite, page) = "succeeded" =>
                             ScanOutcome(suite, page, FALSE) = "succeeded" \/ Overlooked(suite, page)
                        /\ ~page.broken => ScanBytes(suite, page, FALSE) = FuzzBytes(suite, page)
    BY DEF PipelinesAgree
  <2>1. worker[w].page \in Pages
    BY JobOf DEF Answered, WorkerState
  <2> QED
    BY <2>1, PageAssumption, SameBytes, SameOutcome
<1> QED
  BY <1>1, AlwaysTyped, PTL

---------------------------------------------------------------------------
(* After the cancellation. *)

\* A worker that has sent its late request is past the last look at the context.
Prompt ==
  \A w \in Workers :
    late[w] = 0 \/ (late[w] = 1 /\ ctx = "cancelled" /\ worker[w].at # "ready")

LEMMA PromptStep == Typed /\ Prompt /\ [Next]_vars => Prompt'
<1> SUFFICES ASSUME Typed, Prompt, [Next]_vars PROVE Prompt'
  OBVIOUS
<1>0. worker \in [Workers -> WorkerState] /\ late \in [Workers -> Nat]
  BY DEF Typed, TypedPool
<1>1. ASSUME NEW w \in Workers, Working(w) PROVE Prompt'
  <2>1. CASE Send(w)
    <3>1. worker'[w].at = "flight" /\ \A v \in Workers \ {w} : worker'[v] = worker[v]
      BY <2>1, <1>0, JobOf DEF Send, Sets, WorkerState
    <3>2. late[w] = 0 /\ ctx' = ctx
      BY <2>1 DEF Send, Prompt
    <3>3. late' = IF ctx = "cancelled" THEN [late EXCEPT ![w] = @ + 1] ELSE late
      BY <2>1 DEF Send
    <3> QED
      BY <3>1, <3>2, <3>3, <1>0 DEF Prompt
  <2>2. CASE Build(w)
    <3>1. late[w] = 0 /\ late' = late /\ ctx' = ctx /\ ctx = "live"
      BY <2>2 DEF Build, Prompt
    <3> QED
      BY <3>1 DEF Prompt
  <2>3. CASE ~Send(w) /\ ~Build(w)
    <3>1. late' = late /\ ctx' = ctx
      BY <1>1, <2>3 DEF Working, Take, JobsEnd, Drop, BuildFails, CountSkipped, Respond, Fail, Report
    <3>2. \E to : Sets(w, to) /\ to.at # "ready"
      <4>1. CASE Respond(w)
        <5>1. PICK page \in Pages : Sets(w, [at |-> "reporting", page |-> page])
          BY <4>1 DEF Respond
        <5>2. [at |-> "reporting", page |-> page].at # "ready"
          OBVIOUS
        <5> QED
          BY <5>1, <5>2
      <4>2. CASE Take(w)
        BY <4>2 DEF Take
      <4>3. CASE JobsEnd(w) \/ Drop(w) \/ BuildFails(w) \/ CountSkipped(w) \/ Fail(w) \/ Report(w)
        <5>1. \E at \in {"done", "idle", "skipping", "reporting"} : Sets(w, [at |-> at])
          BY <4>3 DEF JobsEnd, Drop, BuildFails, CountSkipped, Fail, Report
        <5>2. PICK at \in {"done", "idle", "skipping", "reporting"} : Sets(w, [at |-> at])
          BY <5>1
        <5>3. [at |-> at].at # "ready"
          BY <5>2
        <5> QED
          BY <5>2, <5>3
      <4> QED
        BY <1>1, <2>3, <4>1, <4>2, <4>3 DEF Working
    <3>3. worker'[w].at # "ready" /\ \A v \in Workers \ {w} : worker'[v] = worker[v]
      BY <3>2, <1>0 DEF Sets
    <3> QED
      BY <3>1, <3>3 DEF Prompt
  <2> QED
    BY <2>1, <2>2, <2>3
<1>2. CASE \E p \in Producers : Producing(p)
  BY <1>2 DEF Producing, Receive, WordsEnd, ProducerQuits, SendError, PassGate, Expand, CountProduced, Expanded,
     poolVars, Prompt
<1>3. CASE Feeding \/ Reading
  BY <1>3 DEF Feeding, FeedDiscovered, CountDiscovered, FeedCancelled, Produce, ProduceReturns,
     Reading, ReadWord, ReadCancelled, ReadFails, ReadEnds, poolVars, Prompt
<1>4. CASE Cancel \/ PrintResult \/ MainLeaves \/ UNCHANGED vars
  BY <1>4 DEF Cancel, PrintResult, MainLeaves, vars, poolVars, Prompt
<1> QED
  BY <1>1, <1>2, <1>3, <1>4 DEF Next, Finished

\* However many jobs are queued and workers run, each of them sends at most
\* the request it had already checked when the scan is cancelled.
THEOREM StopIsPromptCorrect == Spec => []StopIsPrompt
<1>1. Init => Prompt
  BY DEF Init, Prompt
<1>2. Prompt => StopIsPrompt
  BY DEF Prompt, StopIsPrompt
<1> QED
  BY <1>1, <1>2, PromptStep, AlwaysTyped, PTL DEF Spec

---------------------------------------------------------------------------
(* The counters. *)

\* Two subsets of a finite set that differ in one element at most.
LEMMA OneMoves ==
  ASSUME NEW T, IsFiniteSet(T), NEW A \in SUBSET T, NEW B \in SUBSET T, NEW x \in T,
         \A y \in T : y # x => (y \in A <=> y \in B)
  PROVE  /\ Cardinality(A) \in Nat /\ Cardinality(B) \in Nat
         /\ Cardinality(B) = Cardinality(A) + (IF x \in B THEN 1 ELSE 0) - (IF x \in A THEN 1 ELSE 0)
<1>1. IsFiniteSet(A) /\ IsFiniteSet(B)
  BY FS_Subset
<1>2. Cardinality(A) \in Nat /\ Cardinality(B) \in Nat
  BY <1>1, FS_CardinalityType
<1>3. A \ {x} = B \ {x}
  OBVIOUS
<1>4. Cardinality(A \ {x}) = IF x \in A THEN Cardinality(A) - 1 ELSE Cardinality(A)
  BY <1>1, FS_RemoveElement
<1>5. Cardinality(B \ {x}) = IF x \in B THEN Cardinality(B) - 1 ELSE Cardinality(B)
  BY <1>1, FS_RemoveElement
<1> QED
  BY <1>2, <1>3, <1>4, <1>5

Group(S) == {w \in Workers : worker[w].at \in S}
Held == Group({"holding", "ready", "skipping"})
Backlog == Len(jobs) + Cardinality(Held)
Spent == count.sent + count.skipped
Outcomes == count.failed + count.filtered + count.succeeded

\* A job that was produced is in the channel or in the hands of a worker until
\* it is requested, skipped or dropped; only a cancelled scan drops one.
Balance ==
  /\ Spent + Cardinality(Skipping) = Cardinality(InFlight) + Outcomes
  /\ Spent + Backlog <= count.produced + Unproduced
  /\ ctx = "live" => Spent + Backlog = count.produced + Unproduced

\* Nobody produces before discovery is done.
Discovering == feeder.at \in {"discovered", "counting"}
Waiting == Discovering => \A p \in Producers : producer[p].at = "off"

\* How a group of workers changes when one worker takes a step.
LEMMA GroupMoves ==
  ASSUME Typed, NEW w \in Workers, NEW to, Sets(w, to), NEW S
  PROVE  /\ Cardinality(Group(S)) \in Nat
         /\ Cardinality(Group(S)') = Cardinality(Group(S))
              + (IF to.at \in S THEN 1 ELSE 0) - (IF worker[w].at \in S THEN 1 ELSE 0)
<1>1. IsFiniteSet(Workers)
  BY PoolAssumption
<1>2. worker' = [worker EXCEPT ![w] = to] /\ DOMAIN worker = Workers
  BY DEF Sets, Typed, TypedPool
<1>3. worker'[w] = to /\ \A v \in Workers : v # w => worker'[v] = worker[v]
  BY <1>2
<1> DEFINE A == Group(S)  B == Group(S)'
<1>4. A \in SUBSET Workers /\ B \in SUBSET Workers
  BY DEF Group
<1>5. /\ \A v \in Workers : v # w => (v \in A <=> v \in B)
      /\ w \in B <=> to.at \in S
      /\ w \in A <=> worker[w].at \in S
  BY <1>3 DEF Group
<1> HIDE DEF A, B
<1>6. /\ Cardinality(A) \in Nat
      /\ Cardinality(B) = Cardinality(A) + (IF w \in B THEN 1 ELSE 0) - (IF w \in A THEN 1 ELSE 0)
  BY <1>1, <1>4, <1>5, OneMoves
<1>7. /\ Cardinality(A) \in Nat
      /\ Cardinality(B) = Cardinality(A)
              + (IF to.at \in S THEN 1 ELSE 0) - (IF worker[w].at \in S THEN 1 ELSE 0)
  BY <1>5, <1>6
<1> QED
  BY <1>7 DEF A, B

LEMMA Groups ==
  /\ InFlight = Group({"flight"}) /\ Skipping = Group({"skipping"})
  /\ InFlight' = Group({"flight"})' /\ Skipping' = Group({"skipping"})'
BY DEF InFlight, Skipping, Group

LEMMA WorkerMoves ==
  ASSUME Typed, NEW w \in Workers, NEW to, Sets(w, to)
  PROVE  /\ Cardinality(InFlight)' = Cardinality(InFlight)
              + (IF to.at = "flight" THEN 1 ELSE 0) - (IF worker[w].at = "flight" THEN 1 ELSE 0)
         /\ Cardinality(Skipping)' = Cardinality(Skipping)
              + (IF to.at = "skipping" THEN 1 ELSE 0) - (IF worker[w].at = "skipping" THEN 1 ELSE 0)
         /\ Cardinality(Held)' = Cardinality(Held)
              + (IF to.at \in {"holding", "ready", "skipping"} THEN 1 ELSE 0)
              - (IF worker[w].at \in {"holding", "ready", "skipping"} THEN 1 ELSE 0)
<1>1. /\ Cardinality(Group({"flight"})') = Cardinality(Group({"flight"}))
           + (IF to.at \in {"flight"} THEN 1 ELSE 0) - (IF worker[w].at \in {"flight"} THEN 1 ELSE 0)
      /\ Cardinality(Group({"skipping"})') = Cardinality(Group({"skipping"}))
           + (IF to.at \in {"skipping"} THEN 1 ELSE 0) - (IF worker[w].at \in {"skipping"} THEN 1 ELSE 0)
  BY GroupMoves
<1>2. Cardinality(Held') = Cardinality(Held)
           + (IF to.at \in {"holding", "ready", "skipping"} THEN 1 ELSE 0)
           - (IF worker[w].at \in {"holding", "ready", "skipping"} THEN 1 ELSE 0)
  BY GroupMoves DEF Held
<1> QED
  BY <1>1, <1>2, Groups

\* What is summed up are numbers.
LEMMA Numbers ==
  ASSUME Typed
  PROVE  /\ count.sent \in Nat /\ count.skipped \in Nat /\ count.failed \in Nat
         /\ count.filtered \in Nat /\ count.succeeded \in Nat /\ count.produced \in Nat
         /\ Len(jobs) \in Nat /\ count \in [Counters -> Nat]
         /\ Cardinality(InFlight) \in Nat /\ Cardinality(Skipping) \in Nat
         /\ Cardinality(Held) \in Nat /\ Cardinality(Uncounted) \in Nat
         /\ Spent \in Nat /\ Outcomes \in Nat /\ Backlog \in Nat /\ Unproduced \in Nat
<1>1. /\ count.sent \in Nat /\ count.skipped \in Nat /\ count.failed \in Nat
      /\ count.filtered \in Nat /\ count.succeeded \in Nat /\ count.produced \in Nat
      /\ Len(jobs) \in Nat /\ count \in [Counters -> Nat]
  BY DEF Typed, TypedCount, TypedJobs, Counters
<1>2. /\ InFlight \subseteq Workers /\ Skipping \subseteq Workers /\ Held \subseteq Workers
      /\ Uncounted \subseteq Producers
  BY DEF InFlight, Skipping, Held, Group, Uncounted
<1>3. /\ Cardinality(InFlight) \in Nat /\ Cardinality(Skipping) \in Nat
      /\ Cardinality(Held) \in Nat /\ Cardinality(Uncounted) \in Nat
  BY <1>2, PoolAssumption, FS_Subset, FS_CardinalityType
<1>4. Spent \in Nat /\ Outcomes \in Nat
  BY <1>1 DEF Spent, Outcomes
<1>5. Backlog \in Nat /\ Unproduced \in Nat
  BY <1>1, <1>3 DEF Backlog, Unproduced
<1> QED
  BY <1>1, <1>3, <1>4, <1>5

LEMMA WorkingBalance ==
  ASSUME Typed, Balance, NEW w \in Workers, Working(w)
  PROVE  Balance'
<1> DEFINE flying == Cardinality(InFlight)  skipping == Cardinality(Skipping)
           held == Cardinality(Held)  length == Len(jobs)
           sent == count.sent + count.skipped  ended == count.failed + count.filtered + count.succeeded
           made == count.produced + Unproduced
<1>0. /\ flying \in Nat /\ skipping \in Nat /\ held \in Nat /\ length \in Nat
      /\ sent \in Nat /\ ended \in Nat /\ made \in Nat
      /\ sent + skipping = flying + ended
      /\ sent + (length + held) <= made
      /\ ctx = "live" => sent + (length + held) = made
  <2>1. /\ flying \in Nat /\ skipping \in Nat /\ held \in Nat /\ length \in Nat
        /\ sent \in Nat /\ ended \in Nat
    BY Numbers DEF Spent, Outcomes
  <2>2. made \in Nat
    BY Numbers
  <2>3. /\ sent + skipping = flying + ended
        /\ sent + (length + held) <= made
        /\ ctx = "live" => sent + (length + held) = made
    BY Zenon DEF Balance, Spent, Outcomes, Backlog
  <2> QED
    BY <2>1, <2>2, <2>3
<1>1. ctx' = ctx /\ Unproduced' = Unproduced
  <2>1. ctx' = ctx /\ feeder' = feeder /\ producer' = producer
    BY DEF Working, Take, JobsEnd, Drop, Build, BuildFails, CountSkipped, Send, Respond, Fail, Report, feedVars
  <2> QED
    BY <2>1 DEF Unproduced, Uncounted
<1>2. SUFFICES /\ sent' + skipping' = flying' + ended'
               /\ sent' + (length' + held') <= made'
               /\ ctx = "live" => sent' + (length' + held') = made'
  BY <1>1 DEF Balance, Spent, Outcomes, Backlog
<1>3. /\ count \in [Counters -> Nat] /\ count.sent \in Nat /\ count.skipped \in Nat
      /\ count.failed \in Nat /\ count.filtered \in Nat /\ count.succeeded \in Nat /\ count.produced \in Nat
      /\ Unproduced \in Nat
  BY Numbers
<1>4. count' = count => sent' = sent /\ ended' = ended /\ made' = made
  BY <1>1
<1>5. CASE Take(w)
  <2> DEFINE new == [at |-> "holding", job |-> Head(jobs)]
  <2>1. Sets(w, new) /\ worker[w].at = "idle" /\ count' = count
    BY <1>5 DEF Take
  <2>2. new.at = "holding"
    OBVIOUS
  <2> HIDE DEF new
  <2>3. length' = length - 1
    <3>1. jobs \in Seq(URLs) /\ jobs # <<>> /\ jobs' = Tail(jobs)
      BY <1>5 DEF Take, Typed, TypedJobs
    <3> QED
      BY <3>1, HeadTailProperties
  <2>4. flying' = flying + 0 - 0 /\ skipping' = skipping + 0 - 0 /\ held' = held + 1 - 0
    BY <2>1, <2>2, WorkerMoves
  <2> HIDE DEF flying, skipping, held, length, sent, ended, made
  <2> QED
    BY <1>0, <1>4, <2>1, <2>3, <2>4
<1>6. CASE JobsEnd(w) \/ Drop(w) \/ Report(w)
  <2>1. PICK at \in {"done", "idle"} : Sets(w, [at |-> at])
    BY <1>6 DEF JobsEnd, Drop, Report
  <2> DEFINE new == [at |-> at]
  <2>2. Sets(w, new) /\ new.at \in {"done", "idle"}
    BY <2>1
  <2> HIDE DEF new
  <2>3. /\ worker[w].at \notin {"flight", "skipping", "ready"} /\ count' = count /\ jobs' = jobs
        /\ worker[w].at = "holding" => ctx # "live"
    BY <1>6 DEF JobsEnd, Drop, Report, jobVars
  <2>4. /\ flying' = flying + 0 - 0 /\ skipping' = skipping + 0 - 0
        /\ held' = held + 0 - (IF worker[w].at = "holding" THEN 1 ELSE 0)
    BY <2>2, <2>3, WorkerMoves
  <2>5. length' = length
    BY <2>3
  <2> HIDE DEF flying, skipping, held, length, sent, ended, made
  <2> QED
    BY <1>0, <1>4, <2>3, <2>4, <2>5
<1>7. CASE Build(w)
  <2> DEFINE to == [worker[w] EXCEPT !.at = "ready"]
  <2>1. Sets(w, to) /\ worker[w].at = "holding" /\ to.at = "ready" /\ count' = count /\ jobs' = jobs
    BY <1>7, JobOf DEF Build, jobVars, WorkerState
  <2> HIDE DEF to
  <2>2. flying' = flying + 0 - 0 /\ skipping' = skipping + 0 - 0 /\ held' = held + 1 - 1
    BY <2>1, WorkerMoves
  <2>3. length' = length
    BY <2>1
  <2> HIDE DEF flying, skipping, held, length, sent, ended, made
  <2> QED
    BY <1>0, <1>4, <2>1, <2>2, <2>3
<1>8. CASE BuildFails(w)
  <2>1. Sets(w, [at |-> "skipping"]) /\ worker[w].at = "holding" /\ jobs' = jobs /\ Count("failed")
    BY <1>8 DEF BuildFails, jobVars
  <2>2. sent' = sent /\ ended' = ended + 1 /\ made' = made
    BY <1>1, <1>3, <2>1 DEF Count, Counters
  <2>3. flying' = flying + 0 - 0 /\ skipping' = skipping + 1 - 0 /\ held' = held + 1 - 1
    BY <2>1, WorkerMoves
  <2>4. length' = length
    BY <2>1
  <2> HIDE DEF flying, skipping, held, length, sent, ended, made
  <2> QED
    BY <1>0, <2>2, <2>3, <2>4
<1>9. CASE CountSkipped(w)
  <2>1. Sets(w, [at |-> "reporting"]) /\ worker[w].at = "skipping" /\ jobs' = jobs /\ Count("skipped")
    BY <1>9 DEF CountSkipped, jobVars
  <2>2. sent' = sent + 1 /\ ended' = ended /\ made' = made
    BY <1>1, <1>3, <2>1 DEF Count, Counters
  <2>3. flying' = flying + 0 - 0 /\ skipping' = skipping + 0 - 1 /\ held' = held + 0 - 1
    BY <2>1, WorkerMoves
  <2>4. length' = length
    BY <2>1
  <2> HIDE DEF flying, skipping, held, length, sent, ended, made
  <2> QED
    BY <1>0, <2>2, <2>3, <2>4
<1>10. CASE Send(w)
  <2> DEFINE to == [worker[w] EXCEPT !.at = "flight"]
  <2>1. Sets(w, to) /\ worker[w].at = "ready" /\ to.at = "flight" /\ jobs' = jobs /\ Count("sent")
    BY <1>10, JobOf DEF Send, jobVars, WorkerState
  <2> HIDE DEF to
  <2>2. sent' = sent + 1 /\ ended' = ended /\ made' = made
    BY <1>1, <1>3, <2>1 DEF Count, Counters
  <2>3. flying' = flying + 1 - 0 /\ skipping' = skipping + 0 - 0 /\ held' = held + 0 - 1
    BY <2>1, WorkerMoves
  <2>4. length' = length
    BY <2>1
  <2> HIDE DEF flying, skipping, held, length, sent, ended, made
  <2> QED
    BY <1>0, <2>2, <2>3, <2>4
<1>11. CASE Respond(w) \/ Fail(w)
  <2>1. PICK c \in {"failed", "filtered", "succeeded"} :
          Count(c) /\ \E to : Sets(w, to) /\ to.at = "reporting"
    <3>1. CASE Fail(w)
      BY <3>1 DEF Fail
    <3>2. CASE Respond(w)
      <4>1. PICK page \in Pages : Sets(w, [at |-> "reporting", page |-> page])
                                    /\ Count(ScanOutcome(Suite, page, FALSE))
        BY <3>2 DEF Respond
      <4>2. ScanOutcome(Suite, page, FALSE) \in {"failed", "filtered", "succeeded"}
        BY OutcomeCounted
      <4> DEFINE new == [at |-> "reporting", page |-> page]
      <4>3. new.at = "reporting"
        OBVIOUS
      <4> QED
        BY <4>1, <4>2, <4>3
    <3> QED
      BY <1>11, <3>1, <3>2
  <2>2. worker[w].at = "flight" /\ jobs' = jobs
    BY <1>11 DEF Respond, Fail, jobVars
  <2>3. sent' = sent /\ ended' = ended + 1 /\ made' = made
    <3>1. count' = [count EXCEPT ![c] = @ + 1]
      BY <2>1 DEF Count
    <3>2. c = "failed" \/ c = "filtered" \/ c = "succeeded"
      OBVIOUS
    <3>3. /\ count'.sent = count.sent /\ count'.skipped = count.skipped
          /\ count'.produced = count.produced
      BY <1>3, <3>1, <3>2
    <3>4. count'.failed + count'.filtered + count'.succeeded
            = (count.failed + count.filtered + count.succeeded) + 1
      <4>1. CASE c = "failed"
        BY <1>3, <3>1, <4>1 DEF Counters
      <4>2. CASE c = "filtered"
        BY <1>3, <3>1, <4>2 DEF Counters
      <4>3. CASE c = "succeeded"
        BY <1>3, <3>1, <4>3 DEF Counters
      <4> QED
        BY <3>2, <4>1, <4>2, <4>3
    <3> QED
      BY <1>1, <3>3, <3>4
  <2>4. flying' = flying + 0 - 1 /\ skipping' = skipping + 0 - 0 /\ held' = held + 0 - 0
    BY <2>1, <2>2, WorkerMoves
  <2>5. length' = length
    BY <2>2
  <2> HIDE DEF flying, skipping, held, length, sent, ended, made
  <2> QED
    BY <1>0, <2>3, <2>4, <2>5
<1> QED
  BY <1>5, <1>6, <1>7, <1>8, <1>9, <1>10, <1>11 DEF Working

\* Who sends a job is one more that has not counted yet.
LEMMA SubmitBalance ==
  ASSUME Typed, Balance, worker' = worker, ctx' = ctx, NEW url \in URLs, Submit(url),
         Unproduced' = Unproduced + 1
  PROVE  Balance'
<1>1. Len(jobs') = Len(jobs) + 1 /\ count' = count
  BY AppendProperties DEF Submit, Typed, TypedJobs
<1>2. Spent' = Spent /\ Outcomes' = Outcomes /\ count'.produced = count.produced
  BY <1>1 DEF Spent, Outcomes
<1>3. InFlight' = InFlight /\ Skipping' = Skipping /\ Held' = Held
  BY DEF InFlight, Skipping, Held, Group
<1>4. Backlog' = Backlog + 1
  BY <1>1, <1>3, Numbers DEF Backlog
<1>5. /\ Spent \in Nat /\ Backlog \in Nat /\ Unproduced \in Nat /\ count.produced \in Nat
  BY Numbers
<1> DEFINE a == Spent  b == Backlog  c == count.produced  d == Unproduced
<1>6. /\ a' + b' <= c' + d' <=> a + b <= c + d
      /\ a' + b' = c' + d' <=> a + b = c + d
  <2>1. a' = a /\ b' = b + 1 /\ c' = c /\ d' = d + 1
    BY <1>2, <1>4
  <2>2. a \in Nat /\ b \in Nat /\ c \in Nat /\ d \in Nat
    BY <1>5
  <2> HIDE DEF a, b, c, d
  <2> QED
    BY <2>1, <2>2
<1> QED
  BY <1>2, <1>3, <1>6, Zenon DEF Balance

\* Who counts what it sent is one fewer.
LEMMA CountBalance ==
  ASSUME Typed, Balance, worker' = worker, jobs' = jobs, ctx' = ctx, Count("produced"),
         Unproduced = Unproduced' + 1, Unproduced' \in Nat
  PROVE  Balance'
<1>1. Spent' = Spent /\ Outcomes' = Outcomes /\ count'.produced = count.produced + 1
  BY Numbers DEF Count, Counters, Spent, Outcomes
<1>2. InFlight' = InFlight /\ Skipping' = Skipping /\ Held' = Held /\ Backlog' = Backlog
  BY DEF InFlight, Skipping, Held, Group, Backlog
<1>3. /\ Spent \in Nat /\ Backlog \in Nat /\ count.produced \in Nat
  BY Numbers
<1> DEFINE a == Spent  b == Backlog  c == count.produced  d == Unproduced
<1>4. /\ a' + b' <= c' + d' <=> a + b <= c + d
      /\ a' + b' = c' + d' <=> a + b = c + d
  <2>1. a' = a /\ b' = b /\ c' = c + 1 /\ d = d' + 1
    BY <1>1, <1>2
  <2>2. a \in Nat /\ b \in Nat /\ c \in Nat /\ d' \in Nat
    BY <1>3
  <2> HIDE DEF a, b, c, d
  <2>3. c' + d' = c + d
    BY <2>1, <2>2
  <2> QED
    BY <2>1, <2>3, Zenon
<1> QED
  BY <1>1, <1>2, <1>4, Zenon DEF Balance

\* A step that none of the sums notices.
LEMMA SameBalance ==
  ASSUME Balance, worker' = worker, jobs' = jobs, ctx' = "live" => ctx = "live",
         Unproduced' = Unproduced,
         Spent' = Spent, Outcomes' = Outcomes, count'.produced = count.produced
  PROVE  Balance'
<1>1. InFlight' = InFlight /\ Skipping' = Skipping /\ Held' = Held /\ Backlog' = Backlog
  BY DEF InFlight, Skipping, Held, Group, Backlog
<1> QED
  BY <1>1 DEF Balance

\* How the producers that have yet to count change when one takes a step.
LEMMA UncountedMoves ==
  ASSUME Typed, NEW p \in Producers, NEW new, producer' = [producer EXCEPT ![p] = new], feeder' = feeder
  PROVE  /\ Unproduced' \in Nat
         /\ Unproduced' = Unproduced
              + (IF new.at = "counting" THEN 1 ELSE 0) - (IF producer[p].at = "counting" THEN 1 ELSE 0)
<1> DEFINE A == Uncounted  B == Uncounted'
<1>1. producer'[p] = new /\ \A q \in Producers : q # p => producer'[q] = producer[q]
  BY DEF Typed, TypedProducers
<1>2. A \in SUBSET Producers /\ B \in SUBSET Producers /\ IsFiniteSet(Producers)
  BY PoolAssumption DEF Uncounted
<1>3. /\ \A q \in Producers : q # p => (q \in A <=> q \in B)
      /\ p \in B <=> new.at = "counting"
      /\ p \in A <=> producer[p].at = "counting"
  BY <1>1 DEF Uncounted
<1>4. /\ Unproduced = Cardinality(A) + (IF feeder.at = "counting" THEN 1 ELSE 0)
      /\ Unproduced' = Cardinality(B) + (IF feeder.at = "counting" THEN 1 ELSE 0)
  BY DEF Unproduced
<1> HIDE DEF A, B
<1>5. /\ Cardinality(A) \in Nat /\ Cardinality(B) \in Nat
      /\ Cardinality(B) = Cardinality(A) + (IF p \in B THEN 1 ELSE 0) - (IF p \in A THEN 1 ELSE 0)
  BY <1>2, <1>3, OneMoves
<1> QED
  BY <1>3, <1>4, <1>5

LEMMA FeedBalance ==
  ASSUME Typed, Balance, Waiting, Feeding
  PROVE  Balance'
<1>1. worker' = worker /\ ctx' = ctx
  BY DEF Feeding, FeedDiscovered, CountDiscovered, FeedCancelled, Produce, ProduceReturns, poolVars
<1>2. CASE FeedDiscovered
  <2>1. producer' = producer /\ feeder.at = "discovered"
    BY <1>2 DEF FeedDiscovered
  <2>2. CASE Repeated(feeder.next)
    <3>1. feeder'.at = "discovered" /\ jobs' = jobs /\ count' = count
      BY <1>2, <2>2 DEF FeedDiscovered, jobVars, Typed, TypedFeed
    <3>2. Unproduced' = Unproduced
      BY <2>1, <3>1 DEF Unproduced, Uncounted
    <3> QED
      BY <1>1, <3>1, <3>2, SameBalance DEF Spent, Outcomes
  <2>3. CASE ~Repeated(feeder.next)
    <3>1. found[feeder.next] \in URLs
      BY <1>2, FoundURLs DEF FeedDiscovered, Typed, TypedFeed
    <3>2. Submit(found[feeder.next]) /\ feeder'.at = "counting"
      BY <1>2, <2>3 DEF FeedDiscovered
    <3>3. Unproduced' = Unproduced + 1
      BY <2>1, <3>2, Numbers DEF Unproduced, Uncounted
    <3> QED
      BY <1>1, <3>1, <3>2, <3>3, SubmitBalance
  <2> QED
    BY <2>2, <2>3
<1>3. CASE CountDiscovered
  <2>1. /\ producer' = producer /\ feeder.at = "counting" /\ feeder'.at = "discovered"
        /\ jobs' = jobs /\ Count("produced")
    BY <1>3 DEF CountDiscovered, jobVars, Typed, TypedFeed
  <2>2. Unproduced = Unproduced' + 1 /\ Unproduced' \in Nat
    BY <2>1, Numbers DEF Unproduced, Uncounted
  <2> QED
    BY <1>1, <2>1, <2>2, CountBalance
<1>4. CASE FeedCancelled \/ Produce \/ ProduceReturns
  <2>1. jobs' = jobs /\ count' = count /\ feeder.at # "counting" /\ feeder'.at # "counting"
    BY <1>4 DEF FeedCancelled, Produce, ProduceReturns, CloseJobs, jobVars, Typed, TypedFeed
  <2>2. Uncounted' = Uncounted
    <3>1. CASE producer' = producer
      BY <3>1 DEF Uncounted
    <3>2. CASE producer' # producer
      <4>1. producer' = [p \in Producers |-> [Idle EXCEPT !.at = "idle"]] /\ feeder.at = "discovered"
        BY <1>4, <3>2 DEF FeedCancelled, Produce, ProduceReturns
      <4>2. Uncounted' = {}
        BY <4>1 DEF Uncounted, Idle
      <4>3. Uncounted = {}
        BY <4>1 DEF Waiting, Discovering, Uncounted
      <4> QED
        BY <4>2, <4>3
    <3> QED
      BY <3>1, <3>2
  <2>3. Unproduced' = Unproduced
    BY <2>1, <2>2 DEF Unproduced
  <2> QED
    BY <1>1, <2>1, <2>3, SameBalance DEF Spent, Outcomes
<1> QED
  BY <1>2, <1>3, <1>4 DEF Feeding


LEMMA ProducingBalance ==
  ASSUME Typed, Balance, NEW p \in Producers, Producing(p)
  PROVE  Balance'
<1>0. producer[p] \in ProducerState
  BY DEF Typed, TypedProducers
<1>1. worker' = worker /\ ctx' = ctx /\ feeder' = feeder
  BY DEF Producing, Receive, WordsEnd, ProducerQuits, SendError, PassGate, Expand, CountProduced, Expanded,
     feedVars, poolVars
<1>2. CASE Expand(p)
  <2> DEFINE url == Variants(producer[p].word)[producer[p].next]
  <2>1. producer[p].at = "expanding" /\ url \in URLs
    BY <1>2, VariantURLs DEF Expand, Typed, TypedProducers, ProducerState
  <2>2. ASSUME NEW at \in {"expanding", "counting"}, Advance(p, at)
        PROVE  Unproduced' = Unproduced + (IF at = "counting" THEN 1 ELSE 0)
    <3> DEFINE new == [at |-> at, word |-> producer[p].word, next |-> producer[p].next + 1]
    <3>1. producer' = [producer EXCEPT ![p] = new] /\ new.at = at
      BY <1>0, <2>2 DEF Advance, ProducerState
    <3> HIDE DEF new
    <3>2. Unproduced' = Unproduced + (IF at = "counting" THEN 1 ELSE 0) - 0
      BY <1>1, <2>1, <3>1, UncountedMoves
    <3> QED
      BY <3>2, Numbers
  <2>3. CASE ~Joins(url)
    <3>1. Advance(p, "expanding") /\ Count("invalid") /\ jobs' = jobs
      BY <1>2, <2>3 DEF Expand, jobVars
    <3>2. Spent' = Spent /\ Outcomes' = Outcomes /\ count'.produced = count.produced
      BY <3>1, Numbers DEF Count, Counters, Spent, Outcomes
    <3>3. Unproduced' = Unproduced
      BY <2>2, <3>1, Numbers
    <3> QED
      BY <1>1, <3>1, <3>2, <3>3, SameBalance
  <2>4. CASE Joins(url) /\ Key(url) \in SkipSet
    <3>1. Advance(p, "expanding") /\ jobs' = jobs /\ count' = count
      BY <1>2, <2>4 DEF Expand, jobVars
    <3>2. Unproduced' = Unproduced
      BY <2>2, <3>1, Numbers
    <3> QED
      BY <1>1, <3>1, <3>2, SameBalance DEF Spent, Outcomes
  <2>5. CASE Joins(url) /\ Key(url) \notin SkipSet
    <3>1. Advance(p, "counting") /\ Submit(url)
      BY <1>2, <2>5 DEF Expand
    <3>2. Unproduced' = Unproduced + 1
      BY <2>2, <3>1
    <3> HIDE DEF url
    <3> QED
      BY <1>1, <2>1, <3>1, <3>2, SubmitBalance
  <2> QED
    BY <2>3, <2>4, <2>5
<1>3. CASE CountProduced(p)
  <2> DEFINE new == [producer[p] EXCEPT !.at = "expanding"]
  <2>1. /\ producer' = [producer EXCEPT ![p] = new] /\ new.at = "expanding"
        /\ producer[p].at = "counting" /\ jobs' = jobs /\ Count("produced")
    BY <1>0, <1>3 DEF CountProduced, Becomes, jobVars, ProducerState
  <2> HIDE DEF new
  <2>2. Unproduced' = Unproduced + 0 - 1 /\ Unproduced' \in Nat
    BY <1>1, <2>1, UncountedMoves
  <2>3. Unproduced = Unproduced' + 1
    BY <2>2, Numbers
  <2> QED
    BY <1>1, <2>1, <2>2, <2>3, CountBalance
<1>4. CASE ~Expand(p) /\ ~CountProduced(p)
  <2>1. jobs' = jobs /\ count' = count /\ producer[p].at # "counting"
    BY <1>4 DEF Producing, Receive, WordsEnd, ProducerQuits, SendError, PassGate, Offering, Expanded, jobVars
  <2>2. \E new : producer' = [producer EXCEPT ![p] = new] /\ new.at # "counting"
    <3>1. CASE Receive(p)
      <4> DEFINE gate == [at |-> "gate", word |-> Head(words), next |-> 1]
      <4>1. \/ producer' = [producer EXCEPT ![p] = [producer[p] EXCEPT !.at = "done"]]
            \/ producer' = [producer EXCEPT ![p] = producer[p]]
            \/ producer' = [producer EXCEPT ![p] = gate]
        BY <3>1 DEF Receive
      <4>2. [producer[p] EXCEPT !.at = "done"].at = "done" /\ gate.at = "gate"
        BY <1>0 DEF ProducerState
      <4> HIDE DEF gate
      <4> QED
        BY <2>1, <4>1, <4>2
    <3>2. CASE ~Receive(p)
      <4>1. PICK at \in {"done", "failing", "expanding", "idle"} :
              producer' = [producer EXCEPT ![p] = [producer[p] EXCEPT !.at = at]]
        BY <1>4, <3>2 DEF Producing, WordsEnd, ProducerQuits, SendError, PassGate, Expanded, Becomes
      <4>2. [producer[p] EXCEPT !.at = at].at = at
        BY <1>0 DEF ProducerState
      <4> QED
        BY <4>1, <4>2
    <3> QED
      BY <3>1, <3>2
  <2>3. Unproduced' = Unproduced + 0 - 0
    BY <1>1, <2>1, <2>2, UncountedMoves
  <2>4. Unproduced' = Unproduced
    BY <2>3, Numbers
  <2> QED
    BY <1>1, <2>1, <2>4, SameBalance DEF Spent, Outcomes
<1> QED
  BY <1>2, <1>3, <1>4

LEMMA BalanceStep == Typed /\ Balance /\ Waiting /\ [Next]_vars => Balance' /\ Waiting'
<1> SUFFICES ASSUME Typed, Balance, Waiting, [Next]_vars PROVE Balance' /\ Waiting'
  OBVIOUS
<1>1. CASE Feeding
  <2>1. Waiting'
    <3>1. CASE Produce
      BY <3>1 DEF Produce, CloseJobs, Waiting, Discovering, Typed, TypedFeed
    <3>2. CASE ~Produce
      BY <1>1, <3>2 DEF Feeding, FeedDiscovered, CountDiscovered, FeedCancelled, ProduceReturns, CloseJobs,
         Waiting, Discovering, Typed, TypedFeed
    <3> QED
      BY <3>1, <3>2
  <2> QED
    BY <1>1, <2>1, FeedBalance
<1>2. ASSUME NEW p \in Producers, Producing(p) PROVE Balance' /\ Waiting'
  <2>1. producer[p].at # "off" /\ feeder' = feeder
    BY <1>2 DEF Producing, Receive, WordsEnd, ProducerQuits, Offering, SendError, PassGate, Expand, CountProduced,
       Expanded, feedVars
  <2>2. Waiting'
    BY <2>1 DEF Waiting, Discovering
  <2> QED
    BY <1>2, <2>2, ProducingBalance
<1>3. ASSUME NEW w \in Workers, Working(w) PROVE Balance' /\ Waiting'
  <2>1. feeder' = feeder /\ producer' = producer
    BY <1>3 DEF Working, Take, JobsEnd, Drop, Build, BuildFails, CountSkipped, Send, Respond, Fail, Report, feedVars
  <2> QED
    BY <1>3, <2>1, WorkingBalance DEF Waiting, Discovering
<1>4. CASE Reading \/ Cancel \/ PrintResult \/ MainLeaves \/ UNCHANGED vars
  <2>1. /\ feeder' = feeder /\ producer' = producer /\ worker' = worker /\ jobs' = jobs /\ count' = count
        /\ ctx' = "live" => ctx = "live"
    BY <1>4 DEF Reading, ReadWord, ReadCancelled, ReadFails, ReadEnds, Cancel, PrintResult, MainLeaves, vars,
       feedVars, jobVars, poolVars
  <2>2. Unproduced' = Unproduced
    BY <2>1 DEF Unproduced, Uncounted
  <2> QED
    BY <2>1, <2>2, SameBalance DEF Waiting, Discovering, Spent, Outcomes
<1> QED
  BY <1>1, <1>2, <1>3, <1>4 DEF Next, Finished

LEMMA InitBalance == Init => Balance /\ Waiting
<1> SUFFICES ASSUME Init PROVE Balance /\ Waiting
  OBVIOUS
<1>1. InFlight = {} /\ Skipping = {} /\ Held = {} /\ Uncounted = {}
  BY DEF Init, Idle, InFlight, Skipping, Held, Group, Uncounted
<1>2. Cardinality({}) = 0
  BY FS_EmptySet
<1>3. feeder.at = "discovered" /\ jobs = <<>> /\ \A p \in Producers : producer[p].at = "off"
  BY DEF Init, Idle
<1>4. Unproduced = 0 /\ Backlog = 0
  BY <1>1, <1>2, <1>3 DEF Unproduced, Backlog
<1>5. Spent = 0 /\ Outcomes = 0 /\ count.produced = 0
  BY DEF Init, Spent, Outcomes
<1> QED
  BY <1>1, <1>2, <1>3, <1>4, <1>5 DEF Balance, Waiting

LEMMA AlwaysBalance == Spec => [](Typed /\ Balance)
BY InitBalance, BalanceStep, AlwaysTyped, PTL DEF Spec

---------------------------------------------------------------------------
(* How often a URL is still going to be requested. *)

\* The positions of a set from the n-th on, and the places of elements of S.
Later(n, S) == {i \in S : i >= n}
Places(q, S) == {i \in DOMAIN q : q[i] \in S}

FoundAt(url) == {i \in DOMAIN found : found[i] = url /\ ~Repeated(i)}
LinesAt(url) == {i \in DOMAIN Lines : Yields(Lines[i], url)}
Yielding(url) == {line \in Listed : Yields(line, url)}
Wanted(url) == base = "good" /\ Joins(url) /\ Key(url) \notin SkipSet

\* Whether a worker and a producer in the state s are to bring a URL forward.
Holds(s, url) == s.at \in {"holding", "ready"} /\ s.job = url
Reaches(s, url) ==
  /\ s.at \in {"gate", "expanding", "counting"}
  /\ \E i \in DOMAIN Variants(s.word) : i >= s.next /\ Variants(s.word)[i] = url

InHands(url) == {w \in Workers : Holds(worker[w], url)}
Expanding(url) == {p \in Producers : Reaches(producer[p], url)}

\* The jobs that there are and that discovery will make.
InJobs(url) ==
  Cardinality(InHands(url)) + Cardinality(Places(jobs, {url}))
    + Cardinality(Later(feeder.next, FoundAt(url)))
\* The words that there are and that the reader will read.
InWords(url) ==
  Cardinality(Later(reader.next, LinesAt(url))) + Cardinality(Places(words, Yielding(url)))
    + Cardinality(Expanding(url))

Remaining(url) == IF Wanted(url) THEN InJobs(url) + InWords(url) ELSE InJobs(url)

Counted == \A url \in URLs \ Unbuildable : requested[url] + Remaining(url) = Due(url)

\* While nobody cancels, a goroutine ends only when what feeds it has ended.
Course ==
  /\ failures = 0 /\ reader.at # "cancelled"
  /\ \A p \in Producers :
       /\ producer[p].at # "failing"
       /\ producer[p].at = "done" => words = <<>> /\ ~wordsOpen
       /\ Discovering \/ base = "bad" => producer[p].at = "off"
       /\ feeder.at = "done" /\ base = "good" => producer[p].at = "done"
  /\ \A w \in Workers : worker[w].at = "done" => jobs = <<>> /\ ~jobsOpen
  /\ reader.at = "ended" => reader.next > Len(Lines)
  /\ ~Discovering => feeder.next > Len(found)
  /\ jobsOpen <=> feeder.at # "done"
  /\ wordsOpen <=> reader.at \in {"off", "reading"}
  /\ Discovering \/ base = "bad" => reader.at = "off"
  /\ feeder.at = "done" /\ base = "good" => reader.at \in {"ended", "broken"}
  /\ base = "bad" => feeder.at # "joining"

\* What cannot be requested never is, and is never about to be.
Unrequested ==
  /\ \A url \in URLs \cap Unbuildable : requested[url] = 0
  /\ \A w \in Workers : worker[w].at = "ready" => worker[w].job \notin Unbuildable

Settled ==
  main = "complete" =>
    /\ feeder.at = "done" /\ reader.at # "reading"
    /\ \A p \in Producers : producer[p].at \in {"off", "done"}
    /\ \A w \in Workers : worker[w].at = "done"
    /\ Spent = count.produced
    /\ reader.at # "broken" => \A url \in URLs \ Unbuildable : requested[url] = Due(url)

Accounted ==
  /\ ctx = "live" => main = "printing" /\ Course /\ Counted
  /\ Unrequested /\ Settled

---------------------------------------------------------------------------
(* Positions and places. *)

\* To step over a position is to lose it.
LEMMA LaterStep ==
  ASSUME NEW S, IsFiniteSet(S), S \subseteq Nat, NEW n \in Nat
  PROVE  /\ Cardinality(Later(n, S)) \in Nat
         /\ n \in S => Cardinality(Later(n, S)) = Cardinality(Later(n + 1, S)) + 1
         /\ n \notin S => Cardinality(Later(n, S)) = Cardinality(Later(n + 1, S))
<1> DEFINE x == n  T == S \cup {x}  A == Later(n + 1, S)  B == Later(n, S)
<1>1. IsFiniteSet(T)
  BY FS_AddElement
<1>2. A \in SUBSET T /\ B \in SUBSET T /\ x \in T
  BY DEF Later
<1>3. \A y \in T : y # x => (y \in A <=> y \in B)
  BY DEF Later
<1>4. x \notin A /\ (x \in B <=> n \in S)
  BY DEF Later
<1> HIDE DEF T, A, B, x
<1>5. /\ Cardinality(A) \in Nat /\ Cardinality(B) \in Nat
      /\ Cardinality(B) = Cardinality(A) + (IF x \in B THEN 1 ELSE 0) - (IF x \in A THEN 1 ELSE 0)
  BY <1>1, <1>2, <1>3, OneMoves
<1>6. Cardinality(B) = Cardinality(A) + (IF n \in S THEN 1 ELSE 0)
  BY <1>4, <1>5
<1> QED
  BY <1>5, <1>6 DEF A, B

LEMMA LaterEnds ==
  ASSUME NEW S, NEW n \in Nat, S \subseteq 1 .. n, NEW m \in Nat
  PROVE  /\ Later(1, S) = S
         /\ m > n => Cardinality(Later(m, S)) = 0
<1>1. Later(1, S) = S
  <2>1. \A i \in S : i >= 1
    OBVIOUS
  <2> QED
    BY <2>1, Zenon DEF Later
<1>2. m > n => Later(m, S) = {}
  <2>1. \A i \in S : ~(m > n /\ i >= m)
    OBVIOUS
  <2> QED
    BY <2>1, Zenon DEF Later
<1> QED
  BY <1>1, <1>2, FS_EmptySet

LEMMA PlacesFinite ==
  ASSUME NEW E, NEW q \in Seq(E), NEW S
  PROVE  /\ Places(q, S) \subseteq 1 .. Len(q) /\ IsFiniteSet(Places(q, S))
         /\ Cardinality(Places(q, S)) \in Nat
<1>1. Len(q) \in Nat /\ DOMAIN q = 1 .. Len(q)
  OBVIOUS
<1>2. IsFiniteSet(1 .. Len(q))
  BY <1>1, FS_Interval
<1>3. Places(q, S) \subseteq 1 .. Len(q)
  BY <1>1 DEF Places
<1>4. IsFiniteSet(Places(q, S))
  BY <1>2, <1>3, FS_Subset
<1> QED
  BY <1>3, <1>4, FS_CardinalityType

LEMMA PlacesAppend ==
  ASSUME NEW E, NEW q \in Seq(E), NEW e \in E, NEW S
  PROVE  /\ e \in S => Cardinality(Places(Append(q, e), S)) = Cardinality(Places(q, S)) + 1
         /\ e \notin S => Cardinality(Places(Append(q, e), S)) = Cardinality(Places(q, S))
<1> DEFINE r == Append(q, e)  n == Len(q) + 1
<1>1. /\ Len(q) \in Nat /\ n \in Nat /\ DOMAIN q = 1 .. Len(q) /\ DOMAIN r = 1 .. n
      /\ \A i \in 1 .. Len(q) : r[i] = q[i]
      /\ r[n] = e
  BY AppendProperties
<1> DEFINE T == 1 .. n  A == Places(q, S)  B == Places(r, S)
<1> HIDE DEF r
<1>2. IsFiniteSet(T) /\ n \in T
  BY <1>1, FS_Interval
<1>3. A \in SUBSET T /\ B \in SUBSET T
  BY <1>1 DEF Places
<1>4. \A y \in T : y # n => (y \in A <=> y \in B)
  BY <1>1 DEF Places
<1>5. n \notin A /\ (n \in B <=> e \in S)
  BY <1>1 DEF Places
<1> HIDE DEF T, A, B, n
<1>6. /\ Cardinality(A) \in Nat /\ Cardinality(B) \in Nat
      /\ Cardinality(B) = Cardinality(A) + (IF n \in B THEN 1 ELSE 0) - (IF n \in A THEN 1 ELSE 0)
  BY <1>2, <1>3, <1>4, OneMoves
<1>7. Cardinality(B) = Cardinality(A) + (IF e \in S THEN 1 ELSE 0)
  BY <1>5, <1>6
<1> QED
  BY <1>6, <1>7 DEF A, B, r

LEMMA PlacesTail ==
  ASSUME NEW E, NEW q \in Seq(E), q # <<>>, NEW S
  PROVE  /\ Head(q) \in S => Cardinality(Places(q, S)) = Cardinality(Places(Tail(q), S)) + 1
         /\ Head(q) \notin S => Cardinality(Places(q, S)) = Cardinality(Places(Tail(q), S))
<1> DEFINE t == Tail(q)  A == Places(t, S)  B == Later(2, Places(q, S))
           f == [i \in A |-> i + 1]
<1>1. /\ t \in Seq(E) /\ Len(q) \in Nat /\ Len(t) \in Nat /\ Len(q) = Len(t) + 1
      /\ \A i \in 1 .. Len(t) : t[i] = q[i + 1]
      /\ DOMAIN t = 1 .. Len(t) /\ DOMAIN q = 1 .. Len(q)
      /\ Head(q) = q[1]
  BY HeadTailProperties
<1> HIDE DEF t
<1>2. \A i \in A : i \in Nat /\ i + 1 \in B
  BY <1>1 DEF Places, Later
<1>3. \A j \in B : j - 1 \in A /\ j - 1 + 1 = j
  BY <1>1 DEF Places, Later
<1>4. f \in Bijection(A, B)
  <2>1. f \in [A -> B]
    BY <1>2
  <2>2. \A i, j \in A : f[i] = f[j] => i = j
    BY <1>2
  <2>3. \A j \in B : \E i \in A : f[i] = j
    <3> SUFFICES ASSUME NEW j \in B PROVE \E i \in A : f[i] = j
      OBVIOUS
    <3>1. j - 1 \in A /\ f[j - 1] = j - 1 + 1
      BY <1>3
    <3> QED
      BY <3>1, <1>3
  <2> HIDE DEF f, A, B
  <2> QED
    BY <2>1, <2>2, <2>3 DEF Bijection, Injection, Surjection, IsInjective
<1>5. IsFiniteSet(A) /\ IsFiniteSet(Places(q, S)) /\ Places(q, S) \subseteq Nat
  BY <1>1, PlacesFinite
<1>6. Cardinality(B) = Cardinality(A)
  <2>1. ExistsBijection(A, B)
    BY <1>4 DEF ExistsBijection
  <2> HIDE DEF A, B
  <2> QED
    BY <2>1, <1>5, FS_Bijection
<1>7. Later(1, Places(q, S)) = Places(q, S)
  BY <1>1 DEF Places, Later
<1>8. 1 \in Places(q, S) <=> Head(q) \in S
  BY <1>1 DEF Places
<1>9. /\ 1 \in Places(q, S) => Cardinality(Later(1, Places(q, S))) = Cardinality(Later(1 + 1, Places(q, S))) + 1
      /\ 1 \notin Places(q, S) => Cardinality(Later(1, Places(q, S))) = Cardinality(Later(1 + 1, Places(q, S)))
  BY <1>5, LaterStep
<1>10. 1 + 1 = 2
  OBVIOUS
<1> QED
  BY <1>6, <1>7, <1>8, <1>9, <1>10 DEF t

\* What is counted is finite.
LEMMA Finite ==
  ASSUME Typed, NEW url
  PROVE  /\ FoundAt(url) \subseteq 1 .. Len(found) /\ IsFiniteSet(FoundAt(url)) /\ Len(found) \in Nat
         /\ LinesAt(url) \subseteq 1 .. Len(Lines) /\ IsFiniteSet(LinesAt(url)) /\ Len(Lines) \in Nat
         /\ InHands(url) \in SUBSET Workers /\ IsFiniteSet(InHands(url))
         /\ Expanding(url) \in SUBSET Producers /\ IsFiniteSet(Expanding(url))
<1>1. Len(found) \in Nat /\ DOMAIN found = 1 .. Len(found)
  BY FoundURLs DEF Typed, TypedFeed
<1>2. IsFiniteSet(1 .. Len(found)) /\ FoundAt(url) \subseteq 1 .. Len(found)
  BY <1>1, FS_Interval DEF FoundAt
<1>3. Len(Lines) \in Nat /\ DOMAIN Lines = 1 .. Len(Lines)
  BY ListedLines
<1>4. IsFiniteSet(1 .. Len(Lines)) /\ LinesAt(url) \subseteq 1 .. Len(Lines)
  BY <1>3, FS_Interval DEF LinesAt
<1>5. InHands(url) \in SUBSET Workers /\ Expanding(url) \in SUBSET Producers
  BY DEF InHands, Expanding
<1> QED
  BY <1>1, <1>2, <1>3, <1>4, <1>5, FS_Subset, PoolAssumption

LEMMA CountsNat ==
  ASSUME Typed, NEW url
  PROVE  /\ Cardinality(InHands(url)) \in Nat /\ Cardinality(Places(jobs, {url})) \in Nat
         /\ Cardinality(Later(feeder.next, FoundAt(url))) \in Nat
         /\ Cardinality(Later(reader.next, LinesAt(url))) \in Nat
         /\ Cardinality(Places(words, Yielding(url))) \in Nat
         /\ Cardinality(Expanding(url)) \in Nat
<1>1. feeder.next \in Nat /\ reader.next \in Nat
  BY Finite DEF Typed, TypedFeed, TypedWords
<1>2. FoundAt(url) \subseteq Nat /\ LinesAt(url) \subseteq Nat
      /\ IsFiniteSet(FoundAt(url)) /\ IsFiniteSet(LinesAt(url))
  BY Finite
<1>3. Cardinality(Later(feeder.next, FoundAt(url))) \in Nat
      /\ Cardinality(Later(reader.next, LinesAt(url))) \in Nat
  BY <1>1, <1>2, LaterStep
<1>4. Cardinality(InHands(url)) \in Nat /\ Cardinality(Expanding(url)) \in Nat
  BY Finite, FS_CardinalityType
<1>5. Cardinality(Places(jobs, {url})) \in Nat
  BY PlacesFinite DEF Typed, TypedJobs
<1>6. Cardinality(Places(words, Yielding(url))) \in Nat
  BY PlacesFinite DEF Typed, TypedWords
<1> QED
  BY <1>3, <1>4, <1>5, <1>6

---------------------------------------------------------------------------
(* A step moves a request from what remains to what was done, or nothing. *)

Kept(url) == requested[url] + Remaining(url) = Due(url)

\* What a step that leaves the scan's input alone leaves alone too.
LEMMA SameInput ==
  ASSUME found' = found, base' = base, NEW url
  PROVE  /\ Due(url)' = Due(url) /\ (Wanted(url)' <=> Wanted(url)) /\ FoundAt(url)' = FoundAt(url)
         /\ LinesAt(url)' = LinesAt(url) /\ Yielding(url)' = Yielding(url)
         /\ worker' = worker => InHands(url)' = InHands(url)
         /\ producer' = producer => Expanding(url)' = Expanding(url)
<1>1. \A i : Repeated(i)' <=> Repeated(i)
  BY DEF Repeated
<1>2. FoundAt(url)' = FoundAt(url)
  BY <1>1 DEF FoundAt
<1>3. SkipSet' = SkipSet
  BY DEF SkipSet
<1>4. {i \in DOMAIN found : found[i] = url /\ ~Repeated(i)}'
        = {i \in DOMAIN found : found[i] = url /\ ~Repeated(i)}
  BY <1>2 DEF FoundAt
<1>5. Due(url)' = Due(url)
  BY <1>3, <1>4 DEF Due
<1>6. Wanted(url)' <=> Wanted(url)
  BY <1>3 DEF Wanted
<1> QED
  BY <1>2, <1>5, <1>6 DEF LinesAt, Yielding, InHands, Expanding

LEMMA SumsNat ==
  ASSUME Typed, NEW url
  PROVE  InJobs(url) \in Nat /\ InWords(url) \in Nat /\ Remaining(url) \in Nat
BY CountsNat DEF InJobs, InWords, Remaining

LEMMA SumsNatNext ==
  ASSUME NEW url
  PROVE  (Typed => InJobs(url) \in Nat /\ InWords(url) \in Nat)'
<1>1. Typed => InJobs(url) \in Nat /\ InWords(url) \in Nat
  BY SumsNat
<1> QED
  BY <1>1, PTL

\* A word that becomes a job leaves the words when a job of it is wanted.
LEMMA Moved ==
  ASSUME Typed, Typed', found' = found, base' = base, NEW url \in URLs, Kept(url), NEW d \in {0, 1},
         requested'[url] + InJobs(url)' = requested[url] + InJobs(url) + d,
         Wanted(url) => InWords(url) = InWords(url)' + d,
         ~Wanted(url) => d = 0
  PROVE  Kept(url)'
<1> DEFINE r == requested[url]   j == InJobs(url)   n == InWords(url)
           q == requested'[url]  k == InJobs(url)'  m == InWords(url)'
<1>1. r \in Nat /\ j \in Nat /\ n \in Nat
  BY SumsNat DEF Typed, TypedPool
<1>2. q \in Nat /\ k \in Nat /\ m \in Nat
  <2>1. k \in Nat /\ m \in Nat
    BY SumsNatNext
  <2> QED
    BY <2>1 DEF Typed, TypedPool
<1>3. r + (IF Wanted(url) THEN j + n ELSE j) = Due(url)
  BY DEF Kept, Remaining
<1>4. Due(url)' = Due(url) /\ (Wanted(url)' <=> Wanted(url))
  BY SameInput
<1>5. q + k = r + j + d
  OBVIOUS
<1>6. Wanted(url) => n = m + d
  OBVIOUS
<1>7. Kept(url)' <=> q + (IF Wanted(url) THEN k + m ELSE k) = Due(url)
  BY <1>4 DEF Kept, Remaining
<1> HIDE DEF r, j, n, q, k, m
<1>8. n = m + d => q + (k + m) = r + (j + n)
  <2>1. d \in Nat
    OBVIOUS
  <2> QED
    BY <1>1, <1>2, <1>5, <2>1
<1>9. CASE Wanted(url)
  BY <1>3, <1>6, <1>7, <1>8, <1>9
<1>10. CASE ~Wanted(url)
  <2>1. q + k = r + j
    BY <1>1, <1>5, <1>10
  <2> QED
    BY <1>3, <1>7, <2>1, <1>10
<1> QED
  BY <1>9, <1>10

\* A step that moves no request.
LEMMA Unmoved ==
  ASSUME Typed, Typed', found' = found, base' = base, NEW url \in URLs, Kept(url),
         requested' = requested, InJobs(url)' = InJobs(url), InWords(url)' = InWords(url)
  PROVE  Kept(url)'
<1>1. requested[url] \in Nat /\ InJobs(url) \in Nat /\ InWords(url) \in Nat
  BY SumsNat DEF Typed, TypedPool
<1>2. requested'[url] + InJobs(url)' = requested[url] + InJobs(url) + 0
      /\ InWords(url) = InWords(url)' + 0
  BY <1>1
<1> QED
  BY <1>2, Moved

LEMMA SubmitPlaces ==
  ASSUME Typed, NEW u \in URLs, Submit(u), NEW url
  PROVE  /\ u = url => Cardinality(Places(jobs', {url})) = Cardinality(Places(jobs, {url})) + 1
         /\ u # url => Cardinality(Places(jobs', {url})) = Cardinality(Places(jobs, {url}))
<1>1. jobs \in Seq(URLs) /\ jobs' = Append(jobs, u)
  BY DEF Submit, Typed, TypedJobs
<1>2. u = url <=> u \in {url}
  OBVIOUS
<1> QED
  BY <1>1, <1>2, PlacesAppend

LEMMA FeedKept ==
  ASSUME Typed, Typed', ctx = "live", Course, NEW url \in URLs \ Unbuildable, Kept(url), Feeding
  PROVE  Kept(url)'
<1>0. found' = found /\ base' = base /\ requested' = requested /\ worker' = worker /\ words' = words
  BY DEF Feeding, FeedDiscovered, CountDiscovered, FeedCancelled, Produce, ProduceReturns, wordVars, poolVars
<1>1. /\ InHands(url)' = InHands(url) /\ FoundAt(url)' = FoundAt(url)
      /\ LinesAt(url)' = LinesAt(url) /\ Yielding(url)' = Yielding(url)
      /\ producer' = producer => Expanding(url)' = Expanding(url)
  BY <1>0, SameInput
<1>2. CASE FeedDiscovered
  <2> DEFINE n == feeder.next  hands == Cardinality(InHands(url))
             queued == Cardinality(Places(jobs, {url}))
             coming == Cardinality(Later(feeder.next, FoundAt(url)))
  <2>1. n \in Nat /\ feeder'.next = n + 1 /\ n \in 1 .. Len(found) /\ DOMAIN found = 1 .. Len(found)
        /\ found[n] \in URLs
    BY <1>2, FoundURLs DEF FeedDiscovered, Typed, TypedFeed
  <2>2. InWords(url)' = InWords(url)
    <3>1. reader' = reader /\ producer' = producer
      BY <1>2 DEF FeedDiscovered, wordVars
    <3> QED
      BY <3>1, <1>0, <1>1 DEF InWords
  <2>3. n \in FoundAt(url) <=> found[n] = url /\ ~Repeated(n)
    BY <2>1 DEF FoundAt
  <2>4. /\ n \in FoundAt(url) => coming = Cardinality(Later(n + 1, FoundAt(url))) + 1
        /\ n \notin FoundAt(url) => coming = Cardinality(Later(n + 1, FoundAt(url)))
    <3>1. FoundAt(url) \subseteq Nat /\ IsFiniteSet(FoundAt(url))
      BY Finite
    <3> QED
      BY <2>1, <3>1, LaterStep
  <2>5. coming' = Cardinality(Later(n + 1, FoundAt(url))) /\ hands' = hands
    BY <2>1, <1>1
  <2>6. /\ coming \in Nat /\ hands \in Nat /\ queued \in Nat /\ coming' \in Nat
    <3>1. FoundAt(url) \subseteq Nat /\ IsFiniteSet(FoundAt(url)) /\ n + 1 \in Nat
      BY <2>1, Finite
    <3>2. Cardinality(Later(n + 1, FoundAt(url))) \in Nat
      BY <3>1, LaterStep
    <3> QED
      BY <2>5, <3>2, CountsNat
  <2>7. queued' + coming' = queued + coming
    <3>1. CASE Repeated(n)
      <4>1. jobs' = jobs
        BY <1>2, <3>1 DEF FeedDiscovered, jobVars
      <4> QED
        BY <4>1, <3>1, <2>3, <2>4, <2>5
    <3>2. CASE ~Repeated(n)
      <4>1. Submit(found[n])
        BY <1>2, <3>2 DEF FeedDiscovered
      <4>2. /\ found[n] = url => queued' = queued + 1
            /\ found[n] # url => queued' = queued
        BY <4>1, <2>1, SubmitPlaces
      <4> HIDE DEF queued, coming
      <4>3. CASE found[n] = url
        BY <4>2, <4>3, <3>2, <2>3, <2>4, <2>5, <2>6
      <4>4. CASE found[n] # url
        BY <4>2, <4>4, <2>3, <2>4, <2>5
      <4> QED
        BY <4>3, <4>4
    <3> QED
      BY <3>1, <3>2
  <2>8. queued' \in Nat
    <3>1. jobs' \in Seq(URLs)
      BY DEF Typed, TypedJobs
    <3> QED
      BY <3>1, PlacesFinite
  <2>9. InJobs(url)' = InJobs(url)
    <3>1. InJobs(url) = hands + queued + coming /\ InJobs(url)' = hands' + queued' + coming'
      BY DEF InJobs
    <3> HIDE DEF hands, queued, coming
    <3> QED
      BY <3>1, <2>5, <2>6, <2>7, <2>8
  <2> QED
    BY <1>0, <2>2, <2>9, Unmoved
<1>3. CASE FeedCancelled
  BY <1>3 DEF FeedCancelled
<1>4. CASE Produce \/ ProduceReturns \/ CountDiscovered
  <2>1. feeder'.next = feeder.next /\ reader'.next = reader.next /\ jobs' = jobs
    BY <1>4 DEF Produce, ProduceReturns, CountDiscovered, CloseJobs, jobVars, wordVars, Typed, TypedFeed, TypedWords
  <2>2. Expanding(url)' = Expanding(url)
    <3>1. CASE producer' = producer
      BY <3>1, <1>1
    <3>2. CASE producer' # producer
      <4>1. feeder.at = "discovered" /\ producer' = [p \in Producers |-> [Idle EXCEPT !.at = "idle"]]
        BY <1>4, <3>2 DEF Produce, ProduceReturns, CountDiscovered
      <4>2. \A p \in Producers : producer[p].at = "off"
        BY <4>1 DEF Course, Discovering
      <4>3. \A p \in Producers : producer'[p].at = "idle"
        BY <4>1 DEF Idle
      <4> QED
        BY <4>2, <4>3 DEF Expanding, Reaches
    <3> QED
      BY <3>1, <3>2
  <2>3. InJobs(url)' = InJobs(url) /\ InWords(url)' = InWords(url)
    BY <1>0, <1>1, <2>1, <2>2 DEF InJobs, InWords
  <2> QED
    BY <1>0, <2>3, Unmoved
<1> QED
  BY <1>2, <1>3, <1>4 DEF Feeding

LEMMA ReadKept ==
  ASSUME Typed, Typed', ctx = "live", Course, NEW url \in URLs \ Unbuildable, Kept(url), Reading
  PROVE  Kept(url)'
<1>0. /\ found' = found /\ base' = base /\ requested' = requested /\ worker' = worker
      /\ producer' = producer /\ jobs' = jobs /\ feeder' = feeder
  BY DEF Reading, ReadWord, ReadCancelled, ReadFails, ReadEnds, feedVars, jobVars, poolVars
<1>1. /\ InHands(url)' = InHands(url) /\ FoundAt(url)' = FoundAt(url)
      /\ LinesAt(url)' = LinesAt(url) /\ Yielding(url)' = Yielding(url)
      /\ Expanding(url)' = Expanding(url)
  BY <1>0, SameInput
<1>2. InJobs(url)' = InJobs(url)
  BY <1>0, <1>1 DEF InJobs
<1>3. InWords(url)' = InWords(url)
  <2>1. CASE ReadWord
    <3> DEFINE n == reader.next
               toRead == Cardinality(Later(reader.next, LinesAt(url)))
               inside == Cardinality(Places(words, Yielding(url)))
               expanding == Cardinality(Expanding(url))
    <3>1. n \in Nat /\ reader'.next = n + 1 /\ n \in 1 .. Len(Lines) /\ DOMAIN Lines = 1 .. Len(Lines)
          /\ Lines[n] \in ToSet(Lines)
      BY <2>1, ListedLines DEF ReadWord, Typed, TypedWords
    <3>2. n \in LinesAt(url) <=> Yields(Lines[n], url)
      BY <3>1 DEF LinesAt
    <3>3. /\ n \in LinesAt(url) => toRead = Cardinality(Later(n + 1, LinesAt(url))) + 1
          /\ n \notin LinesAt(url) => toRead = Cardinality(Later(n + 1, LinesAt(url)))
      <4>1. LinesAt(url) \subseteq Nat /\ IsFiniteSet(LinesAt(url))
        BY Finite
      <4> QED
        BY <3>1, <4>1, LaterStep
    <3>4. toRead' = Cardinality(Later(n + 1, LinesAt(url))) /\ expanding' = expanding
      BY <3>1, <1>1
    <3>5. toRead \in Nat /\ inside \in Nat /\ expanding \in Nat /\ toRead' \in Nat
      <4>1. LinesAt(url) \subseteq Nat /\ IsFiniteSet(LinesAt(url)) /\ n + 1 \in Nat
        BY <3>1, Finite
      <4>2. Cardinality(Later(n + 1, LinesAt(url))) \in Nat
        BY <4>1, LaterStep
      <4> QED
        BY <3>4, <4>2, CountsNat
    <3>6. toRead' + inside' = toRead + inside
      <4>1. CASE Lines[n] \in Blank
        <5>1. words' = words /\ ~Yields(Lines[n], url)
          BY <2>1, <4>1 DEF ReadWord, Yields
        <5> QED
          BY <5>1, <1>1, <3>2, <3>3, <3>4
      <4>2. CASE Lines[n] \notin Blank
        <5>1. Lines[n] \in Listed /\ words' = Append(words, Lines[n]) /\ words \in Seq(Listed)
          BY <2>1, <3>1, <4>2 DEF ReadWord, Listed, Typed, TypedWords
        <5>2. Lines[n] \in Yielding(url) <=> Yields(Lines[n], url)
          BY <5>1 DEF Yielding
        <5>3. /\ Lines[n] \in Yielding(url) => inside' = inside + 1
              /\ Lines[n] \notin Yielding(url) => inside' = inside
          BY <5>1, <1>1, PlacesAppend
        <5> HIDE DEF toRead, inside
        <5>4. CASE Yields(Lines[n], url)
          BY <5>2, <5>3, <5>4, <3>2, <3>3, <3>4, <3>5
        <5>5. CASE ~Yields(Lines[n], url)
          BY <5>2, <5>3, <5>5, <3>2, <3>3, <3>4
        <5> QED
          BY <5>4, <5>5
      <4> QED
        BY <4>1, <4>2
    <3>7. inside' \in Nat
      <4>1. words' \in Seq(Listed)
        BY DEF Typed, TypedWords
      <4> QED
        BY <4>1, <1>1, PlacesFinite
    <3>8. InWords(url) = toRead + inside + expanding /\ InWords(url)' = toRead' + inside' + expanding'
      BY DEF InWords
    <3> HIDE DEF toRead, inside, expanding
    <3> QED
      BY <3>4, <3>5, <3>6, <3>7, <3>8
  <2>2. CASE ReadCancelled \/ ReadFails \/ ReadEnds
    <3>1. reader'.next = reader.next /\ words' = words
      BY <2>2 DEF ReadCancelled, ReadFails, ReadEnds, ReaderQuits, Typed, TypedWords
    <3> QED
      BY <3>1, <1>1 DEF InWords
  <2> QED
    BY <2>1, <2>2 DEF Reading
<1> QED
  BY <1>0, <1>2, <1>3, Unmoved

LEMMA ExpandingMoves ==
  ASSUME Typed, NEW p \in Producers, NEW new, producer' = [producer EXCEPT ![p] = new], NEW url
  PROVE  /\ (Reaches(new, url) <=> Reaches(producer[p], url)) =>
              Cardinality(Expanding(url)') = Cardinality(Expanding(url))
         /\ Reaches(new, url) /\ ~Reaches(producer[p], url) =>
              Cardinality(Expanding(url)') = Cardinality(Expanding(url)) + 1
         /\ ~Reaches(new, url) /\ Reaches(producer[p], url) =>
              Cardinality(Expanding(url)) = Cardinality(Expanding(url)') + 1
<1> DEFINE A == Expanding(url)  B == Expanding(url)'
<1>1. producer'[p] = new /\ \A q \in Producers : q # p => producer'[q] = producer[q]
  BY DEF Typed, TypedProducers
<1>2. A \in SUBSET Producers /\ B \in SUBSET Producers /\ IsFiniteSet(Producers)
  BY PoolAssumption DEF Expanding
<1>3. \A q \in Producers : q # p => (q \in A <=> q \in B)
  BY <1>1 DEF Expanding
<1>4. (p \in A <=> Reaches(producer[p], url)) /\ (p \in B <=> Reaches(new, url))
  BY <1>1 DEF Expanding
<1> HIDE DEF A, B
<1>5. /\ Cardinality(A) \in Nat /\ Cardinality(B) \in Nat
      /\ Cardinality(B) = Cardinality(A) + (IF p \in B THEN 1 ELSE 0) - (IF p \in A THEN 1 ELSE 0)
  BY <1>2, <1>3, OneMoves
<1>6. /\ (Reaches(new, url) <=> Reaches(producer[p], url)) => Cardinality(B) = Cardinality(A)
      /\ Reaches(new, url) /\ ~Reaches(producer[p], url) => Cardinality(B) = Cardinality(A) + 1
      /\ ~Reaches(new, url) /\ Reaches(producer[p], url) => Cardinality(A) = Cardinality(B) + 1
  BY <1>4, <1>5
<1> QED
  BY <1>6 DEF A, B

LEMMA HandsMove ==
  ASSUME Typed, NEW w \in Workers, NEW new, Sets(w, new), NEW url
  PROVE  /\ (Holds(new, url) <=> Holds(worker[w], url)) =>
              Cardinality(InHands(url)') = Cardinality(InHands(url))
         /\ Holds(new, url) /\ ~Holds(worker[w], url) =>
              Cardinality(InHands(url)') = Cardinality(InHands(url)) + 1
         /\ ~Holds(new, url) /\ Holds(worker[w], url) =>
              Cardinality(InHands(url)) = Cardinality(InHands(url)') + 1
<1> DEFINE A == InHands(url)  B == InHands(url)'
<1>1. worker'[w] = new /\ \A v \in Workers : v # w => worker'[v] = worker[v]
  BY DEF Sets, Typed, TypedPool
<1>2. A \in SUBSET Workers /\ B \in SUBSET Workers /\ IsFiniteSet(Workers)
  BY PoolAssumption DEF InHands
<1>3. \A v \in Workers : v # w => (v \in A <=> v \in B)
  BY <1>1 DEF InHands
<1>4. (w \in A <=> Holds(worker[w], url)) /\ (w \in B <=> Holds(new, url))
  BY <1>1 DEF InHands
<1> HIDE DEF A, B
<1>5. /\ Cardinality(A) \in Nat /\ Cardinality(B) \in Nat
      /\ Cardinality(B) = Cardinality(A) + (IF w \in B THEN 1 ELSE 0) - (IF w \in A THEN 1 ELSE 0)
  BY <1>2, <1>3, OneMoves
<1>6. /\ (Holds(new, url) <=> Holds(worker[w], url)) => Cardinality(B) = Cardinality(A)
      /\ Holds(new, url) /\ ~Holds(worker[w], url) => Cardinality(B) = Cardinality(A) + 1
      /\ ~Holds(new, url) /\ Holds(worker[w], url) => Cardinality(A) = Cardinality(B) + 1
  BY <1>4, <1>5
<1> QED
  BY <1>6 DEF A, B

\* The sums, and the same in the next state.
LEMMA CountsNatNext ==
  ASSUME NEW url
  PROVE  (Typed => /\ Cardinality(InHands(url)) \in Nat /\ Cardinality(Places(jobs, {url})) \in Nat
                   /\ Cardinality(Later(feeder.next, FoundAt(url))) \in Nat
                   /\ Cardinality(Later(reader.next, LinesAt(url))) \in Nat
                   /\ Cardinality(Places(words, Yielding(url))) \in Nat
                   /\ Cardinality(Expanding(url)) \in Nat)'
<1>1. Typed => /\ Cardinality(InHands(url)) \in Nat /\ Cardinality(Places(jobs, {url})) \in Nat
               /\ Cardinality(Later(feeder.next, FoundAt(url))) \in Nat
               /\ Cardinality(Later(reader.next, LinesAt(url))) \in Nat
               /\ Cardinality(Places(words, Yielding(url))) \in Nat
               /\ Cardinality(Expanding(url)) \in Nat
  BY CountsNat
<1> QED
  BY <1>1, PTL

LEMMA ProducingKept ==
  ASSUME Typed, Typed', ctx = "live", Course, NEW url \in URLs \ Unbuildable, Kept(url),
         NEW p \in Producers, Producing(p)
  PROVE  Kept(url)'
<1> DEFINE hands == Cardinality(InHands(url))
           queued == Cardinality(Places(jobs, {url}))
           coming == Cardinality(Later(feeder.next, FoundAt(url)))
           toRead == Cardinality(Later(reader.next, LinesAt(url)))
           inside == Cardinality(Places(words, Yielding(url)))
           expanding == Cardinality(Expanding(url))
<1>0. /\ found' = found /\ base' = base /\ requested' = requested /\ worker' = worker
      /\ feeder' = feeder /\ reader' = reader
  BY DEF Producing, Receive, WordsEnd, ProducerQuits, SendError, PassGate, Expand, CountProduced, Expanded,
     feedVars, wordVars, poolVars
<1>1. /\ InHands(url)' = InHands(url) /\ FoundAt(url)' = FoundAt(url)
      /\ LinesAt(url)' = LinesAt(url) /\ Yielding(url)' = Yielding(url)
      /\ producer' = producer => Expanding(url)' = Expanding(url)
  BY <1>0, SameInput
<1>2. hands' = hands /\ coming' = coming /\ toRead' = toRead
  BY <1>0, <1>1
<1>3. /\ InJobs(url) = hands + queued + coming /\ InJobs(url)' = hands' + queued' + coming'
      /\ InWords(url) = toRead + inside + expanding
      /\ InWords(url)' = toRead' + inside' + expanding'
  BY DEF InJobs, InWords
<1>4. /\ hands \in Nat /\ queued \in Nat /\ coming \in Nat
      /\ toRead \in Nat /\ inside \in Nat /\ expanding \in Nat
  BY CountsNat
<1>5. queued' \in Nat /\ inside' \in Nat /\ expanding' \in Nat
  BY CountsNatNext
<1>6. producer[p] \in ProducerState /\ producer \in [Producers -> ProducerState]
  BY DEF Typed, TypedProducers
<1>7. requested[url] \in Nat
  BY DEF Typed, TypedPool
<1>8. ASSUME jobs' = jobs, inside' + expanding' = inside + expanding PROVE Kept(url)'
  <2>1. queued' = queued
    BY <1>8
  <2>2. inside' + expanding' = inside + expanding
    BY <1>8
  <2> HIDE DEF hands, queued, coming, toRead, inside, expanding
  <2>3. InJobs(url)' = InJobs(url)
    BY <1>2, <1>3, <2>1
  <2>4. InWords(url)' = InWords(url)
    <3>1. toRead + inside + expanding = toRead + (inside + expanding)
      BY <1>4
    <3>2. toRead' + inside' + expanding' = toRead' + (inside' + expanding')
      BY <1>2, <1>4, <1>5
    <3> QED
      BY <1>2, <1>3, <2>2, <3>1, <3>2
  <2> QED
    BY <1>0, <2>3, <2>4, Unmoved
<1>9. CASE Receive(p)
  <2> DEFINE word == Head(words)
  <2>1. words \in Seq(Listed) /\ words # <<>> /\ words' = Tail(words) /\ jobs' = jobs
        /\ producer[p].at = "idle"
    BY <1>9 DEF Receive, jobVars, Typed, TypedWords
  <2>2. /\ word \in Yielding(url) => inside = inside' + 1
        /\ word \notin Yielding(url) => inside = inside'
    BY <2>1, <1>1, PlacesTail
  <2>3. word \in Listed
    BY <2>1, HeadTailProperties
  <2>4. word \in Yielding(url) <=> Yields(word, url)
    BY <2>3 DEF Yielding
  <2>5. CASE ~Clean(word)
    <3>1. producer' = producer
      <4>1. producer' = [producer EXCEPT ![p] = producer[p]]
        BY <1>9, <2>5 DEF Receive
      <4> QED
        BY <4>1, <1>6
    <3>2. ~Yields(word, url)
      BY <2>5 DEF Clean, Yields
    <3>3. expanding' = expanding /\ inside' = inside
      BY <1>1, <2>2, <2>4, <3>1, <3>2
    <3> QED
      BY <2>1, <3>3, <1>8
  <2>6. CASE Clean(word)
    <3> DEFINE new == [at |-> "gate", word |-> word, next |-> 1]
    <3>1. producer' = [producer EXCEPT ![p] = new]
      BY <1>9, <2>6 DEF Receive
    <3>2. word \in Listed \ Unclean
      BY <2>3, <2>6 DEF Clean
    <3>3. DOMAIN Variants(word) = 1 .. Len(Variants(word)) /\ Len(Variants(word)) \in Nat
      BY <3>2, VariantURLs
    <3>4. new.at = "gate" /\ new.word = word /\ new.next = 1
      OBVIOUS
    <3> HIDE DEF new
    <3>5. Reaches(new, url) <=> \E i \in DOMAIN Variants(word) : Variants(word)[i] = url
      BY <3>3, <3>4 DEF Reaches
    <3>6. Reaches(new, url) <=> Yields(word, url)
      BY <3>2, <3>5 DEF Yields, ToSet, Listed
    <3>7. ~Reaches(producer[p], url)
      BY <2>1 DEF Reaches
    <3>8. /\ Reaches(new, url) => expanding' = expanding + 1
          /\ ~Reaches(new, url) => expanding' = expanding
      BY <3>1, <3>7, ExpandingMoves
    <3> HIDE DEF inside, expanding, word
    <3>9. inside' + expanding' = inside + expanding
      <4>1. CASE Yields(word, url)
        BY <4>1, <2>2, <2>4, <3>6, <3>8, <1>4, <1>5
      <4>2. CASE ~Yields(word, url)
        BY <4>2, <2>2, <2>4, <3>6, <3>8
      <4> QED
        BY <4>1, <4>2
    <3> QED
      BY <2>1, <3>9, <1>8 DEF inside, expanding
  <2> QED
    BY <2>5, <2>6
<1>10. CASE ProducerQuits(p) \/ SendError(p)
  BY <1>10 DEF ProducerQuits, SendError, Course
<1>11. CASE WordsEnd(p) \/ PassGate(p) \/ CountProduced(p) \/ Expanded(p)
  <2> DEFINE old == producer[p]
  <2>1. PICK at \in {"done", "expanding", "idle"} :
          /\ producer' = [producer EXCEPT ![p] = [old EXCEPT !.at = at]]
          /\ at = "expanding" <=> old.at \in {"gate", "counting"}
          /\ old.at = "expanding" => old.next > Len(Variants(old.word))
    BY <1>11 DEF WordsEnd, PassGate, CountProduced, Expanded, Becomes
  <2> DEFINE new == [old EXCEPT !.at = at]
  <2>2. new.at = at /\ new.word = old.word /\ new.next = old.next
    BY <1>6 DEF ProducerState
  <2>3. Reaches(new, url) <=> Reaches(old, url)
    <3>1. CASE old.at \in {"gate", "counting"}
      BY <2>1, <2>2, <3>1 DEF Reaches
    <3>2. CASE old.at \notin {"gate", "counting"}
      <4>1. ~Reaches(new, url)
        BY <2>1, <2>2, <3>2 DEF Reaches
      <4>2. ~Reaches(old, url)
        <5>1. CASE old.at = "expanding"
          <6>1. old.word \in Listed \ Unclean /\ old.next \in Nat
            BY <1>6, <5>1 DEF ProducerState
          <6>2. DOMAIN Variants(old.word) = 1 .. Len(Variants(old.word)) /\ Len(Variants(old.word)) \in Nat
            BY <6>1, VariantURLs
          <6> QED
            BY <6>1, <6>2, <5>1, <2>1 DEF Reaches
        <5>2. CASE old.at # "expanding"
          BY <3>2, <5>2 DEF Reaches
        <5> QED
          BY <5>1, <5>2
      <4> QED
        BY <4>1, <4>2
    <3> QED
      BY <3>1, <3>2
  <2>4. producer' = [producer EXCEPT ![p] = new]
    BY <2>1
  <2> HIDE DEF new
  <2>5. expanding' = expanding
    BY <2>3, <2>4, ExpandingMoves
  <2>6. words' = words /\ jobs' = jobs
    BY <1>11 DEF WordsEnd, PassGate, CountProduced, Expanded, wordVars, jobVars
  <2>7. inside' = inside
    BY <2>6, <1>1
  <2> QED
    BY <2>5, <2>6, <2>7, <1>8
<1>12. CASE Expand(p)
  <2> DEFINE old == producer[p]  n == producer[p].next  v == Variants(producer[p].word)
             u == v[n]
  <2>0. PICK at \in {"expanding", "counting"} : Advance(p, at)
    BY <1>12 DEF Expand
  <2> DEFINE new == [at |-> at, word |-> producer[p].word, next |-> producer[p].next + 1]
  <2>1. /\ producer' = [producer EXCEPT ![p] = new] /\ words' = words
        /\ old.at = "expanding" /\ n <= Len(v)
        /\ old.word \in Listed \ Unclean /\ n \in Nat /\ n >= 1
    BY <1>6, <1>12, <2>0 DEF Expand, Advance, wordVars, ProducerState, Typed, TypedProducers
  <2>2. /\ v \in Seq(URLs) /\ Len(v) \in Nat /\ DOMAIN v = 1 .. Len(v)
        /\ \A i \in 1 .. Len(v) : v[i] \in URLs
        /\ \A i, j \in 1 .. Len(v) : v[i] = v[j] => i = j
    BY <2>1, VariantURLs
  <2>3. new.at = at /\ new.word = old.word /\ new.next = n + 1
    BY <1>6, <2>1 DEF ProducerState
  <2>4. inside' = inside
    BY <2>1, <1>1
  <2>5. n \in 1 .. Len(v) /\ u \in URLs
    BY <2>1, <2>2
  <2>6. /\ Reaches(old, url) <=> \E i \in 1 .. Len(v) : i >= n /\ v[i] = url
        /\ Reaches(new, url) <=> \E i \in 1 .. Len(v) : i >= n + 1 /\ v[i] = url
    BY <2>1, <2>2, <2>3 DEF Reaches
  <2>7. /\ u = url => Reaches(old, url) /\ ~Reaches(new, url)
        /\ u # url => (Reaches(new, url) <=> Reaches(old, url))
    <3> HIDE DEF v, n, old, new
    <3>1. u = url => Reaches(old, url)
      BY <2>1, <2>5, <2>6
    <3>2. u = url => ~Reaches(new, url)
      <4> SUFFICES ASSUME u = url, NEW i \in 1 .. Len(v), i >= n + 1, v[i] = url PROVE FALSE
        BY <2>6
      <4>1. i = n
        BY <2>2, <2>5
      <4> QED
        BY <4>1, <2>1
    <3>3. u # url => (Reaches(new, url) <=> Reaches(old, url))
      BY <2>1, <2>2, <2>5, <2>6
    <3> QED
      BY <3>1, <3>2, <3>3
  <2> HIDE DEF new
  <2>8. /\ u = url => expanding = expanding' + 1
        /\ u # url => expanding' = expanding
    BY <2>1, <2>7, ExpandingMoves
  <2>9. base = "good"
    BY <2>1 DEF Course, Discovering, Typed, TypedFeed
  <2>10. CASE Joins(u) /\ Key(u) \notin SkipSet
    <3>1. Submit(u)
      BY <1>12, <2>10 DEF Expand
    <3>2. /\ u = url => queued' = queued + 1
          /\ u # url => queued' = queued
      BY <2>5, <3>1, SubmitPlaces
    <3> HIDE DEF u
    <3>3. CASE u = url
      <4>1. Wanted(url)
        BY <2>9, <2>10, <3>3 DEF Wanted
      <4>2. queued' = queued + 1 /\ expanding = expanding' + 1
        BY <3>2, <3>3, <2>8
      <4> HIDE DEF hands, queued, coming, toRead, inside, expanding
      <4>3. InJobs(url)' = InJobs(url) + 1
        BY <1>2, <1>3, <1>4, <4>2
      <4>4. InWords(url) = InWords(url)' + 1
        BY <1>2, <1>3, <1>4, <1>5, <2>4, <4>2
      <4>5. requested'[url] + InJobs(url)' = requested[url] + InJobs(url) + 1
        BY <1>0, <1>7, <4>3, SumsNat
      <4> QED
        BY <1>0, <4>1, <4>4, <4>5, Moved
    <3>4. CASE u # url
      <4>1. queued' = queued /\ expanding' = expanding
        BY <3>2, <3>4, <2>8
      <4> HIDE DEF hands, queued, coming, toRead, inside, expanding
      <4>2. InJobs(url)' = InJobs(url) /\ InWords(url)' = InWords(url)
        BY <1>2, <1>3, <4>1, <2>4
      <4> QED
        BY <1>0, <4>2, Unmoved
    <3> QED
      BY <3>3, <3>4
  <2>11. CASE ~(Joins(u) /\ Key(u) \notin SkipSet)
    <3>1. jobs' = jobs
      BY <1>12, <2>11 DEF Expand, jobVars
    <3>2. queued' = queued
      BY <3>1
    <3> HIDE DEF u
    <3>3. CASE u = url
      <4>1. ~Wanted(url)
        BY <2>11, <3>3 DEF Wanted
      <4> HIDE DEF hands, queued, coming, toRead, inside, expanding
      <4>2. InJobs(url)' = InJobs(url)
        BY <1>2, <1>3, <3>2
      <4>3. requested'[url] + InJobs(url)' = requested[url] + InJobs(url) + 0
        BY <1>0, <1>7, <4>2, SumsNat
      <4> QED
        BY <1>0, <4>1, <4>3, Moved
    <3>4. CASE u # url
      <4>1. expanding' = expanding
        BY <3>4, <2>8
      <4> QED
        BY <3>1, <4>1, <2>4, <1>8
    <3> QED
      BY <3>3, <3>4
  <2> QED
    BY <2>10, <2>11
<1> QED
  BY <1>9, <1>10, <1>11, <1>12 DEF Producing

LEMMA WorkingKept ==
  ASSUME Typed, Typed', ctx = "live", NEW url \in URLs \ Unbuildable, Kept(url),
         NEW w \in Workers, Working(w)
  PROVE  Kept(url)'
<1> DEFINE hands == Cardinality(InHands(url))
           queued == Cardinality(Places(jobs, {url}))
           coming == Cardinality(Later(feeder.next, FoundAt(url)))
<1>0. /\ found' = found /\ base' = base /\ producer' = producer /\ words' = words
      /\ feeder' = feeder /\ reader' = reader
  BY DEF Working, Take, JobsEnd, Drop, Build, BuildFails, CountSkipped, Send, Respond, Fail, Report, feedVars, wordVars
<1>1. /\ FoundAt(url)' = FoundAt(url) /\ LinesAt(url)' = LinesAt(url)
      /\ Yielding(url)' = Yielding(url) /\ Expanding(url)' = Expanding(url)
  BY <1>0, SameInput
<1>2. coming' = coming /\ InWords(url)' = InWords(url)
  BY <1>0, <1>1 DEF InWords
<1>3. /\ InJobs(url) = hands + queued + coming /\ InJobs(url)' = hands' + queued' + coming'
      /\ hands \in Nat /\ queued \in Nat /\ coming \in Nat
  BY CountsNat DEF InJobs
<1>4. hands' \in Nat /\ queued' \in Nat
  BY CountsNatNext
<1>5. requested \in [URLs -> Nat] /\ worker[w] \in WorkerState
  BY JobOf DEF Typed, TypedPool
<1>6. ASSUME jobs' = jobs, requested' = requested, NEW to, Sets(w, to),
             Holds(to, url) <=> Holds(worker[w], url)
      PROVE  Kept(url)'
  <2>1. hands' = hands
    BY <1>6, HandsMove
  <2>2. queued' = queued
    BY <1>6
  <2> HIDE DEF hands, queued, coming
  <2>3. InJobs(url)' = InJobs(url)
    BY <1>2, <1>3, <2>1, <2>2
  <2> QED
    BY <1>0, <1>2, <1>6, <2>3, Unmoved
<1>7. CASE Take(w)
  <2> DEFINE new == [at |-> "holding", job |-> Head(jobs)]
  <2>1. /\ Sets(w, new) /\ worker[w].at = "idle" /\ requested' = requested
        /\ jobs \in Seq(URLs) /\ jobs # <<>> /\ jobs' = Tail(jobs)
    BY <1>7 DEF Take, Typed, TypedJobs
  <2>2. new.at = "holding" /\ new.job = Head(jobs)
    OBVIOUS
  <2> HIDE DEF new
  <2>3. ~Holds(worker[w], url) /\ (Holds(new, url) <=> Head(jobs) = url)
    BY <2>1, <2>2 DEF Holds
  <2>4. /\ Head(jobs) = url => hands' = hands + 1
        /\ Head(jobs) # url => hands' = hands
    BY <2>1, <2>3, HandsMove
  <2>5. /\ Head(jobs) \in {url} => queued = queued' + 1
        /\ Head(jobs) \notin {url} => queued = queued'
    BY <2>1, PlacesTail
  <2> HIDE DEF hands, queued, coming
  <2>6. hands' + queued' = hands + queued
    <3>1. CASE Head(jobs) = url
      <4>1. hands' = hands + 1 /\ queued = queued' + 1
        BY <3>1, <2>4, <2>5
      <4>2. hands \in Nat /\ queued' \in Nat
        BY <1>3, <1>4
      <4> QED
        BY <4>1, <4>2
    <3>2. CASE Head(jobs) # url
      BY <3>2, <2>4, <2>5
    <3> QED
      BY <3>1, <3>2
  <2>7. InJobs(url)' = InJobs(url)
    BY <1>2, <1>3, <2>6
  <2> QED
    BY <1>0, <1>2, <2>1, <2>7, Unmoved
<1>8. CASE Drop(w)
  BY <1>8 DEF Drop
<1>9. CASE JobsEnd(w) \/ BuildFails(w) \/ CountSkipped(w) \/ Fail(w) \/ Report(w)
  <2>1. PICK at \in {"done", "idle", "skipping", "reporting"} : Sets(w, [at |-> at])
    BY <1>9 DEF JobsEnd, BuildFails, CountSkipped, Fail, Report
  <2> DEFINE new == [at |-> at]
  <2>2. new.at \notin {"holding", "ready"}
    BY <2>1
  <2>3. worker[w].at \notin {"holding", "ready"} \/ worker[w].job \in Unbuildable
    BY <1>9 DEF JobsEnd, BuildFails, CountSkipped, Fail, Report
  <2>4. Sets(w, new) /\ jobs' = jobs /\ requested' = requested
    BY <1>9, <2>1 DEF JobsEnd, BuildFails, CountSkipped, Fail, Report, jobVars
  <2> HIDE DEF new
  <2>5. Holds(new, url) <=> Holds(worker[w], url)
    BY <2>2, <2>3 DEF Holds
  <2> QED
    BY <1>6, <2>4, <2>5
<1>10. CASE Respond(w)
  <2>1. PICK page \in Pages : Sets(w, [at |-> "reporting", page |-> page])
    BY <1>10 DEF Respond
  <2> DEFINE new == [at |-> "reporting", page |-> page]
  <2>2. new.at = "reporting"
    OBVIOUS
  <2>3. worker[w].at = "flight" /\ Sets(w, new) /\ jobs' = jobs /\ requested' = requested
    BY <1>10, <2>1 DEF Respond, jobVars
  <2> HIDE DEF new
  <2>4. Holds(new, url) <=> Holds(worker[w], url)
    BY <2>2, <2>3 DEF Holds
  <2> QED
    BY <1>6, <2>3, <2>4
<1>11. CASE Build(w)
  <2> DEFINE new == [worker[w] EXCEPT !.at = "ready"]
  <2>1. worker[w].at = "holding" /\ Sets(w, new) /\ jobs' = jobs /\ requested' = requested
    BY <1>11 DEF Build, jobVars
  <2>2. new.at = "ready" /\ new.job = worker[w].job
    BY <1>5, <2>1 DEF WorkerState
  <2> HIDE DEF new
  <2>3. Holds(new, url) <=> Holds(worker[w], url)
    BY <2>1, <2>2 DEF Holds
  <2> QED
    BY <1>6, <2>1, <2>3
<1>12. CASE Send(w)
  <2> DEFINE new == [worker[w] EXCEPT !.at = "flight"]  job == worker[w].job
  <2>1. /\ worker[w].at = "ready" /\ Sets(w, new) /\ jobs' = jobs
        /\ requested' = [requested EXCEPT ![job] = @ + 1]
    BY <1>12 DEF Send, jobVars
  <2>2. new.at = "flight" /\ job \in URLs
    BY <1>5, <2>1 DEF WorkerState
  <2> HIDE DEF new
  <2>3. ~Holds(new, url) /\ (Holds(worker[w], url) <=> job = url)
    BY <2>1, <2>2 DEF Holds
  <2>4. /\ job = url => hands = hands' + 1
        /\ job # url => hands' = hands
    BY <2>1, <2>3, HandsMove
  <2>5. requested'[url] = (IF job = url THEN requested[url] + 1 ELSE requested[url]) /\ requested[url] \in Nat
    BY <1>5, <2>1
  <2>6. queued' = queued
    BY <2>1
  <2> HIDE DEF hands, queued, coming, job
  <2>7. requested'[url] + InJobs(url)' = requested[url] + InJobs(url) + 0
    <3>1. CASE job = url
      <4>1. InJobs(url) = InJobs(url)' + 1 /\ InJobs(url)' \in Nat
        <5>1. hands = hands' + 1 /\ queued' = queued /\ coming' = coming
          BY <3>1, <2>4, <2>6, <1>2
        <5>2. hands' \in Nat /\ queued \in Nat /\ coming \in Nat
          BY <1>3, <1>4
        <5>3. hands + queued + coming = (hands' + queued' + coming') + 1
          BY <5>1, <5>2
        <5>4. InJobs(url)' \in Nat
          BY SumsNatNext
        <5> QED
          BY <5>3, <5>4, <1>3
      <4> QED
        BY <3>1, <4>1, <2>5
    <3>2. CASE job # url
      <4>1. InJobs(url)' = InJobs(url) /\ InJobs(url) \in Nat
        BY <3>2, <2>4, <2>6, <1>2, <1>3
      <4> QED
        BY <3>2, <4>1, <2>5
    <3> QED
      BY <3>1, <3>2
  <2>8. InWords(url) = InWords(url)' + 0
    BY <1>2, SumsNat
  <2> QED
    BY <1>0, <2>7, <2>8, Moved
<1> QED
  BY <1>7, <1>8, <1>9, <1>10, <1>11, <1>12 DEF Working

---------------------------------------------------------------------------
(* The course of a scan that nobody cancels. *)

LEMMA FeedCourse ==
  ASSUME Typed, ctx = "live", Course, Feeding
  PROVE  Course'
<1>1. CASE FeedDiscovered \/ CountDiscovered
  <2>1. /\ Discovering /\ Discovering' /\ feeder.at # "done" /\ feeder'.at \notin {"joining", "done"}
        /\ reader' = reader /\ words' = words /\ wordsOpen' = wordsOpen /\ producer' = producer
        /\ failures' = failures /\ worker' = worker /\ jobsOpen' = jobsOpen /\ base' = base
    BY <1>1 DEF FeedDiscovered, CountDiscovered, Discovering, Submit, jobVars, wordVars, poolVars, Typed, TypedFeed
  <2>2. \A w \in Workers : worker[w].at # "done"
    BY <2>1 DEF Course, Discovering
  <2> QED
    BY <2>1, <2>2 DEF Course, Discovering
<1>2. CASE FeedCancelled
  BY <1>2 DEF FeedCancelled
<1>3. CASE Produce
  <2>1. /\ feeder.at = "discovered" /\ feeder.next > Len(found) /\ found' = found /\ base' = base
        /\ words' = words /\ wordsOpen' = wordsOpen /\ failures' = failures /\ worker' = worker /\ jobs' = jobs
        /\ feeder'.next = feeder.next /\ base \in {"good", "bad"}
    BY <1>3 DEF Produce, CloseJobs, jobVars, poolVars, Typed, TypedFeed
  <2>2. CASE base = "good"
    <3>1. /\ feeder'.at = "joining" /\ reader'.at = "reading" /\ jobsOpen' = jobsOpen
          /\ \A p \in Producers : producer'[p].at = "idle"
      BY <1>3, <2>2 DEF Produce, jobVars, Idle, Typed, TypedFeed, TypedWords
    <3> QED
      BY <2>1, <2>2, <3>1 DEF Course, Discovering
  <2>3. CASE base = "bad"
    <3>1. feeder'.at = "done" /\ jobsOpen' = FALSE /\ reader' = reader /\ producer' = producer
      BY <1>3, <2>3 DEF Produce, CloseJobs, Typed, TypedFeed
    <3> QED
      BY <2>1, <2>3, <3>1 DEF Course, Discovering
  <2> QED
    BY <2>1, <2>2, <2>3
<1>4. CASE ProduceReturns
  <2>1. /\ feeder.at = "joining" /\ feeder'.at = "done" /\ feeder'.next = feeder.next /\ jobsOpen' = FALSE
        /\ jobs' = jobs /\ reader' = reader /\ words' = words /\ wordsOpen' = wordsOpen /\ producer' = producer
        /\ failures' = failures /\ worker' = worker /\ base' = base /\ found' = found
        /\ \A p \in Producers : producer[p].at = "done"
        /\ failures > 0 \/ ReadReported
    BY <1>4 DEF ProduceReturns, CloseJobs, wordVars, poolVars, Typed, TypedFeed
  <2>2. failures = 0 /\ reader.at \in {"ended", "broken"}
    BY <2>1 DEF Course, Discovering, ReadReported
  <2> QED
    BY <2>1, <2>2 DEF Course, Discovering
<1> QED
  BY <1>1, <1>2, <1>3, <1>4 DEF Feeding

LEMMA ReadCourse ==
  ASSUME Typed, ctx = "live", Course, Reading
  PROVE  Course'
<1>1. /\ reader.at = "reading" /\ feeder' = feeder /\ base' = base /\ found' = found /\ producer' = producer
      /\ failures' = failures /\ worker' = worker /\ jobs' = jobs /\ jobsOpen' = jobsOpen
  BY DEF Reading, ReadWord, ReadCancelled, ReadFails, ReadEnds, feedVars, jobVars, poolVars
<1>2. /\ wordsOpen /\ feeder.at = "joining" /\ base # "bad"
      /\ \A p \in Producers : producer[p].at # "done"
  BY <1>1 DEF Course, Discovering, Typed, TypedFeed
<1>3. CASE ReadWord
  <2>1. reader'.at = "reading" /\ wordsOpen' = wordsOpen
    BY <1>3 DEF ReadWord, Typed, TypedWords
  <2> QED
    BY <1>1, <1>2, <2>1 DEF Course, Discovering
<1>4. CASE ReadCancelled
  BY <1>4 DEF ReadCancelled
<1>5. CASE ReadFails \/ ReadEnds
  <2>1. /\ reader'.at \in {"ended", "broken"} /\ wordsOpen' = FALSE
        /\ reader'.at = "ended" => reader'.next > Len(Lines)
    BY <1>5 DEF ReadFails, ReadEnds, ReaderQuits, Typed, TypedWords
  <2> QED
    BY <1>1, <1>2, <2>1 DEF Course, Discovering
<1> QED
  BY <1>3, <1>4, <1>5 DEF Reading

LEMMA ProducingCourse ==
  ASSUME Typed, ctx = "live", Course, NEW p \in Producers, Producing(p)
  PROVE  Course'
<1>1. /\ feeder' = feeder /\ reader' = reader /\ base' = base /\ found' = found /\ worker' = worker
      /\ jobsOpen' = jobsOpen /\ wordsOpen' = wordsOpen
      /\ producer \in [Producers -> ProducerState] /\ producer[p] \in ProducerState
  BY DEF Producing, Receive, WordsEnd, ProducerQuits, SendError, PassGate, Expand, CountProduced, Expanded,
     Submit, feedVars, wordVars, jobVars, poolVars, Typed, TypedProducers
<1>2. CASE ProducerQuits(p) \/ SendError(p)
  BY <1>2 DEF ProducerQuits, SendError, Course
<1>3. CASE ~ProducerQuits(p) /\ ~SendError(p)
  <2>1. producer[p].at \in {"idle", "gate", "expanding", "counting"} /\ failures' = failures
    BY <1>3 DEF Producing, Receive, WordsEnd, PassGate, Expand, CountProduced, Expanded
  <2>2. feeder.at = "joining" /\ jobsOpen
    BY <2>1 DEF Course, Discovering, Typed, TypedFeed
  <2>3. \A w \in Workers : worker[w].at # "done"
    BY <2>2 DEF Course, Discovering
  <2>4. base # "bad"
    BY <2>2 DEF Course, Discovering
  <2>5. \E new : /\ producer' = [producer EXCEPT ![p] = new] /\ new.at \notin {"off", "failing"}
                 /\ new.at = "done" => words' = <<>> /\ ~wordsOpen'
    <3>1. CASE Receive(p)
      <4>1. \/ producer' = [producer EXCEPT ![p] = producer[p]]
            \/ producer' = [producer EXCEPT ![p] = [at |-> "gate", word |-> Head(words), next |-> 1]]
        BY <3>1 DEF Receive
      <4>2. producer[p].at = "idle" /\ [at |-> "gate", word |-> Head(words), next |-> 1].at = "gate"
        BY <3>1 DEF Receive
      <4> QED
        BY <4>1, <4>2
    <3>2. CASE WordsEnd(p)
      <4>1. producer' = [producer EXCEPT ![p] = [producer[p] EXCEPT !.at = "done"]]
            /\ words' = <<>> /\ ~wordsOpen'
        BY <3>2 DEF WordsEnd, Becomes, wordVars
      <4>2. [producer[p] EXCEPT !.at = "done"].at = "done"
        BY <1>1 DEF ProducerState
      <4> QED
        BY <4>1, <4>2
    <3>3. CASE PassGate(p) \/ CountProduced(p) \/ Expanded(p)
      <4>1. PICK at \in {"expanding", "idle"} : producer' = [producer EXCEPT ![p] = [producer[p] EXCEPT !.at = at]]
        BY <3>3 DEF PassGate, CountProduced, Expanded, Becomes
      <4>2. [producer[p] EXCEPT !.at = at].at = at
        BY <1>1 DEF ProducerState
      <4> QED
        BY <4>1, <4>2
    <3>4. CASE Expand(p)
      <4>1. PICK at \in {"expanding", "counting"} :
              producer' = [producer EXCEPT ![p] = [at |-> at, word |-> producer[p].word, next |-> producer[p].next + 1]]
        BY <3>4 DEF Expand, Advance
      <4>2. [at |-> at, word |-> producer[p].word, next |-> producer[p].next + 1].at = at
        BY <1>1, <4>1 DEF ProducerState
      <4> QED
        BY <4>1, <4>2
    <3> QED
      BY <1>3, <3>1, <3>2, <3>3, <3>4 DEF Producing
  <2>6. PICK new : /\ producer' = [producer EXCEPT ![p] = new] /\ new.at \notin {"off", "failing"}
                   /\ new.at = "done" => words' = <<>> /\ ~wordsOpen'
    BY <2>5
  <2>7. producer'[p] = new /\ \A q \in Producers : q # p => producer'[q] = producer[q]
    BY <1>1, <2>6
  <2>8. \A q \in Producers : producer[q].at = "done" => words' = <<>>
    <3>1. words # <<>> \/ words' = words
      BY DEF Producing, Receive, WordsEnd, ProducerQuits, SendError, PassGate, Expand, CountProduced, Expanded, wordVars
    <3> QED
      BY <3>1 DEF Course, Discovering
  <2>9. \A q \in Producers : /\ producer'[q].at # "failing"
                             /\ producer'[q].at = "done" => words' = <<>> /\ ~wordsOpen'
    BY <1>1, <2>6, <2>7, <2>8 DEF Course, Discovering
  <2> QED
    BY <1>1, <2>1, <2>2, <2>3, <2>4, <2>9 DEF Course, Discovering
<1> QED
  BY <1>2, <1>3

LEMMA WorkingCourse ==
  ASSUME Typed, ctx = "live", Course, NEW w \in Workers, Working(w)
  PROVE  Course'
<1>1. /\ feeder' = feeder /\ reader' = reader /\ base' = base /\ found' = found /\ producer' = producer
      /\ jobsOpen' = jobsOpen /\ words' = words /\ wordsOpen' = wordsOpen /\ failures' = failures
      /\ worker \in [Workers -> WorkerState] /\ worker[w] \in WorkerState
  BY JobOf DEF Working, Take, JobsEnd, Drop, Build, BuildFails, CountSkipped, Send, Respond, Fail, Report,
     feedVars, wordVars, jobVars, Typed, TypedPool
<1>2. jobs # <<>> \/ jobs' = jobs
  BY DEF Working, Take, JobsEnd, Drop, Build, BuildFails, CountSkipped, Send, Respond, Fail, Report, jobVars
<1>3. \E new : Sets(w, new) /\ (new.at = "done" => jobs' = <<>> /\ ~jobsOpen')
  <2>1. CASE JobsEnd(w)
    BY <2>1 DEF JobsEnd, jobVars
  <2>2. CASE Drop(w)
    BY <2>2 DEF Drop
  <2>3. CASE BuildFails(w) \/ CountSkipped(w) \/ Fail(w) \/ Report(w)
    <3>1. PICK at \in {"idle", "skipping", "reporting"} : Sets(w, [at |-> at])
      BY <2>3 DEF BuildFails, CountSkipped, Fail, Report
    <3>2. [at |-> at].at # "done"
      BY <3>1
    <3> QED
      BY <3>1, <3>2
  <2>4. CASE Take(w)
    <3>1. [at |-> "holding", job |-> Head(jobs)].at # "done"
      OBVIOUS
    <3> QED
      BY <2>4, <3>1 DEF Take
  <2>5. CASE Respond(w)
    <3>1. PICK page \in Pages : Sets(w, [at |-> "reporting", page |-> page])
      BY <2>5 DEF Respond
    <3>2. [at |-> "reporting", page |-> page].at # "done"
      OBVIOUS
    <3> QED
      BY <3>1, <3>2
  <2>6. CASE Build(w) \/ Send(w)
    <3>1. PICK at \in {"ready", "flight"} : Sets(w, [worker[w] EXCEPT !.at = at])
      BY <2>6 DEF Build, Send
    <3>2. [worker[w] EXCEPT !.at = at].at # "done"
      BY <1>1, <3>1 DEF WorkerState
    <3> QED
      BY <3>1, <3>2
  <2> QED
    BY <2>1, <2>2, <2>3, <2>4, <2>5, <2>6 DEF Working
<1>4. PICK new : Sets(w, new) /\ (new.at = "done" => jobs' = <<>> /\ ~jobsOpen')
  BY <1>3
<1>5. worker'[w] = new /\ \A v \in Workers : v # w => worker'[v] = worker[v]
  BY <1>1, <1>4 DEF Sets
<1>6. \A v \in Workers : worker'[v].at = "done" => jobs' = <<>> /\ ~jobsOpen'
  BY <1>1, <1>2, <1>4, <1>5 DEF Course, Discovering
<1> QED
  BY <1>1, <1>6 DEF Course, Discovering

\* When every worker has ended nothing remains, and everybody else has ended too.
LEMMA NothingRemains ==
  ASSUME Typed, Course, Counted, \A w \in Workers : worker[w].at = "done"
  PROVE  /\ feeder.at = "done" /\ reader.at # "reading" /\ jobs = <<>>
         /\ \A p \in Producers : producer[p].at \in {"off", "done"}
         /\ reader.at # "broken" => \A url \in URLs \ Unbuildable : requested[url] = Due(url)
<1>1. jobs = <<>> /\ ~jobsOpen /\ feeder.at = "done"
  BY PoolAssumption DEF Course
<1>2. base = "good" => /\ words = <<>> /\ reader.at \in {"ended", "broken"}
                       /\ \A p \in Producers : producer[p].at = "done"
  BY <1>1, PoolAssumption DEF Course
<1>3. base # "good" => /\ base = "bad" /\ reader.at = "off"
                       /\ \A p \in Producers : producer[p].at = "off"
  BY DEF Course, Typed, TypedFeed
<1>4. ASSUME reader.at # "broken", NEW url \in URLs \ Unbuildable
      PROVE  requested[url] = Due(url)
  <2>1. InHands(url) = {} /\ Places(jobs, {url}) = {}
    BY <1>1 DEF InHands, Holds, Places
  <2>2. Cardinality(Later(feeder.next, FoundAt(url))) = 0
    <3>1. feeder.next > Len(found) /\ feeder.next \in Nat
      BY <1>1, Finite DEF Course, Discovering, Typed, TypedFeed
    <3>2. FoundAt(url) \subseteq 1 .. Len(found) /\ Len(found) \in Nat
      BY Finite
    <3> QED
      BY <3>1, <3>2, LaterEnds
  <2>3. InJobs(url) = 0
    <3>1. Cardinality(InHands(url)) = 0 /\ Cardinality(Places(jobs, {url})) = 0
      BY <2>1, FS_EmptySet
    <3> QED
      BY <2>2, <3>1 DEF InJobs
  <2>4. Wanted(url) => InWords(url) = 0
    <3> SUFFICES ASSUME Wanted(url) PROVE InWords(url) = 0
      OBVIOUS
    <3>1. base = "good"
      BY DEF Wanted
    <3>2. reader.next > Len(Lines) /\ reader.next \in Nat
      BY <1>2, <1>4, <3>1, Finite DEF Course, Typed, TypedWords
    <3>3. LinesAt(url) \subseteq 1 .. Len(Lines) /\ Len(Lines) \in Nat
      BY Finite
    <3>4. Cardinality(Later(reader.next, LinesAt(url))) = 0
      BY <3>2, <3>3, LaterEnds
    <3>5. Places(words, Yielding(url)) = {} /\ Expanding(url) = {}
      BY <1>2, <3>1 DEF Places, Expanding, Reaches
    <3> QED
      BY <3>4, <3>5, FS_EmptySet DEF InWords
  <2>5. Remaining(url) = 0
    BY <2>3, <2>4 DEF Remaining
  <2>6. requested[url] + Remaining(url) = Due(url) /\ requested[url] \in Nat
    BY DEF Counted, Typed, TypedPool
  <2> QED
    BY <2>5, <2>6
<1> QED
  BY <1>1, <1>2, <1>3, <1>4

\* Then all that was produced was requested or skipped.
LEMMA AllSpent ==
  ASSUME Typed, Course, Counted, Balance, ctx = "live", \A w \in Workers : worker[w].at = "done"
  PROVE  Spent = count.produced
<1>1. /\ feeder.at = "done" /\ jobs = <<>>
      /\ \A p \in Producers : producer[p].at \in {"off", "done"}
  BY NothingRemains
<1>2. Held = {} /\ Uncounted = {}
  BY <1>1 DEF Held, Group, Uncounted
<1>3. Cardinality(Held) = 0 /\ Cardinality(Uncounted) = 0 /\ Len(jobs) = 0
  BY <1>1, <1>2, FS_EmptySet
<1>4. Backlog = 0 /\ Unproduced = 0
  BY <1>1, <1>3 DEF Backlog, Unproduced
<1> QED
  BY <1>4, Numbers DEF Balance

\* Only a job that could be built is sent.
LEMMA UnrequestedStep == Typed /\ Unrequested /\ [Next]_vars => Unrequested'
<1> SUFFICES ASSUME Typed, Unrequested, [Next]_vars PROVE Unrequested'
  OBVIOUS
<1>1. CASE UNCHANGED <<worker, requested>>
  BY <1>1 DEF Unrequested
<1>2. ASSUME NEW w \in Workers, Working(w) PROVE Unrequested'
  <2>1. worker \in [Workers -> WorkerState] /\ worker[w] \in WorkerState /\ requested \in [URLs -> Nat]
    BY JobOf DEF Typed, TypedPool
  <2>2. CASE Send(w)
    <3> DEFINE new == [worker[w] EXCEPT !.at = "flight"]
    <3>1. Sets(w, new) /\ new.at = "flight" /\ worker[w].job \notin Unbuildable
          /\ requested' = [requested EXCEPT ![worker[w].job] = @ + 1]
      BY <2>1, <2>2 DEF Send, WorkerState, Unrequested
    <3> HIDE DEF new
    <3>2. worker'[w] = new /\ \A v \in Workers : v # w => worker'[v] = worker[v]
      BY <2>1, <3>1 DEF Sets
    <3>3. \A url \in URLs : url # worker[w].job => requested'[url] = requested[url]
      BY <2>1, <3>1
    <3> QED
      BY <3>1, <3>2, <3>3 DEF Unrequested
  <2>3. CASE Build(w)
    <3> DEFINE new == [worker[w] EXCEPT !.at = "ready"]
    <3>1. Sets(w, new) /\ new.job = worker[w].job /\ worker[w].job \notin Unbuildable
          /\ requested' = requested
      BY <2>1, <2>3 DEF Build, WorkerState
    <3> HIDE DEF new
    <3>2. worker'[w] = new /\ \A v \in Workers : v # w => worker'[v] = worker[v]
      BY <2>1, <3>1 DEF Sets
    <3> QED
      BY <3>1, <3>2 DEF Unrequested
  <2>4. CASE ~Send(w) /\ ~Build(w)
    <3>1. \E to : Sets(w, to) /\ to.at # "ready"
      <4>1. CASE Respond(w)
        <5>1. PICK page \in Pages : Sets(w, [at |-> "reporting", page |-> page])
          BY <4>1 DEF Respond
        <5>2. [at |-> "reporting", page |-> page].at # "ready"
          OBVIOUS
        <5> QED
          BY <5>1, <5>2
      <4>2. CASE Take(w)
        <5>1. [at |-> "holding", job |-> Head(jobs)].at # "ready"
          OBVIOUS
        <5> QED
          BY <4>2, <5>1 DEF Take
      <4>3. CASE JobsEnd(w) \/ Drop(w) \/ BuildFails(w) \/ CountSkipped(w) \/ Fail(w) \/ Report(w)
        <5>1. PICK at \in {"done", "idle", "skipping", "reporting"} : Sets(w, [at |-> at])
          BY <4>3 DEF JobsEnd, Drop, BuildFails, CountSkipped, Fail, Report
        <5>2. [at |-> at].at # "ready"
          BY <5>1
        <5> QED
          BY <5>1, <5>2
      <4> QED
        BY <1>2, <2>4, <4>1, <4>2, <4>3 DEF Working
    <3>2. requested' = requested
      BY <1>2, <2>4 DEF Working, Take, JobsEnd, Drop, BuildFails, CountSkipped, Respond, Fail, Report
    <3>3. worker'[w].at # "ready" /\ \A v \in Workers : v # w => worker'[v] = worker[v]
      BY <2>1, <3>1 DEF Sets
    <3> QED
      BY <3>2, <3>3 DEF Unrequested
  <2> QED
    BY <2>2, <2>3, <2>4
<1>3. CASE \E p \in Producers : Producing(p)
  BY <1>1, <1>3 DEF Producing, Receive, WordsEnd, ProducerQuits, SendError, PassGate, Expand, CountProduced, Expanded, poolVars
<1>4. CASE Feeding \/ Reading
  BY <1>1, <1>4 DEF Feeding, FeedDiscovered, CountDiscovered, FeedCancelled, Produce, ProduceReturns,
     Reading, ReadWord, ReadCancelled, ReadFails, ReadEnds, poolVars
<1>5. CASE Cancel \/ PrintResult \/ MainLeaves \/ UNCHANGED vars
  BY <1>1, <1>5 DEF Cancel, PrintResult, MainLeaves, vars, poolVars
<1> QED
  BY <1>2, <1>3, <1>4, <1>5 DEF Next, Finished

\* The input of a scan and, once main has left the pool, its requests stay.
LEMMA InputStays == [Next]_vars => found' = found /\ base' = base
<1> SUFFICES ASSUME [Next]_vars PROVE found' = found /\ base' = base
  OBVIOUS
<1>1. CASE Feeding \/ Reading \/ Cancel \/ PrintResult \/ MainLeaves \/ UNCHANGED vars
  BY <1>1 DEF Feeding, FeedDiscovered, CountDiscovered, FeedCancelled, Produce, ProduceReturns,
     Reading, ReadWord, ReadCancelled, ReadFails, ReadEnds, Cancel, PrintResult, MainLeaves, vars, feedVars
<1>2. CASE \E p \in Producers : Producing(p)
  BY <1>2 DEF Producing, Receive, WordsEnd, ProducerQuits, SendError, PassGate, Expand, CountProduced, Expanded, feedVars
<1>3. CASE \E w \in Workers : Working(w)
  BY <1>3 DEF Working, Take, JobsEnd, Drop, Build, BuildFails, CountSkipped, Send, Respond, Fail, Report, feedVars
<1> QED
  BY <1>1, <1>2, <1>3 DEF Next, Finished

LEMMA AccountedStep == Typed /\ Typed' /\ Balance /\ Accounted /\ [Next]_vars => Accounted'
<1> SUFFICES ASSUME Typed, Typed', Balance, Accounted, [Next]_vars PROVE Accounted'
  OBVIOUS
<1>0. found' = found /\ base' = base
  BY InputStays
<1>1. ctx' = "live" => ctx = "live" /\ main = "printing" /\ main' = "printing" /\ Course /\ Counted
  <2> SUFFICES ASSUME ctx' = "live" PROVE ctx = "live" /\ main' = main
    BY DEF Accounted
  <2>1. CASE Cancel \/ MainLeaves
    BY <2>1 DEF Cancel, MainLeaves
  <2>2. CASE Feeding \/ Reading \/ PrintResult \/ UNCHANGED vars
    BY <2>2 DEF Feeding, FeedDiscovered, CountDiscovered, FeedCancelled, Produce, ProduceReturns,
       Reading, ReadWord, ReadCancelled, ReadFails, ReadEnds, PrintResult, vars
  <2>3. CASE \E p \in Producers : Producing(p)
    BY <2>3 DEF Producing, Receive, WordsEnd, ProducerQuits, SendError, PassGate, Expand, CountProduced, Expanded
  <2>4. CASE \E w \in Workers : Working(w)
    BY <2>4 DEF Working, Take, JobsEnd, Drop, Build, BuildFails, CountSkipped, Send, Respond, Fail, Report
  <2> QED
    BY <2>1, <2>2, <2>3, <2>4 DEF Next, Finished
<1>2. ASSUME ctx' = "live" PROVE Course'
  <2>1. CASE Cancel \/ MainLeaves
    BY <1>2, <2>1 DEF Cancel, MainLeaves
  <2>2. CASE PrintResult \/ UNCHANGED vars
    BY <1>1, <1>2, <2>2 DEF PrintResult, vars, feedVars, wordVars, jobVars, poolVars, Course, Discovering
  <2> QED
    BY <1>1, <1>2, <2>1, <2>2, FeedCourse, ReadCourse, ProducingCourse, WorkingCourse DEF Next, Finished
<1>3. ASSUME ctx' = "live" PROVE Counted'
  <2> SUFFICES ASSUME NEW url \in URLs \ Unbuildable PROVE Kept(url)'
    BY DEF Counted, Kept
  <2>0. Kept(url) /\ ctx = "live" /\ Course
    BY <1>1, <1>3 DEF Counted, Kept
  <2>1. CASE Cancel \/ MainLeaves
    BY <1>3, <2>1 DEF Cancel, MainLeaves
  <2>2. CASE PrintResult \/ UNCHANGED vars
    <3>1. /\ worker' = worker /\ jobs' = jobs /\ feeder' = feeder /\ requested' = requested
          /\ reader' = reader /\ words' = words /\ producer' = producer
      BY <2>2 DEF PrintResult, vars, feedVars, wordVars, jobVars, poolVars
    <3>2. /\ InHands(url)' = InHands(url) /\ FoundAt(url)' = FoundAt(url)
          /\ LinesAt(url)' = LinesAt(url) /\ Yielding(url)' = Yielding(url)
          /\ Expanding(url)' = Expanding(url)
      BY <1>0, <3>1, SameInput
    <3>3. InJobs(url)' = InJobs(url) /\ InWords(url)' = InWords(url)
      BY <3>1, <3>2 DEF InJobs, InWords
    <3> QED
      BY <1>0, <2>0, <3>1, <3>3, Unmoved
  <2>3. CASE Feeding
    BY <2>0, <2>3, FeedKept
  <2>4. CASE Reading
    BY <2>0, <2>4, ReadKept
  <2>5. CASE \E p \in Producers : Producing(p)
    BY <2>0, <2>5, ProducingKept
  <2>6. CASE \E w \in Workers : Working(w)
    BY <2>0, <2>6, WorkingKept
  <2> QED
    BY <2>1, <2>2, <2>3, <2>4, <2>5, <2>6 DEF Next, Finished
<1>4. Unrequested'
  BY UnrequestedStep DEF Accounted
<1>5. Settled'
  <2>1. CASE MainLeaves
    <3>1. CASE ctx = "live"
      <4>1. /\ feeder.at = "done" /\ reader.at # "reading" /\ (\A w \in Workers : worker[w].at = "done")
            /\ (\A p \in Producers : producer[p].at \in {"off", "done"}) /\ Spent = count.produced
            /\ reader.at # "broken" => \A url \in URLs \ Unbuildable : requested[url] = Due(url)
        BY <2>1, <3>1, NothingRemains, AllSpent DEF MainLeaves, Accounted
      <4>2. \A url : Due(url)' = Due(url)
        BY <1>0, SameInput
      <4>3. /\ feeder' = feeder /\ reader' = reader /\ worker' = worker /\ requested' = requested
            /\ producer' = producer /\ count' = count
        BY <2>1 DEF MainLeaves, feedVars, wordVars, poolVars
      <4> QED
        BY <4>1, <4>2, <4>3 DEF Settled, Spent
    <3>2. CASE ctx # "live"
      BY <2>1, <3>2 DEF MainLeaves, Settled
    <3> QED
      BY <3>1, <3>2
  <2>2. CASE ~MainLeaves
    <3>1. main' = main
      <4>1. CASE Cancel \/ Feeding \/ Reading \/ PrintResult \/ UNCHANGED vars
        BY <4>1 DEF Cancel, Feeding, FeedDiscovered, CountDiscovered, FeedCancelled, Produce, ProduceReturns,
           Reading, ReadWord, ReadCancelled, ReadFails, ReadEnds, PrintResult, vars
      <4>2. CASE \E p \in Producers : Producing(p)
        BY <4>2 DEF Producing, Receive, WordsEnd, ProducerQuits, SendError, PassGate, Expand, CountProduced, Expanded
      <4>3. CASE \E w \in Workers : Working(w)
        BY <4>3 DEF Working, Take, JobsEnd, Drop, Build, BuildFails, CountSkipped, Send, Respond, Fail, Report
      <4> QED
        BY <2>2, <4>1, <4>2, <4>3 DEF Next, Finished
    <3> SUFFICES ASSUME main = "complete"
                 PROVE  /\ feeder' = feeder /\ reader' = reader /\ worker' = worker
                        /\ requested' = requested /\ producer' = producer /\ count' = count
      <4>1. \A url : Due(url)' = Due(url)
        BY <1>0, SameInput
      <4> QED
        BY <3>1, <4>1 DEF Accounted, Settled, Spent
    <3>2. /\ feeder.at = "done" /\ reader.at # "reading" /\ \A w \in Workers : worker[w].at = "done"
          /\ \A p \in Producers : producer[p].at \in {"off", "done"}
      BY DEF Accounted, Settled
    <3>3. ~Feeding /\ ~Reading
      BY <3>2 DEF Feeding, FeedDiscovered, CountDiscovered, FeedCancelled, Produce, ProduceReturns,
         Reading, ReadWord, ReadCancelled, ReadFails, ReadEnds
    <3>4. \A w \in Workers : ~Working(w)
      BY <3>2 DEF Working, Take, JobsEnd, Drop, Build, BuildFails, CountSkipped, Send, Respond, Fail, Report
    <3>5. \A p \in Producers : ~Producing(p)
      BY <3>2 DEF Producing, Receive, WordsEnd, ProducerQuits, Offering, SendError, PassGate, Expand, CountProduced,
         Expanded
    <3>6. CASE Cancel \/ PrintResult \/ UNCHANGED vars
      BY <3>6 DEF Cancel, PrintResult, vars, feedVars, wordVars, poolVars
    <3> QED
      BY <2>2, <3>3, <3>4, <3>5, <3>6 DEF Next, Finished
  <2> QED
    BY <2>1, <2>2
<1> QED
  BY <1>1, <1>2, <1>3, <1>4, <1>5 DEF Accounted

LEMMA InitAccounted == Init => Accounted
<1> SUFFICES ASSUME Init PROVE Accounted
  OBVIOUS
<1>0. Typed
  BY InitTyped
<1>1. Course
  BY PoolAssumption DEF Init, Course, Discovering, Idle
<1>2. Unrequested /\ Settled
  BY DEF Init, Unrequested, Settled
<1>3. Counted
  <2> SUFFICES ASSUME NEW url \in URLs \ Unbuildable PROVE requested[url] + Remaining(url) = Due(url)
    BY DEF Counted
  <2>1. requested[url] = 0
    BY DEF Init
  <2>2. InHands(url) = {} /\ Expanding(url) = {}
    BY DEF Init, Idle, InHands, Holds, Expanding, Reaches
  <2>3. Places(jobs, {url}) = {} /\ Places(words, Yielding(url)) = {}
    BY DEF Init, Places
  <2>4. Later(feeder.next, FoundAt(url)) = FoundAt(url) /\ Later(reader.next, LinesAt(url)) = LinesAt(url)
    <3>1. feeder.next = 1 /\ reader.next = 1
      BY DEF Init
    <3> QED
      BY <1>0, <3>1, Finite, LaterEnds
  <2>5. Cardinality(FoundAt(url)) \in Nat /\ Cardinality(LinesAt(url)) \in Nat
    BY <1>0, Finite, FS_CardinalityType
  <2>6. InJobs(url) = Cardinality(FoundAt(url)) /\ InWords(url) = Cardinality(LinesAt(url))
    <3>1. /\ Cardinality(InHands(url)) = 0 /\ Cardinality(Places(jobs, {url})) = 0
          /\ Cardinality(Expanding(url)) = 0 /\ Cardinality(Places(words, Yielding(url))) = 0
      BY <2>2, <2>3, FS_EmptySet
    <3>2. /\ InJobs(url) = 0 + 0 + Cardinality(FoundAt(url))
          /\ InWords(url) = Cardinality(LinesAt(url)) + 0 + 0
      BY <2>4, <3>1 DEF InJobs, InWords
    <3> QED
      BY <2>5, <3>2
  <2>7. Due(url) = Remaining(url)
    <3>1. Due(url) = Cardinality(FoundAt(url)) + IF Wanted(url) THEN Cardinality(LinesAt(url)) ELSE 0
      BY DEF Due, FoundAt, LinesAt, Wanted
    <3>2. CASE Wanted(url)
      BY <3>1, <3>2, <2>6 DEF Remaining
    <3>3. CASE ~Wanted(url)
      BY <3>1, <3>3, <2>5, <2>6 DEF Remaining
    <3> QED
      BY <3>2, <3>3
  <2>8. Remaining(url) \in Nat
    BY <1>0, SumsNat
  <2> QED
    BY <2>1, <2>7, <2>8
<1> QED
  BY <1>1, <1>2, <1>3 DEF Init, Accounted

LEMMA AlwaysAccounted == Spec => [](Typed /\ Balance /\ Accounted)
BY InitAccounted, AccountedStep, AlwaysBalance, PTL DEF Spec

\* A scan that is complete has requested each URL exactly as often as it is due,
\* whatever the interleaving of reader, producers and workers: none is lost or
\* repeated on the way through the channels.  A URL of the list is due as often
\* as listed, unless discovery has sent it or its like.
THEOREM EveryWordOnceCorrect == Spec => []EveryWordOnce
<1>1. Accounted => EveryWordOnce
  <2> SUFFICES ASSUME Accounted, main = "complete", reader.at # "broken", NEW url \in URLs
               PROVE  requested[url] = Due(url)
    BY DEF EveryWordOnce
  <2>1. CASE url \in Unbuildable
    BY <2>1 DEF Accounted, Unrequested, Due
  <2>2. CASE url \notin Unbuildable
    BY <2>2 DEF Accounted, Settled
  <2> QED
    BY <2>1, <2>2
<1> QED
  BY <1>1, AlwaysAccounted, PTL

\* The counters agree in every state of every scan, cancelled or not, up to the
\* increments that are still to come: what was sent or skipped has an outcome or
\* is in flight, and was produced.  When a scan is complete none is to come.
THEOREM ReconciledCorrect == Spec => []Reconciled
<1>1. Typed /\ Balance /\ Accounted => Reconciled
  <2> SUFFICES ASSUME Typed, Balance, Accounted PROVE Reconciled
    OBVIOUS
  <2> DEFINE flying == Cardinality(InFlight)  skipping == Cardinality(Skipping)  held == Cardinality(Held)
  <2>1. Skipping \subseteq Held /\ Held \subseteq Workers
    BY DEF Skipping, Held, Group
  <2>2. skipping <= held
    BY <2>1, PoolAssumption, FS_Subset
  <2>3. /\ Spent + skipping = flying + Outcomes
        /\ Spent + (Len(jobs) + held) <= count.produced + Unproduced
    BY DEF Balance, Backlog
  <2>4. main = "complete" => Spent = count.produced
    BY DEF Accounted, Settled
  <2>5. /\ flying \in Nat /\ skipping \in Nat /\ held \in Nat /\ Spent \in Nat /\ Len(jobs) \in Nat
        /\ count.produced \in Nat /\ Unproduced \in Nat
        /\ count.failed \in Nat /\ count.filtered \in Nat /\ count.succeeded \in Nat
    BY Numbers
  <2>6. flying + Outcomes = flying + count.failed + count.filtered + count.succeeded
    BY <2>5 DEF Outcomes
  <2> HIDE DEF flying, skipping, held
  <2>7. Spent + skipping <= count.produced + Unproduced
    BY <2>2, <2>3, <2>5
  <2> QED
    BY <2>3, <2>4, <2>6, <2>7 DEF Spent, Reconciled, flying, skipping
<1> QED
  BY <1>1, AlwaysAccounted, PTL
=============================================================================
