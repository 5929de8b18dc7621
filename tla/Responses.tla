------------------------------ MODULE Responses ------------------------------
(* What becomes of a response: the filters of a command                     *)
(* (src/internal/filter, status, size) in the order in which the workers of *)
(* a scan (src/internal/engine/worker.go) and of a fuzz run                 *)
(* (src/internal/fuzz/worker.go) apply them.                                *)
(*                                                                          *)
(* A response is a record                                                   *)
(*   status      its code,                                                  *)
(*   types       the configured content types its header contains,         *)
(*   declared    its Content-Length, Unknown for a chunked body,            *)
(*   size        the bytes of the body that arrive,                         *)
(*   broken      reading the body fails after them,                         *)
(*   redirected  the client followed a redirect to it,                      *)
(*   holds       for every part of it the expressions that match there.     *)
EXTENDS Integers, Sequences

Unknown == -1
MaxDrain == 65536

\* A worker reads a body in two goes: what lies below a limit, and the rest.
SkimLimit == 4096
BodyLimit == 1048576

-----------------------------------------------------------------------------
(* Patterns of status codes and of sizes.                                   *)
AnyDigit == 10

Exact(n) == [kind |-> "exact", low |-> n, high |-> n]
Between(low, high) == [kind |-> "range", low |-> low, high |-> high]
Wildcard(template) == [kind |-> "wildcard", template |-> template]

Digits(code) == <<code \div 100, (code \div 10) % 10, code % 10>>

Match(p, n) ==
  IF p.kind = "wildcard"
    THEN n \in 100 .. 999 /\ \A i \in 1 .. 3 : p.template[i] \in {AnyDigit, Digits(n)[i]}
    ELSE p.low <= n /\ n <= p.high

\* The patterns that the two parsers accept.
StatusPattern(p) ==
  IF p.kind = "wildcard"
    THEN p.template[1] # 0 /\ AnyDigit \in {p.template[i] : i \in 1 .. 3}
    ELSE 100 <= p.low /\ p.low <= p.high /\ p.high <= 999

SizePattern(p) == p.kind # "wildcard" /\ 0 <= p.low /\ p.low <= p.high

\* Filters.Match: no pattern, no match.
MatchAny(patterns, n) == \E p \in patterns : Match(p, n)

\* A match list restricts unless it is empty; a filter list always excludes.
Allowed(matching, filtering, n) ==
  /\ matching # {} => MatchAny(matching, n)
  /\ ~MatchAny(filtering, n)

-----------------------------------------------------------------------------
(* The filter suite: lists of patterns, content types and expressions.      *)
Scopes == {"url", "status", "header", "body", "all"}
Parts == Scopes \ {"all"}

\* NewFilterSuite fails unless every list can be parsed and the scope is known.
WellFormed(suite) ==
  /\ \A p \in suite.matchStatus \cup suite.filterStatus : StatusPattern(p)
  /\ \A p \in suite.matchSize \cup suite.filterSize : SizePattern(p)
  /\ suite.scope \in Scopes

HasRegex(suite) == suite.matchRegex \cup suite.filterRegex # {}

RequiresBody(suite) ==
  suite.showTitle \/ (HasRegex(suite) /\ suite.scope \in {"body", "all"})

SizeAllowed(suite, length) == Allowed(suite.matchSize, suite.filterSize, length)

MatchHeaders(suite, r, length) ==
  /\ Allowed(suite.matchStatus, suite.filterStatus, r.status)
  /\ suite.matchType # {} => suite.matchType \cap r.types # {}
  /\ suite.filterType \cap r.types = {}
  /\ SizeAllowed(suite, length)

ScopedTargets(scope) == IF scope = "all" THEN Parts ELSE {scope}

MatchResponse(suite, r) ==
  LET hits == UNION {r.holds[part] : part \in ScopedTargets(suite.scope)} IN
  /\ suite.matchRegex # {} => suite.matchRegex \cap hits # {}
  /\ suite.filterRegex \cap hits = {}

-----------------------------------------------------------------------------
(* The stages of the two pipelines.                                         *)
\* Only a scan that extracts links looks at the answer of a root regardless.
RedirectStage(suite, r, root) == suite.onlyRedirects => r.redirected \/ root

HeaderStage(suite, r) == MatchHeaders(suite, r, r.declared)

\* Only the error of the first go is looked at: a body that breaks off in the
\* rest passes for a whole one.
SeenBroken(r, limit) == r.broken /\ r.size < limit

\* The length after the body was read: the bytes of an unknown length count.
Measured(r, limit) ==
  IF r.declared = Unknown /\ ~SeenBroken(r, limit) /\ r.size > 0 THEN r.size ELSE r.declared

LateSize(suite, r, limit) ==
  Measured(r, limit) = Unknown \/ SizeAllowed(suite, Measured(r, limit))

EarlyStages(suite, r, root) == RedirectStage(suite, r, root) /\ HeaderStage(suite, r)

BodyStage(suite, r, limit) == ~SeenBroken(r, limit) /\ MatchResponse(suite, r)

\* engine.process reads every body that gets so far.
ScanOutcome(suite, r, root) ==
  IF EarlyStages(suite, r, root) /\ LateSize(suite, r, BodyLimit) /\ BodyStage(suite, r, BodyLimit)
    THEN "succeeded" ELSE "filtered"

\* fuzz.process only skims a body it does not need, and then calls one that it
\* sees broken failed.
Skims(suite) == ~RequiresBody(suite)
FuzzLimit(suite) == IF Skims(suite) THEN SkimLimit ELSE BodyLimit

\* Slip: the size of a body that is skimmed is not looked at.
FuzzOutcomeSkimmed(suite, r) ==
  IF ~EarlyStages(suite, r, FALSE) THEN "filtered"
  ELSE IF Skims(suite) THEN (IF SeenBroken(r, SkimLimit) THEN "failed" ELSE "succeeded")
  ELSE IF LateSize(suite, r, BodyLimit) /\ BodyStage(suite, r, BodyLimit)
    THEN "succeeded" ELSE "filtered"

FuzzOutcome(suite, r) ==
  IF ~EarlyStages(suite, r, FALSE) THEN "filtered"
  ELSE IF Skims(suite) /\ SeenBroken(r, SkimLimit) THEN "failed"
  ELSE IF LateSize(suite, r, FuzzLimit(suite)) /\ BodyStage(suite, r, FuzzLimit(suite))
    THEN "succeeded" ELSE "filtered"

-----------------------------------------------------------------------------
(* The bytes that are recorded for a response.                              *)
\* DrainAndClose reads a short body to its end, and 64 KB of any other one.
Drained(r) ==
  IF r.declared \in 0 .. MaxDrain \/ r.size <= MaxDrain THEN r.size ELSE MaxDrain

Recorded(r, length, otherwise) == IF length < 0 THEN otherwise ELSE length

ScanBytes(suite, r, root) ==
  IF EarlyStages(suite, r, root) THEN Recorded(r, Measured(r, BodyLimit), r.size)
                                 ELSE Recorded(r, r.declared, Drained(r))

FuzzBytes(suite, r) ==
  IF EarlyStages(suite, r, FALSE) THEN Recorded(r, Measured(r, FuzzLimit(suite)), 0)
                                  ELSE Recorded(r, r.declared, Drained(r))
=============================================================================
