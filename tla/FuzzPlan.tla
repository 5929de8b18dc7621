------------------------------ MODULE FuzzPlan ------------------------------
(* The search space of a fuzz run (src/internal/fuzz): the placeholders of *)
(* a request template, the levels they become, the values of a level with  *)
(* the extensions of its words, the candidates, their estimate, and the    *)
(* URL that is requested for a value before the deeper ones are known.     *)
(* A template is a sequence of tokens: "host" (scheme and authority), "/", *)
(* a placeholder, or other text.  A plan of a run is a record              *)
(*   url      the tokens of the URL,                                       *)
(*   rest     the placeholders of body, headers and cookie,                *)
(*   words    the words of every placeholder, none for one that is not     *)
(*            in the template,                                             *)
(*   exts     the number of extensions, 0 when none is configured.         *)
EXTENDS Naturals, Sequences, SequencesExt, FiniteSets

SupportedPlaceholders == <<"FUZZ", "FOO", "BAR", "BAZ", "BUZZ">>

Active(plan, ph) == ph \in ToSet(plan.url) \cup plan.rest

\* The elements of a sequence that belong to a set, in their order.
Within(s, A) ==
  LET kept[i \in 0 .. Len(s)] ==
        IF i = 0 THEN <<>>
        ELSE IF s[i] \in A THEN Append(kept[i - 1], s[i]) ELSE kept[i - 1]
  IN kept[Len(s)]

FindPlaceholders(plan) == Within(SupportedPlaceholders, ToSet(plan.url) \cup plan.rest)

\* The plans of this module: every list, and every extension, has its placeholder in the
\* request.  A list without one repeats the requests of an eager run, once per word
\* (strategy.go:401-480), and is left out here.
InUse(plan) ==
  /\ \A ph \in ToSet(SupportedPlaceholders) : plan.words[ph] # <<>> => Active(plan, ph)
  /\ plan.exts > 0 => Active(plan, "FUZZ")

\* The command makes sure that there is a placeholder (src/cmd/fuzz.go:653-687).  A word
\* stands for its line of the list, so the words of a list are distinct.
IsPlan(plan) ==
  /\ FindPlaceholders(plan) # <<>>
  /\ plan.url \in Seq(ToSet(plan.url))
  /\ plan.exts \in Nat
  /\ \A ph \in ToSet(SupportedPlaceholders) :
       /\ plan.words[ph] \in Seq(ToSet(plan.words[ph]))
       /\ IsInjective(plan.words[ph])
  /\ InUse(plan)

\* A value of a level: a word and the index of its extension.
Value(w, e) == [word |-> w, ext |-> e]

NoWord == "-"

HasExtensions(plan) == plan.exts > 0

VariantCount(plan) == IF HasExtensions(plan) THEN plan.exts ELSE 1

\* What two nested loops visit: every x with the first y, ..., the inner one fastest.
Nested(xs, ys) ==
  LET n == Len(ys) IN
  [i \in 1 .. Len(xs) * n |-> <<xs[((i - 1) \div n) + 1], ys[((i - 1) % n) + 1]>>]

\* Expander.Level: one variant of every word.
Level(words, e) == [i \in DOMAIN words |-> Value(words[i], e)]

\* Expander.ExpandEager: all variants of the first word, then of the second.
ExpandEager(plan, words) ==
  LET pairs == Nested(words, [e \in 1 .. VariantCount(plan) |-> e]) IN
  [i \in DOMAIN pairs |-> Value(pairs[i][1], pairs[i][2])]

-----------------------------------------------------------------------------
OrNothing(words) == IF words = <<>> THEN <<NoWord>> ELSE words

\* The words of a placeholder; FUZZ borrows those of FOO if it has none.
LevelWords(plan, ph) ==
  IF ph = "FUZZ" /\ plan.words["FUZZ"] = <<>> /\ ~Active(plan, "FOO")
    THEN OrNothing(plan.words["FOO"])
    ELSE OrNothing(plan.words[ph])

Levels(plan) ==
  LET active == FindPlaceholders(plan) IN
  [d \in DOMAIN active |-> [ph |-> active[d], words |-> LevelWords(plan, active[d])]]

Depths(plan) == DOMAIN FindPlaceholders(plan)
LastDepth(plan) == Len(FindPlaceholders(plan))

\* The values visited at a depth, in the order of an eager expansion.
ValuesAt(plan, d) ==
  LET level == Levels(plan)[d] IN
  IF level.ph = "FUZZ" THEN ExpandEager(plan, level.words)
                       ELSE Level(level.words, 1)

\* All paths with all values, in the order in which they are iterated.
Extend(paths, values) ==
  LET pairs == Nested(paths, values) IN
  [i \in DOMAIN pairs |-> Append(pairs[i][1], pairs[i][2])]

\* The paths of d values.
PathsTo(plan, d) ==
  LET paths[k \in 0 .. d] == IF k = 0 THEN << <<>> >> ELSE Extend(paths[k - 1], ValuesAt(plan, k))
  IN paths[d]

IterateCandidates(plan) == PathsTo(plan, LastDepth(plan))

AllPaths(plan) == UNION {ToSet(PathsTo(plan, d)) : d \in Depths(plan)}

Children(plan, path) ==
  LET values == ValuesAt(plan, Len(path) + 1) IN
  [i \in DOMAIN values |-> Append(path, values[i])]

IsLeaf(plan, path) == Len(path) = LastDepth(plan)

Product(factors) ==
  LET product[k \in 0 .. Len(factors)] == IF k = 0 THEN 1 ELSE factors[k] * product[k - 1]
  IN product[Len(factors)]

\* recordPruned: the candidates below a path, counted without extensions.
Pruned(plan, path) ==
  Product([i \in 1 .. LastDepth(plan) - Len(path) |-> Len(Levels(plan)[Len(path) + i].words)])

\* EstimateCandidates, for a primary wordlist of known size.
EstimateCandidates(plan) ==
  LET Factor(ph) == IF plan.words[ph] = <<>> THEN 1 ELSE Len(plan.words[ph])
      primary == Len(plan.words["FUZZ"]) IN
  IF Active(plan, "FUZZ") /\ primary = 0 THEN 0
  ELSE (IF Active(plan, "FUZZ") THEN primary * VariantCount(plan) ELSE 1)
         * Product([i \in 1 .. 4 |-> Factor(SupportedPlaceholders[i + 1])])

-----------------------------------------------------------------------------
(* The URL requested for a path.  A probe is sent to the part of the       *)
(* template that comes before the deeper placeholders.                     *)
Positions(url, token) == {i \in DOMAIN url : url[i] = token}
First(S) == CHOOSE i \in S : \A j \in S : i <= j
Latest(S) == CHOOSE i \in S : \A j \in S : i >= j

\* The end of the placeholders up to depth d; no cut is made at a slash before it.
MinSafe(plan, d) ==
  LET inURL == {k \in 1 .. d : Positions(plan.url, Levels(plan)[k].ph) # {}}
      ends == {First(Positions(plan.url, Levels(plan)[k].ph)) : k \in inURL}
  IN IF ends = {} THEN 0 ELSE Latest(ends)

\* Where to cut for the first occurrence, at idx, of a deeper placeholder.
CutAt(plan, d, idx) ==
  LET slashes == {i \in Positions(plan.url, "/") : i < idx} IN
  IF slashes # {} /\ Latest(slashes) > MinSafe(plan, d) THEN Latest(slashes) ELSE idx

Deeper(plan, d) == {k \in d + 1 .. LastDepth(plan) : Positions(plan.url, Levels(plan)[k].ph) # {}}

TruncateTemplate(plan, d) ==
  LET deeper == Deeper(plan, d)
      cuts == {CutAt(plan, d, First(Positions(plan.url, Levels(plan)[k].ph))) : k \in deeper}
  IN IF deeper = {} THEN plan.url ELSE SubSeq(plan.url, 1, First(cuts) - 1)

DepthOf(plan, ph) == CHOOSE d \in Depths(plan) : Levels(plan)[d].ph = ph

\* The value a path gives to a placeholder, nothing if it is deeper.
Lookup(plan, path, ph) ==
  IF DepthOf(plan, ph) <= Len(path) THEN path[DepthOf(plan, ph)] ELSE Value("", 0)

Render(plan, path, tokens) ==
  [i \in DOMAIN tokens |-> IF tokens[i] \in ToSet(SupportedPlaceholders)
                             THEN Lookup(plan, path, tokens[i]) ELSE Value(tokens[i], 0)]

\* BuildJob: what a request carries of a path, in its URL and elsewhere.
BuildJob(plan, path) ==
  [url |-> Render(plan, path, TruncateTemplate(plan, Len(path))),
   rest |-> [ph \in plan.rest |-> Lookup(plan, path, ph)]]
=============================================================================
