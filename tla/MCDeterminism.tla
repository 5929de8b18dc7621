--------------------------- MODULE MCDeterminism ---------------------------
(***************************************************************************)
(* A site with one answer per page, scanned breadth-first by two workers:  *)
(*    /          words a and b                                             *)
(*    /a         links to /b/c/d                                           *)
(*    /b, /b/c   directories with the words c and d                        *)
(*    /b/c/d     a directory with the word e                               *)
(* With --max-depth 3, /b/c/d is found at depth 2 by the link and at depth *)
(* 3 by the wordlist; only the first leads to /b/c/d/e.                    *)
(***************************************************************************)
EXTENDS Recursion

CONSTANTS root, a, b, bc, bcd, bcde, w1, w2

MCUrl == {root, a, b, bc, bcd, bcde}
MCWorker == {w1, w2}

Below == [u \in MCUrl |-> CASE u = root -> <<{a}, {b}>>
                            [] u = b    -> <<{bc}>>
                            [] u = bc   -> <<{bcd}>>
                            [] u = bcd  -> <<{bcde}>>
                            [] OTHER    -> <<>>]
MCCandidates == [s \in Strategy |-> Below]

MCAnswers == [u \in MCUrl |->
    {[accepted |-> TRUE, recurse |-> TRUE, redirected |-> FALSE, at |-> u,
      target |-> NoUrl, body |-> TRUE, tech |-> {},
      links |-> IF u = a THEN {bcd} ELSE {}]}]

MCConfigs == {[strategy |-> "bfs", onlyRedirects |-> FALSE]}
MCSeeds == <<root>>
MCDiscovered == <<>>

\* What one worker requests: it answers /a before /b, so the link wins.
OneWorkerSet == MCUrl

\* docs/scanning/recursion.md: "Regardless of the number of concurrent worker threads
\* ... a given scan target and configuration must produce exactly the same result set".
SameResultSet == exit = "done" /\ ~cancelled => sent = OneWorkerSet
=============================================================================
