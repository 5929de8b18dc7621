---------------------------- MODULE MCRecursion ----------------------------
(***************************************************************************)
(* A small site for Recursion: a root with two words under it, one of them *)
(* a directory with a word of its own, and a page x that a link, a         *)
(* redirect and framework detection can all discover.  Every route to a    *)
(* URL meets another route to it.                                          *)
(***************************************************************************)
EXTENDS Recursion

CONSTANTS root, a, b, ax, x, w1, w2

MCUrl == {root, a, b, ax, x}
MCWorker == {w1, w2}
MCOneWorker == {w1}

\* Breadth-first tries one variant per word and level; the other strategies try
\* all variants of a word together.
Under(words) == [u \in MCUrl |-> CASE u = root -> words
                                   [] u = a    -> <<{ax}>>
                                   [] u = ax   -> <<{x}>>
                                   [] OTHER    -> <<>>]

MCCandidates == [s \in Strategy |->
    IF s = "bfs" THEN Under(<<{a}, {b}, {a}>>) ELSE Under(<<{a, b}, {a}>>)]

Page(u) == [accepted |-> TRUE, recurse |-> TRUE, redirected |-> FALSE, at |-> u,
            target |-> NoUrl, body |-> TRUE, links |-> {}, tech |-> {}]
Failure(u) == [Page(u) EXCEPT !.accepted = FALSE]
Leaf(u) == [Page(u) EXCEPT !.recurse = FALSE]
Linking(u, to) == [Page(u) EXCEPT !.links = to]
Redirect(u, to, body) == [Page(u) EXCEPT !.target = to, !.body = body]

MCAnswers == [u \in MCUrl |->
    CASE u = root -> {Page(u), Linking(u, {x})}
      [] u = a    -> {Page(u), Redirect(u, x, FALSE), Redirect(u, a, TRUE), Failure(u)}
      [] u = b    -> {[Linking(u, {ax}) EXCEPT !.tech = {x}], Redirect(u, ax, TRUE)}
      [] u = x    -> {Leaf(u)}
      [] u = ax   -> {Page(u), [Page(u) EXCEPT !.redirected = TRUE, !.at = x]}]

MCConfigs == {[strategy |-> "bfs", onlyRedirects |-> FALSE],
              [strategy |-> "dfs", onlyRedirects |-> FALSE],
              [strategy |-> "bfs", onlyRedirects |-> TRUE]}

MCSeeds == <<root>>
MCDiscovered == <<b>>
=============================================================================
