------------------------------- MODULE MCFuzz -------------------------------
(* Small plans for the fuzz runs: a candidate of one level with extensions,  *)
(* a probe of a path segment before a second one, the same with extensions,  *)
(* a second placeholder outside the URL, and one before that of the first    *)
(* level.                                                                    *)
EXTENDS FuzzTraversal

Words(fuzz, foo) ==
  [ph \in ToSet(SupportedPlaceholders) |->
     CASE ph = "FUZZ" -> fuzz [] ph = "FOO" -> foo [] OTHER -> <<>>]

Plan(url, rest, fuzz, foo, exts) ==
  [url |-> url, rest |-> rest, words |-> Words(fuzz, foo), exts |-> exts]

SmallPlans == [
  flat |-> Plan(<<"host", "/", "FUZZ">>, {}, <<"a", "b">>, <<>>, 2),
  tree |-> Plan(<<"host", "/", "pre", "FUZZ", "/", "FOO">>, {}, <<"a", "b">>, <<"a">>, 0),
  wide |-> Plan(<<"host", "/", "FUZZ", "-", "FOO">>, {}, <<"a">>, <<"a">>, 2),
  header |-> Plan(<<"host", "/", "FUZZ">>, {"FOO"}, <<"a">>, <<"c", "d">>, 0),
  backward |-> Plan(<<"host", "/", "FOO", "/", "FUZZ">>, {}, <<"a", "b">>, <<"c">>, 0)]

Traversals == {"eager", "dfs", "bfs", "priority", "adaptive"}
Run(s, p) == [strategy |-> s, plan |-> p]

InOrder == [strategy : Traversals, plan : {"tree", "wide", "header"}]
             \cup {Run("priority", "flat"), Run("eager", "flat")}
Backward == {Run("dfs", "backward")}
TwoPasses == {Run("bfs", "wide")}
=============================================================================
