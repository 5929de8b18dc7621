----------------------------- MODULE MCFlatScan -----------------------------
(* A wordlist of four lines for two producers and a worker: a comment, a     *)
(* word that is rejected, one that no URL can be joined of, and one that      *)
(* discovery may find too, in either case.                                    *)
EXTENDS FlatScan

Wordlist == <<"#", ".", ":", "a">>
Lower == [word \in {"a", "A", "robots", ":"} |-> IF word = "A" THEN "a" ELSE word]
LowerKey(url) == <<Lower[url[1]], url[2]>>

Exts == <<"", "%zz">>
NoURLs == {<<":", "">>, <<":", "%zz">>}
Found == {<<>>, << <<"a", "">>, <<"A", "">>, <<"robots", "">> >>}
\* Discovery finds the like of a word, as in a line "Disallow: /A" of robots.txt.
FoundLike == {<< <<"A", "">> >>}
BadURLs == {<<"a", "%zz">>}

-----------------------------------------------------------------------------
(* Filters and responses.                                                    *)
NoFilters ==
  [matchStatus |-> {}, filterStatus |-> {}, matchSize |-> {}, filterSize |-> {},
   matchType |-> {}, filterType |-> {}, matchRegex |-> {}, filterRegex |-> {},
   scope |-> "body", showTitle |-> FALSE, onlyRedirects |-> FALSE]

Page(status, declared, size) ==
  [status |-> status, types |-> {"html"}, declared |-> declared, size |-> size, broken |-> FALSE,
   redirected |-> FALSE, holds |-> [part \in Parts |-> IF part = "body" THEN {"rx"} ELSE {}]]

\* An ordinary page, an error, a page in chunks, and pages that break off in the
\* first 4096 bytes, in the first 1 MB and after that.
Broken(page) == [page EXCEPT !.broken = TRUE]
SomePages ==
  {Page(200, 5, 5), Page(404, 9, 9), Page(200, Unknown, 7)}
    \cup {Broken(Page(200, 5, 3)), Broken(Page(200, Unknown, 5000)), Broken(Page(200, Unknown, 1048577))}

ErrorFilter == [NoFilters EXCEPT !.filterStatus = {Wildcard(<<4, AnyDigit, AnyDigit>>)}]
SizeFilter == [NoFilters EXCEPT !.filterSize = {Exact(7)}]
EmptyFilter == [NoFilters EXCEPT !.filterSize = {Exact(0)}]
SomeSuites ==
  {NoFilters, ErrorFilter, EmptyFilter, SizeFilter, [SizeFilter EXCEPT !.showTitle = TRUE],
   [NoFilters EXCEPT !.filterRegex = {"rx"}], [NoFilters EXCEPT !.filterRegex = {"rx"}, !.scope = "url"],
   [NoFilters EXCEPT !.matchSize = {Between(1, 5)}], [NoFilters EXCEPT !.onlyRedirects = TRUE]}

\* An empty page in chunks, which --fs 0 is asked to hide.
EmptyPage == {Page(200, Unknown, 0)}
OnePage == {Page(200, 5, 5)}
=============================================================================
