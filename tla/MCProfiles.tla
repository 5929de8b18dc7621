--------------------------- MODULE MCProfiles ---------------------------
(***************************************************************************)
(* Small instances of Profiles: the embedded baseline, a profile on top of *)
(* it and one that was renamed; a directory with a chain, a cycle, an      *)
(* ambiguous base name or a bad value in it; and commands for each.        *)
(***************************************************************************)
EXTENDS Profiles, TLC

N(ns, base) == [ns |-> ns, base |-> base]
P(name, depends, config) ==
    [name |-> name, tool |-> IF name.ns = "scan" THEN "scan" ELSE "fuzz",
     depends |-> depends, config |-> config]
By(profiles) == [n \in {p.name : p \in profiles} |-> CHOOSE p \in profiles : p.name = n]
On(profiles, ext) == [f \in {File(p.name, ext) : p \in profiles} |-> By(profiles)[f.name]]

MCEmbedded == By({
    P(N("scan", "base"), <<>>, [threads |-> "32", exclude_status |-> "404", recurse_on |-> "200"]),
    P(N("scan", "quick"), <<N("scan", "base")>>, [threads |-> "64", timeout |-> "5s"]),
    P(N("fuzz", "base"), <<>>, [threads |-> "32"]),
    P(N("fuzz-extra", "cookie"), <<N("fuzz", "base")>>, [strategy |-> "bfs", cookie |-> "FOO=BAR"])})

A == N("scan", "a")
Chain == P(A, <<N("", "quick"), N("scan", "base")>>,
           [output |-> "csv", exclude_status |-> "", match_status |-> "2xx", request |-> "r"])
Other == P(N("scan", "b"), <<N("", "base")>>, [format |-> "json", output |-> "csv", strategy |-> "dfs"])
Same  == P(N("fuzz", "a"), <<>>, [follow_redirects |-> "yes", url |-> "u"])
Twice == P(N("fuzz", "b"), <<N("", "cookie"), N("fuzz-extra", "cookie")>>, <<>>)
Cycle == P(A, <<N("", "b")>>, <<>>)
Back  == P(N("scan", "b"), <<N("scan", "a")>>, <<>>)
Bad   == P(A, <<>>, [threads |-> "0"])

MCDisks == { <<>>,
             On({Chain, Other}, "yml"),
             On({Chain, Same, Twice}, "yaml"),
             On({Cycle, Back}, "yaml"),
             On({Bad}, "yaml") }

MCRewrites == { Empty, P(N("scan", "quick"), <<N("scan", "quick")>>, <<>>),
                P(A, <<N("", "base")>>, [match_regex |-> "mixed"]),
                P(A, <<N("", "nowhere")>>, [threads |-> "4"]),
                P(A, <<N("", "base")>>, [threads |-> "4", recurse_on |-> "bad"]) }

MCEditNames == {A, N("scan", "quick"), N("fuzz", "cookie")}

New  == N("scan", "new")
NewF == N("fuzz", "new")
MCCreateJobs == {
    [name |-> New, command |-> "scan", flags |-> [mc |-> "200", fc |-> "403", exclude_status |-> "500"]],
    [name |-> New, command |-> "scan", flags |-> [mc |-> "200", fs |-> "0", exclude_size |-> "10"]],
    [name |-> New, command |-> "scan", flags |-> [fc |-> "", format |-> "json", cookie |-> "c", mr |-> "good", regex_scope |-> ""]],
    [name |-> New, command |-> "scan", flags |-> [output |-> "x.json", recursive |-> "yes", strategy |-> "dfs", recurse_on |-> "403"]],
    [name |-> NewF, command |-> "fuzz", flags |-> [fc |-> "", exclude_status |-> "500", strategy |-> "dfs", threads |-> "8"]],
    [name |-> New, command |-> "scan", flags |-> [request |-> "rc", method |-> "PUT", cookie |-> "c", http_version |-> "2"]],
    [name |-> NewF, command |-> "fuzz", flags |-> [wordlist |-> "w", http_version |-> "2", cookie |-> "c", strategy |-> ""]],
    [name |-> NewF, command |-> "scan", flags |-> [threads |-> "8"]],
    [name |-> A, command |-> None, flags |-> <<>>] }

R(tool, args, flags, file) == [tool |-> tool, args |-> args, flags |-> flags, file |-> file]
U == [url |-> "u"]
MCReadJobs == {
    R("scan", <<New>>, U, <<>>),
    R("explain", <<New>>, <<>>, <<>>),
    R("explain", <<A>>, <<>>, <<>>),
    R("fuzz", <<NewF>>, U, <<>>),
    R("scan", <<N("", "quick"), A>>, U @@ [mc |-> "200", output |-> "x.json"], [threads |-> "16", strategy |-> "bad"]),
    R("scan", <<A, N("scan", "quick"), N("scan", "b")>>, U @@ [fc |-> ""], [exclude_status |-> "500", match_regex |-> "mixed"]),
    R("scan", <<N("", "a")>>, U @@ [exclude_status |-> "500", fc |-> "403"], <<>>),
    R("scan", <<A>>, <<>>, [url |-> "u"]),
    R("scan", <<A>>, [request |-> "r", method |-> "PUT"], [cookies |-> "c"]),
    R("scan", <<A>>, [request |-> "rc", cookie |-> "c"], [wordlist |-> "w"]),
    R("scan", <<A>>, U @@ [method |-> "PUT", http_version |-> "2"], [cookies |-> "c"]),
    R("fuzz", <<N("fuzz", "cookie")>>, U @@ [format |-> "json"], [strategy |-> "dfs", threads |-> "16"]),
    R("fuzz", <<N("fuzz", "a")>>, [only_redirects |-> "yes"], <<>>),
    R("fuzz", <<N("fuzz", "a")>>, [request |-> "rc", cookie |-> "c", wordlist |-> "w"], [url |-> "v"]),
    R("fuzz", <<N("fuzz", "a")>>, <<>>, [request |-> "r", wordlist |-> "w"]),
    R("fuzz", <<N("fuzz", "b")>>, U @@ [strategy |-> ""], [request |-> "r", strategy |-> "dfs"]),
    R("fuzz", <<N("fuzz", "a"), A>>, <<>>, [recurse_on |-> "200"]),
    R("scan", <<>>, U, [timeout |-> "bad"]),
    R("scan", <<A>>, U @@ [strategy |-> "dfs", recursive |-> "yes", verbose |-> "yes"], [quiet |-> "yes"]),
    R("scan", <<A>>, U @@ [strategy |-> "dfs", recursive |-> "no"], [recursive |-> "yes"]),
    R("scan", <<New>>, U @@ [mc |-> "", exclude_status |-> "bad"], [exclude_status |-> "500"]),
    R("scan", <<A>>, U @@ [fc |-> "", exclude_status |-> "403", output |-> ""], [exclude_status |-> "500", format |-> "csv"]),
    R("fuzz", <<NewF>>, U @@ [follow_redirects |-> "no", only_redirects |-> "yes"], <<>>) }
=============================================================================
