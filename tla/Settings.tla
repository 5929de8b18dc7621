---------------------------- MODULE Settings ----------------------------
(***************************************************************************)
(* How a configuration is put together: the documents of profiles and of   *)
(* the configuration file, the overlays they decode to, the checks of the  *)
(* validators, the flags of the command line, and the importer that turns  *)
(* a command line into a document (src/internal/config,                    *)
(* src/internal/profile/{scan,fuzz,importer,explain}, src/cmd).            *)
(*                                                                         *)
(* A document, an overlay and a command line are functions from the keys   *)
(* they mention to values.  A key stands for every key that is treated     *)
(* like it: "threads" for all that are copied as they are, "timeout" for   *)
(* the durations, "match_regex" for the lists of patterns, "exclude_size"  *)
(* for both size filters, "method" for the method and the body.  Headers,  *)
(* which fuzz collects from a template and from the flags, are left out.   *)
(* Of a value only this matters: "bad" does not parse, "" is the empty     *)
(* text, "mixed" is a list with one bad pattern.                           *)
(***************************************************************************)
EXTENDS Sequences, FiniteSets

None == "none"          \* a setting nobody gave

StatusKeys     == {"exclude_status", "match_status", "recurse_on"}
ScanStrategies == {"bfs", "dfs", "priority"}
FuzzStrategies == ScanStrategies \cup {"eager"}

(***************************************************************************)
(* Documents                                                               *)
(***************************************************************************)
\* The keys a document for fuzz may have; scan knows the recursion as well.
FuzzKeys == {"url", "wordlist", "threads", "timeout", "strategy", "exclude_status", "match_status",
             "exclude_size", "match_regex", "regex_scope", "follow_redirects",
             "only_redirects", "cookies", "cookie", "format", "output", "request", "method", "quiet"}
ScanKeys == FuzzKeys \cup {"recursive", "recurse_on"}
KeysOf(tool) == IF tool = "fuzz" THEN FuzzKeys ELSE ScanKeys

\* A document decodes when it has no other keys and its durations are durations.
Decodes(tool, doc) ==
    /\ DOMAIN doc \subseteq KeysOf(tool)
    /\ "timeout" \in DOMAIN doc => doc["timeout"] # "bad"

\* The older names "output" and "cookie" count where the newer ones are absent.
Overlay(doc) ==
    LET renamed == {k \in {"format", "cookies"} :
                      [format |-> "output", cookies |-> "cookie"][k] \in DOMAIN doc}
    IN [k \in (DOMAIN doc \ {"cookie"}) \cup renamed |->
          IF k \in DOMAIN doc THEN doc[k]
          ELSE doc[[format |-> "output", cookies |-> "cookie"][k]]]

\* What the validators accept.  They skip empty texts, and "recurse_on" altogether.
Accepted(tool, o, k) ==
    CASE k = "threads"  -> o[k] # "0"
      [] k = "strategy" -> o[k] \in (IF tool = "fuzz" THEN FuzzStrategies ELSE ScanStrategies)
      [] k \in {"match_status", "exclude_status", "exclude_size", "regex_scope", "url"} -> o[k] # "bad"
      [] k = "match_regex" -> o[k] # "mixed"
      [] OTHER -> TRUE
Validator(tool, o) == \A k \in DOMAIN o : Accepted(tool, o, k)

(***************************************************************************)
(* Layers                                                                  *)
(***************************************************************************)
Default(tool) ==
    [url |-> None, wordlist |-> "", http_version |-> "auto", threads |-> "32", timeout |-> "10s", exclude_status |-> "404", match_status |-> "",
     exclude_size |-> "", match_regex |-> "", regex_scope |-> "url",
     follow_redirects |-> "no", only_redirects |-> "no", cookies |-> "", format |-> "text",
     output_file |-> None, request |-> None, method |-> None, quiet |-> "no", recursive |-> "no",
     recurse_on |-> "200", strategy |-> IF tool = "fuzz" THEN "eager" ELSE "bfs"]

ParsesStatus(v) == v \notin {"", "bad"}   \* an empty token is an error
ParsesSize(v)   == v # "bad"              \* a blank expression is no filter

\* An overlay's value that cannot be parsed leaves the field as it was.
Takes(tool, k, v) ==
    CASE k \in StatusKeys -> ParsesStatus(v)
      [] k = "exclude_size" -> ParsesSize(v)
      [] k = "strategy" /\ tool = "scan" -> v \in ScanStrategies
      [] k = "regex_scope" -> v # ""
      [] OTHER -> TRUE

\* Of a list of patterns only those that compile are kept.
Kept(k, v) == IF k = "match_regex" /\ v = "mixed" THEN "good" ELSE v

\* Slip: a value that cannot be parsed resets the field.
ApplyScanOverlayAny(cfg, o) ==
    [k \in DOMAIN cfg |-> IF k \in DOMAIN o THEN Kept(k, o[k]) ELSE cfg[k]]

ApplyScanOverlay(cfg, o) ==
    [k \in DOMAIN cfg |-> IF k \in DOMAIN o /\ Takes("scan", k, o[k]) THEN Kept(k, o[k]) ELSE cfg[k]]

\* The same for fuzz, which has no recursion and does not look at the strategy's name.
ApplyFuzzOverlay(cfg, o) ==
    [k \in DOMAIN cfg |-> IF k \in DOMAIN o \ {"recursive", "recurse_on"} /\ Takes("fuzz", k, o[k])
                          THEN Kept(k, o[k]) ELSE cfg[k]]

\* What "profile explain" shows: the values as they are written.
ExplainDefault == [threads |-> "32", timeout |-> "10s", strategy |-> "bfs", output |-> "text",
                   recurse_on |-> "200", exclude_status |-> "404"]
Explain(shown, o) == [k \in DOMAIN shown |-> IF k \in DOMAIN o THEN o[k] ELSE shown[k]]

Apply(tool, cfg, o) ==
    CASE tool = "scan" -> ApplyScanOverlay(cfg, o)
      [] tool = "fuzz" -> ApplyFuzzOverlay(cfg, o)
      [] tool = "explain" -> Explain(cfg, o)

(***************************************************************************)
(* Flags                                                                   *)
(***************************************************************************)
\* The format a file name stands for.
FormatFromPath(path) == IF path = "x.json" THEN "json" ELSE "text"

Recursive(flags) == "recursive" \in DOMAIN flags /\ flags["recursive"] = "yes"

\* The checks on single flags.  The options of the recursion need --recursive
\* itself; a scan does not look at --exclude-status.  A wordlist that cannot be
\* opened, an output that is a directory and a template that cannot be read
\* are "bad".
FlagAccepted(tool, flags, f) ==
    CASE f = "strategy" -> IF tool = "fuzz" THEN flags[f] \in FuzzStrategies \cup {""}
                           ELSE flags[f] \in ScanStrategies /\ Recursive(flags)
      [] f = "recurse_on" -> ParsesStatus(flags[f]) /\ Recursive(flags)
      [] f = "exclude_status" -> tool = "scan" \/ flags[f] # "bad"
      [] f = "threads" -> flags[f] # "0"
      [] OTHER -> flags[f] \notin {"bad", "mixed"}

\* The flags name a target.
HasTarget(flags) == DOMAIN flags \cap {"url", "request"} # {}

\* PreRunE: what a command line has to be before anything is loaded.  That a
\* flag was given counts for the pairs, even as "no".
PreRun(tool, flags, args) ==
    tool # "explain" =>
        /\ \A f \in DOMAIN flags : FlagAccepted(tool, flags, f)
        /\ ~({"follow_redirects", "only_redirects"} \subseteq DOMAIN flags)
        /\ ~({"verbose", "quiet"} \subseteq DOMAIN flags)
        /\ tool = "fuzz" => ~({"url", "request"} \subseteq DOMAIN flags)
        /\ ~HasTarget(flags) => args # <<>>

\* The flags of a command; "http_version" is the one no document has a key for.
FuzzFlags == {"url", "wordlist", "http_version", "request", "method", "threads", "timeout", "strategy", "exclude_status",
              "exclude_size", "mc", "fc", "fs", "mr", "regex_scope", "follow_redirects",
              "only_redirects", "cookie", "format", "output", "quiet", "verbose"}
FlagsOf(tool) == CASE tool = "scan" -> FuzzFlags \cup {"recursive", "recurse_on"}
                   [] tool = "fuzz" -> FuzzFlags
                   [] tool = "explain" -> {}

\* The value of the first of two flags that was given, or the old one.
Given(flags, flag, other, old) ==
    IF flag \in DOMAIN flags THEN flags[flag]
    ELSE IF other \in DOMAIN flags THEN flags[other] ELSE old

\* --fc wins over --exclude-status even when it does not parse; --mc alone
\* also takes the excluded codes away.
ScanExclude(cfg, flags) ==
    LET old == IF "mc" \in DOMAIN flags /\ ParsesStatus(flags["mc"])
                  /\ DOMAIN flags \cap {"fc", "exclude_status"} = {} THEN "" ELSE cfg.exclude_status
        v   == Given(flags, "fc", "exclude_status", old)
    IN IF ParsesStatus(v) THEN v ELSE old

\* An empty --output names no file.
NamesFile(flags) == "output" \in DOMAIN flags /\ flags["output"] # ""

ScanFormat(cfg, flags) ==
    IF "format" \notin DOMAIN flags /\ NamesFile(flags)
    THEN FormatFromPath(flags["output"]) ELSE Given(flags, "format", "format", cfg.format)

applyCLIOverrides(cfg, flags) ==
    [k \in DOMAIN cfg |->
        CASE k = "url" -> IF "request" \in DOMAIN flags THEN "template"
                          ELSE Given(flags, "url", "url", None)
          [] k = "exclude_status" -> ScanExclude(cfg, flags)
          [] k = "match_status" -> IF "mc" \in DOMAIN flags /\ ParsesStatus(flags["mc"])
                                   THEN flags["mc"] ELSE cfg[k]
          [] k = "exclude_size" -> Given(flags, "fs", "exclude_size", cfg[k])
          [] k = "match_regex" -> Given(flags, "mr", "mr", cfg[k])
          [] k = "cookies" -> Given(flags, "cookie", "cookie", cfg[k])
          [] k = "format" -> ScanFormat(cfg, flags)
          [] k = "output_file" -> Given(flags, "output", "output", cfg[k])
          [] OTHER -> Given(flags, k, k, cfg[k])]

\* The strategy flag of fuzz has a default, which is copied whether or not the
\* user gave the flag; only an empty one is not.
FuzzStrategy(cfg, flags) ==
    LET v == Given(flags, "strategy", "strategy", "eager") IN IF v = "" THEN cfg.strategy ELSE v

\* --fc "" clears the excluded codes here.
FuzzExclude(cfg, flags) ==
    LET old == IF "mc" \in DOMAIN flags /\ ParsesStatus(flags["mc"])
                  /\ DOMAIN flags \cap {"fc", "exclude_status"} = {} THEN "" ELSE cfg.exclude_status
    IN Given(flags, "fc", "exclude_status", old)

applyFuzzCLIOverrides(cfg, flags) ==
    [k \in DOMAIN cfg |->
        CASE k = "exclude_status" -> FuzzExclude(cfg, flags)
          [] k = "match_status" -> IF "mc" \in DOMAIN flags /\ ParsesStatus(flags["mc"])
                                   THEN flags["mc"] ELSE cfg[k]
          [] k = "exclude_size" -> Given(flags, "fs", "exclude_size", cfg[k])
          [] k = "match_regex" -> Given(flags, "mr", "mr", cfg[k])
          [] k = "cookies" -> Given(flags, "cookie", "cookie", cfg[k])
          [] k = "strategy" -> FuzzStrategy(cfg, flags)
          [] k \in {"url", "format", "output_file", "recursive", "recurse_on"} -> cfg[k]
          [] OTHER -> Given(flags, k, k, cfg[k])]

\* What a request template says.  "rc" is one with a Cookie header.
Template(r) == [url |-> "template", method |-> "POST", cookies |-> IF r = "rc" THEN "session" ELSE ""]

\* The first target of a command line, which has more than a URL only when
\* --request gave it.
Target(flags) == IF "request" \in DOMAIN flags THEN Template(flags["request"])
                 ELSE [url |-> flags["url"], method |-> "", cookies |-> ""]

\* Once the flags are in, a request template, wherever its name came from, puts
\* the first target in place of what was set, the cookies only if it has any.
FromTemplate(cfg, flags) ==
    IF cfg.request \in {None, ""} \/ ~HasTarget(flags) THEN cfg
    ELSE LET t == Target(flags)
         IN [cfg EXCEPT !.url = t.url, !.method = t.method,
                        !.cookies = IF t.cookies = "" THEN cfg.cookies ELSE t.cookies]

\* Fuzz reads its wordlist and formats from the flags alone, and its URL from a
\* profile where --url is absent.
FuzzSettled(cfg, flags) ==
    [FromTemplate([cfg EXCEPT !.url = Given(flags, "url", "url", cfg.url)], flags) EXCEPT
        !.wordlist = Given(flags, "wordlist", "wordlist", ""),
        !.format = Given(flags, "format", "format", "text"),
        !.output_file = Given(flags, "output", "output", None)]

Settle(tool, cfg, flags) ==
    CASE tool = "scan" -> FromTemplate(applyCLIOverrides(cfg, flags), flags)
      [] tool = "fuzz" -> FuzzSettled(applyFuzzCLIOverrides(cfg, flags), flags)
      [] tool = "explain" -> cfg

\* Both redirect modes at once, --verbose with a quiet configuration, or no
\* target end the command.
Conflicts(tool, cfg, flags) ==
    /\ tool # "explain"
    /\ \/ "verbose" \in DOMAIN flags /\ cfg.quiet = "yes"
       \/ cfg.follow_redirects = "yes" /\ cfg.only_redirects = "yes"
       \/ cfg.url = None /\ "request" \notin DOMAIN flags

(***************************************************************************)
(* The importer                                                            *)
(***************************************************************************)
\* The key a flag is stored under.
cliToYAML(flag) ==
    CASE flag = "cookie" -> "cookies"
      [] flag = "mc" -> "match_status"
      [] flag = "fc" -> "exclude_status"
      [] flag = "fs" -> "exclude_size"
      [] flag = "mr" -> "match_regex"
      [] OTHER -> flag
aliasFlags == {"fc", "fs"}
RuntimeFlags == {"output"}      \* excluded although "output" is a key

\* Slip: an alias does not beat the flag it stands for.
buildConfigFirst(tool, flags) ==
    LET stored(k) == {f \in DOMAIN flags \ RuntimeFlags : cliToYAML(f) = k}
        plain(k)  == stored(k) \ aliasFlags
        winner(k) == IF plain(k) # {} THEN CHOOSE f \in plain(k) : TRUE
                     ELSE CHOOSE f \in stored(k) : TRUE
    IN [k \in {q \in KeysOf(tool) \ {"cookie"} : stored(q) # {}} |-> flags[winner(k)]]

\* The document for a command line: one entry for every key, the alias's
\* value where a flag and its alias share the key.
buildConfig(tool, flags) ==
    LET stored(k) == {f \in DOMAIN flags \ RuntimeFlags : cliToYAML(f) = k}
        alias(k)  == stored(k) \cap aliasFlags
        winner(k) == IF alias(k) # {} THEN CHOOSE f \in alias(k) : TRUE
                     ELSE CHOOSE f \in stored(k) : TRUE
    IN [k \in {q \in KeysOf(tool) \ {"cookie"} : stored(q) # {}} |-> flags[winner(k)]]
=============================================================================
