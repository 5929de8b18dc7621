---------------------------- MODULE Profiles ----------------------------
(***************************************************************************)
(* Commands on profiles, each a process of its own: "profile create" and   *)
(* "profile edit" write the user's directory while "scan", "fuzz" or       *)
(* "profile explain" resolves profiles from it and composes a              *)
(* configuration (src/cmd/profile_create.go,                               *)
(* src/internal/profile/{loader.go, editor, resolver, explain},            *)
(* src/internal/config/resolver.go, src/cmd/{scan,fuzz}.go).  One Load     *)
(* reads the directory at once.  A command that is killed takes no more    *)
(* steps: nothing is fair here.                                            *)
(***************************************************************************)
EXTENDS ProfileStore, Naturals

CONSTANTS Creators,     \* the "profile create" commands
          CreateJobs,   \* what they may be asked: [name, command, flags]
          EditNames,    \* what "profile edit" may be asked to edit
          Rewrites,     \* what the user may leave in the editor, besides the original
          ReadJobs,     \* the commands that read: [tool, args, flags, file]
          Disks         \* what the user's directory may hold at first

VARIABLES
    disk,       \* the user's directory
    creator,    \* the create commands: [pc, job]
    editor,     \* the edit command: [pc, name, temp, file]
    job,        \* the reading command
    pc,         \* how far it is
    todo,       \* the profiles of its command line it has not resolved
    calling,    \* the request of a call of dfs that has not begun: a sequence of at most one
    stack,      \* the calls of dfs in progress: [req, profile, next]
    visited,    \* the requests dfs has finished
    resolved,   \* what it returns: [req, profile]
    overlays,   \* the overlays to apply, all of them
    applied,    \* how many have been applied
    cfg         \* the configuration

storeVars   == <<disk, creator, editor>>
resolveVars == <<calling, stack, visited, resolved>>
readVars    == <<job, pc, todo, calling, stack, visited, resolved, overlays, applied, cfg>>
vars        == <<disk, creator, editor, job, pc, todo, calling, stack, visited, resolved,
                 overlays, applied, cfg>>

NoFile     == File(Empty.name, "")
NoDocument == <<>>        \* a section that a file does not have

\* The new profile: empty, or the import of a command of its tool.
NewProfile(j) == [name |-> j.name, tool |-> j.name.ns, depends |-> <<>>,
                  config |-> IF j.command = None THEN <<>> ELSE buildConfig(j.command, j.flags)]

Name == [ns : STRING, base : STRING]

\* All profiles there ever are.
Known == (UNION {UserProfiles(d) : d \in Disks}) \cup Builtin \cup Rewrites \cup {Empty}
         \cup {NewProfile(j) : j \in CreateJobs}

ASSUME ProfilesAssumption ==
    /\ \A p \in Known : p.name \in Name /\ p.depends \in Seq(Name)
    /\ \A j \in ReadJobs : /\ j.tool \in {"scan", "fuzz", "explain"}
                            /\ j.args \in Seq(Name)
                            /\ DOMAIN j.flags \subseteq FlagsOf(j.tool)
    /\ \A j \in CreateJobs : j.command # None => /\ j.command \in {"scan", "fuzz"}
                                                /\ DOMAIN j.flags \subseteq FlagsOf(j.command)

\* A target is not empty; the code takes an empty one for none.
ASSUME TargetAssumption ==
    \A j \in ReadJobs : \A f \in DOMAIN j.flags \cap {"url", "request"} : j.flags[f] # ""

Init ==
    /\ disk \in Disks
    /\ creator \in [Creators -> {[pc |-> "check", job |-> j] : j \in CreateJobs}]
    /\ editor \in {[pc |-> "load", name |-> n, temp |-> Empty, file |-> NoFile] : n \in EditNames}
    /\ job \in ReadJobs
    /\ pc = "flags"
    /\ todo = job.args
    /\ calling = <<>> /\ stack = <<>> /\ visited = {} /\ resolved = <<>>
    /\ overlays = <<>> /\ applied = 0 /\ cfg = <<>>

(***************************************************************************)
(* profile create                                                          *)
(***************************************************************************)
\* The command's checks, up to the two calls of Stat.
CreateCheck(c) ==
    LET j == creator[c].job
        ok == /\ ParseName(j.name)
              /\ j.name.ns \in {"scan", "fuzz"}
              /\ j.command \in {None, j.name.ns}
              /\ ~Exists(disk, j.name)
    IN /\ creator[c].pc = "check"
       /\ creator' = [creator EXCEPT ![c].pc = IF ok THEN "open" ELSE "refused"]
       /\ UNCHANGED <<disk, editor, readVars>>

\* WriteFile empties the file first, whoever made it meanwhile.
CreateOpen(c) ==
    /\ creator[c].pc = "open"
    /\ disk' = Written(disk, File(creator[c].job.name, "yaml"), Empty)
    /\ creator' = [creator EXCEPT ![c].pc = "write"]
    /\ UNCHANGED <<editor, readVars>>

CreateWrite(c) ==
    /\ creator[c].pc = "write"
    /\ disk' = Written(disk, File(creator[c].job.name, "yaml"), NewProfile(creator[c].job))
    /\ creator' = [creator EXCEPT ![c].pc = "done"]
    /\ UNCHANGED <<editor, readVars>>

(***************************************************************************)
(* profile edit                                                            *)
(***************************************************************************)
\* The profile is copied to a temporary file, embedded or not.
EditLoad ==
    /\ editor.pc = "load"
    /\ editor' = IF ParseName(editor.name) /\ Loads(disk, editor.name)
                 THEN [editor EXCEPT !.pc = "edit", !.temp = Load(disk, editor.name)]
                 ELSE [editor EXCEPT !.pc = "failed"]
    /\ UNCHANGED <<disk, creator, readVars>>

\* The user leaves a profile behind, or the editor fails and the file goes.
EditText ==
    /\ editor.pc = "edit"
    /\ editor' \in {[editor EXCEPT !.pc = "check", !.temp = p] : p \in Rewrites \cup {editor.temp}}
                   \cup {[editor EXCEPT !.pc = "failed", !.temp = Empty]}
    /\ UNCHANGED <<disk, creator, readVars>>

\* An invalid text stays in the temporary file; for a valid one the
\* destination is looked up.  Its name is not compared with the one edited.
EditCheck ==
    /\ editor.pc = "check"
    /\ editor' = IF Valid(editor.temp)
                 THEN [editor EXCEPT !.pc = "save", !.file = SaveTo(disk, editor.name)]
                 ELSE [editor EXCEPT !.pc = "rejected"]
    /\ UNCHANGED <<disk, creator, readVars>>

\* SaveAtomically: the file is replaced by one rename, directly or from a
\* copy beside it that the loader ignores.
EditSave ==
    /\ editor.pc = "save"
    /\ disk' = Written(disk, editor.file, editor.temp)
    /\ editor' = [editor EXCEPT !.pc = "saved", !.temp = Empty]
    /\ UNCHANGED <<creator, readVars>>

\* No rename succeeds: the temporary file is removed, the edit lost.
EditSaveFails ==
    /\ editor.pc = "save"
    /\ editor' = [editor EXCEPT !.pc = "failed", !.temp = Empty]
    /\ UNCHANGED <<disk, creator, readVars>>

(***************************************************************************)
(* Resolve                                                                 *)
(***************************************************************************)
Top == stack[Len(stack)]
\* Slip: only a profile that depends on itself counts as a cycle.
OnStackParent == IF stack = <<>> THEN {} ELSE {Top.req}
OnStack == {stack[i].req : i \in 1..Len(stack)}
Fail == pc' = "failed"

\* PreRunE.
CheckFlags ==
    /\ pc = "flags"
    /\ pc' = IF PreRun(job.tool, job.flags, job.args) THEN "pick" ELSE "failed"
    /\ UNCHANGED <<storeVars, job, todo, resolveVars, overlays, applied, cfg>>

\* Each profile of the command line is resolved by a resolver of its own.
PickProfile ==
    /\ pc = "pick" /\ todo # <<>>
    /\ pc' = "resolve"
    /\ calling' = <<Head(todo)>>
    /\ stack' = <<>> /\ visited' = {} /\ resolved' = <<>>
    /\ UNCHANGED <<storeVars, job, todo, overlays, applied, cfg>>

\* A call for a request whose call is in progress: a cycle.
Cyclic ==
    /\ pc = "resolve" /\ calling # <<>>
    /\ Head(calling) \in OnStack
    /\ Fail
    /\ UNCHANGED <<storeVars, job, todo, resolveVars, overlays, applied, cfg>>

\* A call for a request that has been dealt with returns at once.
AlreadyVisited ==
    /\ pc = "resolve" /\ calling # <<>>
    /\ Head(calling) \notin OnStack
    /\ Head(calling) \in visited
    /\ calling' = <<>>
    /\ UNCHANGED <<storeVars, job, pc, todo, stack, visited, resolved, overlays, applied, cfg>>

\* Any other call loads the profile, or fails.
Visit ==
    /\ pc = "resolve" /\ calling # <<>>
    /\ Head(calling) \notin OnStack \cup visited
    /\ Loads(disk, Head(calling))
    /\ stack' = Append(stack, [req |-> Head(calling), profile |-> Load(disk, Head(calling)), next |-> 1])
    /\ calling' = <<>>
    /\ UNCHANGED <<storeVars, job, pc, todo, visited, resolved, overlays, applied, cfg>>

CannotLoad ==
    /\ pc = "resolve" /\ calling # <<>>
    /\ Head(calling) \notin OnStack \cup visited
    /\ ~Loads(disk, Head(calling))
    /\ Fail
    /\ UNCHANGED <<storeVars, job, todo, resolveVars, overlays, applied, cfg>>

\* The innermost call goes on to its next dependency.
Descend ==
    /\ pc = "resolve" /\ calling = <<>> /\ stack # <<>>
    /\ Top.next <= Len(Top.profile.depends)
    /\ calling' = <<resolveDepName(Top.profile.name, Top.profile.depends[Top.next])>>
    /\ stack' = [stack EXCEPT ![Len(stack)].next = @ + 1]
    /\ UNCHANGED <<storeVars, job, pc, todo, visited, resolved, overlays, applied, cfg>>

\* The innermost call has been through its dependencies and returns.
Finish ==
    /\ pc = "resolve" /\ calling = <<>> /\ stack # <<>>
    /\ Top.next > Len(Top.profile.depends)
    /\ visited' = visited \cup {Top.req}
    /\ resolved' = Append(resolved, [req |-> Top.req, profile |-> Top.profile])
    /\ stack' = SubSeq(stack, 1, Len(stack) - 1)
    /\ UNCHANGED <<storeVars, job, pc, todo, calling, overlays, applied, cfg>>

(***************************************************************************)
(* The configuration                                                       *)
(***************************************************************************)
\* A scan decodes whatever it resolved as an overlay of its own kind.
OverlayTool == IF job.tool = "fuzz" THEN "fuzz" ELSE "scan"

\* Every resolved profile is validated and decoded; one that is not ends it all.
Collect ==
    /\ pc = "resolve" /\ calling = <<>> /\ stack = <<>>
    /\ todo' = Tail(todo)
    /\ \/ /\ \A i \in 1..Len(resolved) : /\ Valid(resolved[i].profile)
                                         /\ Decodes(OverlayTool, resolved[i].profile.config)
          /\ overlays' = overlays \o [i \in 1..Len(resolved) |-> Overlay(resolved[i].profile.config)]
          /\ pc' = "pick"
       \/ /\ \E i \in 1..Len(resolved) : \/ ~Valid(resolved[i].profile)
                                         \/ ~Decodes(OverlayTool, resolved[i].profile.config)
          /\ Fail
          /\ UNCHANGED overlays
    /\ UNCHANGED <<storeVars, job, resolveVars, applied, cfg>>

\* LoadFile: a file that does not decode is an error, a section that it does
\* not have is empty.  Explain starts from its own defaults and no file.
LoadFile ==
    /\ pc = "pick" /\ todo = <<>>
    /\ \/ /\ job.tool = "explain"
          /\ pc' = "compose" /\ cfg' = ExplainDefault
       \/ /\ job.tool # "explain" /\ Decodes(job.tool, job.file)
          /\ pc' = "compose"
          /\ cfg' = Apply(job.tool, Default(job.tool), Overlay(job.file))
       \/ /\ job.tool # "explain" /\ ~Decodes(job.tool, job.file)
          /\ Fail /\ UNCHANGED cfg
    /\ UNCHANGED <<storeVars, job, todo, resolveVars, overlays, applied>>

\* The overlays of the profiles, from left to right.
ApplyOverlay ==
    /\ pc = "compose" /\ applied < Len(overlays)
    /\ applied' = applied + 1
    /\ cfg' = Apply(job.tool, cfg, overlays[applied + 1])
    /\ UNCHANGED <<storeVars, job, pc, todo, resolveVars, overlays>>

\* The flags, and the checks on the result.
ApplyFlags ==
    /\ pc = "compose" /\ applied = Len(overlays)
    /\ cfg' = Settle(job.tool, cfg, job.flags)
    /\ pc' = IF Conflicts(job.tool, cfg', job.flags) THEN "failed" ELSE "ready"
    /\ UNCHANGED <<storeVars, job, todo, resolveVars, overlays, applied>>

\* All commands may have ended.
Ended ==
    /\ \A c \in Creators : creator[c].pc \in {"refused", "done"}
    /\ editor.pc \in {"failed", "rejected", "saved"}
    /\ pc \in {"failed", "ready"}
    /\ UNCHANGED vars

Create(c) == CreateCheck(c) \/ CreateOpen(c) \/ CreateWrite(c)
Edit      == EditLoad \/ EditText \/ EditCheck \/ EditSave \/ EditSaveFails
Resolve   == \/ CheckFlags \/ PickProfile \/ Cyclic \/ AlreadyVisited \/ Visit \/ CannotLoad
             \/ Descend \/ Finish
Compose   == Collect \/ LoadFile \/ ApplyOverlay \/ ApplyFlags
Next      == (\E c \in Creators : Create(c)) \/ Edit \/ Resolve \/ Compose \/ Ended

Spec == Init /\ [][Next]_vars

(***************************************************************************)
(* Properties                                                              *)
(***************************************************************************)
\* Whatever the other commands do to the directory meanwhile, every profile
\* comes after all the profiles it depends on, no request is resolved twice,
\* and no call is in progress twice, so that a cycle ends the command instead
\* of descending for ever (src/internal/profile/resolver/resolver.go:20).
DependenciesFirst ==
    /\ \A i \in 1..Len(resolved) : \A d \in 1..Len(resolved[i].profile.depends) :
          \E j \in 1..i-1 : resolved[j].req = resolveDepName(resolved[i].profile.name,
                                                             resolved[i].profile.depends[d])
    /\ \A i, j \in 1..Len(resolved) : resolved[i].req = resolved[j].req => i = j
    /\ \A i, j \in 1..Len(stack) : stack[i].req = stack[j].req => i = j

\* The layers below the flags, from the lowest up.
Layers == <<Overlay(job.file)>> \o overlays

\* The value the highest of these layers gives to a key, the default where none does.
LastGiven(k) ==
    LET giving == {i \in 1..Len(Layers) : k \in DOMAIN Layers[i] /\ Takes(job.tool, k, Layers[i][k])}
    IN IF giving = {} THEN Default(job.tool)[k]
       ELSE Kept(k, Layers[CHOOSE i \in giving : \A j \in giving : j <= i][k])

\* The flags that change nothing: --verbose is no setting; codes that do not
\* parse are dropped, but fuzz takes such codes to exclude as none;
\* --exclude-status does not count beside --fc, whether or not that parses; and
\* fuzz ignores an empty strategy.
Idle(tool, flags) ==
    {"verbose"}
    \cup {f \in DOMAIN flags \cap {"mc", "fc", "exclude_status"} :
             ~ParsesStatus(flags[f]) /\ (f = "mc" \/ tool = "scan")}
    \cup (IF "fc" \in DOMAIN flags THEN {"exclude_status"} ELSE {})
    \cup (IF tool = "fuzz" THEN {f \in DOMAIN flags \cap {"strategy"} : flags[f] = ""} ELSE {})

\* What no profile and no configuration file can set: the URL of a scan, and
\* the strategy of a fuzz run, unless --strategy is empty, its wordlist and its
\* outputs.  ProfileSetsUrl and ProfileSetsStrategy below say that they do.
Deaf(tool, flags) ==
    IF tool = "scan" THEN {"url"}
    ELSE {"wordlist", "format", "output_file"}
         \cup (IF Given(flags, "strategy", "strategy", "eager") # "" THEN {"strategy"} ELSE {})

\* The keys the command line settles: those such a flag is for, the excluded
\* codes where --mc stands alone, the format where --output names a file; and,
\* given or not, those that are deaf to the other layers.
Settled(tool, flags) ==
    {cliToYAML(f) : f \in DOMAIN flags \ Idle(tool, flags)}
    \cup (IF "mc" \in DOMAIN flags \ Idle(tool, flags) /\ DOMAIN flags \cap {"fc", "exclude_status"} = {}
          THEN {"exclude_status"} ELSE {})
    \cup (IF NamesFile(flags) THEN {"format"} ELSE {})
    \cup (IF "output" \in DOMAIN flags THEN {"output_file"} ELSE {})
    \cup Deaf(tool, flags)

\* The keys a request template settles, over the flags as well.
Templated ==
    IF cfg.request \in {None, ""} \/ ~HasTarget(job.flags) THEN {}
    ELSE {"url", "method"} \cup (IF Target(job.flags).cookies # "" THEN {"cookies"} ELSE {})

\* The later layer wins: a flag over every profile and file, whatever they
\* say, the last profile over the earlier ones and over the file, the file
\* over the defaults (src/docs/configuration.md:12).  Two things the code does
\* and that page does not say: a request template stands above the flags, and
\* some keys are deaf to everything but the flags.
LayersWin ==
    pc = "ready" /\ job.tool # "explain" =>
        \A k \in DOMAIN cfg :
            cfg[k] = IF k \in Templated THEN Target(job.flags)[k]
                     ELSE IF k \in Settled(job.tool, job.flags)
                     THEN Settle(job.tool, Default(job.tool), job.flags)[k]
                     ELSE LastGiven(k)

\* A configuration has been composed, whether or not the command then starts.
Composed == pc \in {"ready", "failed"} /\ cfg # <<>> /\ job.tool # "explain"

\* The strategy of a fuzz run that no flag gives is that of its profiles and
\* file; "fuzz: threads: 64 strategy: priority" is the example for a
\* configuration file (src/docs/configuration.md:48-51).
ProfileSetsStrategy ==
    Composed /\ job.tool = "fuzz" /\ "strategy" \notin DOMAIN job.flags => cfg.strategy = LastGiven("strategy")

\* A scan without a target in its flags takes it "from values supplied via
\* profile (url:)" (src/cmd/scan.go:422-423).
ProfileSetsUrl ==
    Composed /\ job.tool = "scan" /\ ~HasTarget(job.flags) => cfg.url = LastGiven("url")

\* "Any flag explicitly passed on the command line overrides the corresponding
\* profile setting" (src/docs/profiles/guide.md:195): the method is the flag's.
FlagSetsMethod ==
    Composed /\ {"url", "method"} \subseteq DOMAIN job.flags => cfg.method = job.flags["method"]

\* A fuzz command that starts has a target: "If no CLI URL was given but a
\* profile set one, propagate it now" (src/cmd/fuzz.go:459).  The list of
\* targets it goes through was made from the flags alone.
FuzzHasTarget == pc = "ready" /\ job.tool = "fuzz" => HasTarget(job.flags)

\* The profiles are returned "with duplicates removed"
\* (src/internal/profile/resolver/resolver.go:20-22).
DuplicatesRemoved ==
    \A i, j \in 1..Len(resolved) : resolved[i].profile.name = resolved[j].profile.name => i = j

\* The configuration of the command a profile was imported from.
Direct(j) == Settle(j.command, Default(j.command), j.flags)

\* What an import cannot keep: what no profile can set, the protocol version,
\* which the importer drops, --mc's effect on the excluded codes, an empty --fc
\* of fuzz, an empty scope of the patterns, and what a template says, its
\* cookies included.
NotImported(j) ==
    (IF j.command = "scan" THEN {"url"} ELSE {"strategy", "wordlist", "format", "output_file"})
    \cup (DOMAIN j.flags \cap {"http_version"})
    \cup (IF "mc" \in DOMAIN j.flags \/ (j.command = "fuzz" /\ "" \in {j.flags[f] : f \in DOMAIN j.flags})
          THEN {"exclude_status"} ELSE {})
    \cup (IF "regex_scope" \in DOMAIN j.flags /\ j.flags["regex_scope"] = "" THEN {"regex_scope"} ELSE {})
    \cup (IF "output" \in DOMAIN j.flags THEN {"format", "output_file"} ELSE {})
    \cup (IF "request" \in DOMAIN j.flags THEN {"url", "method", "cookies"} ELSE {})

\* A command that only uses a profile imported from another command line, one
\* that could run, has the configuration of that command line, aliases and
\* their priorities included (src/internal/profile/importer/importer.go:259);
\* explain shows it, except where it shows a text that a scan ignores.
ImportKeepsMeaning ==
    \A c \in Creators : LET j == creator[c].job IN
        ( /\ pc = "ready" /\ job.file = NoDocument /\ job.args = <<j.name>>
          /\ j.command # None
          /\ overlays = <<Overlay(NewProfile(j).config)>> )
        => /\ (/\ job.tool = j.command /\ DOMAIN job.flags \subseteq {"url"}
               /\ PreRun(j.command, j.flags, <<j.name>>)) =>
                \A k \in DOMAIN cfg \ (NotImported(j) \cup {"url"}) : cfg[k] = Direct(j)[k]
           /\ job.tool = "explain" /\ j.command = "scan" =>
                \A k \in (DOMAIN cfg \cap DOMAIN Direct(j)) \ NotImported(j) :
                    Takes("scan", k, cfg[k]) => cfg[k] = Direct(j)[k]
=============================================================================
