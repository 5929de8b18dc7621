-------------------------- MODULE ProfileStore --------------------------
(***************************************************************************)
(* The profiles a command can see: those embedded in the program and those *)
(* in the user's directory (src/internal/profile/{store,loader,profile,    *)
(* validate}.go).  The directory is a function from the files that exist   *)
(* to their contents.  A name has a namespace and a base; a request        *)
(* without a slash has the namespace "".                                   *)
(***************************************************************************)
EXTENDS Settings, Naturals

CONSTANT Embedded       \* the embedded profiles: from names to profiles

\* A file that was opened for writing and not yet written: it has no schema,
\* and no decoder takes it.
Empty == [name |-> [ns |-> "", base |-> ""], tool |-> "", depends |-> <<>>, config |-> <<>>]

File(name, ext) == [name |-> name, ext |-> ext]

\* ParseName: a namespace and a base, both of plain segments.
ParseName(name) == name.ns # "" /\ name.base # ""

(***************************************************************************)
(* Reading                                                                 *)
(***************************************************************************)
\* readUserProfiles fails as a whole: on a file without a schema, on a
\* profile that is not named after its file, on a name with two files.
Readable(disk) ==
    /\ \A f \in DOMAIN disk : disk[f] # Empty /\ disk[f].name = f.name
    /\ \A f, g \in DOMAIN disk : f.name = g.name => f = g

UserProfiles(disk) == {disk[f] : f \in DOMAIN disk}
Builtin            == {Embedded[n] : n \in DOMAIN Embedded}
Named(profiles, name) == {p \in profiles : p.name = name}

\* The profiles of a base name, the embedded ones that the user overrides left out.
getProfileBaseName(disk, base) ==
    {p \in UserProfiles(disk) \cup {b \in Builtin : Named(UserProfiles(disk), b.name) = {}} :
       p.name.base = base}

\* What a request denotes: the user's profile, else the embedded one, else
\* the embedded one that fuzz/x was renamed to, else what has the base name.
Denoted(disk, req) ==
    LET layers == << Named(UserProfiles(disk), req),
                     Named(Builtin, req),
                     IF req.ns = "fuzz" THEN Named(Builtin, [req EXCEPT !.ns = "fuzz-extra"]) ELSE {},
                     IF req.ns = "" THEN getProfileBaseName(disk, req.base) ELSE {} >>
    IN UNION {layers[i] : i \in {j \in 1..4 : \A k \in 1..j-1 : layers[k] = {}}}

\* Load succeeds when the directory is readable and the request is not ambiguous.
Loads(disk, req) == Readable(disk) /\ Cardinality(Denoted(disk, req)) = 1
Load(disk, req)  == CHOOSE p \in Denoted(disk, req) : TRUE

(***************************************************************************)
(* Checking and creating                                                   *)
(***************************************************************************)
\* The generic validation: a namespace that belongs to the tool.
Validate(p) ==
    /\ p # Empty
    /\ ParseName(p.name)
    /\ p.tool = IF p.name.ns = "fuzz-extra" THEN "fuzz" ELSE p.name.ns

\* Both validations; a tool without a validator has only the first.
Valid(p) ==
    /\ Validate(p)
    /\ p.tool \in {"scan", "fuzz"} =>
          Decodes(p.tool, p.config) /\ Validator(p.tool, Overlay(p.config))

\* What Create finds in its way.
Exists(disk, name) == \/ name \in DOMAIN Embedded
                      \/ File(name, "yaml") \in DOMAIN disk
                      \/ File(name, "yml") \in DOMAIN disk

Written(disk, file, p) == [f \in DOMAIN disk \cup {file} |-> IF f = file THEN p ELSE disk[f]]

\* The file an edited profile is saved to: the one with the shorter
\* extension where the user has it.
SaveTo(disk, name) ==
    IF File(name, "yml") \in DOMAIN disk THEN File(name, "yml") ELSE File(name, "yaml")

\* A dependency without a namespace has that of the profile that names it.
resolveDepName(parent, dep) == IF dep.ns = "" THEN [dep EXCEPT !.ns = parent.ns] ELSE dep
=============================================================================
