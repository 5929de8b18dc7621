------------------------- MODULE ProfilesProofs -------------------------
(***************************************************************************)
(* Proofs about Profiles: the resolver returns every profile after the     *)
(* ones it depends on, whatever the directory holds, whatever else writes  *)
(* to it meanwhile and whatever the profiles depend on.                    *)
(***************************************************************************)
EXTENDS Profiles, FiniteSetTheorems, SequenceTheorems, TLAPS

Frame == [req : Name, profile : Known, next : Nat]
Entry == [req : Name, profile : Known]

CreatePCs == {"check", "refused", "open", "write", "done"}
EditPCs   == {"load", "edit", "check", "save", "saved", "rejected", "failed"}

\* What the commands that write keep: the directory and the editor hold known profiles.
StoreOK ==
    /\ \A f \in DOMAIN disk : disk[f] \in Known
    /\ creator \in [Creators -> [pc : CreatePCs, job : CreateJobs]]
    /\ editor \in [pc : EditPCs, name : EditNames, temp : Known,
                   file : {NoFile} \cup {File(n, e) : n \in EditNames, e \in {"yaml", "yml"}}]

\* The types of what the resolver works on.
ResolveOK ==
    /\ todo \in Seq(Name)
    /\ calling = <<>> \/ \E r \in Name : calling = <<r>>
    /\ stack \in Seq(Frame)
    /\ visited \in SUBSET Name
    /\ resolved \in Seq(Entry)

\* What the d-th dependency of a profile requests.
Dep(p, d) == resolveDepName(p.name, p.depends[d])

\* The finished calls are those that were returned.
Finished == visited = {resolved[i].req : i \in 1..Len(resolved)}

\* No call in progress is finished.
Unfinished == \A i \in 1..Len(stack) : stack[i].req \notin visited

\* A dependency a call has gone past is finished, or is the last one it went
\* to: then it is being called, or its call is the next one on the stack.
Behind ==
    \A i \in 1..Len(stack) :
        /\ stack[i].next \in 1..Len(stack[i].profile.depends) + 1
        /\ \A d \in 1..stack[i].next - 1 :
              \/ Dep(stack[i].profile, d) \in visited
              \/ /\ d = stack[i].next - 1 /\ i = Len(stack)
                 /\ calling = <<Dep(stack[i].profile, d)>>
              \/ /\ d = stack[i].next - 1 /\ i < Len(stack)
                 /\ stack[i + 1].req = Dep(stack[i].profile, d)

\* The conjuncts of DependenciesFirst.
DepsBefore ==
    \A i \in 1..Len(resolved) : \A d \in 1..Len(resolved[i].profile.depends) :
        \E j \in 1..i-1 : resolved[j].req = Dep(resolved[i].profile, d)
OnceResolved == \A i, j \in 1..Len(resolved) : resolved[i].req = resolved[j].req => i = j
OnceStacked  == \A i, j \in 1..Len(stack) : stack[i].req = stack[j].req => i = j

ResolveInv == Finished /\ Unfinished /\ Behind /\ DepsBefore /\ OnceResolved /\ OnceStacked

\* What is being resolved is still to be resolved.
Picked == pc = "resolve" => todo # <<>>

IInv == StoreOK /\ ResolveOK /\ Picked /\ ResolveInv

(***************************************************************************)
(* The directory                                                           *)
(***************************************************************************)
\* What the directory gets is what was in it and what was written.
LEMMA WrittenKnown ==
    ASSUME NEW D, \A f \in DOMAIN D : D[f] \in Known, NEW file, NEW p \in Known
    PROVE  \A f \in DOMAIN Written(D, file, p) : Written(D, file, p)[f] \in Known
  BY DEF Written

\* A load returns a profile of the directory or of the program.
LEMMA LoadKnown ==
    ASSUME NEW D, \A f \in DOMAIN D : D[f] \in Known, NEW q, Loads(D, q)
    PROVE  Load(D, q) \in Known
<1>1. UserProfiles(D) \subseteq Known
  BY DEF UserProfiles
<1>2. Builtin \subseteq Known
  BY DEF Known
<1> DEFINE L == << Named(UserProfiles(D), q),
                   Named(Builtin, q),
                   IF q.ns = "fuzz" THEN Named(Builtin, [q EXCEPT !.ns = "fuzz-extra"]) ELSE {},
                   IF q.ns = "" THEN getProfileBaseName(D, q.base) ELSE {} >>
<1>3. L[1] \subseteq Known /\ L[2] \subseteq Known
  BY <1>1, <1>2 DEF Named
<1>4. L[3] \subseteq Known
  BY <1>2 DEF Named
<1>5. L[4] \subseteq Known
  BY <1>1, <1>2 DEF getProfileBaseName
<1>6. Denoted(D, q) = UNION {L[i] : i \in {j \in 1..4 : \A k \in 1..j-1 : L[k] = {}}}
  BY DEF Denoted
<1>7. \A i \in 1..4 : L[i] \subseteq Known
  <2>1. \A i \in 1..4 : i = 1 \/ i = 2 \/ i = 3 \/ i = 4
    OBVIOUS
  <2> HIDE DEF L
  <2> QED  BY <2>1, <1>3, <1>4, <1>5
<1> HIDE DEF L
<1>8. Denoted(D, q) \subseteq Known
  BY <1>6, <1>7
<1>9. Denoted(D, q) # {}
  <2>1. Cardinality(Denoted(D, q)) = 1
    BY DEF Loads
  <2>2. Cardinality({}) = 0
    BY FS_EmptySet
  <2> QED  BY <2>1, <2>2
<1> QED  BY <1>8, <1>9 DEF Load

\* What a profile depends on is the name of a request.
LEMMA DepType ==
    ASSUME NEW p \in Known, NEW d \in 1..Len(p.depends)
    PROVE  Dep(p, d) \in Name
<1>1. p.name \in Name /\ p.depends[d] \in Name
  BY ProfilesAssumption
<1> QED  BY <1>1 DEF Dep, resolveDepName, Name

\* The number of a profile's dependencies.
LEMMA DependsLen == ASSUME NEW p \in Known PROVE Len(p.depends) \in Nat
  BY ProfilesAssumption

(***************************************************************************)
(* The commands that write                                                 *)
(***************************************************************************)
LEMMA InitStore == ASSUME Init PROVE StoreOK
<1>1. \A f \in DOMAIN disk : disk[f] \in Known
  BY DEF Init, Known, UserProfiles
<1>2. creator \in [Creators -> [pc : CreatePCs, job : CreateJobs]]
  <2>1. \A j \in CreateJobs : [pc |-> "check", job |-> j] \in [pc : CreatePCs, job : CreateJobs]
    BY DEF CreatePCs
  <2> DEFINE T == [pc : CreatePCs, job : CreateJobs]
             S == {[pc |-> "check", job |-> j] : j \in CreateJobs}
  <2>2. S \subseteq T
    BY <2>1
  <2>3. creator \in [Creators -> S]
    BY DEF Init
  <2> HIDE DEF S, T
  <2>4. creator \in [Creators -> T]
    BY <2>2, <2>3
  <2> QED  BY <2>4 DEF T
<1>3. Empty \in Known
  BY DEF Known
<1>4. editor \in [pc : EditPCs, name : EditNames, temp : Known,
                  file : {NoFile} \cup {File(n, e) : n \in EditNames, e \in {"yaml", "yml"}}]
  BY <1>3 DEF Init, EditPCs
<1> QED  BY <1>1, <1>2, <1>4 DEF StoreOK

\* "profile create" writes an empty file and the new profile.
LEMMA CreateStore ==
    ASSUME StoreOK, NEW c \in Creators, Create(c)
    PROVE  StoreOK' /\ UNCHANGED readVars
<1>1. creator' \in [Creators -> [pc : CreatePCs, job : CreateJobs]]
  <2>1. creator \in [Creators -> [pc : CreatePCs, job : CreateJobs]]
    BY DEF StoreOK
  <2>2. \E s \in CreatePCs : creator' = [creator EXCEPT ![c].pc = s]
    <3>1. CASE CreateCheck(c)
      <4>1. \/ creator' = [creator EXCEPT ![c].pc = "open"]
            \/ creator' = [creator EXCEPT ![c].pc = "refused"]
        BY <3>1 DEF CreateCheck
      <4> QED  BY <4>1 DEF CreatePCs
    <3>2. CASE CreateOpen(c)
      BY <3>2 DEF CreateOpen, CreatePCs
    <3>3. CASE CreateWrite(c)
      BY <3>3 DEF CreateWrite, CreatePCs
    <3> QED  BY <3>1, <3>2, <3>3 DEF Create
  <2> QED  BY <2>1, <2>2
<1>2. \A f \in DOMAIN disk' : disk'[f] \in Known
  <2>1. CASE CreateCheck(c)
    BY <2>1 DEF CreateCheck, StoreOK
  <2>2. CASE CreateOpen(c)
    <3>1. Empty \in Known
      BY DEF Known
    <3> QED  BY <2>2, <3>1, WrittenKnown DEF CreateOpen, StoreOK
  <2>3. CASE CreateWrite(c)
    <3>1. creator[c].job \in CreateJobs
      BY DEF StoreOK
    <3>2. NewProfile(creator[c].job) \in Known
      BY <3>1 DEF Known
    <3> QED  BY <2>3, <3>2, WrittenKnown DEF CreateWrite, StoreOK
  <2> QED  BY <2>1, <2>2, <2>3 DEF Create
<1>3. UNCHANGED <<editor, readVars>>
  BY DEF Create, CreateCheck, CreateOpen, CreateWrite
<1> QED  BY <1>1, <1>2, <1>3 DEF StoreOK

\* "profile edit" holds a profile it loaded or the user wrote, and saves that.
LEMMA EditStore ==
    ASSUME StoreOK, Edit
    PROVE  StoreOK' /\ UNCHANGED readVars
<1> DEFINE Files == {NoFile} \cup {File(n, e) : n \in EditNames, e \in {"yaml", "yml"}}
           Editor == [pc : EditPCs, name : EditNames, temp : Known, file : Files]
<1>1. Empty \in Known /\ Rewrites \subseteq Known
  BY DEF Known
<1>2. editor \in Editor /\ \A f \in DOMAIN disk : disk[f] \in Known
  BY DEF StoreOK
<1>3. UNCHANGED <<creator, readVars>>
  BY DEF Edit, EditLoad, EditText, EditCheck, EditSave, EditSaveFails
<1>4. SaveTo(disk, editor.name) \in Files
  BY <1>2 DEF SaveTo
<1> HIDE DEF Files, Editor
<1>5. \A s \in EditPCs : [editor EXCEPT !.pc = s] \in Editor
  BY <1>2 DEF Editor
<1>6. \A s \in EditPCs, p \in Known : [editor EXCEPT !.pc = s, !.temp = p] \in Editor
  BY <1>2 DEF Editor
<1>7. \A s \in EditPCs, f \in Files : [editor EXCEPT !.pc = s, !.file = f] \in Editor
  BY <1>2 DEF Editor
<1>8. editor.temp \in Known
  BY <1>2 DEF Editor
<1>9. editor' \in Editor /\ \A f \in DOMAIN disk' : disk'[f] \in Known
  <2>1. CASE EditLoad
    <3>1. CASE ParseName(editor.name) /\ Loads(disk, editor.name)
      <4>1. Load(disk, editor.name) \in Known
        BY <1>2, <3>1, LoadKnown
      <4> QED  BY <1>2, <1>6, <2>1, <3>1, <4>1 DEF EditLoad, EditPCs
    <3>2. CASE ~(ParseName(editor.name) /\ Loads(disk, editor.name))
      BY <1>2, <1>5, <2>1, <3>2 DEF EditLoad, EditPCs
    <3> QED  BY <3>1, <3>2
  <2>2. CASE EditText
    <3>1. disk' = disk /\ \E s \in EditPCs, p \in Known : editor' = [editor EXCEPT !.pc = s, !.temp = p]
      BY <1>1, <1>8, <2>2 DEF EditText, EditPCs
    <3> QED  BY <1>2, <1>6, <3>1
  <2>3. CASE EditCheck
    <3>1. disk' = disk
      BY <2>3 DEF EditCheck
    <3>2. \/ editor' = [editor EXCEPT !.pc = "save", !.file = SaveTo(disk, editor.name)]
          \/ editor' = [editor EXCEPT !.pc = "rejected"]
      BY <2>3 DEF EditCheck
    <3> QED  BY <1>2, <1>4, <1>5, <1>7, <3>1, <3>2 DEF EditPCs
  <2>4. CASE EditSave
    <3>1. editor' = [editor EXCEPT !.pc = "saved", !.temp = Empty]
      BY <2>4 DEF EditSave
    <3>2. disk' = Written(disk, editor.file, editor.temp)
      BY <2>4 DEF EditSave
    <3> QED  BY <1>1, <1>2, <1>6, <1>8, <3>1, <3>2, WrittenKnown DEF EditPCs
  <2>5. CASE EditSaveFails
    <3>1. disk' = disk /\ editor' = [editor EXCEPT !.pc = "failed", !.temp = Empty]
      BY <2>5 DEF EditSaveFails
    <3> QED  BY <1>1, <1>2, <1>6, <3>1 DEF EditPCs
  <2> QED  BY <2>1, <2>2, <2>3, <2>4, <2>5 DEF Edit
<1>10. editor' \in [pc : EditPCs, name : EditNames, temp : Known,
                    file : {NoFile} \cup {File(n, e) : n \in EditNames, e \in {"yaml", "yml"}}]
  BY <1>9 DEF Editor, Files
<1> QED  BY <1>3, <1>9, <1>10 DEF StoreOK

(***************************************************************************)
(* The resolver                                                            *)
(***************************************************************************)
\* A step that leaves the calls and the results alone.
LEMMA ResolveFrame ==
    ASSUME ResolveOK, ResolveInv, UNCHANGED resolveVars, todo' \in Seq(Name)
    PROVE  ResolveOK' /\ ResolveInv'
<1>1. ResolveOK'
  BY DEF ResolveOK, resolveVars
<1>2. Finished' /\ Unfinished' /\ DepsBefore' /\ OnceResolved' /\ OnceStacked'
  BY DEF ResolveInv, Finished, Unfinished, DepsBefore, OnceResolved, OnceStacked, resolveVars
<1>3. Behind'
  BY DEF ResolveInv, Behind, resolveVars
<1> QED  BY <1>1, <1>2, <1>3 DEF ResolveInv

\* Nothing has been called yet.
LEMMA FreshResolver ==
    ASSUME todo' \in Seq(Name), calling' = <<>> \/ \E r \in Name : calling' = <<r>>,
           stack' = <<>>, visited' = {}, resolved' = <<>>
    PROVE  ResolveOK' /\ ResolveInv'
<1>1. ResolveOK'
  BY DEF ResolveOK
<1>2. Finished' /\ Unfinished' /\ DepsBefore' /\ OnceResolved' /\ OnceStacked'
  BY DEF Finished, Unfinished, DepsBefore, OnceResolved, OnceStacked
<1>3. Behind'
  BY DEF Behind
<1> QED  BY <1>1, <1>2, <1>3 DEF ResolveInv

LEMMA PickProfileResolve ==
    ASSUME ResolveOK, ResolveInv, PickProfile
    PROVE  ResolveOK' /\ ResolveInv'
<1>1. todo \in Seq(Name) /\ todo # <<>> /\ todo' = todo
  BY DEF PickProfile, ResolveOK
<1>2. Head(todo) \in Name
  BY <1>1
<1>3. stack' = <<>> /\ visited' = {} /\ resolved' = <<>> /\ calling' = <<Head(todo)>>
  BY DEF PickProfile
<1> QED  BY <1>1, <1>2, <1>3, FreshResolver

\* A call that returns at once was for something finished.
LEMMA AlreadyVisitedResolve ==
    ASSUME ResolveOK, ResolveInv, AlreadyVisited
    PROVE  ResolveOK' /\ ResolveInv'
<1>1. UNCHANGED <<todo, stack, visited, resolved>> /\ calling' = <<>>
  BY DEF AlreadyVisited
<1>2. PICK r \in Name : calling = <<r>>
  BY DEF AlreadyVisited, ResolveOK
<1>3. r \in visited
  BY <1>2 DEF AlreadyVisited
<1>4. ResolveOK'
  BY <1>1 DEF ResolveOK
<1>5. Finished' /\ Unfinished' /\ DepsBefore' /\ OnceResolved' /\ OnceStacked'
  BY <1>1 DEF ResolveInv, Finished, Unfinished, DepsBefore, OnceResolved, OnceStacked
<1>6. Behind'
  <2>1. ASSUME NEW i \in 1..Len(stack), NEW d \in 1..stack[i].next - 1,
               calling = <<Dep(stack[i].profile, d)>>
        PROVE  Dep(stack[i].profile, d) \in visited
    BY <1>2, <1>3, <2>1
  <2> QED  BY <1>1, <2>1 DEF ResolveInv, Behind
<1> QED  BY <1>4, <1>5, <1>6 DEF ResolveInv

\* The call that begins is new to the stack, and is the one its caller waits for.
LEMMA VisitResolve ==
    ASSUME StoreOK, ResolveOK, ResolveInv, Visit
    PROVE  ResolveOK' /\ ResolveInv'
<1>1. UNCHANGED <<todo, visited, resolved>> /\ calling' = <<>>
  BY DEF Visit
<1>2. PICK r \in Name : calling = <<r>>
  BY DEF Visit, ResolveOK
<1>3. r \notin visited /\ r \notin OnStack /\ Loads(disk, r)
  BY <1>2 DEF Visit
<1> DEFINE p == Load(disk, r)
           f == [req |-> r, profile |-> p, next |-> 1]
<1>4. stack' = Append(stack, f)
  BY <1>2 DEF Visit
<1>5. p \in Known
  BY <1>3, LoadKnown DEF StoreOK
<1>6. Len(p.depends) \in Nat
  BY <1>5, DependsLen
<1> HIDE DEF p
<1>7. f \in Frame
  BY <1>2, <1>5 DEF Frame
<1>8. f.req = r /\ f.next = 1 /\ f.profile = p
  OBVIOUS
<1> HIDE DEF f
<1>9. stack \in Seq(Frame) /\ Len(stack) \in Nat
  BY DEF ResolveOK
<1>10. /\ stack' \in Seq(Frame)
       /\ Len(stack') = Len(stack) + 1
       /\ \A i \in 1..Len(stack) : stack'[i] = stack[i]
       /\ stack'[Len(stack) + 1] = f
  BY <1>4, <1>7, <1>9
<1>11. ResolveOK'
  BY <1>1, <1>10 DEF ResolveOK
<1>12. Finished' /\ DepsBefore' /\ OnceResolved'
  BY <1>1 DEF ResolveInv, Finished, DepsBefore, OnceResolved
<1>13. Unfinished'
  BY <1>1, <1>3, <1>8, <1>9, <1>10 DEF ResolveInv, Unfinished
<1>14. OnceStacked'
  <2>1. \A i \in 1..Len(stack) : stack[i].req # r
    BY <1>3 DEF OnStack
  <2> QED  BY <2>1, <1>8, <1>9, <1>10 DEF ResolveInv, OnceStacked
<1>15. Behind'
  <2> SUFFICES ASSUME NEW i \in 1..Len(stack')
               PROVE  /\ stack'[i].next \in 1..Len(stack'[i].profile.depends) + 1
                      /\ \A d \in 1..stack'[i].next - 1 :
                           \/ Dep(stack'[i].profile, d) \in visited'
                           \/ /\ d = stack'[i].next - 1 /\ i = Len(stack')
                              /\ calling' = <<Dep(stack'[i].profile, d)>>
                           \/ /\ d = stack'[i].next - 1 /\ i < Len(stack')
                              /\ stack'[i + 1].req = Dep(stack'[i].profile, d)
    BY DEF Behind
  <2>1. CASE i = Len(stack) + 1
    <3>1. stack'[i].next = 1 /\ stack'[i].profile = p
      BY <2>1, <1>8, <1>10
    <3> QED  BY <3>1, <1>6
  <2>2. CASE i \in 1..Len(stack)
    <3>1. stack'[i] = stack[i] /\ i < Len(stack')
      BY <2>2, <1>9, <1>10
    <3>2. stack[i].next \in 1..Len(stack[i].profile.depends) + 1
      BY <2>2 DEF ResolveInv, Behind
    <3>3. ASSUME NEW d \in 1..stack[i].next - 1
          PROVE  \/ Dep(stack[i].profile, d) \in visited
                 \/ /\ d = stack[i].next - 1
                    /\ stack'[i + 1].req = Dep(stack[i].profile, d)
      <4>1. \/ Dep(stack[i].profile, d) \in visited
            \/ /\ d = stack[i].next - 1 /\ i = Len(stack)
               /\ calling = <<Dep(stack[i].profile, d)>>
            \/ /\ d = stack[i].next - 1 /\ i < Len(stack)
               /\ stack[i + 1].req = Dep(stack[i].profile, d)
        BY <2>2, <3>3 DEF ResolveInv, Behind
      <4>2. CASE i = Len(stack) /\ calling = <<Dep(stack[i].profile, d)>>
        <5>1. Dep(stack[i].profile, d) = r
          <6>1. calling[1] = r
            BY <1>2
          <6>2. calling[1] = Dep(stack[i].profile, d)
            BY <4>2
          <6> QED  BY <6>1, <6>2
        <5>2. stack'[i + 1].req = r
          BY <4>2, <1>8, <1>10
        <5> QED  BY <5>1, <5>2, <4>1
      <4>3. CASE i < Len(stack) /\ stack[i + 1].req = Dep(stack[i].profile, d)
        <5>1. i + 1 \in 1..Len(stack)
          BY <4>3, <2>2, <1>9
        <5> QED  BY <5>1, <4>1, <4>3, <1>10
      <4> QED  BY <4>1, <4>2, <4>3
    <3> QED  BY <1>1, <3>1, <3>2, <3>3
  <2> QED  BY <2>1, <2>2, <1>9, <1>10
<1> QED  BY <1>11, <1>12, <1>13, <1>14, <1>15 DEF ResolveInv

\* The dependency the innermost call goes on to is the one that is called.
LEMMA DescendResolve ==
    ASSUME ResolveOK, ResolveInv, Descend
    PROVE  ResolveOK' /\ ResolveInv'
<1> DEFINE n == Len(stack)
           r == Dep(Top.profile, Top.next)
           f == [Top EXCEPT !.next = @ + 1]
<1>1. UNCHANGED <<todo, visited, resolved>> /\ calling = <<>> /\ stack # <<>>
  BY DEF Descend
<1>2. calling' = <<r>>
  BY DEF Descend, Dep
<1>3. stack \in Seq(Frame) /\ n \in Nat \ {0}
  BY <1>1 DEF ResolveOK
<1>4. Top \in Frame /\ Top = stack[n]
  BY <1>3 DEF Top
<1>5. Top.next \in 1..Len(Top.profile.depends)
  <2>1. n \in 1..Len(stack)
    BY <1>3
  <2>2. Top.next \in 1..Len(Top.profile.depends) + 1 /\ Len(Top.profile.depends) \in Nat
    BY <2>1, <1>4, DependsLen DEF ResolveInv, Behind, Frame
  <2> QED  BY <2>2 DEF Descend
<1>6. r \in Name
  BY <1>4, <1>5, DepType DEF Frame
<1>7. f \in Frame /\ f.req = Top.req /\ f.profile = Top.profile /\ f.next = Top.next + 1
  BY <1>4 DEF Frame
<1>8. stack' = [stack EXCEPT ![n] = f]
  BY <1>4 DEF Descend
<1> HIDE DEF r, f
<1>9. /\ stack' \in Seq(Frame)
      /\ Len(stack') = n
      /\ \A i \in 1..n : stack'[i] = IF i = n THEN f ELSE stack[i]
  BY <1>3, <1>7, <1>8
<1>10. \A i \in 1..n : stack'[i].req = stack[i].req /\ stack'[i].profile = stack[i].profile
  BY <1>4, <1>7, <1>9
<1> HIDE DEF n
<1>11. ResolveOK'
  BY <1>1, <1>2, <1>6, <1>9 DEF ResolveOK
<1>12. Finished' /\ DepsBefore' /\ OnceResolved'
  BY <1>1 DEF ResolveInv, Finished, DepsBefore, OnceResolved
<1>13. Unfinished' /\ OnceStacked'
  BY <1>1, <1>9, <1>10 DEF ResolveInv, Unfinished, OnceStacked, n
<1>14. Behind'
  <2> SUFFICES ASSUME NEW i \in 1..n
               PROVE  /\ stack'[i].next \in 1..Len(stack'[i].profile.depends) + 1
                      /\ \A d \in 1..stack'[i].next - 1 :
                           \/ Dep(stack'[i].profile, d) \in visited'
                           \/ /\ d = stack'[i].next - 1 /\ i = Len(stack')
                              /\ calling' = <<Dep(stack'[i].profile, d)>>
                           \/ /\ d = stack'[i].next - 1 /\ i < Len(stack')
                              /\ stack'[i + 1].req = Dep(stack'[i].profile, d)
    BY <1>9 DEF Behind
  <2>1. stack[i].next \in 1..Len(stack[i].profile.depends) + 1
    BY DEF ResolveInv, Behind, n
  <2>2. \A d \in 1..stack[i].next - 1 :
           \/ Dep(stack[i].profile, d) \in visited
           \/ /\ d = stack[i].next - 1 /\ i < n
              /\ stack[i + 1].req = Dep(stack[i].profile, d)
    BY <1>1 DEF ResolveInv, Behind, n
  <2>3. CASE i = n
    <3>1. stack'[i].next = stack[i].next + 1 /\ stack'[i].profile = stack[i].profile
      BY <2>3, <1>4, <1>7, <1>9
    <3>2. stack'[i].next \in 1..Len(stack'[i].profile.depends) + 1
      BY <3>1, <2>1, <2>3, <1>4, <1>5
    <3>3. \A d \in 1..stack[i].next - 1 : Dep(stack[i].profile, d) \in visited
      BY <2>2, <2>3, <1>3
    <3>4. r = Dep(stack[i].profile, stack[i].next)
      BY <2>3, <1>4 DEF r
    <3> QED  BY <1>1, <1>2, <1>9, <2>1, <2>3, <3>1, <3>2, <3>3, <3>4
  <2>4. CASE i < n
    <3>1. stack'[i] = stack[i] /\ i + 1 \in 1..n
      BY <2>4, <1>3, <1>9
    <3>2. stack'[i + 1].req = stack[i + 1].req
      BY <3>1, <1>10
    <3> QED  BY <1>1, <1>9, <2>1, <2>2, <2>4, <3>1, <3>2
  <2> QED  BY <2>3, <2>4, <1>3
<1> QED  BY <1>11, <1>12, <1>13, <1>14 DEF ResolveInv

\* A call that returns has all of its dependencies behind it, all of them
\* finished; then its caller's last one is finished as well.
LEMMA FinishResolve ==
    ASSUME ResolveOK, ResolveInv, Finish
    PROVE  ResolveOK' /\ ResolveInv'
<1> DEFINE n == Len(stack)
           m == Len(resolved)
           e == [req |-> Top.req, profile |-> Top.profile]
<1>1. UNCHANGED <<todo, calling>> /\ calling = <<>> /\ stack # <<>>
  BY DEF Finish
<1>2. stack \in Seq(Frame) /\ n \in Nat \ {0} /\ resolved \in Seq(Entry) /\ m \in Nat
  BY <1>1 DEF ResolveOK
<1>3. Top \in Frame /\ Top = stack[n]
  BY <1>2 DEF Top
<1>4. visited' = visited \cup {Top.req}
  BY DEF Finish
<1>5. e \in Entry /\ e.req = Top.req /\ e.profile = Top.profile
  BY <1>3 DEF Frame, Entry
<1>6. resolved' = Append(resolved, e) /\ stack' = SubSeq(stack, 1, n - 1)
  BY DEF Finish
<1>7. Len(Top.profile.depends) \in Nat
  BY <1>3, DependsLen DEF Frame
<1> HIDE DEF e
<1>8. /\ resolved' \in Seq(Entry)
      /\ Len(resolved') = m + 1
      /\ \A i \in 1..m : resolved'[i] = resolved[i]
      /\ resolved'[m + 1] = e
  BY <1>2, <1>5, <1>6
<1>9. /\ stack' \in Seq(Frame)
      /\ Len(stack') = n - 1
      /\ \A i \in 1..n - 1 : stack'[i] = stack[i]
  <2>1. \A i \in 1..n - 1 : stack[i] \in Frame
    BY <1>2
  <2> HIDE DEF n
  <2>2. /\ SubSeq(stack, 1, n - 1) \in Seq(Frame)
        /\ Len(SubSeq(stack, 1, n - 1)) = IF 1 <= n - 1 THEN n - 1 - 1 + 1 ELSE 0
        /\ \A i \in 1..n - 1 - 1 + 1 : SubSeq(stack, 1, n - 1)[i] = stack[1 + i - 1]
    BY <2>1, <1>2, SubSeqProperties
  <2> QED  BY <2>2, <1>2, <1>6
<1>10. Top.req \notin visited
  BY <1>2, <1>3 DEF ResolveInv, Unfinished
<1>11. \A d \in 1..Len(Top.profile.depends) : Dep(Top.profile, d) \in visited
  <2> SUFFICES ASSUME NEW d \in 1..Len(Top.profile.depends) PROVE Dep(Top.profile, d) \in visited
    OBVIOUS
  <2>1. d \in 1..stack[n].next - 1
    BY <1>3, <1>7 DEF Finish, Frame
  <2>2. n \in 1..n
    BY <1>2
  <2>3. \/ Dep(stack[n].profile, d) \in visited
        \/ calling = <<Dep(stack[n].profile, d)>>
        \/ n < n
    BY <2>1, <2>2 DEF ResolveInv, Behind
  <2> QED  BY <2>3, <1>1, <1>2, <1>3
<1>12. \A i \in 1..m : resolved[i].req \in visited
  BY DEF ResolveInv, Finished
<1>13. \A q \in visited : \E j \in 1..m : resolved[j].req = q
  BY DEF ResolveInv, Finished
<1> HIDE DEF n, m
<1>14. ResolveOK'
  <2>1. visited' \in SUBSET Name
    BY <1>3, <1>4 DEF ResolveOK, Frame
  <2> QED  BY <2>1, <1>1, <1>8, <1>9 DEF ResolveOK
<1>15. Finished'
  <2>1. \A i \in 1..m + 1 : resolved'[i].req \in visited'
    BY <1>2, <1>4, <1>5, <1>8, <1>12
  <2>2. \A q \in visited' : \E j \in 1..m + 1 : resolved'[j].req = q
    BY <1>2, <1>4, <1>5, <1>8, <1>13
  <2> QED  BY <2>1, <2>2, <1>8 DEF Finished
<1>16. OnceStacked'
  BY <1>2, <1>9 DEF ResolveInv, OnceStacked, n
<1>17. Unfinished'
  <2>1. \A i \in 1..n - 1 : stack[i].req # Top.req
    BY <1>2, <1>3 DEF ResolveInv, OnceStacked, n
  <2>2. \A i \in 1..n - 1 : stack[i].req \notin visited
    BY <1>2 DEF ResolveInv, Unfinished, n
  <2> QED  BY <2>1, <2>2, <1>4, <1>9 DEF Unfinished
<1>18. OnceResolved'
  <2>1. \A i \in 1..m : resolved[i].req # Top.req
    BY <1>10, <1>12
  <2>2. \A i, j \in 1..m : resolved[i].req = resolved[j].req => i = j
    BY DEF ResolveInv, OnceResolved, m
  <2> QED  BY <2>1, <2>2, <1>2, <1>5, <1>8 DEF OnceResolved
<1>19. DepsBefore'
  <2> SUFFICES ASSUME NEW i \in 1..m + 1, NEW d \in 1..Len(resolved'[i].profile.depends)
               PROVE  \E j \in 1..i-1 : resolved'[j].req = Dep(resolved'[i].profile, d)
    BY <1>8 DEF DepsBefore
  <2>1. CASE i = m + 1
    <3>1. resolved'[i].profile = Top.profile
      BY <2>1, <1>5, <1>8
    <3>2. PICK j \in 1..m : resolved[j].req = Dep(Top.profile, d)
      BY <3>1, <1>11, <1>13
    <3> QED  BY <2>1, <3>1, <3>2, <1>2, <1>8
  <2>2. CASE i \in 1..m
    <3>1. resolved'[i] = resolved[i]
      BY <2>2, <1>8
    <3>2. PICK j \in 1..i-1 : resolved[j].req = Dep(resolved[i].profile, d)
      BY <2>2, <3>1 DEF ResolveInv, DepsBefore, m
    <3>3. resolved'[j] = resolved[j]
      BY <2>2, <1>2, <1>8
    <3> QED  BY <3>1, <3>2, <3>3
  <2> QED  BY <2>1, <2>2, <1>2
<1>20. Behind'
  <2> SUFFICES ASSUME NEW i \in 1..n - 1
               PROVE  /\ stack[i].next \in 1..Len(stack[i].profile.depends) + 1
                      /\ \A d \in 1..stack[i].next - 1 :
                           \/ Dep(stack[i].profile, d) \in visited'
                           \/ /\ d = stack[i].next - 1 /\ i < n - 1
                              /\ stack'[i + 1].req = Dep(stack[i].profile, d)
    BY <1>9 DEF Behind
  <2>1. i \in 1..n /\ i # n
    BY <1>2
  <2>2. /\ stack[i].next \in 1..Len(stack[i].profile.depends) + 1
        /\ \A d \in 1..stack[i].next - 1 :
              \/ Dep(stack[i].profile, d) \in visited
              \/ /\ d = stack[i].next - 1
                 /\ stack[i + 1].req = Dep(stack[i].profile, d)
    BY <2>1 DEF ResolveInv, Behind, n
  <2>3. CASE i = n - 1
    <3>1. stack[i + 1].req \in visited'
      BY <2>3, <1>2, <1>3, <1>4
    <3> QED  BY <2>2, <3>1, <1>4
  <2>4. CASE i < n - 1
    <3>1. stack'[i + 1] = stack[i + 1]
      BY <2>4, <1>2, <1>9
    <3> QED  BY <2>2, <2>4, <3>1, <1>4
  <2> QED  BY <2>3, <2>4, <1>2
<1> QED  BY <1>14, <1>15, <1>16, <1>17, <1>18, <1>19, <1>20 DEF ResolveInv

(***************************************************************************)
(* The theorem                                                             *)
(***************************************************************************)
LEMMA InitInv == ASSUME Init PROVE IInv
<1>1. StoreOK
  BY InitStore
<1>2. todo \in Seq(Name)
  BY ProfilesAssumption DEF Init
<1>3. calling = <<>> /\ stack = <<>> /\ visited = {} /\ resolved = <<>>
  BY DEF Init
<1>4. ResolveOK
  BY <1>2, <1>3 DEF ResolveOK
<1>5. Finished /\ Unfinished /\ DepsBefore /\ OnceResolved /\ OnceStacked
  BY <1>3 DEF Finished, Unfinished, DepsBefore, OnceResolved, OnceStacked
<1>6. Behind
  BY <1>3 DEF Behind
<1>7. Picked
  BY DEF Init, Picked
<1> QED  BY <1>1, <1>4, <1>5, <1>6, <1>7 DEF IInv, ResolveInv

\* The steps that change neither the directory nor the calls.
LEMMA Quiet ==
    ASSUME IInv, UNCHANGED <<storeVars, resolveVars>>, todo' \in Seq(Name), Picked'
    PROVE  IInv'
<1>1. StoreOK'
  BY DEF IInv, StoreOK, storeVars
<1>2. ResolveOK' /\ ResolveInv'
  BY ResolveFrame DEF IInv
<1> QED  BY <1>1, <1>2 DEF IInv

LEMMA NextInv == ASSUME IInv, [Next]_vars PROVE IInv'
<1>1. todo \in Seq(Name) /\ Picked
  BY DEF IInv, ResolveOK
<1>2. ASSUME UNCHANGED readVars, StoreOK' PROVE IInv'
  <2>1. UNCHANGED resolveVars /\ todo' = todo /\ Picked'
    BY <1>1, <1>2 DEF readVars, resolveVars, Picked
  <2> QED  BY <2>1, <1>1, <1>2, ResolveFrame DEF IInv
<1>3. CASE \E c \in Creators : Create(c)
  BY <1>2, <1>3, CreateStore DEF IInv
<1>4. CASE Edit
  BY <1>2, <1>4, EditStore DEF IInv
<1>5. CASE CheckFlags \/ Cyclic \/ CannotLoad
  <2>1. UNCHANGED <<storeVars, resolveVars>> /\ todo' = todo /\ pc' # "resolve"
    BY <1>5 DEF CheckFlags, Cyclic, CannotLoad, Fail
  <2> QED  BY <2>1, <1>1, Quiet DEF Picked
<1>6. CASE PickProfile \/ AlreadyVisited \/ Visit \/ Descend \/ Finish
  <2>1. UNCHANGED storeVars
    BY <1>6 DEF PickProfile, AlreadyVisited, Visit, Descend, Finish
  <2>2. StoreOK'
    BY <2>1 DEF IInv, StoreOK, storeVars
  <2>3. ResolveOK' /\ ResolveInv'
    BY <1>6, PickProfileResolve, AlreadyVisitedResolve, VisitResolve, DescendResolve,
       FinishResolve DEF IInv
  <2>4. Picked'
    BY <1>1, <1>6 DEF PickProfile, AlreadyVisited, Visit, Descend, Finish, Picked
  <2> QED  BY <2>2, <2>3, <2>4 DEF IInv
<1>7. CASE Collect
  <2>1. UNCHANGED <<storeVars, resolveVars>> /\ todo' = Tail(todo) /\ pc' # "resolve"
    BY <1>7 DEF Collect, Fail
  <2>2. Tail(todo) \in Seq(Name)
    BY <1>1, <1>7 DEF Collect, Picked
  <2> QED  BY <2>1, <2>2, Quiet DEF Picked
<1>8. CASE LoadFile \/ ApplyOverlay \/ ApplyFlags
  <2>1. UNCHANGED <<storeVars, resolveVars>> /\ todo' = todo /\ pc' # "resolve"
    BY <1>8 DEF LoadFile, ApplyOverlay, ApplyFlags, Fail
  <2> QED  BY <2>1, <1>1, Quiet DEF Picked
<1>9. CASE Ended \/ UNCHANGED vars
  <2>1. UNCHANGED <<storeVars, resolveVars>> /\ todo' = todo /\ pc' = pc
    BY <1>9 DEF Ended, vars, storeVars, resolveVars
  <2> QED  BY <2>1, <1>1, Quiet DEF Picked
<1> QED
  BY <1>3, <1>4, <1>5, <1>6, <1>7, <1>8, <1>9 DEF Next, Resolve, Compose

LEMMA InvGivesDependenciesFirst == IInv => DependenciesFirst
  BY DEF IInv, ResolveInv, DepsBefore, OnceResolved, OnceStacked, DependenciesFirst, Dep

\* The resolver returns every profile after the profiles it depends on, and
\* each once, for any profiles, any directory and any other commands that
\* write to it (src/internal/profile/resolver/resolver.go:20).
THEOREM DependenciesFirstCorrect == Spec => []DependenciesFirst
<1>1. Init => IInv
  BY InitInv
<1>2. IInv /\ [Next]_vars => IInv'
  BY NextInv
<1>3. IInv => DependenciesFirst
  BY InvGivesDependenciesFirst
<1> QED  BY <1>1, <1>2, <1>3, PTL DEF Spec

(***************************************************************************)
(* The configuration                                                       *)
(***************************************************************************)
Keys == {"url", "wordlist", "http_version", "threads", "timeout", "exclude_status", "match_status", "exclude_size",
         "match_regex", "regex_scope", "follow_redirects", "only_redirects", "cookies", "format",
         "output_file", "request", "method", "quiet", "recursive", "recurse_on", "strategy"}
Recursion == {"recursive", "recurse_on"}

LEMMA DefaultKeys == ASSUME NEW tool PROVE DOMAIN Default(tool) = Keys
  BY DEF Default, Keys

\* An overlay gives the keys of its document, the older names as the newer ones.
LEMMA OverlayKeys == ASSUME NEW doc PROVE DOMAIN Overlay(doc) \subseteq DOMAIN doc \cup {"format", "cookies"}
  BY DEF Overlay

LEMMA FuzzOverlay ==
    ASSUME NEW doc, Decodes("fuzz", doc)
    PROVE  DOMAIN Overlay(doc) \cap Recursion = {}
<1>1. DOMAIN doc \subseteq FuzzKeys
  BY DEF Decodes, KeysOf
<1> QED  BY <1>1, OverlayKeys DEF FuzzKeys, Recursion

\* One overlay: a value that counts replaces the one below it.
LEMMA ApplyLayer ==
    ASSUME NEW tool \in {"scan", "fuzz"}, NEW c, NEW o,
           tool = "fuzz" => DOMAIN o \cap Recursion = {}
    PROVE  /\ DOMAIN Apply(tool, c, o) = DOMAIN c
           /\ \A k \in DOMAIN c :
                 Apply(tool, c, o)[k] = IF k \in DOMAIN o /\ Takes(tool, k, o[k]) THEN Kept(k, o[k]) ELSE c[k]
<1>1. CASE tool = "scan"
  BY <1>1 DEF Apply, ApplyScanOverlay
<1>2. CASE tool = "fuzz"
  <2>1. DOMAIN o \ {"recursive", "recurse_on"} = DOMAIN o
    BY <1>2 DEF Recursion
  <2> QED  BY <1>2, <2>1 DEF Apply, ApplyFuzzOverlay
<1> QED  BY <1>1, <1>2

\* The keys a command line settles, one by one.
LEMMA SettledKeys ==
    ASSUME NEW tool \in {"scan", "fuzz"}, NEW flags, DOMAIN flags \subseteq FlagsOf(tool)
    PROVE  LET S == Settled(tool, flags)
               F == DOMAIN flags
           IN /\ "url" \in S <=> tool = "scan" \/ "url" \in F
              /\ "wordlist" \in S <=> tool = "fuzz" \/ "wordlist" \in F
              /\ tool = "scan" => ("strategy" \in S <=> "strategy" \in F)
              /\ tool = "fuzz" => ("strategy" \in S <=> Given(flags, "strategy", "strategy", "eager") # "")
              /\ "format" \in S <=> tool = "fuzz" \/ "format" \in F \/ NamesFile(flags)
              /\ "output_file" \in S <=> tool = "fuzz" \/ "output" \in F
              /\ "match_status" \in S <=> "mc" \in F /\ ParsesStatus(flags["mc"])
              /\ "exclude_size" \in S <=> "fs" \in F \/ "exclude_size" \in F
              /\ "match_regex" \in S <=> "mr" \in F
              /\ "cookies" \in S <=> "cookie" \in F
              /\ \A k \in {"http_version", "threads", "timeout", "regex_scope", "follow_redirects", "only_redirects",
                            "request", "method", "quiet", "recursive", "recurse_on"} : k \in S <=> k \in F
<1> DEFINE I == Idle(tool, flags)
           S == Settled(tool, flags)
           F == DOMAIN flags
           T == {cliToYAML(f) : f \in F \ I}
           eager == Given(flags, "strategy", "strategy", "eager")
<1>1. F \subseteq FuzzFlags \cup Recursion
  BY DEF FlagsOf, Recursion
<1>2. /\ I \subseteq {"verbose", "mc", "fc", "exclude_status", "strategy"}
      /\ "mc" \in F => ("mc" \in I <=> ~ParsesStatus(flags["mc"]))
      /\ tool = "scan" => "strategy" \notin I
      /\ tool = "fuzz" /\ "strategy" \in F => ("strategy" \in I <=> flags["strategy"] = "")
  BY DEF Idle
<1>3. \A f \in F : cliToYAML(f) = CASE f = "cookie" -> "cookies"
                                   [] f = "mc" -> "match_status"
                                   [] f = "fc" -> "exclude_status"
                                   [] f = "fs" -> "exclude_size"
                                   [] f = "mr" -> "match_regex"
                                   [] OTHER -> f
  BY DEF cliToYAML
<1> HIDE DEF I, F
<1>4. \A k : k \in T <=> \E f \in F \ I : cliToYAML(f) = k
  OBVIOUS
<1> HIDE DEF T
<1>5. F \cap {"cookies", "match_status", "match_regex", "output_file"} = {}
  BY <1>1 DEF FuzzFlags, Recursion
<1>6. /\ "match_status" \in T <=> "mc" \in F \ I
      /\ "exclude_size" \in T <=> "fs" \in F \/ "exclude_size" \in F
      /\ "match_regex" \in T <=> "mr" \in F
      /\ "cookies" \in T <=> "cookie" \in F
      /\ "strategy" \in T <=> "strategy" \in F \ I
      /\ "output_file" \notin T
  <2>1. \A f \in F : /\ cliToYAML(f) = "match_status" <=> f = "mc"
                     /\ cliToYAML(f) = "exclude_size" <=> f \in {"fs", "exclude_size"}
                     /\ cliToYAML(f) = "match_regex" <=> f = "mr"
                     /\ cliToYAML(f) = "cookies" <=> f = "cookie"
                     /\ cliToYAML(f) = "strategy" <=> f = "strategy"
                     /\ cliToYAML(f) # "output_file"
    <3> SUFFICES ASSUME NEW f \in F
                 PROVE  /\ cliToYAML(f) = "match_status" <=> f = "mc"
                        /\ cliToYAML(f) = "exclude_size" <=> f \in {"fs", "exclude_size"}
                        /\ cliToYAML(f) = "match_regex" <=> f = "mr"
                        /\ cliToYAML(f) = "cookies" <=> f = "cookie"
                        /\ cliToYAML(f) = "strategy" <=> f = "strategy"
                        /\ cliToYAML(f) # "output_file"
      OBVIOUS
    <3>1. f \notin {"cookies", "match_status", "match_regex", "output_file"}
      BY <1>5
    <3> QED  BY <3>1, <1>3
  <2>2. "exclude_size" \notin I /\ "fs" \notin I /\ "mr" \notin I /\ "cookie" \notin I
    BY <1>2
  <2> QED  BY <2>1, <2>2, <1>4
<1>7. \A k \in {"url", "wordlist", "http_version", "format", "threads", "timeout", "regex_scope", "follow_redirects",
                 "only_redirects", "request", "method", "quiet", "recursive", "recurse_on"} : k \in T <=> k \in F
  <2> SUFFICES ASSUME NEW k \in {"url", "wordlist", "http_version", "format", "threads", "timeout", "regex_scope",
                                 "follow_redirects", "only_redirects", "request", "method", "quiet", "recursive",
                                 "recurse_on"}
               PROVE  k \in T <=> k \in F
    OBVIOUS
  <2>1. k \in F => k \notin I /\ cliToYAML(k) = k
    BY <1>2, <1>3
  <2>2. ASSUME NEW f \in F, cliToYAML(f) = k PROVE f = k
    BY <1>3, <2>2
  <2> QED  BY <2>1, <2>2, <1>4
<1>8. S = T \cup (IF "mc" \in F \ I /\ F \cap {"fc", "exclude_status"} = {} THEN {"exclude_status"} ELSE {})
            \cup (IF NamesFile(flags) THEN {"format"} ELSE {})
            \cup (IF "output" \in F THEN {"output_file"} ELSE {})
            \cup (IF tool = "scan" THEN {"url"}
                  ELSE {"wordlist", "format", "output_file"} \cup (IF eager # "" THEN {"strategy"} ELSE {}))
  BY DEF Settled, Deaf, I, F, T
<1>9. "strategy" \in F => eager = flags["strategy"]
  BY DEF Given, F
<1>10. "strategy" \notin F => eager # ""
  BY DEF Given, F
<1> HIDE DEF S, eager
<1> QED  BY <1>2, <1>6, <1>7, <1>8, <1>9, <1>10 DEF S, F, eager

\* The excluded codes are settled by what parses.
LEMMA SettledExclude ==
    ASSUME NEW tool \in {"scan", "fuzz"}, NEW flags, DOMAIN flags \subseteq FlagsOf(tool)
    PROVE  "exclude_status" \in Settled(tool, flags) <=>
             IF "fc" \in DOMAIN flags THEN tool = "fuzz" \/ ParsesStatus(flags["fc"])
             ELSE IF "exclude_status" \in DOMAIN flags THEN tool = "fuzz" \/ ParsesStatus(flags["exclude_status"])
             ELSE "mc" \in DOMAIN flags /\ ParsesStatus(flags["mc"])
<1> DEFINE I == Idle(tool, flags)
           F == DOMAIN flags
<1>1. F \subseteq FuzzFlags \cup Recursion
  BY DEF FlagsOf, Recursion
<1>2. /\ "mc" \in F => ("mc" \in I <=> ~ParsesStatus(flags["mc"]))
      /\ "fc" \in F => ("fc" \in I <=> ~ParsesStatus(flags["fc"]) /\ tool = "scan")
      /\ "exclude_status" \in F =>
            ("exclude_status" \in I <=> "fc" \in F \/ (~ParsesStatus(flags["exclude_status"]) /\ tool = "scan"))
  BY DEF Idle
<1>3. \A f \in F : cliToYAML(f) = "exclude_status" <=> f \in {"fc", "exclude_status"}
  BY <1>1 DEF cliToYAML, FuzzFlags, Recursion
<1> HIDE DEF I, F
<1>4. "exclude_status" \in {cliToYAML(f) : f \in F \ I} <=> "fc" \in F \ I \/ "exclude_status" \in F \ I
  BY <1>3
<1>5. "exclude_status" \in Settled(tool, flags) <=>
         \/ "fc" \in F \ I \/ "exclude_status" \in F \ I
         \/ "mc" \in F \ I /\ F \cap {"fc", "exclude_status"} = {}
  BY <1>4 DEF Settled, Deaf, I, F
<1> QED  BY <1>2, <1>5 DEF F

\* What the first target puts in place of what was set.
TemplateKeys(e, flags) ==
    IF e.request \in {None, ""} \/ ~HasTarget(flags) THEN {}
    ELSE {"url", "method"} \cup (IF Target(flags).cookies # "" THEN {"cookies"} ELSE {})

LEMMA FromTemplateIs ==
    ASSUME NEW e, DOMAIN e = Keys, NEW flags
    PROVE  /\ DOMAIN FromTemplate(e, flags) = Keys
           /\ \A k \in Keys : FromTemplate(e, flags)[k] = IF k \in TemplateKeys(e, flags)
                                                        THEN Target(flags)[k] ELSE e[k]
<1>1. CASE e.request \in {None, ""} \/ ~HasTarget(flags)
  BY <1>1 DEF FromTemplate, TemplateKeys
<1>2. CASE ~(e.request \in {None, ""} \/ ~HasTarget(flags))
  <2> DEFINE t == Target(flags)
             cookies == IF t.cookies = "" THEN e.cookies ELSE t.cookies
  <2>1. t.url = t["url"] /\ t.method = t["method"] /\ t.cookies = t["cookies"]
    OBVIOUS
  <2>2. FromTemplate(e, flags) = [e EXCEPT !.url = t.url, !.method = t.method, !.cookies = cookies]
    BY <1>2 DEF FromTemplate
  <2>3. TemplateKeys(e, flags) = {"url", "method"} \cup (IF t.cookies # "" THEN {"cookies"} ELSE {})
    BY <1>2 DEF TemplateKeys
  <2>4. {"url", "method", "cookies"} \subseteq Keys
    BY DEF Keys
  <2> HIDE DEF t
  <2> QED  BY <2>2, <2>3, <2>4 DEF t
<1> QED  BY <1>1, <1>2

LEMMA SettleDomain ==
    ASSUME NEW tool \in {"scan", "fuzz"}, NEW c, DOMAIN c = Keys, NEW flags
    PROVE  DOMAIN Settle(tool, c, flags) = Keys
<1>1. CASE tool = "scan"
  <2> DEFINE A == applyCLIOverrides(c, flags)
  <2>1. DOMAIN A = Keys /\ Settle(tool, c, flags) = FromTemplate(A, flags)
    BY <1>1 DEF applyCLIOverrides, Settle
  <2> HIDE DEF A
  <2> QED  BY <2>1, FromTemplateIs
<1>2. CASE tool = "fuzz"
  <2> DEFINE B == applyFuzzCLIOverrides(c, flags)
             A == [B EXCEPT !.url = Given(flags, "url", "url", B.url)]
  <2>1. DOMAIN A = Keys /\ Settle(tool, c, flags) = FuzzSettled(B, flags)
    BY <1>2 DEF applyFuzzCLIOverrides, Settle
  <2>2. DOMAIN FromTemplate(A, flags) = Keys
    <3> HIDE DEF A
    <3> QED  BY <2>1, FromTemplateIs
  <2> HIDE DEF B
  <2> QED  BY <2>1, <2>2 DEF FuzzSettled
<1> QED  BY <1>1, <1>2

\* The flags and the template: a key the template settles has its value, one
\* the flags settle has the same value whatever the layers below say, any
\* other key keeps what they say.
LEMMA SettleScan ==
    ASSUME NEW c, NEW d, DOMAIN c = Keys, DOMAIN d = Keys, d.request = None,
           NEW flags, DOMAIN flags \subseteq FlagsOf("scan"), NEW k \in Keys
    PROVE  Settle("scan", c, flags)[k] =
             IF k \in TemplateKeys(Settle("scan", c, flags), flags) THEN Target(flags)[k]
             ELSE IF k \in Settled("scan", flags) THEN Settle("scan", d, flags)[k] ELSE c[k]
<1> DEFINE A(e) == applyCLIOverrides(e, flags)
           S == Settled("scan", flags)
<1>1. DOMAIN A(c) = Keys /\ DOMAIN A(d) = Keys
  BY DEF applyCLIOverrides
<1>2. Settle("scan", c, flags) = FromTemplate(A(c), flags) /\ Settle("scan", d, flags) = FromTemplate(A(d), flags)
  BY DEF Settle
<1>3. A(c).request = Given(flags, "request", "request", c.request) /\ A(d).request = Given(flags, "request", "request", None)
  BY DEF applyCLIOverrides, Keys
<1>4. TemplateKeys(A(d), flags) \subseteq TemplateKeys(A(c), flags)
  <2> HIDE DEF A
  <2> QED  BY <1>3 DEF TemplateKeys, Given
<1>5. TemplateKeys(Settle("scan", c, flags), flags) = TemplateKeys(A(c), flags)
  <2> HIDE DEF A
  <2>1. "request" \in Keys /\ "request" \notin TemplateKeys(A(c), flags)
    BY DEF Keys, TemplateKeys
  <2>2. Settle("scan", c, flags).request = A(c).request
    BY <2>1, <1>1, <1>2, FromTemplateIs
  <2> QED  BY <2>2 DEF TemplateKeys
<1>6. A(c)[k] = IF k \in S THEN A(d)[k] ELSE c[k]
  <2> DEFINE F == DOMAIN flags
  <2>1. CASE k = "url"
    <3>1. A(c)[k] = A(d)[k]
      BY <2>1 DEF applyCLIOverrides
    <3> QED  BY <2>1, <3>1, SettledKeys
  <2>2. CASE k = "exclude_status"
    <3>1. A(c)[k] = ScanExclude(c, flags) /\ A(d)[k] = ScanExclude(d, flags) /\ c[k] = c.exclude_status
      BY <2>2 DEF applyCLIOverrides
    <3> HIDE DEF A
    <3> QED  BY <2>2, <3>1, SettledExclude DEF ScanExclude, Given
  <2>3. CASE k = "match_status"
    <3>1. A(c)[k] = IF "mc" \in F /\ ParsesStatus(flags["mc"]) THEN flags["mc"] ELSE c[k]
      BY <2>3 DEF applyCLIOverrides
    <3>2. A(d)[k] = IF "mc" \in F /\ ParsesStatus(flags["mc"]) THEN flags["mc"] ELSE d[k]
      BY <2>3 DEF applyCLIOverrides
    <3> HIDE DEF A
    <3> QED  BY <2>3, <3>1, <3>2, SettledKeys
  <2>4. CASE k \in {"exclude_size", "match_regex", "cookies", "output_file"}
    <3> DEFINE f == CASE k = "exclude_size" -> "fs" [] k = "match_regex" -> "mr" [] k = "cookies" -> "cookie"
                      [] k = "output_file" -> "output"
               g == IF k = "exclude_size" THEN "exclude_size" ELSE f
    <3>1. A(c)[k] = Given(flags, f, g, c[k]) /\ A(d)[k] = Given(flags, f, g, d[k])
      BY <2>4 DEF applyCLIOverrides
    <3>2. k \in S <=> f \in F \/ g \in F
      BY <2>4, SettledKeys
    <3> HIDE DEF A, f, g, S
    <3> QED  BY <3>1, <3>2 DEF Given
  <2>5. CASE k = "format"
    <3>1. A(c)[k] = ScanFormat(c, flags) /\ A(d)[k] = ScanFormat(d, flags) /\ c[k] = c.format
      BY <2>5 DEF applyCLIOverrides
    <3>2. k \in S <=> "format" \in F \/ NamesFile(flags)
      BY <2>5, SettledKeys
    <3> HIDE DEF A, S
    <3> QED  BY <3>1, <3>2 DEF ScanFormat, Given
  <2>6. CASE k \notin {"url", "exclude_status", "match_status", "exclude_size", "match_regex", "cookies",
                       "format", "output_file"}
    <3>1. A(c)[k] = Given(flags, k, k, c[k]) /\ A(d)[k] = Given(flags, k, k, d[k])
      BY <2>6 DEF applyCLIOverrides
    <3>2. k \in S <=> k \in F
      <4>1. CASE k \in {"wordlist", "strategy"}
        BY <4>1, SettledKeys
      <4>2. CASE k \notin {"wordlist", "strategy"}
        <5>1. k \in {"http_version", "threads", "timeout", "regex_scope", "follow_redirects", "only_redirects",
                      "request", "method", "quiet", "recursive", "recurse_on"}
          BY <2>6, <4>2 DEF Keys
        <5> QED  BY <5>1, SettledKeys
      <4> QED  BY <4>1, <4>2
    <3> HIDE DEF A, S
    <3> QED  BY <3>1, <3>2 DEF Given
  <2> QED  BY <2>1, <2>2, <2>3, <2>4, <2>5, <2>6
<1> HIDE DEF A, S
<1> QED  BY <1>1, <1>2, <1>4, <1>5, <1>6, FromTemplateIs DEF S

LEMMA SettleFuzz ==
    ASSUME NEW c, NEW d, DOMAIN c = Keys, DOMAIN d = Keys, d.request = None,
           NEW flags, DOMAIN flags \subseteq FlagsOf("fuzz"), NEW k \in Keys \ {"format", "output_file", "wordlist"}
    PROVE  Settle("fuzz", c, flags)[k] =
             IF k \in TemplateKeys(Settle("fuzz", c, flags), flags) THEN Target(flags)[k]
             ELSE IF k \in Settled("fuzz", flags) THEN Settle("fuzz", d, flags)[k] ELSE c[k]
<1> DEFINE B(e) == applyFuzzCLIOverrides(e, flags)
           A(e) == [B(e) EXCEPT !.url = Given(flags, "url", "url", B(e).url)]
           S == Settled("fuzz", flags)
           F == DOMAIN flags
<1>1. DOMAIN A(c) = Keys /\ DOMAIN A(d) = Keys
  BY DEF applyFuzzCLIOverrides
<1>2. /\ Settle("fuzz", c, flags)[k] = FromTemplate(A(c), flags)[k]
      /\ Settle("fuzz", d, flags)[k] = FromTemplate(A(d), flags)[k]
      /\ Settle("fuzz", c, flags).request = FromTemplate(A(c), flags).request
  <2>1. ASSUME NEW e, DOMAIN A(e) = Keys, NEW q \in Keys \ {"format", "output_file", "wordlist"}
        PROVE  Settle("fuzz", e, flags)[q] = FromTemplate(A(e), flags)[q]
    <3> DEFINE T == FromTemplate(A(e), flags)
    <3>1. Settle("fuzz", e, flags) = [T EXCEPT !.wordlist = Given(flags, "wordlist", "wordlist", ""),
                                               !.format = Given(flags, "format", "format", "text"),
                                               !.output_file = Given(flags, "output", "output", None)]
      BY DEF Settle, FuzzSettled
    <3>2. DOMAIN T = Keys
      <4> HIDE DEF A
      <4> QED  BY <2>1, FromTemplateIs
    <3> HIDE DEF T
    <3>3. Settle("fuzz", e, flags)[q] = T[q]
      BY <3>1, <3>2
    <3> QED  BY <3>3 DEF T
  <2>2. "request" \in Keys \ {"format", "output_file", "wordlist"}
    BY DEF Keys
  <2> HIDE DEF A
  <2> QED  BY <1>1, <2>1, <2>2
<1>3. A(c).request = Given(flags, "request", "request", c.request) /\ A(d).request = Given(flags, "request", "request", None)
  BY DEF applyFuzzCLIOverrides, Keys
<1>4. TemplateKeys(A(d), flags) \subseteq TemplateKeys(A(c), flags)
  <2> HIDE DEF A
  <2> QED  BY <1>3 DEF TemplateKeys, Given
<1>5. TemplateKeys(Settle("fuzz", c, flags), flags) = TemplateKeys(A(c), flags)
  <2> HIDE DEF A
  <2>1. "request" \in Keys /\ "request" \notin TemplateKeys(A(c), flags)
    BY DEF Keys, TemplateKeys
  <2>2. Settle("fuzz", c, flags).request = A(c).request
    BY <2>1, <1>1, <1>2, FromTemplateIs
  <2> QED  BY <2>2 DEF TemplateKeys
<1>6. k # "url" => A(c)[k] = B(c)[k] /\ A(d)[k] = B(d)[k]
  <2>1. DOMAIN B(c) = Keys /\ DOMAIN B(d) = Keys
    BY DEF applyFuzzCLIOverrides
  <2> HIDE DEF B
  <2> QED  BY <2>1
<1>7. A(c)[k] = IF k \in S THEN A(d)[k] ELSE c[k]
  <2>1. CASE k = "url"
    <3>1. A(c)[k] = Given(flags, "url", "url", c[k]) /\ A(d)[k] = Given(flags, "url", "url", d[k])
      BY <2>1 DEF applyFuzzCLIOverrides, Keys
    <3>2. k \in S <=> "url" \in F
      BY <2>1, SettledKeys
    <3> HIDE DEF A, S
    <3> QED  BY <3>1, <3>2 DEF Given
  <2>2. CASE k = "exclude_status"
    <3>1. B(c)[k] = FuzzExclude(c, flags) /\ B(d)[k] = FuzzExclude(d, flags) /\ c[k] = c.exclude_status
      BY <2>2 DEF applyFuzzCLIOverrides
    <3>2. FuzzExclude(c, flags) = IF k \in S THEN FuzzExclude(d, flags) ELSE c.exclude_status
      BY <2>2, SettledExclude DEF FuzzExclude, Given
    <3> HIDE DEF A, B, S
    <3> QED  BY <3>1, <3>2, <1>6, <2>2
  <2>3. CASE k = "match_status"
    <3>1. /\ B(c)[k] = IF "mc" \in F /\ ParsesStatus(flags["mc"]) THEN flags["mc"] ELSE c[k]
          /\ B(d)[k] = IF "mc" \in F /\ ParsesStatus(flags["mc"]) THEN flags["mc"] ELSE d[k]
      BY <2>3 DEF applyFuzzCLIOverrides
    <3>2. k \in S <=> "mc" \in F /\ ParsesStatus(flags["mc"])
      BY <2>3, SettledKeys
    <3> HIDE DEF A, B, S
    <3> QED  BY <3>1, <3>2, <1>6, <2>3
  <2>4. CASE k \in {"exclude_size", "match_regex", "cookies"}
    <3> DEFINE f == CASE k = "exclude_size" -> "fs" [] k = "match_regex" -> "mr" [] k = "cookies" -> "cookie"
               g == IF k = "exclude_size" THEN "exclude_size" ELSE f
    <3>1. B(c)[k] = Given(flags, f, g, c[k]) /\ B(d)[k] = Given(flags, f, g, d[k])
      BY <2>4 DEF applyFuzzCLIOverrides
    <3>2. k \in S <=> f \in F \/ g \in F
      BY <2>4, SettledKeys
    <3> HIDE DEF A, B, S, f, g
    <3> QED  BY <3>1, <3>2, <1>6, <2>4 DEF Given
  <2>5. CASE k = "strategy"
    <3>1. B(c)[k] = FuzzStrategy(c, flags) /\ B(d)[k] = FuzzStrategy(d, flags) /\ c[k] = c.strategy
      BY <2>5 DEF applyFuzzCLIOverrides
    <3>2. k \in S <=> Given(flags, "strategy", "strategy", "eager") # ""
      BY <2>5, SettledKeys
    <3> HIDE DEF A, B, S
    <3> QED  BY <3>1, <3>2, <1>6, <2>5 DEF FuzzStrategy
  <2>6. CASE k \in Recursion
    <3>1. B(c)[k] = c[k]
      BY <2>6 DEF applyFuzzCLIOverrides, Recursion
    <3>2. k \notin F
      BY <2>6 DEF FlagsOf, FuzzFlags, Recursion
    <3>3. k \notin S
      BY <3>2, <2>6, SettledKeys DEF Recursion
    <3>4. k # "url"
      BY <2>6 DEF Recursion
    <3> HIDE DEF A, B, S
    <3> QED  BY <3>1, <3>3, <3>4, <1>6
  <2>7. CASE k \in {"http_version", "threads", "timeout", "regex_scope", "follow_redirects", "only_redirects", "request",
                     "method", "quiet"}
    <3>1. B(c)[k] = Given(flags, k, k, c[k]) /\ B(d)[k] = Given(flags, k, k, d[k])
      BY <2>7 DEF applyFuzzCLIOverrides
    <3>2. k \in S <=> k \in F
      BY <2>7, SettledKeys
    <3> HIDE DEF A, B, S
    <3> QED  BY <3>1, <3>2, <1>6, <2>7 DEF Given
  <2> HIDE DEF A, S
  <2> QED  BY <2>1, <2>2, <2>3, <2>4, <2>5, <2>6, <2>7 DEF Keys, Recursion
<1> HIDE DEF A, B, S
<1> QED  BY <1>1, <1>2, <1>4, <1>5, <1>7, FromTemplateIs DEF S

\* What fuzz takes from its flags alone.
LEMMA SettleFuzzAlone ==
    ASSUME NEW c, NEW d, DOMAIN c = Keys, DOMAIN d = Keys, NEW flags, DOMAIN flags \subseteq FlagsOf("fuzz"),
           NEW k \in {"format", "output_file", "wordlist"}
    PROVE  /\ k \in Settled("fuzz", flags) /\ k \notin TemplateKeys(Settle("fuzz", c, flags), flags)
           /\ Settle("fuzz", c, flags)[k] = Settle("fuzz", d, flags)[k]
<1>1. k \in Settled("fuzz", flags)
  BY SettledKeys
<1>2. k \notin TemplateKeys(Settle("fuzz", c, flags), flags)
  BY DEF TemplateKeys
<1>3. ASSUME NEW e, DOMAIN e = Keys
      PROVE  Settle("fuzz", e, flags)[k] = CASE k = "wordlist" -> Given(flags, "wordlist", "wordlist", "")
                                             [] k = "format" -> Given(flags, "format", "format", "text")
                                             [] k = "output_file" -> Given(flags, "output", "output", None)
  <2> DEFINE B == applyFuzzCLIOverrides(e, flags)
             A == [B EXCEPT !.url = Given(flags, "url", "url", B.url)]
             T == FromTemplate(A, flags)
  <2>1. DOMAIN A = Keys
    BY <1>3 DEF applyFuzzCLIOverrides
  <2>2. DOMAIN T = Keys
    <3> HIDE DEF A
    <3> QED  BY <2>1, FromTemplateIs
  <2>3. Settle("fuzz", e, flags) = [T EXCEPT !.wordlist = Given(flags, "wordlist", "wordlist", ""),
                                             !.format = Given(flags, "format", "format", "text"),
                                             !.output_file = Given(flags, "output", "output", None)]
    BY DEF Settle, FuzzSettled
  <2> HIDE DEF T
  <2> QED  BY <2>2, <2>3 DEF Keys
<1>4. Settle("fuzz", c, flags)[k] = Settle("fuzz", d, flags)[k]
  BY <1>3
<1> QED  BY <1>1, <1>2, <1>4

\* A layer gives a key a value that counts; v is the highest such value of
\* the first n layers, the default where there is none.
Gives(k, i) == k \in DOMAIN Layers[i] /\ Takes(job.tool, k, Layers[i][k])
Topmost(k, n, v) ==
    \/ v = Default(job.tool)[k] /\ \A i \in 1..n : ~Gives(k, i)
    \/ \E i \in 1..n : Gives(k, i) /\ v = Kept(k, Layers[i][k]) /\ \A j \in i+1..n : ~Gives(k, j)

\* While the overlays are applied, the configuration is that of the file and
\* of those applied so far.
Overlays == {Overlay(p.config) : p \in Known}
Layered ==
    /\ job \in ReadJobs
    /\ overlays \in Seq(Overlays)
    /\ applied \in Nat /\ applied <= Len(overlays)
    /\ pc \in {"flags", "pick", "resolve"} => applied = 0
    /\ job.tool = "fuzz" => \A i \in 1..Len(overlays) : DOMAIN overlays[i] \cap Recursion = {}
    /\ pc \in {"compose", "ready"} /\ job.tool # "explain" => DOMAIN cfg = Keys
    /\ pc = "compose" /\ job.tool # "explain" => \A k \in Keys : Topmost(k, applied + 1, cfg[k])

LEMMA LayersAre ==
    ASSUME overlays \in Seq(Overlays)
    PROVE  /\ Len(Layers) = Len(overlays) + 1
           /\ Layers[1] = Overlay(job.file)
           /\ \A i \in 1..Len(overlays) : Layers[i + 1] = overlays[i]
<1> DEFINE S == Overlays \cup {Overlay(job.file)}
           f == Overlay(job.file)
<1>1. <<f>> \in Seq(S) /\ overlays \in Seq(S)
  OBVIOUS
<1>2. Len(<<f>>) = 1 /\ <<f>>[1] = f
  OBVIOUS
<1> HIDE DEF S, f
<1>3. Layers = <<f>> \o overlays
  BY DEF Layers, f
<1> QED  BY <1>1, <1>2, <1>3 DEF f

LEMMA InitLayered == ASSUME Init PROVE Layered
  BY DEF Init, Layered

\* The steps that do not touch the configuration.
LEMMA LayeredFrame ==
    ASSUME Layered, UNCHANGED <<job, overlays, applied, cfg>>,
           pc' \in {"flags", "pick", "resolve"} => pc \in {"flags", "pick", "resolve"},
           pc' = "compose" => pc = "compose", pc' = "ready" => pc = "ready"
    PROVE  Layered'
  BY DEF Layered, Topmost, Gives, Layers

LEMMA CollectLayered == ASSUME Layered, ResolveOK, Collect PROVE Layered'
<1> DEFINE n == Len(resolved)
           new == [i \in 1..n |-> Overlay(resolved[i].profile.config)]
<1>1. UNCHANGED <<job, applied, cfg>> /\ pc = "resolve" /\ pc' \notin {"compose", "ready"}
  BY DEF Collect, Fail
<1>2. CASE UNCHANGED overlays
  BY <1>1, <1>2, LayeredFrame
<1>3. CASE /\ \A i \in 1..n : Decodes(OverlayTool, resolved[i].profile.config)
           /\ overlays' = overlays \o new
  <2>1. n \in Nat /\ \A i \in 1..n : resolved[i].profile \in Known
    <3>1. resolved \in Seq(Entry)
      BY DEF ResolveOK
    <3>2. n \in Nat /\ \A i \in 1..n : resolved[i] \in Entry
      BY <3>1
    <3> QED  BY <3>2 DEF Entry
  <2>2. \A i \in 1..n : new[i] \in Overlays
    BY <2>1 DEF Overlays
  <2>3. new \in Seq(Overlays) /\ Len(new) = n
    BY <2>1, <2>2
  <2>4. job.tool = "fuzz" => \A i \in 1..n : DOMAIN new[i] \cap Recursion = {}
    <3> SUFFICES ASSUME job.tool = "fuzz", NEW i \in 1..n PROVE DOMAIN new[i] \cap Recursion = {}
      OBVIOUS
    <3>1. Decodes("fuzz", resolved[i].profile.config)
      BY <1>3 DEF OverlayTool
    <3> QED  BY <3>1, FuzzOverlay
  <2> HIDE DEF new, n
  <2>5. overlays \in Seq(Overlays)
    BY DEF Layered
  <2>6. /\ overlays' \in Seq(Overlays)
        /\ Len(overlays') = Len(overlays) + n
        /\ \A i \in 1..Len(overlays') : overlays'[i] = IF i <= Len(overlays) THEN overlays[i]
                                                       ELSE new[i - Len(overlays)]
    <3> DEFINE both == overlays \o new
    <3>1. /\ both \in Seq(Overlays)
          /\ Len(both) = Len(overlays) + n
          /\ \A i \in 1..Len(overlays) + n : both[i] = IF i <= Len(overlays) THEN overlays[i]
                                                        ELSE new[i - Len(overlays)]
      BY <2>3, <2>5, ConcatProperties
    <3>2. overlays' = both
      BY <1>3
    <3> HIDE DEF both
    <3> QED  BY <3>1, <3>2
  <2>7. job.tool = "fuzz" => \A i \in 1..Len(overlays') : DOMAIN overlays'[i] \cap Recursion = {}
    <3> SUFFICES ASSUME job.tool = "fuzz", NEW i \in 1..Len(overlays') PROVE DOMAIN overlays'[i] \cap Recursion = {}
      OBVIOUS
    <3>1. CASE i <= Len(overlays)
      BY <3>1, <2>5, <2>6 DEF Layered
    <3>2. CASE i > Len(overlays)
      <4>1. i - Len(overlays) \in 1..n
        BY <3>2, <2>1, <2>5, <2>6
      <4> QED  BY <3>2, <4>1, <2>4, <2>5, <2>6
    <3> QED  BY <3>1, <3>2, <2>5
  <2> QED  BY <1>1, <2>1, <2>5, <2>6, <2>7 DEF Layered
<1> QED  BY <1>2, <1>3 DEF Collect

LEMMA LoadFileLayered == ASSUME Layered, LoadFile PROVE Layered'
<1>1. UNCHANGED <<job, overlays, applied>> /\ pc = "pick" /\ applied = 0
  BY DEF LoadFile, Layered
<1>2. job \in ReadJobs /\ job.tool \in {"scan", "fuzz", "explain"} /\ overlays \in Seq(Overlays)
  BY ProfilesAssumption DEF Layered
<1>3. CASE pc' # "compose" \/ job.tool = "explain"
  BY <1>1, <1>3 DEF Layered, LoadFile, Fail
<1>4. CASE pc' = "compose" /\ job.tool # "explain"
  <2> DEFINE D == Default(job.tool)
             o == Overlay(job.file)
  <2>1. Decodes(job.tool, job.file) /\ cfg' = Apply(job.tool, D, o)
    BY <1>4 DEF LoadFile, Fail
  <2>2. job.tool = "fuzz" => DOMAIN o \cap Recursion = {}
    BY <2>1, FuzzOverlay
  <2>3. DOMAIN D = Keys
    BY DefaultKeys
  <2> HIDE DEF D, o
  <2>4. /\ DOMAIN cfg' = Keys
        /\ \A k \in Keys : cfg'[k] = IF k \in DOMAIN o /\ Takes(job.tool, k, o[k]) THEN Kept(k, o[k]) ELSE D[k]
    BY <1>2, <1>4, <2>1, <2>2, <2>3, ApplyLayer
  <2>5. Layers[1] = o /\ Layers' = Layers /\ job' = job
    BY <1>1, <1>2, LayersAre DEF Layers, o
  <2>6. \A k \in Keys : Topmost(k, 1, cfg'[k])
    BY <2>4, <2>5 DEF Topmost, Gives, D
  <2>7. \A k \in Keys : Topmost(k, applied + 1, cfg[k])'
    BY <1>1, <2>5, <2>6 DEF Topmost, Gives
  <2> QED  BY <1>1, <2>4, <2>7 DEF Layered
<1> QED  BY <1>3, <1>4

LEMMA ApplyOverlayLayered == ASSUME Layered, ApplyOverlay PROVE Layered'
<1> DEFINE n == applied + 1
           o == overlays[n]
<1>1. UNCHANGED <<job, pc, overlays>> /\ pc = "compose" /\ applied' = n
  BY DEF ApplyOverlay
<1>2. job \in ReadJobs /\ job.tool \in {"scan", "fuzz", "explain"} /\ overlays \in Seq(Overlays)
  BY ProfilesAssumption DEF Layered
<1>3. n \in 1..Len(overlays) /\ n \in Nat
  BY DEF ApplyOverlay, Layered
<1>4. CASE job.tool = "explain"
  BY <1>1, <1>3, <1>4 DEF Layered
<1>5. CASE job.tool # "explain"
  <2>1. cfg' = Apply(job.tool, cfg, o)
    BY DEF ApplyOverlay
  <2>2. DOMAIN cfg = Keys /\ \A k \in Keys : Topmost(k, n, cfg[k])
    BY <1>1, <1>5 DEF Layered
  <2>3. job.tool = "fuzz" => DOMAIN o \cap Recursion = {}
    BY <1>3 DEF Layered
  <2>4. Layers[n + 1] = o
    BY <1>2, <1>3, LayersAre
  <2>5. Layers' = Layers /\ job' = job
    BY <1>1 DEF Layers
  <2> HIDE DEF n, o
  <2>6. /\ DOMAIN cfg' = Keys
        /\ \A k \in Keys : cfg'[k] = IF k \in DOMAIN o /\ Takes(job.tool, k, o[k]) THEN Kept(k, o[k]) ELSE cfg[k]
    BY <1>2, <1>5, <2>1, <2>2, <2>3, ApplyLayer
  <2>7. ASSUME NEW k \in Keys PROVE Topmost(k, n + 1, cfg'[k])
    <3>1. CASE Gives(k, n + 1)
      <4>1. cfg'[k] = Kept(k, Layers[n + 1][k])
        BY <3>1, <2>4, <2>6 DEF Gives
      <4>2. n + 1 \in 1..n + 1 /\ n + 1 + 1..n + 1 = {}
        BY <1>3
      <4> QED  BY <3>1, <4>1, <4>2 DEF Topmost
    <3>2. CASE ~Gives(k, n + 1)
      <4>1. cfg'[k] = cfg[k] /\ Topmost(k, n, cfg[k])
        BY <3>2, <2>2, <2>4, <2>6 DEF Gives
      <4>2. \A i \in 1..n + 1 : i \in 1..n \/ i = n + 1
        BY <1>3
      <4>3. CASE cfg[k] = Default(job.tool)[k] /\ \A i \in 1..n : ~Gives(k, i)
        BY <3>2, <4>1, <4>2, <4>3 DEF Topmost
      <4>4. ASSUME NEW i \in 1..n, Gives(k, i), cfg[k] = Kept(k, Layers[i][k]), \A j \in i+1..n : ~Gives(k, j)
            PROVE  Topmost(k, n + 1, cfg'[k])
        <5>1. i \in 1..n + 1 /\ \A j \in i+1..n + 1 : j \in i+1..n \/ j = n + 1
          BY <1>3
        <5> QED  BY <3>2, <4>1, <4>4, <5>1 DEF Topmost
      <4> QED  BY <4>1, <4>3, <4>4 DEF Topmost
    <3> QED  BY <3>1, <3>2
  <2>8. \A k \in Keys : Topmost(k, applied + 1, cfg[k])'
    BY <1>1, <2>5, <2>7 DEF Topmost, Gives
  <2> QED  BY <1>1, <1>3, <2>6, <2>8 DEF Layered
<1> QED  BY <1>4, <1>5

\* The topmost of all layers is the last one that gives a value.
LEMMA TopmostIsLast ==
    ASSUME NEW k, NEW v, Topmost(k, Len(Layers), v), Len(Layers) \in Nat
    PROVE  v = LastGiven(k)
<1> DEFINE giving == {i \in 1..Len(Layers) : Gives(k, i)}
<1>1. LastGiven(k) = IF giving = {} THEN Default(job.tool)[k]
                     ELSE Kept(k, Layers[CHOOSE i \in giving : \A j \in giving : j <= i][k])
  BY DEF LastGiven, Gives
<1>2. CASE giving = {}
  BY <1>1, <1>2 DEF Topmost
<1>3. CASE giving # {}
  <2>1. PICK i \in 1..Len(Layers) : /\ Gives(k, i) /\ v = Kept(k, Layers[i][k])
                                    /\ \A j \in i+1..Len(Layers) : ~Gives(k, j)
    BY <1>3 DEF Topmost
  <2>2. i \in giving /\ \A j \in giving : j <= i
    BY <2>1
  <2>3. \A j \in giving : j \in Nat
    OBVIOUS
  <2> HIDE DEF giving
  <2> DEFINE m == CHOOSE m \in giving : \A j \in giving : j <= m
  <2>4. m = i
    <3>1. m \in giving /\ \A j \in giving : j <= m
      BY <2>2
    <3> HIDE DEF m
    <3> QED  BY <3>1, <2>2, <2>3
  <2> QED  BY <1>1, <1>3, <2>1, <2>4
<1> QED  BY <1>2, <1>3

LEMMA ApplyFlagsLayered == ASSUME Layered, ApplyFlags PROVE Layered' /\ LayersWin'
<1>1. UNCHANGED <<job, overlays, applied>> /\ pc = "compose" /\ pc' \in {"failed", "ready"} /\ applied = Len(overlays)
  BY DEF ApplyFlags
<1>2. /\ job \in ReadJobs /\ job.tool \in {"scan", "fuzz", "explain"} /\ overlays \in Seq(Overlays)
      /\ DOMAIN job.flags \subseteq FlagsOf(job.tool)
  BY ProfilesAssumption DEF Layered
<1>3. cfg' = Settle(job.tool, cfg, job.flags)
  BY DEF ApplyFlags
<1>4. job.tool # "explain" => DOMAIN cfg = Keys /\ \A q \in Keys : Topmost(q, applied + 1, cfg[q])
  BY <1>1 DEF Layered
<1>5. job.tool # "explain" => DOMAIN cfg' = Keys
  BY <1>2, <1>3, <1>4, SettleDomain
<1>6. Layered'
  BY <1>1, <1>5 DEF Layered
<1>7. LayersWin'
  <2>1. Templated' = TemplateKeys(cfg', job.flags)
    BY <1>1 DEF Templated, TemplateKeys
  <2>2. ASSUME NEW k PROVE LastGiven(k)' = LastGiven(k)
    BY <1>1 DEF LastGiven, Layers
  <2> SUFFICES ASSUME job.tool # "explain", NEW k \in DOMAIN cfg'
               PROVE  cfg'[k] = IF k \in TemplateKeys(cfg', job.flags) THEN Target(job.flags)[k]
                                ELSE IF k \in Settled(job.tool, job.flags)
                                THEN Settle(job.tool, Default(job.tool), job.flags)[k]
                                ELSE LastGiven(k)
    BY <1>1, <2>1, <2>2 DEF LayersWin
  <2>3. cfg[k] = LastGiven(k)
    <3>1. Len(Layers) = applied + 1 /\ Len(Layers) \in Nat
      BY <1>1, <1>2, LayersAre DEF Layered
    <3> QED  BY <1>4, <1>5, <3>1, TopmostIsLast
  <2>4. DOMAIN Default(job.tool) = Keys /\ Default(job.tool).request = None
    BY DefaultKeys DEF Default
  <2>5. CASE job.tool = "scan"
    BY <1>2, <1>3, <1>4, <1>5, <2>3, <2>4, <2>5, SettleScan
  <2>6. CASE job.tool = "fuzz" /\ k \in {"format", "output_file", "wordlist"}
    BY <1>2, <1>3, <1>4, <1>5, <2>4, <2>6, SettleFuzzAlone
  <2>7. CASE job.tool = "fuzz" /\ k \notin {"format", "output_file", "wordlist"}
    BY <1>2, <1>3, <1>4, <1>5, <2>3, <2>4, <2>7, SettleFuzz
  <2> QED  BY <1>2, <2>5, <2>6, <2>7
<1> QED  BY <1>6, <1>7

LEMMA NextLayered ==
    ASSUME IInv, Layered, LayersWin, [Next]_vars
    PROVE  Layered' /\ LayersWin'
<1>1. ASSUME UNCHANGED readVars PROVE Layered' /\ LayersWin'
  <2>1. UNCHANGED <<job, pc, overlays, applied, cfg>>
    BY <1>1 DEF readVars
  <2>2. Layered'
    BY <2>1, LayeredFrame
  <2>3. LayersWin'
    <3>1. Layers' = Layers
      BY <2>1 DEF Layers
    <3>2. ASSUME NEW k PROVE LastGiven(k)' = LastGiven(k)
      BY <2>1, <3>1 DEF LastGiven
    <3>3. Templated' = Templated
      BY <2>1 DEF Templated
    <3> SUFFICES ASSUME pc = "ready", job.tool # "explain", NEW k \in DOMAIN cfg
                 PROVE  cfg[k] = IF k \in Templated THEN Target(job.flags)[k]
                                 ELSE IF k \in Settled(job.tool, job.flags)
                                 THEN Settle(job.tool, Default(job.tool), job.flags)[k]
                                 ELSE LastGiven(k)'
      BY <2>1, <3>3 DEF LayersWin
    <3> QED  BY <3>2 DEF LayersWin
  <2> QED  BY <2>2, <2>3
<1>2. CASE \E c \in Creators : Create(c)
  BY <1>1, <1>2 DEF Create, CreateCheck, CreateOpen, CreateWrite
<1>3. CASE Edit
  BY <1>1, <1>3 DEF Edit, EditLoad, EditText, EditCheck, EditSave, EditSaveFails
<1>4. CASE Resolve
  <2>1. UNCHANGED <<job, overlays, applied, cfg>> /\ pc \in {"flags", "pick", "resolve"} /\ pc' \notin {"compose", "ready"}
    BY <1>4 DEF Resolve, CheckFlags, PickProfile, Cyclic, AlreadyVisited, Visit, CannotLoad, Descend, Finish, Fail
  <2> QED  BY <2>1, LayeredFrame DEF LayersWin
<1>5. CASE Collect
  BY <1>5, CollectLayered DEF IInv, Collect, Fail, LayersWin
<1>6. CASE LoadFile
  <2>1. pc' # "ready"
    BY <1>6 DEF LoadFile, Fail
  <2> QED  BY <2>1, <1>6, LoadFileLayered DEF LayersWin
<1>7. CASE ApplyOverlay
  <2>1. pc' # "ready"
    BY <1>7 DEF ApplyOverlay
  <2> QED  BY <2>1, <1>7, ApplyOverlayLayered DEF LayersWin
<1>8. CASE ApplyFlags
  BY <1>8, ApplyFlagsLayered
<1>9. CASE Ended \/ UNCHANGED vars
  BY <1>1, <1>9 DEF Ended, vars, readVars
<1> QED  BY <1>2, <1>3, <1>4, <1>5, <1>6, <1>7, <1>8, <1>9 DEF Next, Compose

\* Every setting a command runs with is that of its highest layer, for any
\* flags, profiles and configuration file, and whatever the other commands do
\* to the directory meanwhile (src/docs/configuration.md:12).
THEOREM LayersWinCorrect == Spec => []LayersWin
<1>1. Init => IInv /\ Layered /\ LayersWin
  BY InitInv, InitLayered DEF Init, LayersWin
<1>2. IInv /\ Layered /\ LayersWin /\ [Next]_vars => (IInv /\ Layered /\ LayersWin)'
  BY NextInv, NextLayered
<1> QED  BY <1>1, <1>2, PTL DEF Spec

(***************************************************************************)
(* The importer                                                            *)
(***************************************************************************)
PlainKeys == {"url", "wordlist", "threads", "timeout", "strategy", "regex_scope", "follow_redirects", "only_redirects",
              "format", "request", "method", "quiet", "recursive", "recurse_on"}

\* The document of a command line: a flag under its own key or the one it is
\* an alias for, the alias's value where both were given.
LEMMA Stored ==
    ASSUME NEW tool \in {"scan", "fuzz"}, NEW flags, DOMAIN flags \subseteq FlagsOf(tool)
    PROVE  LET doc == buildConfig(tool, flags)
               F   == DOMAIN flags
           IN /\ DOMAIN doc \subseteq PlainKeys \cup {"cookies", "match_status", "match_regex", "exclude_status", "exclude_size"}
              /\ \A k \in PlainKeys : (k \in DOMAIN doc <=> k \in F) /\ (k \in F => doc[k] = flags[k])
              /\ ("cookies" \in DOMAIN doc <=> "cookie" \in F) /\ ("cookie" \in F => doc["cookies"] = flags["cookie"])
              /\ ("match_status" \in DOMAIN doc <=> "mc" \in F) /\ ("mc" \in F => doc["match_status"] = flags["mc"])
              /\ ("match_regex" \in DOMAIN doc <=> "mr" \in F) /\ ("mr" \in F => doc["match_regex"] = flags["mr"])
              /\ "exclude_status" \in DOMAIN doc <=> "fc" \in F \/ "exclude_status" \in F
              /\ "exclude_status" \in DOMAIN doc =>
                    doc["exclude_status"] = IF "fc" \in F THEN flags["fc"] ELSE flags["exclude_status"]
              /\ "exclude_size" \in DOMAIN doc <=> "fs" \in F \/ "exclude_size" \in F
              /\ "exclude_size" \in DOMAIN doc =>
                    doc["exclude_size"] = IF "fs" \in F THEN flags["fs"] ELSE flags["exclude_size"]
<1> DEFINE F == DOMAIN flags
           doc == buildConfig(tool, flags)
           stored(k) == {f \in F \ RuntimeFlags : cliToYAML(f) = k}
           alias(k) == stored(k) \cap aliasFlags
           winner(k) == IF alias(k) # {} THEN CHOOSE f \in alias(k) : TRUE ELSE CHOOSE f \in stored(k) : TRUE
           D == {q \in KeysOf(tool) \ {"cookie"} : stored(q) # {}}
<1>1. doc = [k \in D |-> flags[winner(k)]]
  BY DEF buildConfig
<1>2. F \subseteq FuzzFlags \cup Recursion /\ (tool = "fuzz" => F \subseteq FuzzFlags)
  BY DEF FlagsOf, Recursion
<1>3. \A f \in F : cliToYAML(f) = CASE f = "cookie" -> "cookies"
                                   [] f = "mc" -> "match_status"
                                   [] f = "fc" -> "exclude_status"
                                   [] f = "fs" -> "exclude_size"
                                   [] f = "mr" -> "match_regex"
                                   [] OTHER -> f
  BY DEF cliToYAML
<1> HIDE DEF F
<1>4. \A k \in PlainKeys : stored(k) = F \cap {k}
  BY <1>2, <1>3 DEF PlainKeys, RuntimeFlags, FuzzFlags, Recursion
<1>5. /\ stored("cookies") = F \cap {"cookie"}
      /\ stored("match_status") = F \cap {"mc"}
      /\ stored("match_regex") = F \cap {"mr"}
      /\ stored("exclude_status") = F \cap {"fc", "exclude_status"}
      /\ stored("exclude_size") = F \cap {"fs", "exclude_size"}
      /\ stored("output") = {}
  BY <1>2, <1>3 DEF RuntimeFlags, FuzzFlags, Recursion
<1> HIDE DEF stored
<1>6. DOMAIN doc \subseteq PlainKeys \cup {"cookies", "match_status", "match_regex", "exclude_status", "exclude_size"}
  BY <1>1, <1>5 DEF KeysOf, ScanKeys, FuzzKeys, PlainKeys
<1>7. ASSUME NEW k \in PlainKeys
      PROVE  (k \in DOMAIN doc <=> k \in F) /\ (k \in F => doc[k] = flags[k])
  <2>1. k \in F => k \in KeysOf(tool) \ {"cookie"}
    BY <1>2 DEF PlainKeys, KeysOf, ScanKeys, FuzzKeys, FuzzFlags
  <2>2. k \in D <=> k \in F
    BY <2>1, <1>4
  <2>3. k \in F => winner(k) = k
    BY <1>4 DEF PlainKeys, aliasFlags
  <2> HIDE DEF D, winner
  <2> QED  BY <1>1, <2>2, <2>3
<1>8. ASSUME NEW k, NEW f, <<k, f>> \in {<<"cookies", "cookie">>, <<"match_status", "mc">>, <<"match_regex", "mr">>}
      PROVE  (k \in DOMAIN doc <=> f \in F) /\ (f \in F => doc[k] = flags[f])
  <2>1. k \in KeysOf(tool) \ {"cookie"}
    BY <1>8 DEF KeysOf, ScanKeys, FuzzKeys
  <2>2. stored(k) = F \cap {f} /\ f \notin aliasFlags
    BY <1>5, <1>8 DEF aliasFlags
  <2>3. k \in D <=> f \in F
    BY <2>1, <2>2
  <2>4. f \in F => winner(k) = f
    BY <2>2
  <2> HIDE DEF D, winner
  <2> QED  BY <1>1, <2>3, <2>4
<1>9. ASSUME NEW k, NEW f, <<k, f>> \in {<<"exclude_status", "fc">>, <<"exclude_size", "fs">>}
      PROVE  /\ k \in DOMAIN doc <=> f \in F \/ k \in F
             /\ k \in DOMAIN doc => doc[k] = IF f \in F THEN flags[f] ELSE flags[k]
  <2>1. k \in KeysOf(tool) \ {"cookie"}
    BY <1>9 DEF KeysOf, ScanKeys, FuzzKeys
  <2>2. stored(k) = F \cap {f, k} /\ f \in aliasFlags /\ k \notin aliasFlags
    BY <1>5, <1>9 DEF aliasFlags
  <2>3. k \in D <=> f \in F \/ k \in F
    BY <2>1, <2>2
  <2>4. alias(k) = F \cap {f}
    BY <2>2
  <2>5. f \in F => winner(k) = f
    BY <2>4
  <2>6. f \notin F /\ k \in F => winner(k) = k
    BY <2>2, <2>4
  <2> HIDE DEF D, winner
  <2> QED  BY <1>1, <2>3, <2>5, <2>6
<1> QED  BY <1>6, <1>7, <1>8, <1>9 DEF F

\* A stored document has none of the older names: it is its own overlay.
LEMMA StoredOverlay ==
    ASSUME NEW tool \in {"scan", "fuzz"}, NEW flags, DOMAIN flags \subseteq FlagsOf(tool)
    PROVE  LET doc == buildConfig(tool, flags)
           IN DOMAIN Overlay(doc) = DOMAIN doc /\ \A k \in DOMAIN doc : Overlay(doc)[k] = doc[k]
<1> DEFINE doc == buildConfig(tool, flags)
<1>1. "output" \notin DOMAIN doc /\ "cookie" \notin DOMAIN doc
  BY Stored DEF PlainKeys
<1> HIDE DEF doc
<1>2. DOMAIN Overlay(doc) = DOMAIN doc /\ \A k \in DOMAIN doc : Overlay(doc)[k] = doc[k]
  BY <1>1 DEF Overlay
<1> QED  BY <1>2 DEF doc

\* What the command line says of a key is what its document says, where that
\* counts, and the default otherwise.
Imported(j, k) ==
    LET doc == buildConfig(j.command, j.flags)
    IN /\ k \notin DOMAIN doc => Direct(j)[k] = Default(j.command)[k]
       /\ k \in DOMAIN doc /\ Takes(j.command, k, doc[k]) => Direct(j)[k] = doc[k]
       /\ k \in DOMAIN doc /\ ~Takes(j.command, k, doc[k])
             /\ (\A f \in DOMAIN j.flags : FlagAccepted(j.command, j.flags, f))
          => Direct(j)[k] = Default(j.command)[k]

LEMMA ImportScan ==
    ASSUME NEW j, j.command = "scan", DOMAIN j.flags \subseteq FlagsOf("scan"),
           NEW k \in Keys \ (NotImported(j) \cup {"url"})
    PROVE  Imported(j, k)
<1> DEFINE flags == j.flags
           F == DOMAIN flags
           d == Default("scan")
           A == applyCLIOverrides(d, flags)
           M == Direct(j)
           doc == buildConfig("scan", flags)
           fine == \A f \in F : FlagAccepted("scan", flags, f)
<1>1. DOMAIN A = Keys /\ M = FromTemplate(A, flags)
  BY DefaultKeys DEF applyCLIOverrides, Direct, Settle
<1>2. A.request = Given(flags, "request", "request", None)
  BY DEF applyCLIOverrides, Default
<1>3. M[k] = A[k]
  <2>1. "request" \in F => k \notin {"url", "method", "cookies"}
    BY DEF NotImported
  <2> HIDE DEF A, M
  <2>2. k \notin TemplateKeys(A, flags)
    BY <2>1, <1>2 DEF TemplateKeys, Given
  <2> QED  BY <2>2, <1>1, FromTemplateIs
<1> USE DEF Imported
<1>4. CASE k = "http_version"
  <2>1. A[k] = d[k]
    BY <1>4, DefaultKeys DEF applyCLIOverrides, Given, NotImported, Keys
  <2>2. k \notin DOMAIN doc
    BY <1>4, Stored DEF PlainKeys
  <2> QED  BY <2>1, <2>2, <1>3
<1>5. CASE k \in {"wordlist", "threads", "timeout", "strategy", "regex_scope", "follow_redirects", "only_redirects",
                  "request", "method", "quiet", "recursive", "recurse_on"}
  <2>1. A[k] = Given(flags, k, k, d[k])
    BY <1>5, DefaultKeys DEF applyCLIOverrides
  <2>2. (k \in DOMAIN doc <=> k \in F) /\ (k \in F => doc[k] = flags[k])
    BY <1>5, Stored DEF PlainKeys
  <2>3. fine /\ k \in F => Takes("scan", k, flags[k])
    <3>1. CASE k \in {"strategy", "recurse_on"}
      <4>1. fine /\ k \in F => FlagAccepted("scan", flags, k)
        OBVIOUS
      <4> HIDE DEF fine, flags
      <4> QED  BY <3>1, <4>1 DEF FlagAccepted, Takes, StatusKeys
    <3>2. CASE k = "regex_scope"
      BY <3>2 DEF Takes, StatusKeys, NotImported
    <3>3. CASE k \notin {"strategy", "recurse_on", "regex_scope"}
      BY <3>3, <1>5 DEF Takes, StatusKeys
    <3> QED  BY <3>1, <3>2, <3>3
  <2> HIDE DEF A, M, doc, d
  <2> QED  BY <2>1, <2>2, <2>3, <1>3 DEF Given, doc, M, d
<1>6. CASE k = "format"
  <2>1. A[k] = Given(flags, k, k, d[k])
    BY <1>6 DEF applyCLIOverrides, ScanFormat, NamesFile, NotImported, Default
  <2>2. (k \in DOMAIN doc <=> k \in F) /\ (k \in F => doc[k] = flags[k])
    BY <1>6, Stored DEF PlainKeys
  <2>3. Takes("scan", k, flags[k])
    BY <1>6 DEF Takes, StatusKeys
  <2> HIDE DEF A, M, doc, d
  <2> QED  BY <2>1, <2>2, <2>3, <1>3 DEF Given, doc, M, d
<1>7. CASE k = "output_file"
  <2>1. A[k] = d[k]
    BY <1>7 DEF applyCLIOverrides, Given, NotImported, Default
  <2>2. k \notin DOMAIN doc
    BY <1>7, Stored DEF PlainKeys
  <2> QED  BY <2>1, <2>2, <1>3
<1>8. CASE k \in {"cookies", "match_regex"}
  <2> DEFINE f == IF k = "cookies" THEN "cookie" ELSE "mr"
  <2>1. A[k] = Given(flags, f, f, d[k])
    BY <1>8, DefaultKeys DEF applyCLIOverrides
  <2>2. (k \in DOMAIN doc <=> f \in F) /\ (f \in F => doc[k] = flags[f])
    BY <1>8, Stored
  <2>3. \A v : Takes("scan", k, v)
    BY <1>8 DEF Takes, StatusKeys
  <2> HIDE DEF A, M, doc, d, f
  <2> QED  BY <2>1, <2>2, <2>3, <1>3 DEF Given, doc, M, d
<1>9. CASE k = "match_status"
  <2>1. A[k] = IF "mc" \in F /\ ParsesStatus(flags["mc"]) THEN flags["mc"] ELSE d[k]
    BY <1>9, DefaultKeys DEF applyCLIOverrides
  <2>2. (k \in DOMAIN doc <=> "mc" \in F) /\ ("mc" \in F => doc[k] = flags["mc"])
    BY <1>9, Stored
  <2>3. \A v : Takes("scan", k, v) <=> ParsesStatus(v)
    BY <1>9 DEF Takes, StatusKeys
  <2> HIDE DEF A, M, doc, d
  <2> QED  BY <2>1, <2>2, <2>3, <1>3 DEF doc, M, d
<1>10. CASE k = "exclude_status"
  <2> DEFINE v == IF "fc" \in F THEN flags["fc"] ELSE flags["exclude_status"]
             given == "fc" \in F \/ "exclude_status" \in F
  <2>1. A[k] = IF given /\ ParsesStatus(v) THEN v ELSE d[k]
    <3>1. A[k] = ScanExclude(d, flags)
      BY <1>10, DefaultKeys DEF applyCLIOverrides
    <3>2. "mc" \notin F /\ d.exclude_status = "404" /\ d[k] = "404"
      BY <1>10 DEF NotImported, Default
    <3> HIDE DEF A, d
    <3> QED  BY <3>1, <3>2 DEF ScanExclude, Given, ParsesStatus
  <2>2. (k \in DOMAIN doc <=> given) /\ (given => doc[k] = v)
    BY <1>10, Stored
  <2>3. \A w : Takes("scan", k, w) <=> ParsesStatus(w)
    BY <1>10 DEF Takes, StatusKeys
  <2> HIDE DEF A, M, doc, d, v, given
  <2> QED  BY <2>1, <2>2, <2>3, <1>3 DEF doc, M, d
<1>11. CASE k = "exclude_size"
  <2> DEFINE v == IF "fs" \in F THEN flags["fs"] ELSE flags["exclude_size"]
             given == "fs" \in F \/ "exclude_size" \in F
  <2>1. A[k] = IF given THEN v ELSE d[k]
    BY <1>11, DefaultKeys DEF applyCLIOverrides, Given
  <2>2. (k \in DOMAIN doc <=> given) /\ (given => doc[k] = v)
    BY <1>11, Stored
  <2>3. fine /\ given => Takes("scan", k, v)
    BY <1>11 DEF FlagAccepted, Takes, StatusKeys, ParsesSize
  <2> HIDE DEF A, M, doc, d, v, given
  <2> QED  BY <2>1, <2>2, <2>3, <1>3 DEF doc, M, d
<1> QED  BY <1>5, <1>6, <1>7, <1>8, <1>9, <1>10, <1>11, <1>4 DEF Keys

LEMMA ImportFuzz ==
    ASSUME NEW j, j.command = "fuzz", DOMAIN j.flags \subseteq FlagsOf("fuzz"),
           NEW k \in Keys \ (NotImported(j) \cup {"url"})
    PROVE  Imported(j, k)
<1> DEFINE flags == j.flags
           F == DOMAIN flags
           d == Default("fuzz")
           A == applyFuzzCLIOverrides(d, flags)
           M == Direct(j)
           doc == buildConfig("fuzz", flags)
           fine == \A f \in F : FlagAccepted("fuzz", flags, f)
<1>1. DOMAIN A = Keys /\ M = FuzzSettled(A, flags)
  BY DefaultKeys DEF applyFuzzCLIOverrides, Direct, Settle
<1>2. k \notin {"strategy", "wordlist", "format", "output_file", "url"}
  BY DEF NotImported
<1>3. M[k] = A[k]
  <2> DEFINE B == [A EXCEPT !.url = Given(flags, "url", "url", A.url)]
             T == FromTemplate(B, flags)
  <2>1. "request" \in F => k \notin {"url", "method", "cookies"}
    BY DEF NotImported
  <2>2. A.request = Given(flags, "request", "request", None)
    BY DEF applyFuzzCLIOverrides, Default
  <2> HIDE DEF A, M
  <2>3. DOMAIN B = Keys /\ B.request = A.request /\ B[k] = A[k]
    BY <1>1, <1>2 DEF Keys
  <2> HIDE DEF B
  <2>4. k \notin TemplateKeys(B, flags)
    BY <2>1, <2>2, <2>3 DEF TemplateKeys, Given
  <2>5. DOMAIN T = Keys /\ T[k] = A[k]
    BY <2>3, <2>4, FromTemplateIs
  <2>6. M = [T EXCEPT !.wordlist = Given(flags, "wordlist", "wordlist", ""),
                      !.format = Given(flags, "format", "format", "text"),
                      !.output_file = Given(flags, "output", "output", None)]
    BY <1>1 DEF FuzzSettled, B
  <2> HIDE DEF T
  <2> QED  BY <2>5, <2>6, <1>2
<1> USE DEF Imported
<1>4. CASE k = "http_version"
  <2>1. A[k] = d[k]
    BY <1>4, DefaultKeys DEF applyFuzzCLIOverrides, Given, NotImported, Keys
  <2>2. k \notin DOMAIN doc
    BY <1>4, Stored DEF PlainKeys
  <2> QED  BY <2>1, <2>2, <1>3
<1>5. CASE k \in {"threads", "timeout", "regex_scope", "follow_redirects", "only_redirects",
                  "request", "method", "quiet"}
  <2>1. A[k] = Given(flags, k, k, d[k])
    BY <1>5, DefaultKeys DEF applyFuzzCLIOverrides
  <2>2. (k \in DOMAIN doc <=> k \in F) /\ (k \in F => doc[k] = flags[k])
    BY <1>5, Stored DEF PlainKeys
  <2>3. k \in F => Takes("fuzz", k, flags[k])
    <3>1. CASE k = "regex_scope"
      BY <3>1 DEF Takes, StatusKeys, NotImported
    <3>2. CASE k # "regex_scope"
      BY <3>2, <1>5 DEF Takes, StatusKeys
    <3> QED  BY <3>1, <3>2
  <2> HIDE DEF A, M, doc, d
  <2> QED  BY <2>1, <2>2, <2>3, <1>3 DEF Given, doc, M, d
<1>6. CASE k \in Recursion
  <2>1. A[k] = d[k]
    BY <1>6, DefaultKeys DEF applyFuzzCLIOverrides, Recursion
  <2>2. k \notin F
    BY <1>6 DEF FlagsOf, FuzzFlags, Recursion
  <2>3. k \notin DOMAIN doc
    BY <2>2, <1>6, Stored DEF PlainKeys, Recursion
  <2> QED  BY <2>1, <2>3, <1>3
<1>7. CASE k \in {"cookies", "match_regex"}
  <2> DEFINE f == IF k = "cookies" THEN "cookie" ELSE "mr"
  <2>1. A[k] = Given(flags, f, f, d[k])
    BY <1>7, DefaultKeys DEF applyFuzzCLIOverrides
  <2>2. (k \in DOMAIN doc <=> f \in F) /\ (f \in F => doc[k] = flags[f])
    BY <1>7, Stored
  <2>3. \A v : Takes("fuzz", k, v)
    BY <1>7 DEF Takes, StatusKeys
  <2> HIDE DEF A, M, doc, d, f
  <2> QED  BY <2>1, <2>2, <2>3, <1>3 DEF Given, doc, M, d
<1>8. CASE k = "match_status"
  <2>1. A[k] = IF "mc" \in F /\ ParsesStatus(flags["mc"]) THEN flags["mc"] ELSE d[k]
    BY <1>8, DefaultKeys DEF applyFuzzCLIOverrides
  <2>2. (k \in DOMAIN doc <=> "mc" \in F) /\ ("mc" \in F => doc[k] = flags["mc"])
    BY <1>8, Stored
  <2>3. \A v : Takes("fuzz", k, v) <=> ParsesStatus(v)
    BY <1>8 DEF Takes, StatusKeys
  <2> HIDE DEF A, M, doc, d
  <2> QED  BY <2>1, <2>2, <2>3, <1>3 DEF doc, M, d
<1>9. CASE k = "exclude_status"
  <2> DEFINE v == IF "fc" \in F THEN flags["fc"] ELSE flags["exclude_status"]
             given == "fc" \in F \/ "exclude_status" \in F
  <2>1. A[k] = IF given THEN v ELSE d[k]
    <3>1. A[k] = FuzzExclude(d, flags)
      BY <1>9, DefaultKeys DEF applyFuzzCLIOverrides
    <3>2. "mc" \notin F /\ d.exclude_status = d[k]
      BY <1>9 DEF NotImported
    <3> HIDE DEF A, d
    <3> QED  BY <3>1, <3>2 DEF FuzzExclude, Given
  <2>2. (k \in DOMAIN doc <=> given) /\ (given => doc[k] = v)
    BY <1>9, Stored
  <2>3. fine /\ given => Takes("fuzz", k, v)
    <3> SUFFICES ASSUME fine, given PROVE Takes("fuzz", k, v)
      OBVIOUS
    <3>1. v # ""
      BY <1>9 DEF NotImported
    <3>2. v # "bad"
      BY DEF FlagAccepted
    <3> HIDE DEF v
    <3> QED  BY <3>1, <3>2, <1>9 DEF Takes, StatusKeys, ParsesStatus
  <2> HIDE DEF A, M, doc, d, v, given
  <2> QED  BY <2>1, <2>2, <2>3, <1>3 DEF doc, M, d
<1>10. CASE k = "exclude_size"
  <2> DEFINE v == IF "fs" \in F THEN flags["fs"] ELSE flags["exclude_size"]
             given == "fs" \in F \/ "exclude_size" \in F
  <2>1. A[k] = IF given THEN v ELSE d[k]
    BY <1>10, DefaultKeys DEF applyFuzzCLIOverrides, Given
  <2>2. (k \in DOMAIN doc <=> given) /\ (given => doc[k] = v)
    BY <1>10, Stored
  <2>3. fine /\ given => Takes("fuzz", k, v)
    BY <1>10 DEF FlagAccepted, Takes, StatusKeys, ParsesSize
  <2> HIDE DEF A, M, doc, d, v, given
  <2> QED  BY <2>1, <2>2, <2>3, <1>3 DEF doc, M, d
<1> QED  BY <1>2, <1>5, <1>6, <1>7, <1>8, <1>9, <1>10, <1>4 DEF Keys, Recursion

\* The configuration explain shows, and what a command line settles that has
\* no flag but the URL.
Shown ==
    job.tool = "explain" =>
        /\ pc = "compose" /\ applied = 0 => cfg = ExplainDefault
        /\ pc \in {"compose", "ready"} /\ applied = 1 => cfg = Explain(ExplainDefault, overlays[1])
        /\ pc = "ready" => applied = Len(overlays)

LEMMA InitShown == ASSUME Init PROVE Shown
  BY DEF Init, Shown

LEMMA NextShown == ASSUME Layered, Shown, [Next]_vars PROVE Shown'
<1>1. ASSUME UNCHANGED <<job, pc, overlays, applied, cfg>> PROVE Shown'
  BY <1>1 DEF Shown
<1>2. CASE (\E c \in Creators : Create(c)) \/ Edit \/ Ended \/ UNCHANGED vars
  BY <1>1, <1>2 DEF Create, CreateCheck, CreateOpen, CreateWrite, Edit, EditLoad, EditText, EditCheck,
        EditSave, EditSaveFails, Ended, vars, readVars
<1>3. CASE Resolve \/ Collect
  <2>1. pc' \notin {"compose", "ready"}
    BY <1>3 DEF Resolve, CheckFlags, PickProfile, Cyclic, AlreadyVisited, Visit, CannotLoad, Descend, Finish,
          Collect, Fail
  <2> QED  BY <2>1 DEF Shown
<1>4. CASE LoadFile
  <2>1. applied' = 0 /\ pc' # "ready" /\ job' = job
    BY <1>4 DEF LoadFile, Fail, Layered
  <2>2. job.tool = "explain" => cfg' = ExplainDefault
    BY <1>4 DEF LoadFile
  <2> QED  BY <2>1, <2>2 DEF Shown
<1>5. CASE ApplyOverlay
  <2>1. /\ applied \in Nat /\ applied' = applied + 1 /\ pc' = "compose" /\ pc = "compose"
        /\ UNCHANGED <<job, overlays>> /\ cfg' = Apply(job.tool, cfg, overlays[applied + 1])
    BY <1>5 DEF ApplyOverlay, Layered
  <2>2. job.tool = "explain" /\ applied = 0 => cfg' = Explain(ExplainDefault, overlays[1])
    BY <2>1 DEF Apply, Shown
  <2> QED  BY <2>1, <2>2 DEF Shown
<1>6. CASE ApplyFlags
  <2>1. /\ applied = Len(overlays) /\ pc = "compose" /\ pc' # "compose"
        /\ UNCHANGED <<job, overlays, applied>> /\ cfg' = Settle(job.tool, cfg, job.flags)
    BY <1>6 DEF ApplyFlags
  <2>2. job.tool = "explain" => cfg' = cfg
    BY <2>1 DEF Settle
  <2> QED  BY <2>1, <2>2 DEF Shown
<1> QED  BY <1>2, <1>3, <1>4, <1>5, <1>6 DEF Next, Compose

LEMMA UrlAlone ==
    ASSUME NEW tool \in {"scan", "fuzz"}, NEW flags, DOMAIN flags \subseteq {"url"}
    PROVE  Settled(tool, flags) \subseteq
             {"url"} \cup (IF tool = "scan" THEN {} ELSE {"strategy", "wordlist", "format", "output_file"})
  BY DEF Settled, Deaf, Idle, NamesFile, cliToYAML

\* One layer over the file: an imported profile that is used alone.
LEMMA AloneGiven ==
    ASSUME Layered, job.file = NoDocument, NEW o, overlays = <<o>>, NEW k
    PROVE  LastGiven(k) = IF k \in DOMAIN o /\ Takes(job.tool, k, o[k]) THEN Kept(k, o[k]) ELSE Default(job.tool)[k]
<1>1. Len(overlays) = 1 /\ overlays[1] = o
  OBVIOUS
<1>2. Len(Layers) = 2 /\ Layers[1] = Overlay(NoDocument) /\ Layers[2] = o
  BY <1>1, LayersAre DEF Layered
<1>3. DOMAIN Overlay(NoDocument) = {}
  BY DEF Overlay, NoDocument
<1>4. ~Gives(k, 1) /\ (Gives(k, 2) <=> k \in DOMAIN o /\ Takes(job.tool, k, o[k]))
  BY <1>2, <1>3 DEF Gives
<1> DEFINE v == IF k \in DOMAIN o /\ Takes(job.tool, k, o[k]) THEN Kept(k, o[k]) ELSE Default(job.tool)[k]
<1>5. Topmost(k, 2, v)
  BY <1>2, <1>4 DEF Topmost
<1> HIDE DEF v
<1>6. v = LastGiven(k)
  BY <1>2, <1>5, TopmostIsLast
<1> QED  BY <1>6 DEF v

LEMMA ImportSafe ==
    ASSUME IInv, Layered, Shown, LayersWin
    PROVE  ImportKeepsMeaning
<1> SUFFICES ASSUME NEW c \in Creators, pc = "ready", job.file = NoDocument,
                    creator[c].job.command # None,
                    overlays = <<Overlay(NewProfile(creator[c].job).config)>>
             PROVE  LET j == creator[c].job IN
                    /\ (/\ job.tool = j.command /\ DOMAIN job.flags \subseteq {"url"}
                        /\ PreRun(j.command, j.flags, <<j.name>>)) =>
                          \A k \in DOMAIN cfg \ (NotImported(j) \cup {"url"}) : cfg[k] = Direct(j)[k]
                    /\ job.tool = "explain" /\ j.command = "scan" =>
                          \A k \in (DOMAIN cfg \cap DOMAIN Direct(j)) \ NotImported(j) :
                              Takes("scan", k, cfg[k]) => cfg[k] = Direct(j)[k]
  BY DEF ImportKeepsMeaning
<1> DEFINE j == creator[c].job
           doc == buildConfig(j.command, j.flags)
           o == Overlay(doc)
<1>1. j \in CreateJobs
  BY DEF IInv, StoreOK
<1>2. j.command \in {"scan", "fuzz"} /\ DOMAIN j.flags \subseteq FlagsOf(j.command)
  BY <1>1, ProfilesAssumption
<1>3. overlays = <<o>>
  BY <1>2 DEF NewProfile, None
<1>4. DOMAIN o = DOMAIN doc /\ \A k \in DOMAIN doc : o[k] = doc[k]
  BY <1>2, StoredOverlay
<1>5. \A k \in Keys \ (NotImported(j) \cup {"url"}) : Imported(j, k)
  BY <1>2, ImportScan, ImportFuzz
<1> HIDE DEF j, o
<1>6. ASSUME job.tool = j.command, DOMAIN job.flags \subseteq {"url"}, PreRun(j.command, j.flags, <<j.name>>),
             NEW k \in DOMAIN cfg \ (NotImported(j) \cup {"url"})
      PROVE  cfg[k] = Direct(j)[k]
  <2>1. job.tool \in {"scan", "fuzz"} /\ job.tool # "explain" /\ DOMAIN cfg = Keys /\ k \in Keys
    BY <1>2, <1>6 DEF Layered
  <2>2. k \notin Settled(job.tool, job.flags)
    BY <1>2, <1>6, <2>1, UrlAlone DEF NotImported
  <2>3. k = "method" => cfg.request = None
    <3> SUFFICES ASSUME k = "method" PROVE cfg.request = None
      OBVIOUS
    <3>1. "request" \notin DOMAIN j.flags
      BY <1>6 DEF NotImported
    <3>2. "request" \notin DOMAIN o
      BY <3>1, <1>2, <1>4, Stored DEF PlainKeys
    <3>3. cfg["request"] = LastGiven("request")
      <4>1. /\ "request" \in DOMAIN cfg /\ "request" \notin Settled(job.tool, job.flags)
            /\ "request" \notin Templated
        BY <1>6, <2>1, UrlAlone DEF Keys, Templated
      <4> QED  BY <4>1, <2>1 DEF LayersWin
    <3>4. LastGiven("request") = Default(job.tool)["request"]
      BY <1>3, <3>2, AloneGiven
    <3> QED  BY <3>3, <3>4 DEF Default
  <2>4. k \notin Templated
    <3>1. "request" \notin DOMAIN job.flags
      BY <1>6
    <3>2. Target(job.flags).cookies = ""
      BY <3>1 DEF Target
    <3> QED  BY <2>3, <3>2, <1>6 DEF Templated
  <2>5. cfg[k] = LastGiven(k)
    BY <2>1, <2>2, <2>4 DEF LayersWin
  <2>6. cfg[k] = IF k \in DOMAIN o /\ Takes(j.command, k, o[k]) THEN Kept(k, o[k]) ELSE Default(j.command)[k]
    BY <1>3, <1>6, <2>5, AloneGiven
  <2>7. \A f \in DOMAIN j.flags : FlagAccepted(j.command, j.flags, f)
    BY <1>2, <1>6 DEF PreRun
  <2>8. k \in DOMAIN doc => Kept(k, doc[k]) = doc[k]
    <3>1. CASE k = "match_regex" /\ k \in DOMAIN doc
      <4>1. "mr" \in DOMAIN j.flags /\ doc[k] = j.flags["mr"]
        BY <3>1, <1>2, Stored
      <4>2. FlagAccepted(j.command, j.flags, "mr")
        BY <4>1, <2>7
      <4>3. j.flags["mr"] # "mixed"
        BY <4>2 DEF FlagAccepted
      <4> HIDE DEF doc
      <4> QED  BY <4>1, <4>3 DEF Kept
    <3>2. CASE k # "match_regex"
      BY <3>2 DEF Kept
    <3> QED  BY <3>1, <3>2
  <2> QED  BY <1>4, <1>5, <2>1, <2>6, <2>7, <2>8, <1>6 DEF Imported
<1>7. ASSUME job.tool = "explain", j.command = "scan", NEW k \in (DOMAIN cfg \cap DOMAIN Direct(j)) \ NotImported(j),
             Takes("scan", k, cfg[k])
      PROVE  cfg[k] = Direct(j)[k]
  <2>1. cfg = Explain(ExplainDefault, o)
    <3>1. Len(overlays) = 1 /\ overlays[1] = o
      BY <1>3
    <3> QED  BY <1>7, <3>1 DEF Shown
  <2>2. k \in DOMAIN ExplainDefault /\ cfg[k] = IF k \in DOMAIN o THEN o[k] ELSE ExplainDefault[k]
    BY <2>1, <1>7 DEF Explain
  <2>3. DOMAIN Direct(j) = Keys
    BY <1>7, DefaultKeys, SettleDomain DEF Direct
  <2>4. k \in Keys \ (NotImported(j) \cup {"url"}) /\ ExplainDefault[k] = Default("scan")[k]
    <3>1. k \in Keys /\ k \notin NotImported(j)
      BY <1>7, <2>3
    <3>2. k \in {"threads", "timeout", "strategy", "recurse_on", "exclude_status"}
      BY <2>2, <3>1 DEF ExplainDefault, Keys
    <3>3. ExplainDefault[k] = Default("scan")[k]
      <4>1. CASE k = "threads"
        BY <4>1 DEF ExplainDefault, Default
      <4>2. CASE k = "timeout"
        BY <4>2 DEF ExplainDefault, Default
      <4>3. CASE k = "strategy"
        BY <4>3 DEF ExplainDefault, Default
      <4>4. CASE k = "recurse_on"
        BY <4>4 DEF ExplainDefault, Default
      <4>5. CASE k = "exclude_status"
        BY <4>5 DEF ExplainDefault, Default
      <4> QED  BY <3>2, <4>1, <4>2, <4>3, <4>4, <4>5
    <3> QED  BY <3>1, <3>2, <3>3
  <2>5. Imported(j, k)
    BY <1>5, <2>4
  <2> QED  BY <1>4, <1>7, <2>2, <2>4, <2>5 DEF Imported
<1> QED  BY <1>6, <1>7 DEF j

\* A command line that is stored as a profile and used later gives the
\* configuration it gave directly, for every command line, whatever its flags
\* are aliases for (src/internal/profile/importer/importer.go:259).
THEOREM ImportCorrect == Spec => []ImportKeepsMeaning
<1>1. Init => IInv /\ Layered /\ LayersWin /\ Shown
  BY InitInv, InitLayered, InitShown DEF Init, LayersWin
<1>2. IInv /\ Layered /\ LayersWin /\ Shown /\ [Next]_vars => (IInv /\ Layered /\ LayersWin /\ Shown)'
  BY NextInv, NextLayered, NextShown
<1>3. IInv /\ Layered /\ LayersWin /\ Shown => ImportKeepsMeaning
  BY ImportSafe
<1> QED  BY <1>1, <1>2, <1>3, PTL DEF Spec

=============================================================================
