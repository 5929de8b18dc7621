--------------------------- MODULE SessionProofs ----------------------------
(***************************************************************************)
(* Proofs about Session, for every number of targets, every configuration  *)
(* and any number of keys and signals.                                     *)
(***************************************************************************)
EXTENDS Session, TLAPS

(***************************************************************************)
(* Types, and main holds a target wherever it works on one.                *)
(***************************************************************************)
Working == At \ {"next", "leaving", "over", "killed"}
TypeInv == TypeOK /\ (at \in Working => tgt \in Target)

\* The steps of main between two targets, one by one.
LEMMA CloseSteps ==
  ASSUME CloseStep
  PROVE  \/ at = "drained" /\ at' = "finalizing"
         \/ at = "finalizing" /\ at' = "teardown"
         \/ at = "teardown" /\ at' = "release"
         \/ at = "release" /\ at' = "summary"
         \/ at = "summary" /\ at' = "report"
         \/ at = "report" /\ at' = "pipeline"
         \/ at = "pipeline" /\ at' = "finish"
         \/ at = "finish" /\ at' = "next"
<1>1. PICK i \in 1 .. 8 : at = Closing[i] /\ at' = IF i = 8 THEN "next" ELSE Closing[i + 1]
  BY DEF CloseStep
<1>2. /\ Closing[1] = "drained" /\ Closing[2] = "finalizing" /\ Closing[3] = "teardown"
      /\ Closing[4] = "release" /\ Closing[5] = "summary" /\ Closing[6] = "report"
      /\ Closing[7] = "pipeline" /\ Closing[8] = "finish"
  BY DEF Closing
<1>3. \/ i = 1 \/ i = 2 \/ i = 3 \/ i = 4 \/ i = 5 \/ i = 6 \/ i = 7 \/ i = 8
  BY <1>1
<1> QED
  BY <1>1, <1>2, <1>3

\* The members of At.
LEMMA Places ==
  At = {"next", "detect", "configure", "scanning", "join", "leaving", "over", "killed",
        "drained", "finalizing", "teardown", "release", "summary", "report", "pipeline", "finish"}
<1>1. /\ Closing[1] = "drained" /\ Closing[2] = "finalizing" /\ Closing[3] = "teardown"
      /\ Closing[4] = "release" /\ Closing[5] = "summary" /\ Closing[6] = "report"
      /\ Closing[7] = "pipeline" /\ Closing[8] = "finish"
  BY DEF Closing
<1>2. {Closing[i] : i \in 1 .. 8} = {"drained", "finalizing", "teardown", "release", "summary",
                                     "report", "pipeline", "finish"}
  <2>1. \A i \in 1 .. 8 : i = 1 \/ i = 2 \/ i = 3 \/ i = 4 \/ i = 5 \/ i = 6 \/ i = 7 \/ i = 8
    OBVIOUS
  <2> QED
    BY <1>1, <2>1
<1> QED
  BY <1>2 DEF At

\* Every method of the terminal returns a state of the manager.
LEMMA TerminalTypes ==
  ASSUME NEW m \in Manager
  PROVE  /\ \A to \in Phase : TransitionTo(m, to) \in Manager
         /\ \A o \in Owner : AcquireOwner(m, o) \in Manager
         /\ \A o \in Owner : ReleaseOwner(m, o) \in Manager
         /\ \A o \in Owner, to \in Phase : AcquireAndTransition(m, o, to) \in Manager
         /\ \A o \in Owner, to \in Phase : TransitionAndRelease(m, to, o) \in Manager
<1>1. \A n \in Manager : \A to \in Phase : TransitionTo(n, to) \in Manager
  BY DEF TransitionTo, Manager
<1>2. \A n \in Manager : \A o \in Owner : AcquireOwner(n, o) \in Manager
  BY DEF AcquireOwner, Manager
<1>3. "None" \in Owner
  BY DEF Owner
<1>4. \A n \in Manager : \A o \in Owner : ReleaseOwner(n, o) \in Manager
  BY <1>3 DEF ReleaseOwner, Manager
<1> QED
  BY <1>1, <1>2, <1>4 DEF AcquireAndTransition, TransitionAndRelease

\* So does the call main makes between two targets.
LEMMA CallType ==
  ASSUME NEW m \in Manager, CloseStep
  PROVE  Call(m) \in Manager
<1>1. /\ {"WAITING_WORKERS", "FINALIZING", "TERMINAL_SHUTDOWN", "SUMMARY", "PIPELINE", "DONE"} \subseteq Phase
      /\ {"Progress", "Summary", "Pipeline"} \subseteq Owner
  BY DEF Phase, Owner
<1>2. /\ TransitionTo(m, "WAITING_WORKERS") \in Manager
      /\ TransitionTo(m, "FINALIZING") \in Manager
      /\ TransitionTo(m, "TERMINAL_SHUTDOWN") \in Manager
      /\ ReleaseOwner(m, "Progress") \in Manager
      /\ AcquireAndTransition(m, "Summary", "SUMMARY") \in Manager
      /\ TransitionTo(m, "PIPELINE") \in Manager
      /\ TransitionAndRelease(m, "PIPELINE", "Summary") \in Manager
      /\ AcquireOwner(m, "Pipeline") \in Manager
      /\ TransitionTo(m, "DONE") \in Manager
      /\ TransitionAndRelease(m, "DONE", "Pipeline") \in Manager
  BY <1>1, TerminalTypes
<1> QED
  BY <1>2, CloseSteps DEF Call

-----------------------------------------------------------------------------
(***************************************************************************)
(* Type correctness.                                                       *)
(***************************************************************************)
LEMMA InitType == Init => TypeInv
<1> SUFFICES ASSUME Init PROVE TypeInv
  OBVIOUS
<1>1. conf \in Conf /\ at = "next" /\ tgt = 0 /\ cutShort = {}
  BY DEF Init
<1>2. at \in At /\ tgt \in 0 .. Targets /\ at \notin Working
  BY <1>1, Places, TargetsAssumption DEF Working
<1>3. New \in Manager
  BY DEF New, Manager, Phase, Owner
<1>4. term \in [Target -> Manager]
  BY <1>3 DEF Init, Each
<1>5. /\ ctx \in BOOLEAN /\ drain \in BOOLEAN /\ tctx \in [Target -> BOOLEAN]
      /\ stats \in [Target -> BOOLEAN] /\ saved \in [Target -> BOOLEAN] /\ raw \in BOOLEAN
      /\ signalled \in BOOLEAN /\ aborted \in BOOLEAN
  BY DEF Init, Each
<1>6. /\ coord \in [Target -> {"none", "watching", "console", "progress", "closing", "ended"}]
      /\ prog \in [Target -> {"none", "running", "ended"}]
      /\ console \in [Target -> {"none", "starting", "open", "closed"}]
      /\ commander \in [Target -> {"none", "listening", "aborting", "ended"}]
  BY DEF Init, Each
<1>7. /\ reader \in [Target -> Seq(Key)] /\ cmds \in [Target -> Seq(Command)]
      /\ \A t \in Target : Len(reader[t]) <= 2
  BY DEF Init, Each
<1>8. typed \in Seq(Key) /\ inputs \in 0 .. MaxInputs
      /\ handler \in {"first", "cancelling", "second", "eating", "gone"}
  BY InputsAssumption DEF Init
<1> QED
  BY <1>1, <1>2, <1>4, <1>5, <1>6, <1>7, <1>8 DEF TypeInv, TypeOK

(***************************************************************************)
(* The steps of main.                                                      *)
(***************************************************************************)
LEMMA MainType ==
  ASSUME TypeInv, Main
  PROVE  TypeInv'
<1> USE DEF TypeInv
<1>1. /\ TypeOK /\ Target = 1 .. Targets /\ Targets \in Nat \ {0}
  BY TargetsAssumption DEF Target
<1>2. CASE NextTarget
  <2>1. CASE ctx \/ tgt = Targets
    BY <1>1, <1>2, <2>1, Places DEF NextTarget, Leave, TypeOK, Working, display, keyboard, user, signals
  <2>2. CASE ~(ctx \/ tgt = Targets)
    <3>1. tgt' \in Target /\ tgt' \in 0 .. Targets
      BY <1>1, <1>2, <2>2 DEF NextTarget, TypeOK
    <3> QED
      BY <1>1, <1>2, <2>2, <3>1, Places DEF NextTarget, TypeOK, Working, display, keyboard, user, signals
  <2> QED
    BY <2>1, <2>2
<1>3. CASE Detect
  <2>1. tgt \in Target
    BY <1>1, <1>3, Places DEF Detect, Working
  <2>2. AcquireOwner(New, "Configuration") \in Manager
    BY DEF AcquireOwner, New, Manager, Phase, Owner
  <2> QED
    BY <1>1, <1>3, <2>1, <2>2, Places DEF Detect, TypeOK, Working, ctxs, display, keyboard, user, signals
<1>4. CASE DetectFails
  BY <1>1, <1>4, Places DEF DetectFails, Leave, TypeOK, Working, display, keyboard, user, signals
<1>5. CASE Configure
  <2>1. tgt \in Target
    BY <1>1, <1>5, Places DEF Configure, Working
  <2>2. AcquireOwner(TransitionAndRelease(term[tgt], "RUNNING", "Configuration"), "Progress") \in Manager
    <3>1. term[tgt] \in Manager /\ "RUNNING" \in Phase /\ "Configuration" \in Owner /\ "Progress" \in Owner
      BY <1>1, <2>1 DEF TypeOK, Phase, Owner
    <3>2. TransitionAndRelease(term[tgt], "RUNNING", "Configuration") \in Manager
      BY <3>1, TerminalTypes
    <3> QED
      BY <3>1, <3>2, TerminalTypes
  <2>3. term' \in [Target -> Manager]
    BY <1>1, <1>5, <2>2 DEF Configure, TypeOK
  <2>4. /\ coord' \in [Target -> {"none", "watching", "console", "progress", "closing", "ended"}]
        /\ prog' \in [Target -> {"none", "running", "ended"}]
    BY <1>1, <1>5 DEF Configure, TypeOK
  <2>5. /\ console' \in [Target -> {"none", "starting", "open", "closed"}]
        /\ commander' \in [Target -> {"none", "listening", "aborting", "ended"}]
    BY <1>1, <1>5 DEF Configure, TypeOK
  <2> QED
    BY <1>1, <1>5, <2>1, <2>3, <2>4, <2>5, Places DEF Configure, TypeOK, Working, ctxs, user, signals
<1>6. CASE ScanEnds
  BY <1>1, <1>6, Places DEF ScanEnds, TypeOK, Working, display, keyboard, user, signals
<1>7. CASE RunFails
  BY <1>1, <1>7, Places DEF RunFails, Leave, TypeOK, Working, display, keyboard, user, signals
<1>11. CASE RunCancelled
  <2>1. tgt \in Target
    BY <1>1, <1>11, Places DEF RunCancelled, Working
  <2>2. CASE ctx
    BY <1>1, <1>11, <2>2, Places DEF RunCancelled, Leave, TypeOK, Working, display, keyboard, user, signals
  <2>3. CASE ~ctx
    <3>1. at' = "next" /\ cutShort' = cutShort \cup {tgt} /\ tctx' = [tctx EXCEPT ![tgt] = TRUE]
          /\ UNCHANGED <<conf, tgt, ctx, drain, term, display, keyboard, user, signals, aborted>>
      BY <1>11, <2>3 DEF RunCancelled
    <3>2. at' \in At /\ at' \notin Working
      BY <3>1, Places DEF Working
    <3>3. cutShort' \subseteq Target /\ tctx' \in [Target -> BOOLEAN]
      BY <1>1, <2>1, <3>1 DEF TypeOK
    <3> QED
      BY <1>1, <3>1, <3>2, <3>3 DEF TypeOK, display, keyboard, user, signals
  <2> QED
    BY <2>2, <2>3
<1>8. CASE Join
  <2>1. Closing[1] = "drained"
    BY DEF Closing
  <2> QED
    BY <1>1, <1>8, <2>1, Places DEF Join, TypeOK, Working, ctxs, display, keyboard, user, signals
<1>9. CASE CloseStep
  <2>1. tgt \in Target
    BY <1>1, <1>9, CloseSteps, Places DEF Working
  <2>2. Call(term[tgt]) \in Manager
    BY <1>1, <1>9, <2>1, CallType DEF TypeOK
  <2>3. /\ term' = [term EXCEPT ![tgt] = Call(term[tgt])]
        /\ UNCHANGED <<conf, cutShort, tgt, ctxs, display, keyboard, user, signals, aborted>>
    BY <1>9 DEF CloseStep
  <2>4. at' \in At
    BY <1>9, CloseSteps, Places
  <2> QED
    BY <1>1, <2>1, <2>2, <2>3, <2>4 DEF TypeOK, ctxs, display, keyboard, user, signals
<1>10. CASE Exit
  BY <1>1, <1>10, Places DEF Exit, TypeOK, Working, ctxs, display, keyboard, user, signals
<1> QED
  BY <1>2, <1>3, <1>4, <1>5, <1>6, <1>7, <1>8, <1>9, <1>10, <1>11 DEF Main

(***************************************************************************)
(* The display and the coordinator.                                        *)
(***************************************************************************)
LEMMA DisplayType ==
  ASSUME TypeInv, NEW t \in Target, Coordinator(t) \/ ProgressEnds(t)
  PROVE  TypeInv'
<1>1. UNCHANGED <<main, ctxs, term, keyboard, user, signals, aborted>>
  BY DEF Coordinator, Notice, AwaitConsole, AwaitProgress, CloseRenderer, ProgressEnds
<1>2. coord' \in [Target -> {"none", "watching", "console", "progress", "closing", "ended"}]
  <2>1. coord \in [Target -> {"none", "watching", "console", "progress", "closing", "ended"}]
    BY DEF TypeInv, TypeOK
  <2>2. \/ coord' = coord
        \/ \E to \in {"console", "progress", "closing", "ended"} : coord' = [coord EXCEPT ![t] = to]
    BY DEF Coordinator, Notice, AwaitConsole, AwaitProgress, CloseRenderer, ProgressEnds
  <2> QED
    BY <2>1, <2>2
<1>3. prog' \in [Target -> {"none", "running", "ended"}]
  <2>1. prog \in [Target -> {"none", "running", "ended"}]
    BY DEF TypeInv, TypeOK
  <2>2. prog' = prog \/ prog' = [prog EXCEPT ![t] = "ended"]
    BY DEF Coordinator, Notice, AwaitConsole, AwaitProgress, CloseRenderer, ProgressEnds
  <2> QED
    BY <2>1, <2>2
<1> QED
  BY <1>1, <1>2, <1>3 DEF TypeInv, TypeOK, main, ctxs, keyboard, user, signals

(***************************************************************************)
(* The keyboard: a reader takes a key only when it holds at most one.      *)
(***************************************************************************)
LEMMA KeyboardType ==
  ASSUME TypeInv, NEW t \in Target, Keyboard(t) \/ Read(t) \/ Commander(t)
  PROVE  TypeInv'
<1>1. TypeOK
  BY DEF TypeInv
<1>2. CASE OpenConsole(t)
  BY <1>1, <1>2 DEF OpenConsole, TypeInv, TypeOK, main, ctxs, display, user, signals
<1>3. CASE HandleKey(t)
  <2>1. reader[t] \in Seq(Key) /\ reader[t] # <<>> /\ cmds[t] \in Seq(Command) /\ Len(reader[t]) <= 2
    BY <1>1, <1>3 DEF HandleKey, TypeOK
  <2>2. Tail(reader[t]) \in Seq(Key) /\ Len(Tail(reader[t])) <= 2
    BY <2>1
  <2>3. reader' \in [Target -> Seq(Key)] /\ \A u \in Target : Len(reader'[u]) <= 2
    BY <1>1, <1>3, <2>2 DEF HandleKey, TypeOK
  <2>4. cmds' \in [Target -> Seq(Command)]
    <3>1. CASE Head(reader[t]) \in Command
      <4>1. Append(cmds[t], Head(reader[t])) \in Seq(Command)
        BY <2>1, <3>1
      <4> QED
        BY <1>1, <1>3, <4>1 DEF HandleKey, TypeOK
    <3>2. CASE Head(reader[t]) \notin Command
      BY <1>1, <1>3, <3>2 DEF HandleKey, TypeOK
    <3> QED
      BY <3>1, <3>2
  <2>5. stats' \in [Target -> BOOLEAN]
    <3>1. PICK b \in BOOLEAN : stats' = [stats EXCEPT ![t] = b]
      <4>1. (~stats[t] /\ Head(reader[t]) = "s") \in BOOLEAN
        OBVIOUS
      <4> QED
        BY <1>3, <4>1 DEF HandleKey
    <3> QED
      BY <1>1, <3>1 DEF TypeOK
  <2>6. UNCHANGED <<main, ctxs, term, display, console, saved, raw, commander, user, signals, aborted>>
    BY <1>3 DEF HandleKey
  <2> QED
    BY <1>1, <2>3, <2>4, <2>5, <2>6 DEF TypeInv, TypeOK, main, ctxs, display, user, signals
<1>4. CASE CloseConsole(t)
  <2>1. saved[t] \in BOOLEAN
    BY <1>1 DEF TypeOK
  <2> QED
    BY <1>1, <1>4, <2>1 DEF CloseConsole, TypeInv, TypeOK, main, ctxs, display, user, signals
<1>5. CASE Read(t)
  <2>1. reader[t] \in Seq(Key) /\ Len(reader[t]) < 2 /\ typed \in Seq(Key) /\ typed # <<>>
    BY <1>1, <1>5 DEF Read, TypeOK
  <2>2. Append(reader[t], Head(typed)) \in Seq(Key) /\ Len(Append(reader[t], Head(typed))) <= 2
    BY <2>1
  <2>3. reader' \in [Target -> Seq(Key)] /\ \A u \in Target : Len(reader'[u]) <= 2
    BY <1>1, <1>5, <2>2 DEF Read, TypeOK
  <2>4. typed' \in Seq(Key)
    BY <1>5, <2>1 DEF Read
  <2>5. UNCHANGED <<main, ctxs, term, display, console, stats, saved, raw, commander, cmds, inputs, signals, aborted>>
    BY <1>5 DEF Read
  <2> QED
    BY <1>1, <2>3, <2>4, <2>5 DEF TypeInv, TypeOK, main, ctxs, display, signals
<1>6. CASE Commander(t)
  <2>1. cmds[t] # <<>> => Tail(cmds[t]) \in Seq(Command)
    BY <1>1 DEF TypeOK
  <2>2. cmds' \in [Target -> Seq(Command)]
    BY <1>1, <1>6, <2>1 DEF Commander, StopTarget, AbortAll, AbortGracefully, CommanderEnds, TypeOK
  <2>3. commander' \in [Target -> {"none", "listening", "aborting", "ended"}]
    BY <1>1, <1>6 DEF Commander, StopTarget, AbortAll, AbortGracefully, CommanderEnds, TypeOK, ctxs
  <2>4. ctx' \in BOOLEAN /\ drain' \in BOOLEAN /\ tctx' \in [Target -> BOOLEAN] /\ aborted' \in BOOLEAN
    BY <1>1, <1>6 DEF Commander, StopTarget, AbortAll, AbortGracefully, CommanderEnds, TypeOK, ctxs
  <2>5. UNCHANGED <<main, term, display, console, stats, saved, raw, reader, user, signals>>
    BY <1>6 DEF Commander, StopTarget, AbortAll, AbortGracefully, CommanderEnds
  <2> QED
    BY <1>1, <2>2, <2>3, <2>4, <2>5 DEF TypeInv, TypeOK, main, display, user, signals
<1> QED
  BY <1>2, <1>3, <1>4, <1>5, <1>6 DEF Keyboard

(***************************************************************************)
(* Signals and the user.                                                   *)
(***************************************************************************)
LEMMA InputType ==
  ASSUME TypeInv, Handler \/ Type \/ Signal
  PROVE  TypeInv'
<1>1. TypeOK
  BY DEF TypeInv
<1>2. CASE Handler
  <2>1. UNCHANGED <<main, tctx, term, display, keyboard, user>>
    BY <1>2 DEF Handler, Graceful, CancelGraceful, ForceAbort, HandlerEnds, ctxs
  <2>2. /\ ctx' \in BOOLEAN /\ drain' \in BOOLEAN /\ aborted' \in BOOLEAN /\ signalled' \in BOOLEAN
        /\ handler' \in {"first", "cancelling", "second", "eating", "gone"}
    BY <1>1, <1>2 DEF Handler, Graceful, CancelGraceful, ForceAbort, HandlerEnds, ctxs, TypeOK
  <2> QED
    BY <1>1, <2>1, <2>2 DEF TypeInv, TypeOK, main, display, keyboard, user
<1>3. CASE Type
  <2>1. inputs' \in 0 .. MaxInputs
    BY <1>1, <1>3, InputsAssumption DEF Type, TypeOK
  <2>2. typed' \in Seq(Key)
    BY <1>1, <1>3 DEF Type, TypeOK
  <2>3. UNCHANGED <<main, ctxs, term, display, keyboard, signals, aborted>>
    BY <1>3 DEF Type
  <2> QED
    BY <1>1, <2>1, <2>2, <2>3 DEF TypeInv, TypeOK, main, ctxs, display, keyboard, signals
<1>4. CASE Signal
  <2>1. inputs' \in 0 .. MaxInputs
    BY <1>1, <1>4, InputsAssumption DEF Signal, TypeOK
  <2>4. signalled' \in BOOLEAN
    <3>1. signalled \in BOOLEAN /\ (signalled' = signalled \/ signalled' = TRUE)
      BY <1>1, <1>4 DEF Signal, TypeOK
    <3> QED
      BY <3>1
  <2>2. at' \in At /\ (at' \in Working => at' = at)
    BY <1>1, <1>4, Places DEF Signal, TypeOK, Working
  <2>3. UNCHANGED <<conf, cutShort, tgt, ctxs, term, display, keyboard, typed, handler, aborted>>
    BY <1>4 DEF Signal
  <2> QED
    BY <1>1, <2>1, <2>4, <2>2, <2>3 DEF TypeInv, TypeOK, ctxs, display, keyboard
<1> QED
  BY <1>2, <1>3, <1>4

LEMMA StutterType ==
  ASSUME TypeInv, UNCHANGED vars
  PROVE  TypeInv'
BY DEF TypeInv, TypeOK, vars, main, ctxs, display, keyboard, user, signals

LEMMA TypeSafe == Spec => []TypeInv
<1>1. TypeInv /\ [Next]_vars => TypeInv'
  BY MainType, DisplayType, KeyboardType, InputType, StutterType DEF Next, Ended
<1> QED
  BY <1>1, InitType, PTL DEF Spec

(***************************************************************************)
(* The state of a session keeps its types, for every number of targets and *)
(* inputs; a reader never holds more than two keys.                        *)
(***************************************************************************)
THEOREM TypeCorrect == Spec => []TypeOK
<1>1. TypeInv => TypeOK
  BY DEF TypeInv
<1> QED
  BY <1>1, TypeSafe, PTL

-----------------------------------------------------------------------------
(***************************************************************************)
(* The terminal's life.  Stage: phase and owner of the current target      *)
(* follow from where main is.  Team: the goroutines that write are those   *)
(* of the current target, while main neither changes phase nor owner, or   *)
(* those of a target that was cut short, whose terminal main is done with. *)
(***************************************************************************)
M(p, o) == [phase |-> p, owner |-> o]
Live == M("RUNNING", "Progress")

Stage ==
  /\ at = "configure" => term[tgt] = M("STARTING", "Configuration")
  /\ at \in {"scanning", "join", "drained"} => term[tgt] = Live
  /\ at = "finalizing" => term[tgt] = M("WAITING_WORKERS", "Progress")
  /\ at = "teardown" => term[tgt] = M("FINALIZING", "Progress")
  /\ at = "release" => term[tgt] = M("TERMINAL_SHUTDOWN", "Progress")
  /\ at = "summary" => term[tgt] = M("TERMINAL_SHUTDOWN", "None")
  /\ at = "report" => term[tgt] = M("SUMMARY", "Summary")
  /\ at = "pipeline" => term[tgt] = M("PIPELINE", IF conf.quiet THEN "Summary" ELSE "None")
  /\ at = "finish" => term[tgt] = M("PIPELINE", IF conf.quiet THEN "Summary" ELSE "Pipeline")

Past ==
  \A t \in Target \ cutShort : Left(t) =>
     term[t] = M("DONE", IF conf.quiet THEN "Summary" ELSE "None") /\ coord[t] = "ended"

Active(t) == coord[t] \in {"watching", "console", "progress", "closing"}

Closed == {"drained", "finalizing", "teardown", "release", "summary", "report", "pipeline", "finish"}

\* A target that was cut short is behind main.
Behind ==
  \A t \in cutShort : t <= tgt /\ (t = tgt => at \in {"next", "leaving", "over", "killed"})

\* The current target, while its goroutines may be there.
Current(t) ==
  /\ t = tgt
  /\ at \in {"scanning", "join", "leaving", "over", "killed"}
  /\ at \in {"leaving", "over"} => conf.recursive

Team ==
  \A t \in Target :
    /\ Active(t) => term[t] = Live /\ (t \in cutShort \/ Current(t))
    /\ prog[t] = "running" => coord[t] \in {"watching", "console", "progress"} /\ conf.progress
    /\ console[t] \in {"starting", "open"} => coord[t] \in {"watching", "console"} /\ conf.keyboard
    /\ t = tgt /\ at \in Closed => coord[t] = "ended"

Cooked ==
  cutShort = {} =>
    /\ \A t \in Target : saved[t] = FALSE
    /\ raw => tgt \in Target /\ console[tgt] = "open"

Inv == Stage /\ Past /\ Behind /\ Team /\ Cooked

LEMMA InitInv == Init => Inv
<1> SUFFICES ASSUME Init PROVE Inv
  OBVIOUS
<1>1. at = "next" /\ tgt = 0 /\ raw = FALSE /\ cutShort = {}
  BY DEF Init
<1>2. \A t \in Target : coord[t] = "none" /\ prog[t] = "none" /\ console[t] = "none" /\ saved[t] = FALSE
  BY DEF Init, Each
<1>3. \A t \in Target : ~Left(t)
  BY <1>1, TargetsAssumption DEF Left, Target
<1> QED
  BY <1>1, <1>2, <1>3 DEF Inv, Stage, Past, Behind, Team, Cooked, Active, Closed

\* What the calls of main do to the terminal of a target.
LEMMA Calls ==
  /\ AcquireOwner(New, "Configuration") = M("STARTING", "Configuration")
  /\ TransitionAndRelease(M("STARTING", "Configuration"), "RUNNING", "Configuration") = M("RUNNING", "None")
  /\ AcquireOwner(M("RUNNING", "None"), "Progress") = Live
  /\ TransitionTo(Live, "WAITING_WORKERS") = M("WAITING_WORKERS", "Progress")
  /\ TransitionTo(M("WAITING_WORKERS", "Progress"), "FINALIZING") = M("FINALIZING", "Progress")
  /\ TransitionTo(M("FINALIZING", "Progress"), "TERMINAL_SHUTDOWN") = M("TERMINAL_SHUTDOWN", "Progress")
  /\ ReleaseOwner(M("TERMINAL_SHUTDOWN", "Progress"), "Progress") = M("TERMINAL_SHUTDOWN", "None")
  /\ AcquireAndTransition(M("TERMINAL_SHUTDOWN", "None"), "Summary", "SUMMARY") = M("SUMMARY", "Summary")
  /\ TransitionTo(M("SUMMARY", "Summary"), "PIPELINE") = M("PIPELINE", "Summary")
  /\ TransitionAndRelease(M("SUMMARY", "Summary"), "PIPELINE", "Summary") = M("PIPELINE", "None")
  /\ AcquireOwner(M("PIPELINE", "None"), "Pipeline") = M("PIPELINE", "Pipeline")
  /\ TransitionTo(M("PIPELINE", "Summary"), "DONE") = M("DONE", "Summary")
  /\ TransitionAndRelease(M("PIPELINE", "Pipeline"), "DONE", "Pipeline") = M("DONE", "None")
<1>1. \A m \in Manager, to \in Phase : Valid(m, to) => TransitionTo(m, to) = M(to, m.owner)
  BY DEF TransitionTo, M, Manager
<1>2. \A m \in Manager, o \in Owner : m.phase # "DONE" /\ m.owner \in {"None", o} => AcquireOwner(m, o) = M(m.phase, o)
  BY DEF AcquireOwner, M, Manager
<1>3. \A m \in Manager, o \in Owner : m.owner = o => ReleaseOwner(m, o) = M(m.phase, "None")
  BY DEF ReleaseOwner, M, Manager
<1>4. \A p \in Phase, o \in Owner : M(p, o) \in Manager /\ M(p, o).phase = p /\ M(p, o).owner = o
  BY DEF M, Manager
<1>5. \A p, to \in Phase, o \in Owner : <<p, to>> \in ValidTransitions => TransitionTo(M(p, o), to) = M(to, o)
  BY <1>1, <1>4 DEF Valid
<1>6. \A p, to \in Phase, o \in Owner : <<p, to>> \in ValidTransitions => TransitionAndRelease(M(p, o), to, o) = M(to, "None")
  BY <1>3, <1>4, <1>5 DEF Valid, TransitionAndRelease
<1>7. \A p, to \in Phase, o \in Owner : <<p, to>> \in ValidTransitions /\ to # "DONE" =>
          AcquireAndTransition(M(p, "None"), o, to) = M(to, o)
  <2>1. "None" \in Owner
    BY DEF Owner
  <2> QED
    BY <1>2, <1>4, <1>5, <2>1 DEF Valid, AcquireAndTransition
<1>8. /\ {"STARTING", "RUNNING", "WAITING_WORKERS", "FINALIZING", "TERMINAL_SHUTDOWN", "SUMMARY", "PIPELINE", "DONE"} \subseteq Phase
      /\ {"None", "Configuration", "Progress", "Summary", "Pipeline"} \subseteq Owner
  BY DEF Phase, Owner
<1>9. /\ <<"STARTING", "RUNNING">> \in ValidTransitions
      /\ <<"RUNNING", "WAITING_WORKERS">> \in ValidTransitions
      /\ <<"WAITING_WORKERS", "FINALIZING">> \in ValidTransitions
      /\ <<"FINALIZING", "TERMINAL_SHUTDOWN">> \in ValidTransitions
      /\ <<"TERMINAL_SHUTDOWN", "SUMMARY">> \in ValidTransitions
      /\ <<"SUMMARY", "PIPELINE">> \in ValidTransitions
      /\ <<"PIPELINE", "DONE">> \in ValidTransitions
  BY DEF ValidTransitions
<1>10. New = M("STARTING", "None")
  BY DEF New, M
<1>11. \A p \in Phase, o \in Owner : p # "DONE" => AcquireOwner(M(p, "None"), o) = M(p, o)
  BY <1>2, <1>4, <1>8
<1>12. ReleaseOwner(M("TERMINAL_SHUTDOWN", "Progress"), "Progress") = M("TERMINAL_SHUTDOWN", "None")
  BY <1>3, <1>4, <1>8
<1> QED
  BY <1>5, <1>6, <1>7, <1>8, <1>9, <1>10, <1>11, <1>12 DEF Live

(***************************************************************************)
(* Steps that leave everything the invariant mentions alone, except that a *)
(* signal may kill the process.                                            *)
(***************************************************************************)
LEMMA FrameInv ==
  ASSUME Inv, UNCHANGED <<conf, tgt, cutShort, term, coord, prog, console, saved, raw>>,
         at' = at \/ at' = "killed"
  PROVE  Inv'
<1>1. Stage'
  BY DEF Inv, Stage
<1>2. Past'
  BY DEF Inv, Past, Left
<1>3. Team'
  BY DEF Inv, Team, Active, Current, Closed
<1>4. Cooked' /\ Behind'
  BY DEF Inv, Cooked, Behind
<1> QED
  BY <1>1, <1>2, <1>3, <1>4 DEF Inv

\* A working goroutine of the display works for the current target.
LEMMA DisplayInv ==
  ASSUME TypeInv, Inv, NEW t \in Target, Coordinator(t) \/ ProgressEnds(t)
  PROVE  Inv'
<1>1. UNCHANGED <<conf, at, tgt, cutShort, term, console, saved, raw>>
  BY DEF Coordinator, Notice, AwaitConsole, AwaitProgress, CloseRenderer, ProgressEnds, main, keyboard
<1>2. /\ coord \in [Target -> {"none", "watching", "console", "progress", "closing", "ended"}]
      /\ prog \in [Target -> {"none", "running", "ended"}]
      /\ console \in [Target -> {"none", "starting", "open", "closed"}]
  BY DEF TypeInv, TypeOK
<1>3. Stage' /\ Cooked' /\ Behind'
  BY <1>1 DEF Inv, Stage, Cooked, Behind
<1>4. CASE ProgressEnds(t)
  <2>1. coord' = coord /\ prog' = [prog EXCEPT ![t] = "ended"]
    BY <1>4 DEF ProgressEnds
  <2>2. Past'
    BY <1>1, <2>1 DEF Inv, Past, Left
  <2>3. Team'
    BY <1>1, <1>2, <2>1 DEF Inv, Team, Active, Current
  <2> QED
    BY <1>3, <2>2, <2>3 DEF Inv
<1>5. CASE Coordinator(t)
  <2>1. /\ prog' = prog
        /\ \/ coord[t] = "watching" /\ coord' = [coord EXCEPT ![t] = "console"]
           \/ /\ coord[t] = "console" /\ coord' = [coord EXCEPT ![t] = "progress"]
              /\ conf.keyboard => console[t] = "closed"
           \/ /\ coord[t] = "progress" /\ coord' = [coord EXCEPT ![t] = "closing"]
              /\ conf.progress => prog[t] = "ended"
           \/ coord[t] = "closing" /\ coord' = [coord EXCEPT ![t] = "ended"]
    BY <1>5 DEF Coordinator, Notice, AwaitConsole, AwaitProgress, CloseRenderer
  <2>2. Active(t)
    BY <2>1 DEF Active
  <2>3. term[t] = Live /\ (t \in cutShort \/ Current(t))
    BY <2>2 DEF Inv, Team
  <2>4. Past'
    <3>1. t \in cutShort \/ ~Left(t)
      BY <2>3, TargetsAssumption DEF Left, Current, Target
    <3> QED
      BY <1>1, <1>2, <2>1, <3>1 DEF Inv, Past, Left
  <2>5. Team'
    <3> SUFFICES ASSUME NEW u \in Target
        PROVE /\ Active(u)' => term[u] = Live /\ (u \in cutShort \/ Current(u))
              /\ prog[u] = "running" => coord'[u] \in {"watching", "console", "progress"} /\ conf.progress
              /\ console[u] \in {"starting", "open"} => coord'[u] \in {"watching", "console"} /\ conf.keyboard
              /\ u = tgt /\ at \in Closed => coord'[u] = "ended"
      BY <1>1, <2>1 DEF Team, Current
    <3>1. CASE u # t
      <4>1. coord'[u] = coord[u]
        BY <1>2, <2>1, <3>1
      <4> QED
        BY <1>1, <4>1 DEF Inv, Team, Active
    <3>2. CASE u = t
      <4>1. ~(t = tgt /\ at \in Closed)
        BY <2>3 DEF Closed, Current, Inv, Behind
      <4>2. prog[t] = "running" => coord'[t] \in {"watching", "console", "progress"} /\ conf.progress
        BY <1>2, <2>1 DEF Inv, Team
      <4>3. console[t] \in {"starting", "open"} => coord'[t] \in {"watching", "console"} /\ conf.keyboard
        BY <1>2, <2>1 DEF Inv, Team
      <4> QED
        BY <2>3, <3>2, <4>1, <4>2, <4>3
    <3> QED
      BY <3>1, <3>2
  <2> QED
    BY <1>3, <2>4, <2>5 DEF Inv
<1> QED
  BY <1>4, <1>5

\* As long as no target was cut short, only the current target's console is
\* open, so it found a cooked terminal.
LEMMA ConsoleInv ==
  ASSUME TypeInv, Inv, NEW t \in Target, OpenConsole(t) \/ CloseConsole(t)
  PROVE  Inv'
<1>1. UNCHANGED <<conf, at, tgt, cutShort, term, coord, prog>>
  BY DEF OpenConsole, CloseConsole, main, display
<1>2. console \in [Target -> {"none", "starting", "open", "closed"}] /\ saved \in [Target -> BOOLEAN]
      /\ raw \in BOOLEAN
  BY DEF TypeInv, TypeOK
<1>3. console[t] \in {"starting", "open"} /\ Active(t) /\ (t \in cutShort \/ t = tgt)
  BY DEF OpenConsole, CloseConsole, Inv, Team, Active, Current
<1>4. Stage' /\ Past' /\ Behind'
  BY <1>1 DEF Inv, Stage, Past, Behind, Left
<1>5. Team'
  <2>1. console' = [console EXCEPT ![t] = "open"] \/ console' = [console EXCEPT ![t] = "closed"]
    BY DEF OpenConsole, CloseConsole
  <2>2. \A u \in Target : console'[u] \in {"starting", "open"} => console[u] \in {"starting", "open"}
    BY <1>2, <1>3, <2>1
  <2> QED
    BY <1>1, <2>2 DEF Inv, Team, Active, Current
<1>6. CASE OpenConsole(t)
  <2>1. cutShort = {} => raw = FALSE
    BY <1>2, <1>3, <1>6 DEF OpenConsole, Inv, Cooked
  <2>2. console' = [console EXCEPT ![t] = "open"] /\ saved' = [saved EXCEPT ![t] = raw]
    BY <1>6 DEF OpenConsole
  <2>3. Cooked'
    BY <1>1, <1>2, <1>3, <2>1, <2>2 DEF Inv, Cooked
  <2> QED
    BY <1>4, <1>5, <2>3 DEF Inv
<1>7. CASE CloseConsole(t)
  <2>1. saved' = saved /\ (cutShort = {} => raw' = FALSE)
    BY <1>7 DEF CloseConsole, Inv, Cooked
  <2>2. Cooked'
    BY <1>1, <2>1 DEF Inv, Cooked
  <2> QED
    BY <1>4, <1>5, <2>2 DEF Inv
<1> QED
  BY <1>6, <1>7

(***************************************************************************)
(* The steps of main.  Away from a scanning target nobody is active but    *)
(* for the targets that were cut short, so main may change the terminal;   *)
(* NoOne says so.                                                          *)
(***************************************************************************)
LEMMA NoOne ==
  ASSUME TypeInv, Inv, at \notin {"scanning", "join", "leaving", "over", "killed"}
  PROVE  /\ cutShort = {} => raw = FALSE
         /\ \A t \in Target \ cutShort : /\ ~Active(t) /\ prog[t] # "running"
                                         /\ console[t] \notin {"starting", "open"}
<1>1. \A t \in Target \ cutShort : ~Active(t)
  BY DEF Inv, Team, Current
<1>2. \A t \in Target \ cutShort : prog[t] # "running" /\ console[t] \notin {"starting", "open"}
  BY <1>1 DEF Inv, Team, Active
<1>3. cutShort = {} => raw = FALSE
  BY <1>2 DEF Inv, Cooked, TypeInv, TypeOK
<1> QED
  BY <1>1, <1>2, <1>3

\* Main works alone: the goroutines stay as they are, and so does the
\* terminal of every target that was cut short.
LEMMA AloneTeam ==
  ASSUME TypeInv, Inv,
         at \notin {"scanning", "join", "leaving", "over", "killed"},
         UNCHANGED <<conf, cutShort, coord, prog, console>>,
         \A t \in cutShort : term'[t] = term[t],
         at' \in Closed => tgt' \in Target /\ coord[tgt'] = "ended"
  PROVE  Team'
<1> SUFFICES ASSUME NEW t \in Target
    PROVE /\ Active(t)' => term'[t] = Live /\ t \in cutShort
          /\ prog[t] = "running" => coord[t] \in {"watching", "console", "progress"} /\ conf.progress
          /\ console[t] \in {"starting", "open"} => coord[t] \in {"watching", "console"} /\ conf.keyboard
  BY DEF Team, Active
<1>1. Active(t)' <=> Active(t)
  BY DEF Active
<1>2. Active(t) => t \in cutShort /\ term[t] = Live
  BY NoOne DEF Inv, Team
<1> QED
  BY <1>1, <1>2 DEF Inv, Team

\* Between two targets, and out of the program.
LEMMA BetweenInv ==
  ASSUME TypeInv, Inv, NextTarget \/ Detect \/ DetectFails
  PROVE  Inv'
<1>1. at \in {"next", "detect"} /\ UNCHANGED <<conf, cutShort, coord, prog, console, saved, raw>>
  BY DEF NextTarget, Detect, DetectFails, display, keyboard
<1>2. /\ tgt \in 0 .. Targets /\ term \in [Target -> Manager] /\ (at = "detect" => tgt \in Target)
      /\ cutShort \subseteq Target /\ (at = "detect" => tgt \notin cutShort)
  BY Places DEF TypeInv, TypeOK, Working, Inv, Behind
<1>3. Cooked'
  BY <1>1, NoOne DEF Inv, Cooked
<1>4. at' \notin Closed
  BY DEF NextTarget, Detect, DetectFails, Leave, Closed
<1>5. CASE NextTarget
  <2>1. at = "next" /\ at' \in {"leaving", "detect"} /\ term' = term /\ tgt' \in {tgt, tgt + 1}
        /\ (tgt' = tgt => at' = "leaving")
    BY <1>2, <1>5 DEF NextTarget, Leave
  <2>2. Stage'
    BY <2>1 DEF Stage
  <2>3. \A t \in Target : Left(t)' => Left(t)
    BY <1>2, <2>1 DEF Left, Target
  <2>4. Past'
    BY <1>1, <2>1, <2>3 DEF Inv, Past
  <2>5. Behind'
    <3>1. \A t \in cutShort : t <= tgt' /\ (t = tgt' => tgt' = tgt)
      BY <1>2, <2>1 DEF Inv, Behind, Target
    <3> QED
      BY <1>1, <2>1, <3>1 DEF Behind
  <2>6. Team'
    BY <1>1, <1>4, <2>1, AloneTeam
  <2> QED
    BY <1>3, <2>2, <2>4, <2>5, <2>6 DEF Inv
<1>6. CASE Detect
  <2>1. /\ at = "detect" /\ at' = "configure" /\ tgt' = tgt /\ tgt \in Target
        /\ term' = [term EXCEPT ![tgt] = M("STARTING", "Configuration")]
    BY <1>2, <1>6, Calls DEF Detect
  <2>2. Stage'
    BY <1>2, <2>1 DEF Stage
  <2>3. \A t \in Target : Left(t)' => Left(t) /\ t # tgt
    BY <1>2, <2>1 DEF Left, Target
  <2>4. Past'
    BY <1>1, <1>2, <2>1, <2>3 DEF Inv, Past
  <2>5. Behind'
    BY <1>1, <1>2, <2>1 DEF Inv, Behind
  <2>6. Team'
    BY <1>1, <1>2, <1>4, <2>1, AloneTeam
  <2> QED
    BY <1>3, <2>2, <2>4, <2>5, <2>6 DEF Inv
<1>7. CASE DetectFails
  <2>1. at = "detect" /\ at' = "leaving" /\ tgt' = tgt /\ term' = term
    BY <1>7 DEF DetectFails, Leave
  <2>2. Stage' /\ Past' /\ Behind'
    BY <1>1, <2>1 DEF Inv, Stage, Past, Behind, Left
  <2>3. Team'
    BY <1>1, <1>4, <2>1, AloneTeam
  <2> QED
    BY <1>3, <2>2, <2>3 DEF Inv
<1> QED
  BY <1>5, <1>6, <1>7

LEMMA ConfigureInv ==
  ASSUME TypeInv, Inv, Configure
  PROVE  Inv'
<1>1. at = "configure" /\ at' = "scanning" /\ UNCHANGED <<conf, tgt, cutShort, saved, raw>>
  BY DEF Configure
<1>2. /\ tgt \in Target /\ tgt \notin cutShort /\ cutShort \subseteq Target /\ term \in [Target -> Manager]
      /\ coord \in [Target -> {"none", "watching", "console", "progress", "closing", "ended"}]
      /\ prog \in [Target -> {"none", "running", "ended"}]
      /\ console \in [Target -> {"none", "starting", "open", "closed"}]
  BY <1>1, Places DEF TypeInv, TypeOK, Working, Inv, Behind
<1>3. term' = [term EXCEPT ![tgt] = Live]
  <2>1. term[tgt] = M("STARTING", "Configuration")
    BY <1>1 DEF Inv, Stage
  <2> QED
    BY <2>1, Calls DEF Configure
<1>4. /\ coord' = [coord EXCEPT ![tgt] = "watching"]
      /\ prog' = IF conf.progress THEN [prog EXCEPT ![tgt] = "running"] ELSE prog
      /\ console' = IF conf.keyboard THEN [console EXCEPT ![tgt] = "starting"] ELSE console
  BY DEF Configure
<1>5. Stage'
  BY <1>1, <1>2, <1>3 DEF Stage
<1>6. Past'
  <2>1. \A t \in Target : Left(t)' => Left(t) /\ t # tgt
    BY <1>1, <1>2 DEF Left, Target
  <2> QED
    BY <1>1, <1>2, <1>3, <1>4, <2>1 DEF Inv, Past
<1>7. Cooked' /\ Behind'
  <2>1. Cooked'
    BY <1>1, NoOne DEF Inv, Cooked
  <2>2. Behind'
    BY <1>1, <1>2 DEF Inv, Behind
  <2> QED
    BY <2>1, <2>2
<1>8. Team'
  <2> SUFFICES ASSUME NEW t \in Target
      PROVE /\ Active(t)' => term'[t] = Live /\ (t \in cutShort \/ t = tgt)
            /\ prog'[t] = "running" => coord'[t] \in {"watching", "console", "progress"} /\ conf.progress
            /\ console'[t] \in {"starting", "open"} => coord'[t] \in {"watching", "console"} /\ conf.keyboard
    BY <1>1 DEF Team, Closed, Current
  <2>1. CASE t = tgt
    <3>1. coord'[t] = "watching" /\ term'[t] = Live
      BY <1>2, <1>3, <1>4, <2>1
    <3>2. prog'[t] = "running" => conf.progress
      <4>1. prog[t] # "running"
        BY <1>1, <1>2, <2>1, NoOne
      <4> QED
        BY <1>4, <4>1
    <3>3. console'[t] \in {"starting", "open"} => conf.keyboard
      <4>1. console[t] \notin {"starting", "open"}
        BY <1>1, <1>2, <2>1, NoOne
      <4> QED
        BY <1>4, <4>1
    <3> QED
      BY <2>1, <3>1, <3>2, <3>3
  <2>2. CASE t # tgt
    <3>1. coord'[t] = coord[t] /\ prog'[t] = prog[t] /\ console'[t] = console[t] /\ term'[t] = term[t]
      BY <1>2, <1>3, <1>4, <2>2
    <3>2. Active(t) => t \in cutShort /\ term[t] = Live
      BY <1>1, NoOne DEF Inv, Team
    <3> QED
      BY <3>1, <3>2 DEF Active, Inv, Team
  <2> QED
    BY <2>1, <2>2
<1> QED
  BY <1>5, <1>6, <1>7, <1>8 DEF Inv

\* The end of a scan, the join with the coordinator, and the end.
LEMMA ScanInv ==
  ASSUME TypeInv, Inv, ScanEnds \/ RunFails \/ (RunCancelled /\ ctx) \/ Join \/ Exit
  PROVE  Inv'
<1>1. UNCHANGED <<conf, tgt, cutShort, term, coord, prog, console, saved, raw>>
  BY DEF ScanEnds, RunFails, RunCancelled, Join, Exit, display, keyboard
<1>2. /\ at # "next" /\ at' # "next"
      /\ \/ at = "scanning" /\ at' = "join"
         \/ at = "scanning" /\ at' = "leaving" /\ conf.recursive
         \/ at = "join" /\ at' = "drained" /\ coord[tgt] = "ended"
         \/ at = "leaving" /\ at' = "over"
  <2>1. Closing[1] = "drained"
    BY DEF Closing
  <2> QED
    BY <2>1 DEF ScanEnds, RunFails, RunCancelled, Leave, Join, Exit
<1>3. Stage'
  BY <1>1, <1>2 DEF Inv, Stage
<1>4. Past' /\ Behind' /\ Cooked'
  BY <1>1, <1>2 DEF Inv, Past, Left, Behind, Cooked
<1>5. Team'
  BY <1>1, <1>2 DEF Inv, Team, Active, Current, Closed
<1> QED
  BY <1>3, <1>4, <1>5 DEF Inv

\* Main goes on to the next target and leaves everything up.
LEMMA CutShortInv ==
  ASSUME TypeInv, Inv, RunCancelled, ~ctx
  PROVE  Inv'
<1>1. /\ UNCHANGED <<conf, tgt, term, coord, prog, console, saved, raw>>
      /\ at = "scanning" /\ at' = "next" /\ cutShort' = cutShort \cup {tgt}
  BY DEF RunCancelled, display, keyboard
<1>2. tgt \in Target /\ tgt \in Nat
  BY <1>1, Places, TargetsAssumption DEF TypeInv, TypeOK, Working, Target
<1>3. Stage' /\ Cooked'
  BY <1>1 DEF Stage, Cooked
<1>4. Past'
  BY <1>1 DEF Inv, Past, Left
<1>5. Behind'
  BY <1>1, <1>2 DEF Inv, Behind
<1>6. Team'
  BY <1>1 DEF Inv, Team, Active, Current, Closed
<1> QED
  BY <1>3, <1>4, <1>5, <1>6 DEF Inv

(***************************************************************************)
(* The calls between a scan and the next target.                           *)
(***************************************************************************)
LEMMA CloseStage ==
  ASSUME TypeInv, Inv, CloseStep
  PROVE  /\ Stage'
         /\ at' = "next" => term'[tgt] = M("DONE", IF conf.quiet THEN "Summary" ELSE "None")
<1>1. /\ tgt \in Target /\ term \in [Target -> Manager] /\ UNCHANGED <<conf, tgt>>
      /\ conf.quiet \in BOOLEAN
  BY CloseSteps, Places DEF TypeInv, TypeOK, Working, CloseStep, Conf
<1>2. term'[tgt] = Call(term[tgt])
  BY <1>1 DEF CloseStep
<1>3. CASE at = "drained" /\ at' = "finalizing"
  BY <1>1, <1>2, <1>3, Calls DEF Inv, Stage, Call
<1>4. CASE at = "finalizing" /\ at' = "teardown"
  BY <1>1, <1>2, <1>4, Calls DEF Inv, Stage, Call
<1>5. CASE at = "teardown" /\ at' = "release"
  BY <1>1, <1>2, <1>5, Calls DEF Inv, Stage, Call
<1>6. CASE at = "release" /\ at' = "summary"
  BY <1>1, <1>2, <1>6, Calls DEF Inv, Stage, Call
<1>7. CASE at = "summary" /\ at' = "report"
  BY <1>1, <1>2, <1>7, Calls DEF Inv, Stage, Call
<1>8. CASE at = "report" /\ at' = "pipeline"
  BY <1>1, <1>2, <1>8, Calls DEF Inv, Stage, Call
<1>9. CASE at = "pipeline" /\ at' = "finish"
  BY <1>1, <1>2, <1>9, Calls DEF Inv, Stage, Call
<1>10. CASE at = "finish" /\ at' = "next"
  BY <1>1, <1>2, <1>10, Calls DEF Inv, Stage, Call
<1> QED
  BY <1>3, <1>4, <1>5, <1>6, <1>7, <1>8, <1>9, <1>10, CloseSteps

LEMMA CloseInv ==
  ASSUME TypeInv, Inv, CloseStep
  PROVE  Inv'
<1>1. /\ at \in Closed /\ at' \in Closed \cup {"next"}
      /\ UNCHANGED <<conf, tgt, cutShort, coord, prog, console, saved, raw>>
      /\ tgt \in Target /\ term \in [Target -> Manager]
      /\ term' = [term EXCEPT ![tgt] = Call(term[tgt])]
  BY CloseSteps, Places DEF Closed, CloseStep, display, keyboard, TypeInv, TypeOK, Working
<1>2. at \notin {"next", "scanning", "join", "leaving", "over", "killed"}
  BY <1>1 DEF Closed
<1>3. coord[tgt] = "ended" /\ tgt \notin cutShort /\ cutShort \subseteq Target
  BY <1>1, <1>2 DEF Inv, Team, Behind, TypeInv, TypeOK
<1>4. Past'
  <2>1. \A t \in Target : Left(t)' => (Left(t) /\ t # tgt) \/ (t = tgt /\ at' = "next")
    BY <1>1, <1>2, TargetsAssumption DEF Left, Target
  <2>2. \A t \in Target : t # tgt => term'[t] = term[t]
    BY <1>1
  <2> QED
    BY <1>1, <1>3, <2>1, <2>2, CloseStage DEF Inv, Past
<1>5. Team'
  BY <1>1, <1>2, <1>3, AloneTeam
<1>6. Cooked'
  BY <1>1, <1>2, NoOne DEF Inv, Cooked
<1>7. Behind'
  BY <1>1, <1>2, <1>3 DEF Inv, Behind
<1> QED
  BY <1>4, <1>5, <1>6, <1>7, CloseStage DEF Inv

LEMMA OtherInv ==
  ASSUME Inv,
         \/ Handler \/ Type \/ Signal \/ UNCHANGED vars
         \/ \E t \in Target : HandleKey(t) \/ Read(t) \/ Commander(t)
  PROVE  Inv'
<1>1. /\ UNCHANGED <<conf, tgt, cutShort, term, coord, prog, console, saved, raw>>
      /\ at' = at \/ at' = "killed"
  <2>1. CASE Handler \/ Type \/ Signal
    BY <2>1 DEF Handler, Graceful, CancelGraceful, ForceAbort, HandlerEnds, Type, Signal, main, display, keyboard
  <2>2. CASE UNCHANGED vars
    BY <2>2 DEF vars, main, display, keyboard
  <2>3. CASE \E t \in Target : HandleKey(t) \/ Read(t)
    BY <2>3 DEF HandleKey, Read, main, display, keyboard
  <2>4. CASE \E t \in Target : Commander(t)
    BY <2>4 DEF Commander, StopTarget, AbortAll, AbortGracefully, CommanderEnds, main, display
  <2> QED
    BY <2>1, <2>2, <2>3, <2>4
<1> QED
  BY <1>1, FrameInv

LEMMA InvSafe == Spec => [](TypeInv /\ Inv)
<1>1. TypeInv /\ Inv /\ [Next]_vars => Inv'
  BY BetweenInv, ConfigureInv, ScanInv, CutShortInv, CloseInv, DisplayInv, ConsoleInv, OtherInv
     DEF Next, Main, Keyboard, Ended
<1> QED
  BY <1>1, InitInv, TypeSafe, PTL DEF Spec

-----------------------------------------------------------------------------
(***************************************************************************)
(* Nothing that scan.go writes through Emit is refused: whichever          *)
(* goroutine may write owns the terminal, in a phase that is not silent.   *)
(***************************************************************************)
THEOREM NoOutputLostCorrect == Spec => []NoOutputLost
<1>1. TypeInv /\ Inv => NoOutputLost
  <2> SUFFICES ASSUME TypeInv, Inv, NEW t \in Target, NEW o \in Writers(t)
      PROVE Accepts(term[t], o)
    BY DEF NoOutputLost
  <2>1. \A p, w : M(p, w).phase = p /\ M(p, w).owner = w
    BY DEF M
  <2>2. CASE o = "Configuration" /\ t = tgt /\ at = "configure"
    BY <2>1, <2>2 DEF Inv, Stage, Accepts, Silent
  <2>3. CASE o = "Progress" /\ (Active(t) \/ (t = tgt /\ at = "scanning"))
    <3>1. term[t] = Live
      BY <2>3 DEF Inv, Stage, Team
    <3> QED
      BY <2>1, <2>3, <3>1 DEF Live, Accepts, Silent
  <2>4. CASE o = "Progress" /\ t = tgt /\ at = "release"
    BY <2>1, <2>4 DEF Inv, Stage, Accepts, Silent
  <2>5. CASE o = "Summary" /\ t = tgt /\ at = "report"
    BY <2>1, <2>5 DEF Inv, Stage, Accepts, Silent
  <2>6. CASE o = "Pipeline" /\ t = tgt /\ at = "finish" /\ ~conf.quiet
    BY <2>1, <2>6 DEF Inv, Stage, Accepts, Silent
  <2>7. prog[t] = "running" \/ coord[t] = "closing" => Active(t)
    BY DEF Inv, Team, Active
  <2> QED
    BY <2>2, <2>3, <2>4, <2>5, <2>6, <2>7 DEF Writers
<1> QED
  BY <1>1, InvSafe, PTL

(***************************************************************************)
(* Every target that main leaves, but for those cut short by a cancelled   *)
(* Run, has gone through its whole lifecycle, although scan.go drops the   *)
(* errors of the calls on the way.                                         *)
(***************************************************************************)
THEOREM LifecycleCorrect == Spec => []LifecycleComplete
<1>1. Inv => LifecycleComplete
  BY DEF Inv, Past, LifecycleComplete, M
<1> QED
  BY <1>1, InvSafe, PTL

(***************************************************************************)
(* When main is at the next target, no goroutine that draws or reads       *)
(* commands is left of an earlier one, unless that one was cut short.      *)
(***************************************************************************)
THEOREM TargetsApartCorrect == Spec => []TargetsApart
<1>1. TypeInv /\ Inv => TargetsApart
  <2> SUFFICES ASSUME TypeInv, Inv, NEW t \in Target \ cutShort, Left(t)
      PROVE Down(t)
    BY DEF TargetsApart
  <2>1. coord[t] = "ended"
    BY DEF Inv, Past
  <2>2. console[t] \in {"none", "starting", "open", "closed"}
    BY DEF TypeInv, TypeOK
  <2> QED
    BY <2>1, <2>2 DEF Inv, Team, Down
<1> QED
  BY <1>1, InvSafe, PTL

(***************************************************************************)
(* As long as no target was cut short, the terminal is raw only while a    *)
(* target scans or main waits for its coordinator, or when a recursive     *)
(* scan has failed or a signal killed the process.                         *)
(***************************************************************************)
THEOREM RawCorrect == Spec => []RawOnlyWhileScanning
<1>1. TypeInv /\ Inv => RawOnlyWhileScanning
  <2> SUFFICES ASSUME TypeInv, Inv, raw, cutShort = {}
      PROVE at \in {"scanning", "join", "killed"} \/ (conf.recursive /\ at \in {"leaving", "over"})
    BY DEF RawOnlyWhileScanning
  <2>1. tgt \in Target /\ console[tgt] = "open"
    BY DEF Inv, Cooked
  <2>2. Active(tgt)
    BY <2>1 DEF Inv, Team, Active
  <2> QED
    BY <2>1, <2>2 DEF Inv, Team, Current
<1> QED
  BY <1>1, InvSafe, PTL

-----------------------------------------------------------------------------
(***************************************************************************)
(* The first target.  A commander works for a target that was begun; until *)
(* the second target begins, whoever has cut requests off, or is about to  *)
(* at the next signal, found the context of the first one done.            *)
(***************************************************************************)
Commanded == \A t \in Target : commander[t] # "none" => t <= tgt

Told == ctx \/ (tgt = 1 /\ tctx[1])
Warned == tgt <= 1 /\ (handler = "second" \/ drain) => Told

LEMMA InitWarned == Init => Commanded /\ Warned
<1> SUFFICES ASSUME Init PROVE Commanded /\ Warned
  OBVIOUS
<1>1. commander = Each("none") /\ handler = "first" /\ drain = FALSE
  BY DEF Init
<1> QED
  BY <1>1 DEF Commanded, Warned, Each

\* Targets are begun in order, and only the last one begun gets a commander.
LEMMA CommandedNext ==
  ASSUME TypeInv, Commanded, [Next]_vars
  PROVE  Commanded'
<1>1. /\ tgt \in Nat /\ Target \subseteq Nat
      /\ commander \in [Target -> {"none", "listening", "aborting", "ended"}]
  BY TargetsAssumption DEF TypeInv, TypeOK, Target
<1>2. CASE Configure
  <2>1. tgt \in Target
    BY <1>2, Places DEF Configure, TypeInv, Working
  <2>2. commander' = commander \/ commander' = [commander EXCEPT ![tgt] = "listening"]
    BY <1>2 DEF Configure
  <2>3. tgt' = tgt
    BY <1>2 DEF Configure
  <2>4. \A t \in Target : t = tgt => t <= tgt
    BY <1>1
  <2> QED
    BY <1>1, <2>1, <2>2, <2>3, <2>4 DEF Commanded
<1>3. CASE \E t \in Target : Commander(t)
  <2>1. PICK t \in Target : Commander(t)
    BY <1>3
  <2>2. commander[t] # "none" /\ tgt' = tgt
    BY <2>1 DEF Commander, StopTarget, AbortAll, AbortGracefully, CommanderEnds, main
  <2>3. \E v \in {"listening", "aborting", "ended"} : commander' = [commander EXCEPT ![t] = v]
    \/ commander' = commander
    BY <2>1 DEF Commander, StopTarget, AbortAll, AbortGracefully, CommanderEnds
  <2>4. \A u \in Target : commander'[u] # "none" => commander[u] # "none"
    BY <1>1, <2>2, <2>3
  <2> QED
    BY <2>2, <2>4 DEF Commanded
<1>4. CASE NextTarget
  <2>1. commander' = commander /\ (tgt' = tgt \/ tgt' = tgt + 1)
    BY <1>4 DEF NextTarget, keyboard
  <2>2. \A t \in Target : t <= tgt => t <= tgt'
    BY <1>1, <2>1
  <2> QED
    BY <2>1, <2>2 DEF Commanded
<1>5. CASE \/ Detect \/ DetectFails \/ ScanEnds \/ RunFails \/ RunCancelled \/ Join \/ CloseStep \/ Exit
           \/ Handler \/ Type \/ Signal \/ UNCHANGED vars
           \/ \E t \in Target : Coordinator(t) \/ ProgressEnds(t) \/ Keyboard(t) \/ Read(t)
  <2>1. commander' = commander /\ tgt' = tgt
    <3>1. CASE Detect \/ DetectFails \/ ScanEnds \/ RunFails \/ RunCancelled \/ Join \/ CloseStep \/ Exit
      BY <3>1 DEF Detect, DetectFails, ScanEnds, RunFails, RunCancelled, Join, CloseStep, Exit, keyboard
    <3>2. CASE Handler \/ Type \/ Signal \/ UNCHANGED vars
      BY <3>2 DEF Handler, Graceful, CancelGraceful, ForceAbort, HandlerEnds, Type, Signal, vars, main, keyboard
    <3>3. CASE \E t \in Target : Coordinator(t) \/ ProgressEnds(t)
      BY <3>3 DEF Coordinator, Notice, AwaitConsole, AwaitProgress, CloseRenderer, ProgressEnds, main, keyboard
    <3>4. CASE \E t \in Target : Keyboard(t) \/ Read(t)
      BY <3>4 DEF Keyboard, OpenConsole, HandleKey, CloseConsole, Read, main
    <3> QED
      BY <1>5, <3>1, <3>2, <3>3, <3>4
  <2> QED
    BY <2>1 DEF Commanded
<1> QED
  BY <1>2, <1>3, <1>4, <1>5 DEF Next, Main, Ended

\* Every step that cuts requests off, or turns the handler to forcing, finds
\* the context of the first target done; nothing takes that back.
LEMMA WarnedNext ==
  ASSUME TypeInv, Commanded, Warned, [Next]_vars
  PROVE  Warned'
<1>1. /\ tgt \in Nat /\ 1 \in Target /\ tctx \in [Target -> BOOLEAN]
      /\ ctx \in BOOLEAN /\ drain \in BOOLEAN
  BY TargetsAssumption DEF TypeInv, TypeOK, Target
<1>2. CASE Main
  <2>1. CASE ctx'
    BY <2>1 DEF Warned, Told
  <2>2. CASE ~ctx'
    <3>1. drain' = drain /\ ctx' = ctx /\ handler' = handler
      BY <1>1, <1>2, <2>2 DEF Main, NextTarget, Detect, DetectFails, Configure, ScanEnds, RunFails, RunCancelled, Join, CloseStep, Exit, Leave, ctxs, signals
    <3>2. \/ tgt' = tgt /\ (tctx' = tctx \/ tctx' = [tctx EXCEPT ![tgt] = TRUE])
          \/ tgt' = tgt + 1 /\ tctx' = tctx
      BY <1>2, <2>2 DEF Main, NextTarget, Detect, DetectFails, Configure, ScanEnds, RunFails, RunCancelled, Join, CloseStep, Exit, Leave, ctxs
    <3>3. CASE tgt' = tgt
      <4>1. tgt = 1 /\ tctx[1] => tctx'[1]
        BY <1>1, <3>2, <3>3
      <4> QED
        BY <3>1, <3>3, <4>1 DEF Warned, Told
    <3>4. CASE tgt' = tgt + 1
      <4>1. tgt' <= 1 => tgt = 0
        BY <1>1, <3>4
      <4> QED
        BY <1>1, <3>1, <4>1 DEF Warned, Told
    <3> QED
      BY <3>2, <3>3, <3>4
  <2> QED
    BY <2>1, <2>2
<1>3. CASE Handler
  <2>1. UNCHANGED <<tgt, tctx>> /\ (ctx => ctx')
    BY <1>3 DEF Handler, Graceful, CancelGraceful, ForceAbort, HandlerEnds, main, ctxs
  <2>2. CASE Graceful
    BY <2>1, <2>2, <1>1 DEF Graceful, Warned, Told, Done
  <2>3. CASE CancelGraceful \/ ForceAbort \/ HandlerEnds
    BY <2>1, <2>3 DEF CancelGraceful, ForceAbort, HandlerEnds, Warned, Told, ctxs
  <2> QED
    BY <1>3, <2>2, <2>3 DEF Handler
<1>4. CASE \E t \in Target : Commander(t)
  <2>1. PICK t \in Target : Commander(t)
    BY <1>4
  <2>2. UNCHANGED <<tgt, handler>> /\ (ctx => ctx')
    BY <2>1 DEF Commander, StopTarget, AbortAll, AbortGracefully, CommanderEnds, main, ctxs, signals
  <2>3. tctx[1] => tctx'[1]
    BY <1>1, <2>1 DEF Commander, StopTarget, AbortAll, AbortGracefully, CommanderEnds, ctxs
  <2>4. drain' = drain \/ ctx \/ tctx[t]
    BY <2>1 DEF Commander, StopTarget, AbortAll, AbortGracefully, CommanderEnds, Done, ctxs
  <2>5. tgt <= 1 => t = tgt /\ t = 1
    <3>1. t <= tgt
      BY <2>1 DEF Commanded, Commander, StopTarget, AbortAll, AbortGracefully, CommanderEnds
    <3>2. t \in Nat /\ t >= 1
      BY TargetsAssumption DEF Target
    <3> QED
      BY <1>1, <3>1, <3>2
  <2> QED
    BY <2>2, <2>3, <2>4, <2>5 DEF Warned, Told
<1>5. CASE \/ Type \/ Signal \/ UNCHANGED vars
           \/ \E t \in Target : Coordinator(t) \/ ProgressEnds(t) \/ Keyboard(t) \/ Read(t)
  <2>1. UNCHANGED <<tgt, ctxs, handler>>
    <3>1. CASE Type \/ Signal \/ UNCHANGED vars
      BY <3>1 DEF Type, Signal, vars, main, signals
    <3>2. CASE \E t \in Target : Coordinator(t) \/ ProgressEnds(t)
      BY <3>2 DEF Coordinator, Notice, AwaitConsole, AwaitProgress, CloseRenderer, ProgressEnds, main, signals
    <3>3. CASE \E t \in Target : Keyboard(t) \/ Read(t)
      BY <3>3 DEF Keyboard, OpenConsole, HandleKey, CloseConsole, Read, main, signals
    <3> QED
      BY <1>5, <3>1, <3>2, <3>3
  <2> QED
    BY <2>1 DEF Warned, Told, ctxs
<1> QED
  BY <1>2, <1>3, <1>4, <1>5 DEF Next, Ended

(***************************************************************************)
(* While the first target scans, its requests are cut off only after its   *)
(* context is done: the abort command, the second signal and the end of    *)
(* the command, every way to cancelDrain, come after a graceful stop.      *)
(***************************************************************************)
THEOREM GracefulFirstCorrect == Spec => []GracefulFirst
<1>1. TypeInv /\ Commanded /\ Warned /\ [Next]_vars => (Commanded /\ Warned)'
  BY CommandedNext, WarnedNext
<1>2. Commanded /\ Warned => GracefulFirst
  BY DEF Warned, Told, GracefulFirst, Done
<1> QED
  BY <1>1, <1>2, InitWarned, TypeSafe, PTL DEF Spec
=============================================================================
