------------------------------ MODULE Session -------------------------------
(***************************************************************************)
(* One `searchit scan` command over a list of targets: targets.Manager     *)
(* with the target job of cmd/scan.go, and the goroutines that the job     *)
(* starts for each target.                                                 *)
(*                                                                         *)
(*   main         the targets in sequence, each from its terminal to its   *)
(*                summary                                                  *)
(*   signals      the goroutine of signals.SetupGlobal, one per process    *)
(*   coordinator  takes the display of a cancelled target down             *)
(*   progress     draws the display                                        *)
(*   console      reads commands from the keys that its reader passes on   *)
(*   reader       blocks in stdin.Read; nothing ends it but end of file    *)
(*   commander    obeys the commands                                       *)
(*                                                                         *)
(* Execution phases and the pause key are the subject of module Pause and  *)
(* are left out; how a scan finds its results is module Recursion.  The    *)
(* diagnostics that the coordinator starts at its end only print.          *)
(***************************************************************************)
EXTENDS Terminal, Integers, Sequences

CONSTANTS Targets,      \* number of targets
          MaxInputs     \* bound: keys typed and signals sent

ASSUME TargetsAssumption == Targets \in Nat \ {0}
\* No command channel, of ten places, is ever full.
ASSUME InputsAssumption == MaxInputs \in 0 .. 10

Target == 1 .. Targets

(***************************************************************************)
(* q stops the target, a (or byte 3, Ctrl+C in raw mode) aborts, s opens   *)
(* the statistics view; eof is the end of stdin, which every read repeats. *)
(***************************************************************************)
Key == {"q", "a", "s", "eof"}
Command == {"q", "a"}

\* What decides the course of a command; a display needs a loud terminal
\* and a keyboard needs a display (shouldEnableProgress, interactive).
Conf == { c \in [recursive : BOOLEAN, quiet : BOOLEAN, progress : BOOLEAN, keyboard : BOOLEAN] :
            /\ c.progress => ~c.quiet
            /\ c.keyboard => c.progress }

\* Slip: two transitions in the wrong order.
ClosingSwapped ==
  <<"finalizing", "drained", "teardown", "release", "summary", "report", "pipeline", "finish">>

\* The calls between <-shutdownDone and the end of a target, by position.
Closing ==
  <<"drained", "finalizing", "teardown", "release", "summary", "report", "pipeline", "finish">>

At == {"next", "detect", "configure", "scanning", "join", "leaving", "over", "killed"}
        \cup {Closing[i] : i \in 1 .. 8}

VARIABLES
  conf,       \* the configuration
  at, tgt,    \* where main is, and in which target; 0 before the first
  cutShort,   \* history: the targets that main left on a cancelled Run
  ctx,        \* ctx.Err() # nil
  drain,      \* drainCtx.Err() # nil
  tctx,       \* whether the context of each target was cancelled itself
  term,       \* the terminal manager of each target
  coord,      \* the coordinator of each target
  prog,       \* the progress goroutine of each target
  console,    \* the console goroutine of each target
  stats,      \* inStatsView of each console
  saved,      \* the mode each console found the terminal in
  raw,        \* the terminal is in raw mode
  reader,     \* the keys each reader has read and no console has taken:
              \* one in readChan and one in a blocked send
  commander,  \* the commander of each target
  cmds,       \* the command channel of each console
  typed,      \* keys in the terminal's input queue
  inputs,     \* keys and signals so far
  handler,    \* the signal goroutine
  signalled,  \* sigChan holds a signal
  aborted     \* history: an abort was obeyed

main == <<conf, at, tgt, cutShort>>
ctxs == <<ctx, drain, tctx>>
display == <<coord, prog>>
keyboard == <<console, stats, saved, raw, reader, commander, cmds>>
user == <<typed, inputs>>
signals == <<handler, signalled>>
vars == <<main, ctxs, term, display, keyboard, user, signals, aborted>>

Each(v) == [t \in Target |-> v]

Init ==
  /\ conf \in Conf
  /\ at = "next" /\ tgt = 0 /\ cutShort = {}
  /\ ctx = FALSE /\ drain = FALSE /\ tctx = Each(FALSE)
  /\ term = Each(New)
  /\ coord = Each("none") /\ prog = Each("none")
  /\ console = Each("none") /\ stats = Each(FALSE) /\ saved = Each(FALSE) /\ raw = FALSE
  /\ reader = Each(<<>>) /\ commander = Each("none") /\ cmds = Each(<<>>)
  /\ typed = <<>> /\ inputs = 0
  /\ handler = "first" /\ signalled = FALSE
  /\ aborted = FALSE

\* The process is there.
Alive == at \notin {"over", "killed"}

\* scanCtx of a target is a child of ctx, and so are termCtx and progCtx.
Done(t) == ctx \/ tctx[t]

-----------------------------------------------------------------------------
(***************************************************************************)
(* main.                                                                   *)
(***************************************************************************)
\* RunE returns: the deferred cancels run, and goroutines still get a moment.
Leave ==
  /\ at' = "leaving"
  /\ ctx' = TRUE /\ drain' = TRUE

\* The loop of targets.Manager.Execute.
NextTarget ==
  /\ at = "next"
  /\ IF ctx \/ tgt = Targets
     THEN Leave /\ UNCHANGED tgt
     ELSE at' = "detect" /\ tgt' = tgt + 1 /\ UNCHANGED <<ctx, drain>>
  /\ UNCHANGED <<conf, cutShort, tctx, term, display, keyboard, user, signals, aborted>>

\* AutoDetectTarget, and the terminal for this target.
Detect ==
  /\ at = "detect"
  /\ at' = "configure"
  /\ term' = [term EXCEPT ![tgt] = AcquireOwner(New, "Configuration")]
  /\ UNCHANGED <<conf, cutShort, tgt, ctxs, display, keyboard, user, signals, aborted>>

\* An error that ends Execute.
DetectFails ==
  /\ at = "detect"
  /\ Leave
  /\ tctx' = [tctx EXCEPT ![tgt] = TRUE]
  /\ UNCHANGED <<conf, cutShort, tgt, term, display, keyboard, user, signals, aborted>>

\* The hand-over to the display, and the goroutines of the target.
Configure ==
  /\ at = "configure"
  /\ at' = "scanning"
  /\ term' = [term EXCEPT ![tgt] =
                AcquireOwner(TransitionAndRelease(@, "RUNNING", "Configuration"), "Progress")]
  /\ coord' = [coord EXCEPT ![tgt] = "watching"]
  /\ prog' = IF conf.progress THEN [prog EXCEPT ![tgt] = "running"] ELSE prog
  /\ IF conf.keyboard
     THEN /\ console' = [console EXCEPT ![tgt] = "starting"]
          /\ commander' = [commander EXCEPT ![tgt] = "listening"]
     ELSE UNCHANGED <<console, commander>>
  /\ UNCHANGED <<conf, cutShort, tgt, ctxs, stats, saved, raw, reader, cmds, user, signals, aborted>>

\* The last result has been handled: scanCancel().
ScanEnds ==
  /\ at = "scanning"
  /\ at' = "join"
  /\ tctx' = [tctx EXCEPT ![tgt] = TRUE]
  /\ UNCHANGED <<conf, cutShort, tgt, ctx, drain, term, display, keyboard, user, signals, aborted>>

\* recursion.Manager.Run returns an error, the target job returns it, and
\* targets.Manager.Execute does.
RunFails ==
  /\ at = "scanning" /\ conf.recursive
  /\ Leave
  /\ tctx' = [tctx EXCEPT ![tgt] = TRUE]
  /\ UNCHANGED <<conf, cutShort, tgt, term, display, keyboard, user, signals, aborted>>

\* Run returns context.Canceled: the target was stopped while handleResult
\* was loading a wordlist.  Execute takes it for a skip and goes on, unless
\* the command itself is cancelled; nobody waits for the coordinator.
RunCancelled ==
  /\ at = "scanning" /\ conf.recursive /\ Done(tgt)
  /\ IF ctx THEN Leave /\ UNCHANGED cutShort
            ELSE at' = "next" /\ cutShort' = cutShort \cup {tgt} /\ UNCHANGED <<ctx, drain>>
  /\ tctx' = [tctx EXCEPT ![tgt] = TRUE]
  /\ UNCHANGED <<conf, tgt, term, display, keyboard, user, signals, aborted>>

Join ==
  /\ at = "join" /\ coord[tgt] = "ended"
  /\ at' = Closing[1]
  /\ UNCHANGED <<conf, cutShort, tgt, ctxs, term, display, keyboard, user, signals, aborted>>

\* The call main makes at each place of Closing.
Call(m) ==
  CASE at = "drained"    -> TransitionTo(m, "WAITING_WORKERS")
    [] at = "finalizing" -> TransitionTo(m, "FINALIZING")
    [] at = "teardown"   -> TransitionTo(m, "TERMINAL_SHUTDOWN")
    [] at = "release"    -> ReleaseOwner(m, "Progress")
    [] at = "summary"    -> AcquireAndTransition(m, "Summary", "SUMMARY")
    [] at = "report"     -> IF conf.quiet THEN TransitionTo(m, "PIPELINE")
                                          ELSE TransitionAndRelease(m, "PIPELINE", "Summary")
    [] at = "pipeline"   -> IF conf.quiet THEN m ELSE AcquireOwner(m, "Pipeline")
    [] at = "finish"     -> IF conf.quiet THEN TransitionTo(m, "DONE")
                                          ELSE TransitionAndRelease(m, "DONE", "Pipeline")

CloseStep ==
  \E i \in 1 .. 8 :
    /\ at = Closing[i]
    /\ at' = IF i = 8 THEN "next" ELSE Closing[i + 1]
    /\ term' = [term EXCEPT ![tgt] = Call(@)]
    /\ UNCHANGED <<conf, cutShort, tgt, ctxs, display, keyboard, user, signals, aborted>>

Exit ==
  /\ at = "leaving"
  /\ at' = "over"
  /\ UNCHANGED <<conf, cutShort, tgt, ctxs, term, display, keyboard, user, signals, aborted>>

Main ==
  \/ NextTarget \/ Detect \/ DetectFails \/ Configure
  \/ ScanEnds \/ RunFails \/ RunCancelled \/ Join \/ CloseStep \/ Exit

-----------------------------------------------------------------------------
(***************************************************************************)
(* The coordinator and the progress goroutine.                             *)
(***************************************************************************)
Notice(t) ==
  /\ coord[t] = "watching" /\ Done(t)
  /\ coord' = [coord EXCEPT ![t] = "console"]
  /\ UNCHANGED <<main, ctxs, term, prog, keyboard, user, signals, aborted>>

\* Slip: the coordinator goes on without waiting for the console.
AwaitNoConsole(t) ==
  /\ coord[t] = "console"
  /\ coord' = [coord EXCEPT ![t] = "progress"]
  /\ UNCHANGED <<main, ctxs, term, prog, keyboard, user, signals, aborted>>

\* Slip: the coordinator waits for a console whenever there is a display.
AwaitAnyConsole(t) ==
  /\ coord[t] = "console"
  /\ conf.progress => console[t] = "closed"
  /\ coord' = [coord EXCEPT ![t] = "progress"]
  /\ UNCHANGED <<main, ctxs, term, prog, keyboard, user, signals, aborted>>

\* cancelTerm() and <-consoleCtrl.Done()
AwaitConsole(t) ==
  /\ coord[t] = "console"
  /\ conf.keyboard => console[t] = "closed"
  /\ coord' = [coord EXCEPT ![t] = "progress"]
  /\ UNCHANGED <<main, ctxs, term, prog, keyboard, user, signals, aborted>>

\* Slip: the coordinator cancels the display and does not wait for it.
AwaitNoProgress(t) ==
  /\ coord[t] = "progress"
  /\ coord' = [coord EXCEPT ![t] = "closing"]
  /\ UNCHANGED <<main, ctxs, term, prog, keyboard, user, signals, aborted>>

\* cancelProg() and <-progDone
AwaitProgress(t) ==
  /\ coord[t] = "progress"
  /\ conf.progress => prog[t] = "ended"
  /\ coord' = [coord EXCEPT ![t] = "closing"]
  /\ UNCHANGED <<main, ctxs, term, prog, keyboard, user, signals, aborted>>

\* renderer.Close and the draining notice.
CloseRenderer(t) ==
  /\ coord[t] = "closing"
  /\ coord' = [coord EXCEPT ![t] = "ended"]
  /\ UNCHANGED <<main, ctxs, term, prog, keyboard, user, signals, aborted>>

Coordinator(t) == Notice(t) \/ AwaitConsole(t) \/ AwaitProgress(t) \/ CloseRenderer(t)

\* progress.Manager.Start returns when progCtx is done or the commander has
\* closed its channel.
ProgressEnds(t) ==
  /\ prog[t] = "running"
  /\ Done(t) \/ commander[t] = "ended"
  /\ prog' = [prog EXCEPT ![t] = "ended"]
  /\ UNCHANGED <<main, ctxs, term, coord, keyboard, user, signals, aborted>>

-----------------------------------------------------------------------------
(***************************************************************************)
(* The keyboard of one target: console.Controller and its reader, and the  *)
(* goroutine that obeys its commands.                                      *)
(***************************************************************************)
\* MakeRaw, and the reader goroutine.
OpenConsole(t) ==
  /\ console[t] = "starting"
  /\ console' = [console EXCEPT ![t] = "open"]
  /\ saved' = [saved EXCEPT ![t] = raw]
  /\ raw' = TRUE
  /\ UNCHANGED <<main, ctxs, term, display, stats, reader, commander, cmds, user, signals, aborted>>

\* stdin.Read returns, to whichever reader is waiting in it.  One key fits
\* into readChan, the next one blocks its reader.
Read(t) ==
  /\ console[t] \in {"open", "closed"} /\ typed # <<>>
  /\ Len(reader[t]) < 2 /\ "eof" \notin {reader[t][i] : i \in 1 .. Len(reader[t])}
  /\ reader' = [reader EXCEPT ![t] = Append(@, Head(typed))]
  /\ typed' = IF Head(typed) = "eof" THEN typed ELSE Tail(typed)
  /\ UNCHANGED <<main, ctxs, term, display, console, stats, saved, raw, commander, cmds, inputs, signals, aborted>>

\* Slip: a key that stands for no command is passed on as one.
HandleAnyKey(t) ==
  /\ console[t] = "open" /\ reader[t] # <<>> /\ Head(reader[t]) # "eof"
  /\ cmds' = [cmds EXCEPT ![t] = Append(@, Head(reader[t]))]
  /\ reader' = [reader EXCEPT ![t] = Tail(@)]
  /\ UNCHANGED <<main, ctxs, term, display, console, stats, saved, raw, commander, user, signals, aborted>>

\* A key out of readChan.  In the statistics view every key only closes it.
HandleKey(t) ==
  /\ console[t] = "open" /\ reader[t] # <<>>
  /\ LET key == Head(reader[t])
     IN /\ key # "eof"
        /\ stats' = [stats EXCEPT ![t] = ~@ /\ key = "s"]
        /\ cmds' = IF ~stats[t] /\ key \in Command
                     THEN [cmds EXCEPT ![t] = Append(@, key)] ELSE cmds
  /\ reader' = [reader EXCEPT ![t] = Tail(@)]
  /\ UNCHANGED <<main, ctxs, term, display, console, saved, raw, commander, user, signals, aborted>>

\* Slip: the terminal is left in raw mode.
CloseConsoleRaw(t) ==
  /\ console[t] = "open"
  /\ Done(t) \/ (reader[t] # <<>> /\ Head(reader[t]) = "eof")
  /\ console' = [console EXCEPT ![t] = "closed"]
  /\ UNCHANGED <<main, ctxs, term, display, stats, saved, raw, reader, commander, cmds, user, signals, aborted>>

\* termCtx is done, or the read failed.  Both the restore and the two
\* closes are deferred.
CloseConsole(t) ==
  /\ console[t] = "open"
  /\ Done(t) \/ (reader[t] # <<>> /\ Head(reader[t]) = "eof")
  /\ console' = [console EXCEPT ![t] = "closed"]
  /\ raw' = saved[t]
  /\ UNCHANGED <<main, ctxs, term, display, stats, saved, reader, commander, cmds, user, signals, aborted>>

Keyboard(t) == OpenConsole(t) \/ HandleKey(t) \/ CloseConsole(t)

\* CommandStopTarget: scanCancel().
StopTarget(t) ==
  /\ commander[t] = "listening" /\ cmds[t] # <<>> /\ Head(cmds[t]) = "q"
  /\ cmds' = [cmds EXCEPT ![t] = Tail(@)]
  /\ tctx' = [tctx EXCEPT ![t] = TRUE]
  /\ UNCHANGED <<main, ctx, drain, term, display, console, stats, saved, raw, reader, commander, user, signals, aborted>>

\* Slip: the first 'a' already cancels the requests in flight.
AbortAtOnce(t) ==
  /\ commander[t] = "listening" /\ cmds[t] # <<>> /\ Head(cmds[t]) = "a"
  /\ cmds' = [cmds EXCEPT ![t] = Tail(@)]
  /\ drain' = TRUE /\ aborted' = TRUE /\ UNCHANGED commander
  /\ UNCHANGED <<main, ctx, tctx, term, display, console, stats, saved, raw, reader, user, signals>>

\* CommandAbortAll: a force abort when scanCtx is done already.
AbortAll(t) ==
  /\ commander[t] = "listening" /\ cmds[t] # <<>> /\ Head(cmds[t]) = "a"
  /\ cmds' = [cmds EXCEPT ![t] = Tail(@)]
  /\ IF Done(t)
     THEN drain' = TRUE /\ aborted' = TRUE /\ UNCHANGED commander
     ELSE commander' = [commander EXCEPT ![t] = "aborting"] /\ UNCHANGED <<drain, aborted>>
  /\ UNCHANGED <<main, ctx, tctx, term, display, console, stats, saved, raw, reader, user, signals>>

\* cancelGraceful(), after the test.
AbortGracefully(t) ==
  /\ commander[t] = "aborting"
  /\ commander' = [commander EXCEPT ![t] = "listening"]
  /\ ctx' = TRUE /\ aborted' = TRUE
  /\ UNCHANGED <<main, drain, tctx, term, display, console, stats, saved, raw, reader, cmds, user, signals>>

\* The range over Commands() ends after the last command of a closed channel.
CommanderEnds(t) ==
  /\ commander[t] = "listening" /\ cmds[t] = <<>> /\ console[t] = "closed"
  /\ commander' = [commander EXCEPT ![t] = "ended"]
  /\ UNCHANGED <<main, ctxs, term, display, console, stats, saved, raw, reader, cmds, user, signals, aborted>>

Commander(t) == StopTarget(t) \/ AbortAll(t) \/ AbortGracefully(t) \/ CommanderEnds(t)

-----------------------------------------------------------------------------
(***************************************************************************)
(* Signals.                                                                *)
(***************************************************************************)
\* onGraceful.  activeTargetCtx is the context of the last target begun.
Graceful ==
  /\ handler = "first" /\ signalled
  /\ signalled' = FALSE
  /\ IF ctx \/ (tgt # 0 /\ Done(tgt))
     THEN drain' = TRUE /\ aborted' = TRUE /\ handler' = "second"
     ELSE handler' = "cancelling" /\ UNCHANGED <<drain, aborted>>
  /\ UNCHANGED <<main, ctx, tctx, term, display, keyboard, user>>

CancelGraceful ==
  /\ handler = "cancelling"
  /\ handler' = "second"
  /\ ctx' = TRUE /\ aborted' = TRUE
  /\ UNCHANGED <<main, drain, tctx, term, display, keyboard, user, signalled>>

\* onForce.  The signals eaten from here on change nothing.
ForceAbort ==
  /\ handler = "second" /\ signalled
  /\ handler' = "eating" /\ signalled' = FALSE
  /\ drain' = TRUE
  /\ UNCHANGED <<main, ctx, tctx, term, display, keyboard, user, aborted>>

\* drainCtx is done: signal.Stop gives signals their default effect back.
HandlerEnds ==
  /\ handler \in {"first", "second", "eating"} /\ drain
  /\ handler' = "gone"
  /\ UNCHANGED <<main, ctxs, term, display, keyboard, user, signalled, aborted>>

Handler == Graceful \/ CancelGraceful \/ ForceAbort \/ HandlerEnds

-----------------------------------------------------------------------------
(***************************************************************************)
(* The user.                                                               *)
(***************************************************************************)
Type ==
  /\ inputs < MaxInputs /\ conf.keyboard
  /\ inputs' = inputs + 1
  /\ \E k \in Key : typed' = Append(typed, k)
  /\ UNCHANGED <<main, ctxs, term, display, keyboard, signals, aborted>>

\* sigChan has room for one signal; more are dropped.
Signal ==
  /\ inputs < MaxInputs
  /\ inputs' = inputs + 1
  /\ IF handler = "gone"
     THEN at' = "killed" /\ UNCHANGED signalled
     ELSE signalled' = TRUE /\ UNCHANGED at
  /\ UNCHANGED <<conf, cutShort, tgt, ctxs, term, display, keyboard, typed, handler, aborted>>

-----------------------------------------------------------------------------
Ended == ~Alive /\ UNCHANGED vars

Next ==
  \/ Alive /\ (Main \/ Handler \/ Type \/ Signal)
  \/ \E t \in Target :
       Alive /\ (Coordinator(t) \/ ProgressEnds(t) \/ Keyboard(t) \/ Read(t) \/ Commander(t))
  \/ Ended

Spec == Init /\ [][Next]_vars

(***************************************************************************)
(* Every goroutine runs; a scan ends when its context is done, because     *)
(* the loops of the pool and of recursion.Manager do (modules Pause and    *)
(* Recursion).  Nothing is assumed of the user, of stdin or of a scan that *)
(* nobody stops.                                                           *)
(***************************************************************************)
MainGoesOn ==
  Alive /\ ( \/ NextTarget \/ Detect \/ DetectFails \/ Configure
            \/ (ScanEnds /\ Done(tgt)) \/ Join \/ CloseStep \/ Exit )

FairSpec ==
  /\ Spec
  /\ WF_vars(MainGoesOn)
  /\ WF_vars(Alive /\ Handler)
  /\ \A t \in Target :
       /\ WF_vars(Alive /\ Coordinator(t))
       /\ WF_vars(Alive /\ ProgressEnds(t))
       /\ WF_vars(Alive /\ Keyboard(t))
       /\ WF_vars(Alive /\ CloseConsole(t))
       /\ WF_vars(Alive /\ Commander(t))

-----------------------------------------------------------------------------
(***************************************************************************)
(* Properties.                                                             *)
(***************************************************************************)
\* Types; in particular a reader holds at most two keys (console.Start).
TypeOK ==
  /\ conf \in Conf /\ at \in At /\ tgt \in 0 .. Targets /\ cutShort \subseteq Target
  /\ ctx \in BOOLEAN /\ drain \in BOOLEAN /\ tctx \in [Target -> BOOLEAN]
  /\ term \in [Target -> Manager]
  /\ coord \in [Target -> {"none", "watching", "console", "progress", "closing", "ended"}]
  /\ prog \in [Target -> {"none", "running", "ended"}]
  /\ console \in [Target -> {"none", "starting", "open", "closed"}]
  /\ stats \in [Target -> BOOLEAN] /\ saved \in [Target -> BOOLEAN] /\ raw \in BOOLEAN
  /\ reader \in [Target -> Seq(Key)] /\ \A t \in Target : Len(reader[t]) <= 2
  /\ commander \in [Target -> {"none", "listening", "aborting", "ended"}]
  /\ cmds \in [Target -> Seq(Command)]
  /\ typed \in Seq(Key) /\ inputs \in 0 .. MaxInputs
  /\ handler \in {"first", "cancelling", "second", "eating", "gone"}
  /\ signalled \in BOOLEAN /\ aborted \in BOOLEAN

\* The owners in whose name some goroutine may call Emit for a target now:
\* PrintConfiguration, findings above the display, the display itself, the
\* coordinator's two writes, renderer.Close in main, the summary, and the
\* pipeline block of --debug.
Writers(t) ==
  { o \in Owner :
      \/ o = "Configuration" /\ t = tgt /\ at = "configure" /\ ~conf.quiet
      \/ /\ o = "Progress" /\ conf.progress
         /\ \/ prog[t] = "running"
            \/ coord[t] = "closing"
            \/ t = tgt /\ at \in {"scanning", "release"}
      \/ o = "Summary" /\ t = tgt /\ at = "report" /\ ~conf.quiet
      \/ o = "Pipeline" /\ t = tgt /\ at = "finish" /\ ~conf.quiet }

(***************************************************************************)
(* Whoever writes owns the terminal of its target, in a phase that allows  *)
(* writing: otherwise Emit returns an error, which every caller drops, and *)
(* a finding or a summary is lost.  Main changes phase and owner only      *)
(* after <-shutdownDone (scan.go:1037), which is what makes it true.       *)
(***************************************************************************)
NoOutputLost == \A t \in Target : \A o \in Writers(t) : Accepts(term[t], o)

(***************************************************************************)
(* A target that is left, and was not cut short, has gone through its      *)
(* whole lifecycle: none of the calls whose errors scan.go drops           *)
(* (1040-1109) has failed on the way.                                      *)
(***************************************************************************)
Left(t) == t < tgt \/ (t = tgt /\ at = "next")

LifecycleComplete ==
  Alive => \A t \in Target \ cutShort : Left(t) =>
     term[t] = [phase |-> "DONE", owner |-> IF conf.quiet THEN "Summary" ELSE "None"]

(***************************************************************************)
(* When main goes on to the next target, no goroutine of an earlier one    *)
(* that was not cut short can draw a display, restore the terminal, or     *)
(* take a command from the keys any more.                                  *)
(***************************************************************************)
Down(t) == coord[t] = "ended" /\ prog[t] # "running" /\ console[t] \in {"none", "closed"}

TargetsApart == Alive => \A t \in Target \ cutShort : Left(t) => Down(t)

(***************************************************************************)
(* The key q "gracefully stops the current target and moves on to the next *)
(* one" (docs/keyboard-shortcuts.md:20): whatever main has left is down.   *)
(* The code does not keep that: a recursive scan stopped while it loads a  *)
(* wordlist is left with everything it started still up (RunCancelled).    *)
(***************************************************************************)
StopsGracefully == Alive => \A t \in Target : Left(t) => Down(t)

(***************************************************************************)
(* As long as no target was cut short, the terminal is raw only while a    *)
(* target scans: the configuration, the summary and the next target find   *)
(* it as the user's shell left it, and so does the shell after a scan that *)
(* is not recursive, unless a signal kills the process.  (A recursive scan *)
(* can fail without waiting for the coordinator, scan.go:940.)             *)
(***************************************************************************)
RawOnlyWhileScanning ==
  raw /\ cutShort = {} =>
    at \in {"scanning", "join", "killed"} \/ (conf.recursive /\ at \in {"leaving", "over"})

(***************************************************************************)
(* Requests of the first target are cut off only after it was told to      *)
(* stop: every way to cancelDrain asks for a context that is already done, *)
(* "waits for in-flight requests" (docs/keyboard-shortcuts.md:21).         *)
(***************************************************************************)
GracefulFirst == tgt = 1 /\ at = "scanning" /\ drain => Done(1)

(***************************************************************************)
(* A target that is told to stop, in whatever way, is over at some time:   *)
(* main goes on, and sooner or later (for a target that is cut short,      *)
(* while the next one may be running) display, console and coordinator     *)
(* are down.                                                               *)
(***************************************************************************)
Closes ==
  \A t \in Target : (tgt = t /\ at = "scanning" /\ Done(t)) ~> (~Alive \/ (Left(t) /\ Down(t)))
=============================================================================
