------------------------------- MODULE Pause -------------------------------
(***************************************************************************)
(* The execution phases of one scanned target and the pause gate:         *)
(* state.Manager (internal/state/state.go) with the goroutines that        *)
(* cmd/scan.go runs against it for a non-recursive target.                 *)
(*                                                                         *)
(*   callers      the engine workers: each calls WaitUntilRunning before a *)
(*                job (worker.go:95); the word producers call it the same  *)
(*                way (producer.go:84), but main does not wait for them    *)
(*   helpers      the goroutine every slow call of WaitUntilRunning spawns *)
(*   console      the goroutine that obeys 'p' and 'q'                     *)
(*   aborter      the signal goroutine (Ctrl+C); the console runs the same *)
(*                code for 'a', so 'a' is taken as coming from here, but   *)
(*                only a second signal forces                              *)
(*   coordinator  the shutdown goroutine that waits for scanCtx            *)
(*   main         the body of the target job                               *)
(*                                                                         *)
(* Manager.mu is held across steps only by a caller: Transition and the    *)
(* helper take it, act and release it, which is one step that waits for    *)
(* the lock to be free.  Current() is an atomic load and needs no lock.    *)
(***************************************************************************)
EXTENDS Integers, Sequences, FiniteSets

CONSTANTS Callers,      \* goroutines that are handed a pauseBlocker
          NoCaller,     \* nobody holds Manager.mu
          Jobs,         \* bound: jobs on the channel the callers share
          MaxToggles    \* bound: presses of 'p'

ASSUME CallersAssumption == NoCaller \notin Callers
ASSUME BoundsAssumption == Jobs \in Nat /\ MaxToggles \in Nat

(***************************************************************************)
(* Phase: the iota constants; Stopping (4) and Draining (5) are never      *)
(* entered by the commands.                                                *)
(***************************************************************************)
Phase == 0 .. 11
Starting == 0
Running == 1
Paused == 2
ShutdownRequested == 3
Finalizing == 7

\* Main's last transitions: WaitingWorkers, Finalizing, TerminalShutdown,
\* Summary, Pipeline, Done.
Closing == <<6, 7, 8, 9, 10, 11>>

CallerPC == {"idle", "called", "locking", "held", "checked", "parked", "woken", "cleared", "exited"}
ConsolePC == {"ready", "pausing", "second", "resuming"}
AborterPC == {"ready", "requesting", "aborting", "forcing", "forced"}

VARIABLES
  phase,     \* Manager.current
  mu,        \* the caller inside Manager.mu, or NoCaller
  done,      \* scanCtx.Err() # nil
  pc,        \* where each caller is
  call,      \* the job each caller took last, 0 before the first
  taken,     \* jobs taken from the channel so far
  helper,    \* the goroutine spawned by the call for each job
  console,   \* where the console goroutine is
  aborter,   \* where the signal goroutine is
  toggles,   \* presses of 'p' so far
  coord,     \* where the shutdown coordinator is
  late,      \* history: jobs each caller has started in this pause
  main       \* 0 before Transition(Running), 1 while scanning, 2 after
             \* scanCancel, then one more per transition of Closing

work == <<call, taken>>
asking == <<console, aborter, toggles>>
target == <<coord, main>>
vars == <<phase, mu, done, pc, work, helper, asking, target, late>>

Job == 1 .. Jobs

Init ==
  /\ phase = Starting
  /\ mu = NoCaller
  /\ done = FALSE
  /\ pc = [c \in Callers |-> "idle"]
  /\ call = [c \in Callers |-> 0]
  /\ taken = 0
  /\ late = [c \in Callers |-> 0]
  /\ helper = [k \in Job |-> "none"]
  /\ console = "ready"
  /\ aborter = "ready"
  /\ toggles = 0
  /\ coord = "watching"
  /\ main = 0

-----------------------------------------------------------------------------
\* Slip: a phase is stored without a broadcast.
WakeNone(at) == at

\* sync.Cond.Broadcast: everyone on the notify list goes for the lock.
Wake(at) == [c \in Callers |-> IF at[c] = "parked" THEN "woken" ELSE at[c]]

\* Manager.Transition: it validates nothing, and does nothing when the phase
\* is already the one asked for.
Transition(to) ==
  /\ mu = NoCaller
  /\ phase' = to
  /\ pc' = IF phase = to THEN pc ELSE Wake(pc)
  /\ late' = IF phase = to THEN late ELSE [c \in Callers |-> 0]

-----------------------------------------------------------------------------
(***************************************************************************)
(* A caller: one job after another, with the ctx check and the pause gate  *)
(* in front of each.                                                       *)
(***************************************************************************)
Goto(c, l) == pc' = [pc EXCEPT ![c] = l]

\* The next job; a worker that finds its context done returns instead.
Begin(c) ==
  /\ pc[c] = "idle" /\ main > 0
  /\ ~done /\ taken < Jobs
  /\ taken' = taken + 1
  /\ call' = [call EXCEPT ![c] = taken']
  /\ Goto(c, "called")
  /\ UNCHANGED <<phase, mu, done, helper, asking, target, late>>

\* No job is left, or the context is done: found out between two jobs, or by
\* the limiter or the first line of process after the gate.
Exit(c) ==
  /\ \/ pc[c] = "idle" /\ main > 0
     \/ pc[c] = "cleared" /\ done
  /\ Goto(c, "exited")
  /\ UNCHANGED <<phase, mu, done, work, helper, asking, target, late>>

\* Slip: the fast path without its test.
PassAnyway(c) ==
  /\ pc[c] = "called"
  /\ Goto(c, "cleared")
  /\ UNCHANGED <<phase, mu, done, work, helper, asking, target, late>>

\* The fast path: one atomic load.
Pass(c) ==
  /\ pc[c] = "called" /\ phase # Paused
  /\ Goto(c, "cleared")
  /\ UNCHANGED <<phase, mu, done, work, helper, asking, target, late>>

\* The job starts, after limiter.Wait; nobody looks at the phase again.
Start(c) ==
  /\ pc[c] = "cleared"
  /\ Goto(c, "idle")
  /\ late' = IF phase = Paused THEN [late EXCEPT ![c] = @ + 1] ELSE late
  /\ UNCHANGED <<phase, mu, done, work, helper, asking, target>>

Spawn(c) ==
  /\ pc[c] = "called" /\ phase = Paused
  /\ Goto(c, "locking")
  /\ helper' = [helper EXCEPT ![call[c]] = "watching"]
  /\ UNCHANGED <<phase, mu, done, work, asking, target, late>>

\* mu.Lock() on entry, and inside cond.Wait() after a wake-up.
Acquire(c) ==
  /\ pc[c] \in {"locking", "woken"} /\ mu = NoCaller
  /\ mu' = c
  /\ Goto(c, "held")
  /\ UNCHANGED <<phase, done, work, helper, asking, target, late>>

\* Returning unlocks mu and closes the done channel of the call.
Return(c, l) == mu' = NoCaller /\ Goto(c, l)

Resume(c) ==
  /\ pc[c] = "held" /\ phase # Paused
  /\ Return(c, "cleared")
  /\ UNCHANGED <<phase, done, work, helper, asking, target, late>>

\* Slip: the loop does not look at the context.
CheckNothing(c) ==
  /\ pc[c] = "held" /\ phase = Paused
  /\ Goto(c, "checked")
  /\ UNCHANGED <<phase, mu, done, work, helper, asking, target, late>>

\* ctx.Err(): an error ends the caller.
CheckCtx(c) ==
  /\ pc[c] = "held" /\ phase = Paused
  /\ IF done
     THEN Return(c, "exited")
     ELSE Goto(c, "checked") /\ UNCHANGED mu
  /\ UNCHANGED <<phase, done, work, helper, asking, target, late>>

\* Slip: Wait without giving the lock back.
ParkLocked(c) ==
  /\ pc[c] = "checked"
  /\ Goto(c, "parked")
  /\ UNCHANGED <<phase, mu, done, work, helper, asking, target, late>>

\* cond.Wait(): onto the notify list, then unlock.
Park(c) ==
  /\ pc[c] = "checked"
  /\ Return(c, "parked")
  /\ UNCHANGED <<phase, done, work, helper, asking, target, late>>

Caller(c) ==
  \/ Begin(c) \/ Exit(c) \/ Pass(c) \/ Spawn(c) \/ Start(c)
  \/ Acquire(c) \/ Resume(c) \/ CheckCtx(c) \/ Park(c)

-----------------------------------------------------------------------------
(***************************************************************************)
(* The helper of the call for job k: it waits for the context or for the   *)
(* end of its call; when both are there, select takes either.              *)
(***************************************************************************)
InCall(c) == pc[c] \notin {"idle", "cleared", "exited"}
Over(k) == \A c \in Callers : call[c] = k => ~InCall(c)

SeeCtx(k) ==
  /\ helper[k] = "watching" /\ done
  /\ helper' = [helper EXCEPT ![k] = "waking"]
  /\ UNCHANGED <<phase, mu, done, pc, work, asking, target, late>>

\* Slip: the goroutine waits for the context only.
SeeEndNever(k) == FALSE /\ UNCHANGED vars

SeeEnd(k) ==
  /\ helper[k] = "watching" /\ Over(k)
  /\ helper' = [helper EXCEPT ![k] = "gone"]
  /\ UNCHANGED <<phase, mu, done, pc, work, asking, target, late>>

\* Slip: the helper broadcasts without the lock.
WakeUnlocked(k) ==
  /\ helper[k] = "waking"
  /\ pc' = Wake(pc)
  /\ helper' = [helper EXCEPT ![k] = "gone"]
  /\ UNCHANGED <<phase, mu, done, work, asking, target, late>>

WakeAll(k) ==
  /\ helper[k] = "waking" /\ mu = NoCaller
  /\ pc' = Wake(pc)
  /\ helper' = [helper EXCEPT ![k] = "gone"]
  /\ UNCHANGED <<phase, mu, done, work, asking, target, late>>

Helper(k) == SeeCtx(k) \/ SeeEnd(k) \/ WakeAll(k)

-----------------------------------------------------------------------------
(***************************************************************************)
(* The console and the signal goroutine.  Each reads the phase and then    *)
(* asks for a transition: two steps, with nothing held in between.  Keys   *)
(* typed before the shutdown may be handled after it: nobody waits for     *)
(* this goroutine.                                                         *)
(***************************************************************************)
\* 'p': if Current() == Running ...
Toggle ==
  /\ console = "ready" /\ toggles < MaxToggles
  /\ toggles' = toggles + 1
  /\ console' = IF phase = Running THEN "pausing" ELSE "second"
  /\ UNCHANGED <<phase, mu, done, pc, work, helper, aborter, target, late>>

\* ... else if Current() == Paused.
ToggleElse ==
  /\ console = "second"
  /\ console' = IF phase = Paused THEN "resuming" ELSE "ready"
  /\ UNCHANGED <<phase, mu, done, pc, work, helper, aborter, toggles, target, late>>

Toggled ==
  /\ \/ console = "pausing" /\ Transition(Paused)
     \/ console = "resuming" /\ Transition(Running)
  /\ console' = "ready"
  /\ UNCHANGED <<mu, done, work, helper, aborter, toggles, target>>

\* 'q': scanCancel().
StopTarget ==
  /\ console = "ready"
  /\ ~done /\ done' = TRUE
  /\ UNCHANGED <<phase, mu, pc, work, helper, asking, target, late>>

\* The first Ctrl+C, while the context is live: the phase is read ...
Abort ==
  /\ aborter = "ready" /\ ~done
  /\ aborter' = IF phase < ShutdownRequested THEN "requesting" ELSE "aborting"
  /\ UNCHANGED <<phase, mu, done, pc, work, helper, console, toggles, target, late>>

\* ... then asked for ...
AbortRequest ==
  /\ aborter = "requesting"
  /\ Transition(ShutdownRequested)
  /\ aborter' = "aborting"
  /\ UNCHANGED <<mu, done, work, helper, console, toggles, target>>

\* ... then cancelGraceful().
CancelGraceful ==
  /\ aborter = "aborting"
  /\ aborter' = "ready"
  /\ done' = TRUE
  /\ UNCHANGED <<phase, mu, pc, work, helper, console, toggles, target, late>>

\* The second Ctrl+C, once the context is done: onForce reads the phase, ...
OnForce ==
  /\ aborter = "ready" /\ done
  /\ aborter' = IF phase < Finalizing THEN "forcing" ELSE "forced"
  /\ UNCHANGED <<phase, mu, done, pc, work, helper, console, toggles, target, late>>

\* ... asks for it, and cancels the drain context, which no wait here looks at.
ForceRequest ==
  /\ aborter = "forcing"
  /\ Transition(Finalizing)
  /\ aborter' = "forced"
  /\ UNCHANGED <<mu, done, work, helper, console, toggles, target>>

Console == ToggleElse \/ Toggled
Aborter == AbortRequest \/ CancelGraceful \/ ForceRequest
Input == Toggle \/ StopTarget \/ Abort \/ OnForce

-----------------------------------------------------------------------------
\* The shutdown coordinator: Current() < ShutdownRequested, then Transition.
Notice ==
  /\ coord = "watching" /\ done
  /\ coord' = IF phase < ShutdownRequested THEN "requesting" ELSE "ended"
  /\ UNCHANGED <<phase, mu, done, pc, work, helper, asking, main, late>>

Request ==
  /\ coord = "requesting"
  /\ Transition(ShutdownRequested)
  /\ coord' = "ended"
  /\ UNCHANGED <<mu, done, work, helper, asking, main>>

Coordinator == Notice \/ Request

\* Main: Transition(Running), with the goroutines above already started.
Run ==
  /\ main = 0
  /\ Transition(Running)
  /\ main' = 1
  /\ UNCHANGED <<mu, done, work, helper, asking, coord>>

\* The results channel is closed: every caller has returned.  scanCancel().
Drained ==
  /\ main = 1 /\ \A c \in Callers : pc[c] = "exited"
  /\ done' = TRUE
  /\ main' = 2
  /\ UNCHANGED <<phase, mu, pc, work, helper, asking, coord, late>>

\* <-shutdownDone, then the last transitions in order.
Close ==
  /\ coord = "ended" /\ main - 1 \in DOMAIN Closing
  /\ Transition(Closing[main - 1])
  /\ main' = main + 1
  /\ UNCHANGED <<mu, done, work, helper, asking, coord>>

Main == Run \/ Drained \/ Close

Closed == main = Len(Closing) + 2
Quiet ==
  /\ Closed /\ console = "ready" /\ aborter \in {"ready", "forced"}
  /\ \A k \in Job : helper[k] \in {"none", "gone"}
  /\ UNCHANGED vars

Next ==
  \/ \E c \in Callers : Caller(c)
  \/ \E k \in Job : Helper(k)
  \/ Input \/ Console \/ Aborter \/ Coordinator \/ Main \/ Quiet

Spec == Init /\ [][Next]_vars

(***************************************************************************)
(* Every goroutine that can run does; the user may type nothing more.      *)
(* Weak fairness is enough for the lock: a sync.Mutex hands itself over to *)
(* a waiter that has been passed over.                                     *)
(***************************************************************************)
FairSpec ==
  /\ Spec
  /\ \A c \in Callers : WF_vars(Caller(c))
  /\ \A k \in Job : WF_vars(Helper(k))
  /\ WF_vars(Console) /\ WF_vars(Aborter)
  /\ WF_vars(Coordinator) /\ WF_vars(Main)
-----------------------------------------------------------------------------
(***************************************************************************)
(* What the gate promises.                                                 *)
(***************************************************************************)
\* The types of the variables, and Manager.mu is held by a caller exactly
\* while that caller is between mu.Lock() and Wait or return.
TypeOK ==
  /\ phase \in Phase
  /\ mu \in Callers \cup {NoCaller}
  /\ done \in BOOLEAN
  /\ pc \in [Callers -> CallerPC]
  /\ taken \in 0 .. Jobs
  /\ call \in [Callers -> 0 .. Jobs]
  /\ helper \in [Job -> {"none", "watching", "waking", "gone"}]
  /\ console \in ConsolePC
  /\ aborter \in AborterPC
  /\ toggles \in 0 .. MaxToggles
  /\ late \in [Callers -> Nat]
  /\ coord \in {"watching", "requesting", "ended"}
  /\ main \in 0 .. Len(Closing) + 2
  /\ \A c \in Callers : mu = c <=> pc[c] \in {"held", "checked"}

\* No wake-up is lost: whoever is on the notify list is there because the
\* scan is paused, and the helper of its call is still there to broadcast
\* when the context ends (state.go:117-134).
NoLostWakeup ==
  \A c \in Callers : pc[c] = "parked" =>
    /\ phase = Paused
    /\ helper[call[c]] \in {"watching", "waking"}

(***************************************************************************)
(* A pause stops the workers: in one pause, however long, each of them     *)
(* starts at most one job, the one it had been let through with before and *)
(* held in the limiter (worker.go:95-103).  The next call of the gate      *)
(* waits, whichever pauses, resumes and wake-ups came before it.           *)
(***************************************************************************)
PauseStops == \A c \in Callers : late[c] <= 1

(***************************************************************************)
(* Once the shutdown has been requested, no earlier phase is entered: "if  *)
(* valid" (state.go:81).  The code does not keep that, because Transition  *)
(* validates nothing and its callers have read the phase in an earlier     *)
(* step.                                                                   *)
(***************************************************************************)
ShutdownStands == [][phase >= ShutdownRequested => phase' >= ShutdownRequested]_vars

(***************************************************************************)
(* The liveness properties, each as what is so again and again.            *)
(***************************************************************************)
\* A call hangs only while the scan is paused and live: it ends after a resume
\* that lasts and after a cancellation (state.go:108).
CallsEnd ==
  \A c \in Callers : []<>(InCall(c) => phase = Paused /\ ~done)

\* No goroutine that a call spawned outlives its call for good, even when the
\* scan stays paused and nobody cancels it (state.go:114-124).
HelpersEnd == []<>(\A k \in Job : Over(k) => helper[k] \in {"none", "gone"})

\* A cancelled target, which stays cancelled, gets through its shutdown,
\* paused or not (scan.go:1035-1112).
Closes == []<>(done => Closed)
=============================================================================
