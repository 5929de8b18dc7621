---------------------------- MODULE PauseProofs ----------------------------
(***************************************************************************)
(* No wake-up of the pause gate is lost and a pause lets each worker start *)
(* at most one more job, for any number of callers, jobs and key presses.  *)
(*                                                                         *)
(* NoLostWakeup is not inductive: what makes it safe to park is what the   *)
(* caller saw before.  Between mu.Lock() and Wait nobody can change the    *)
(* phase (Held), a context that is still live has not been noticed by any  *)
(* helper (Unnoticed, Watched), and a helper that has noticed it needs the *)
(* lock before it can broadcast and go (Awaited).                          *)
(*                                                                         *)
(* PauseStops needs that a caller which has started a job in this pause    *)
(* has not been let through again (Once).                                  *)
(***************************************************************************)
EXTENDS Pause, TLAPS

Slow(c) == pc[c] \in {"locking", "held", "checked", "parked", "woken"}

\* A call belongs to a job.
Assigned == \A c \in Callers : InCall(c) => call[c] \in Job

\* Whoever is about to park, or has parked, did so in a pause that still lasts.
Held == \A c \in Callers : pc[c] \in {"checked", "parked"} => phase = Paused

\* No helper sees a context end that has not ended.
Unnoticed == ~done => \A k \in Job : helper[k] # "waking"

\* While the context is live the helper of every slow call is watching it.
Watched == ~done => \A c \in Callers : Slow(c) => helper[call[c]] = "watching"

\* The helper of a call that is about to park or has parked will still broadcast.
Awaited ==
  \A c \in Callers : pc[c] \in {"checked", "parked"} =>
    helper[call[c]] \in {"watching", "waking"}

\* In a pause a caller has started the job it had been let through with, and
\* no other is let through.
Once ==
  \A c \in Callers :
    /\ late[c] <= 1
    /\ phase = Paused /\ late[c] = 1 => pc[c] # "cleared"

IInv == TypeOK /\ Assigned /\ Held /\ Unnoticed /\ Watched /\ Awaited /\ Once

\* The last transitions of main are phases.
LEMMA ClosingPhases ==
  Len(Closing) = 6 /\ DOMAIN Closing = 1 .. 6 /\ \A i \in 1 .. 6 : Closing[i] \in Phase
<1>1. Len(Closing) = 6
  BY DEF Closing
<1>2. DOMAIN Closing = 1 .. 6
  BY DEF Closing
<1>3. \A i \in 1 .. 6 : Closing[i] \in Phase
  BY DEF Closing, Phase
<1> QED BY <1>1, <1>2, <1>3

LEMMA Initially == Init => IInv
<1> SUFFICES ASSUME Init PROVE IInv
  OBVIOUS
<1>2. \A c \in Callers : pc[c] = "idle"
  BY DEF Init
<1>1. TypeOK
  <2>1. phase \in Phase
    BY DEF Init, Phase, Starting
  <2>6. mu \in Callers \cup {NoCaller} /\ done \in BOOLEAN
    BY Zenon DEF Init
  <2>2. pc \in [Callers -> CallerPC] /\ \A c \in Callers : mu = c <=> pc[c] \in {"held", "checked"}
    BY <1>2, CallersAssumption DEF Init, CallerPC
  <2>3. /\ taken \in 0 .. Jobs /\ call \in [Callers -> 0 .. Jobs]
        /\ toggles \in 0 .. MaxToggles
    BY BoundsAssumption DEF Init
  <2>4. main \in 0 .. Len(Closing) + 2
    BY ClosingPhases DEF Init
  <2>5. /\ helper \in [Job -> {"none", "watching", "waking", "gone"}]
        /\ console \in ConsolePC /\ aborter \in AborterPC
        /\ coord \in {"watching", "requesting", "ended"} /\ late \in [Callers -> Nat]
    BY DEF Init, ConsolePC, AborterPC
  <2> QED BY <2>1, <2>2, <2>3, <2>4, <2>5, <2>6 DEF TypeOK
<1>3. Assigned /\ Held /\ Watched /\ Awaited
  BY <1>2 DEF Assigned, Held, Watched, Awaited, InCall, Slow
<1>4. Unnoticed /\ Once
  BY DEF Init, Unnoticed, Once
<1> QED BY <1>1, <1>3, <1>4 DEF IInv

\* What a broadcast does to the callers: only the parked ones move.
LEMMA WakeMoves ==
  ASSUME TypeOK
  PROVE  /\ Wake(pc) \in [Callers -> CallerPC]
         /\ \A c \in Callers : /\ pc[c] = "parked" => Wake(pc)[c] = "woken"
                               /\ pc[c] # "parked" => Wake(pc)[c] = pc[c]
BY DEF TypeOK, Wake, CallerPC

-----------------------------------------------------------------------------
\* A step that takes a phase transition, and leaves the callers' calls, the helpers
\* and the context alone, keeps the invariant: the lock is free, so nobody is about
\* to park, and everybody who has parked is woken.
LEMMA TransitionKeeps ==
  ASSUME IInv, NEW to \in Phase, Transition(to),
         UNCHANGED <<mu, done, work, helper>>,
         console' \in ConsolePC, aborter' \in AborterPC, toggles' \in 0 .. MaxToggles,
         coord' \in {"watching", "requesting", "ended"}, main' \in 0 .. Len(Closing) + 2
  PROVE  IInv'
<1>1. mu = NoCaller /\ phase' = to /\ mu' = mu /\ done' = done /\ call' = call
      /\ taken' = taken /\ helper' = helper
  BY DEF Transition, work
<1>2. \A c \in Callers : pc[c] \notin {"held", "checked"}
  BY <1>1, CallersAssumption DEF IInv, TypeOK
<1>3. /\ pc' \in [Callers -> CallerPC]
      /\ \A c \in Callers : /\ pc[c] # "parked" => pc'[c] = pc[c]
                            /\ pc[c] = "parked" => pc'[c] \in {"parked", "woken"}
                            /\ pc'[c] = "parked" => phase' = phase
  <2>1. CASE phase = to
    BY <2>1, <1>1 DEF Transition, IInv, TypeOK
  <2>2. CASE phase # to
    <3>1. pc' = Wake(pc)
      BY <2>2 DEF Transition
    <3> QED BY <3>1, WakeMoves DEF IInv
  <2> QED BY <2>1, <2>2
<1>12. /\ late' \in [Callers -> Nat]
       /\ phase = to => late' = late
       /\ phase # to => \A c \in Callers : late'[c] = 0
  BY DEF Transition, IInv, TypeOK
<1>4. \A c \in Callers : pc'[c] \notin {"held", "checked"}
  BY <1>2, <1>3
<1>5. TypeOK'
  BY <1>1, <1>3, <1>4, <1>12, CallersAssumption DEF IInv, TypeOK
<1>6. \A c \in Callers : (InCall(c)' => InCall(c)) /\ (Slow(c)' => Slow(c))
  BY <1>3 DEF InCall, Slow
<1>7. Assigned'
  BY <1>1, <1>6 DEF IInv, Assigned
<1>8. Held'
  BY <1>3, <1>4 DEF IInv, Held
<1>9. Unnoticed'
  BY <1>1 DEF IInv, Unnoticed
<1>10. Watched'
  BY <1>1, <1>6 DEF IInv, Watched
<1>11. Awaited'
  BY <1>1, <1>3, <1>4 DEF IInv, Awaited
<1>13. Once'
  <2>1. CASE phase = to
    <3>1. \A c \in Callers : pc'[c] = "cleared" => pc[c] = "cleared"
      BY <1>3
    <3> QED BY <1>1, <1>12, <2>1, <3>1 DEF IInv, Once
  <2>2. CASE phase # to
    BY <1>12, <2>2 DEF Once
  <2> QED BY <2>1, <2>2
<1> QED BY <1>5, <1>7, <1>8, <1>9, <1>10, <1>11, <1>13 DEF IInv

-----------------------------------------------------------------------------
\* A caller's own steps.
LEMMA CallerKeeps ==
  ASSUME IInv, NEW c \in Callers, Caller(c)
  PROVE  IInv'
<1> USE CallersAssumption, BoundsAssumption
<1>1. CASE Begin(c)
  BY <1>1 DEF Begin, Goto, IInv, TypeOK, Assigned, Held, Unnoticed, Watched, Awaited, Once,
              InCall, Slow, CallerPC, Job, asking, target
<1>2. CASE Exit(c)
  BY <1>2 DEF Exit, Goto, IInv, TypeOK, Assigned, Held, Unnoticed, Watched, Awaited, Once,
              InCall, Slow, CallerPC, work, asking, target
<1>3. CASE Pass(c)
  BY <1>3 DEF Pass, Goto, IInv, TypeOK, Assigned, Held, Unnoticed, Watched, Awaited, Once,
              InCall, Slow, CallerPC, work, asking, target
<1>4. CASE Spawn(c)
  <2>1. TypeOK'
    BY <1>4 DEF Spawn, Goto, IInv, TypeOK, CallerPC, work, asking, target
  <2>2. Assigned' /\ Held' /\ Unnoticed' /\ Once'
    BY <1>4 DEF Spawn, Goto, IInv, TypeOK, Assigned, Held, Unnoticed, Once, InCall, work
  <2>3. Watched' /\ Awaited'
    BY <1>4 DEF Spawn, Goto, IInv, TypeOK, Assigned, Watched, Awaited, InCall, Slow, work
  <2> QED BY <2>1, <2>2, <2>3 DEF IInv
<1>5. CASE Acquire(c)
  BY <1>5 DEF Acquire, Goto, IInv, TypeOK, Assigned, Held, Unnoticed, Watched, Awaited, Once,
              InCall, Slow, CallerPC, work, asking, target
<1>6. CASE Resume(c)
  BY <1>6 DEF Resume, Return, Goto, IInv, TypeOK, Assigned, Held, Unnoticed, Watched, Once,
              Awaited, InCall, Slow, CallerPC, work, asking, target
<1>7. CASE CheckCtx(c)
  <2>1. CASE done
    <3>1. TypeOK'
      BY <1>7, <2>1 DEF CheckCtx, Return, Goto, IInv, TypeOK, CallerPC, work, asking, target
    <3>2. /\ pc' = [pc EXCEPT ![c] = "exited"] /\ pc[c] = "held" /\ mu' = NoCaller
          /\ UNCHANGED <<phase, done, call, taken, helper, asking, target, late>>
      BY <1>7, <2>1 DEF CheckCtx, Return, Goto, work
    <3>3. Assigned' /\ Held' /\ Unnoticed'
      BY <3>2 DEF IInv, TypeOK, Assigned, Held, Unnoticed, InCall
    <3>4. Watched' /\ Awaited'
      BY <2>1, <3>2 DEF IInv, TypeOK, Watched, Awaited, InCall, Slow
    <3>5. Once'
      BY <3>2 DEF IInv, TypeOK, Once
    <3> QED BY <3>1, <3>3, <3>4, <3>5 DEF IInv
  <2>2. CASE ~done
    <3>1. /\ pc' = [pc EXCEPT ![c] = "checked"] /\ phase = Paused /\ pc[c] = "held"
          /\ UNCHANGED <<phase, mu, done, call, taken, helper, asking, target, late>>
      BY <1>7, <2>2 DEF CheckCtx, Goto, work
    <3>2. TypeOK'
      BY <3>1 DEF IInv, TypeOK, CallerPC, asking, target
    <3>3. Assigned' /\ Held' /\ Unnoticed' /\ Watched'
      BY <3>1 DEF IInv, TypeOK, Assigned, Held, Unnoticed, Watched, InCall, Slow
    <3>4. helper[call[c]] = "watching"
      BY <2>2, <3>1 DEF IInv, Watched, Slow
    <3>5. Awaited'
      BY <3>1, <3>4 DEF IInv, TypeOK, Awaited
    <3>6. Once'
      BY <3>1 DEF IInv, TypeOK, Once
    <3> QED BY <3>2, <3>3, <3>5, <3>6 DEF IInv
  <2> QED BY <2>1, <2>2
<1>8. CASE Park(c)
  BY <1>8 DEF Park, Return, Goto, IInv, TypeOK, Assigned, Held, Unnoticed, Watched, Once,
              Awaited, InCall, Slow, CallerPC, work, asking, target
<1>9. CASE Start(c)
  <2>1. /\ pc' = [pc EXCEPT ![c] = "idle"] /\ pc[c] = "cleared"
        /\ late' = IF phase = Paused THEN [late EXCEPT ![c] = late[c] + 1] ELSE late
        /\ UNCHANGED <<phase, mu, done, call, taken, helper, asking, target>>
    BY <1>9 DEF Start, Goto, work
  <2>2. late[c] \in Nat /\ late[c] <= 1 /\ (phase = Paused => late[c] # 1)
    BY <2>1 DEF IInv, TypeOK, Once
  <2>3. TypeOK'
    BY <2>1, <2>2 DEF IInv, TypeOK, CallerPC, asking, target
  <2>4. Assigned' /\ Held' /\ Unnoticed' /\ Watched' /\ Awaited'
    BY <2>1 DEF IInv, TypeOK, Assigned, Held, Unnoticed, Watched, Awaited, InCall, Slow
  <2>5. Once'
    BY <2>1, <2>2 DEF IInv, TypeOK, Once
  <2> QED BY <2>3, <2>4, <2>5 DEF IInv
<1> QED BY <1>1, <1>2, <1>3, <1>4, <1>5, <1>6, <1>7, <1>8, <1>9 DEF Caller

\* A helper's steps.
LEMMA HelperKeeps ==
  ASSUME IInv, NEW k \in Job, Helper(k)
  PROVE  IInv'
<1> USE CallersAssumption
<1>1. CASE SeeCtx(k)
  BY <1>1 DEF SeeCtx, IInv, TypeOK, Assigned, Held, Unnoticed, Watched, Awaited, Once,
              InCall, Slow, work, asking, target
<1>2. CASE SeeEnd(k)
  BY <1>2 DEF SeeEnd, Over, IInv, TypeOK, Assigned, Held, Unnoticed, Watched, Awaited, Once,
              InCall, Slow, work, asking, target
<1>3. CASE WakeAll(k)
  <2>1. \A d \in Callers : pc'[d] \notin {"parked", "held", "checked"}
    BY <1>3, WakeMoves DEF WakeAll, IInv, TypeOK
  <2>2. \A d \in Callers : (InCall(d)' => InCall(d)) /\ (Slow(d)' => Slow(d))
    BY <1>3, WakeMoves DEF WakeAll, IInv, InCall, Slow
  <2>3. TypeOK'
    BY <1>3, <2>1, WakeMoves DEF WakeAll, IInv, TypeOK, work, asking, target
  <2>4. Assigned' /\ Held' /\ Awaited'
    BY <1>3, <2>1, <2>2 DEF WakeAll, IInv, Assigned, Held, Awaited, work
  <2>5. done
    BY <1>3 DEF WakeAll, IInv, Unnoticed
  <2>6. Unnoticed' /\ Watched'
    BY <1>3, <2>5 DEF WakeAll, Unnoticed, Watched
  <2>7. Once'
    BY <1>3, WakeMoves DEF WakeAll, IInv, Once
  <2> QED BY <2>3, <2>4, <2>6, <2>7 DEF IInv
<1> QED BY <1>1, <1>2, <1>3 DEF Helper

\* A step of the console, the aborter, the coordinator or main that leaves the phase,
\* the lock, the callers and the helpers alone keeps the invariant; it may end the
\* context.
LEMMA OthersKeep ==
  ASSUME IInv, UNCHANGED <<phase, mu, pc, work, helper, late>>, done' \in {done, TRUE},
         console' \in ConsolePC, aborter' \in AborterPC, toggles' \in 0 .. MaxToggles,
         coord' \in {"watching", "requesting", "ended"}, main' \in 0 .. Len(Closing) + 2
  PROVE  IInv'
BY DEF IInv, TypeOK, Assigned, Held, Unnoticed, Watched, Awaited, Once, InCall, Slow, work

LEMMA Step == IInv /\ [Next]_vars => IInv'
<1> SUFFICES ASSUME IInv, [Next]_vars PROVE IInv'
  OBVIOUS
<1>0. /\ console \in ConsolePC /\ aborter \in AborterPC /\ toggles \in 0 .. MaxToggles
      /\ coord \in {"watching", "requesting", "ended"} /\ main \in 0 .. Len(Closing) + 2
      /\ done \in BOOLEAN
  BY DEF IInv, TypeOK
<1>1. ASSUME NEW c \in Callers, Caller(c) PROVE IInv'
  BY <1>1, CallerKeeps
<1>2. ASSUME NEW k \in Job, Helper(k) PROVE IInv'
  BY <1>2, HelperKeeps
<1>3. CASE Input
  <2>1. CASE Toggle
    BY <2>1, <1>0, BoundsAssumption, OthersKeep DEF Toggle, target, ConsolePC
  <2>2. CASE StopTarget
    BY <2>2, <1>0, OthersKeep DEF StopTarget, asking, target
  <2>3. CASE Abort
    BY <2>3, <1>0, OthersKeep DEF Abort, target, AborterPC
  <2>4. CASE OnForce
    BY <2>4, <1>0, OthersKeep DEF OnForce, target, AborterPC
  <2> QED BY <1>3, <2>1, <2>2, <2>3, <2>4 DEF Input
<1>4. CASE Console
  <2>1. CASE ToggleElse
    BY <2>1, <1>0, OthersKeep DEF ToggleElse, target, ConsolePC
  <2>2. CASE Toggled
    <3>1. PICK to \in {Paused, Running} : Transition(to)
      BY <2>2 DEF Toggled
    <3>2. to \in Phase
      BY DEF Paused, Running, Phase
    <3> QED BY <2>2, <3>1, <3>2, <1>0, TransitionKeeps DEF Toggled, target, ConsolePC
  <2> QED BY <1>4, <2>1, <2>2 DEF Console
<1>5. CASE Aborter
  <2>1. CASE AbortRequest
    <3>1. ShutdownRequested \in Phase
      BY DEF ShutdownRequested, Phase
    <3> QED BY <2>1, <3>1, <1>0, TransitionKeeps DEF AbortRequest, target, AborterPC
  <2>2. CASE CancelGraceful
    BY <2>2, <1>0, OthersKeep DEF CancelGraceful, target, AborterPC
  <2>3. CASE ForceRequest
    <3>1. Finalizing \in Phase
      BY DEF Finalizing, Phase
    <3> QED BY <2>3, <3>1, <1>0, TransitionKeeps DEF ForceRequest, target, AborterPC
  <2> QED BY <1>5, <2>1, <2>2, <2>3 DEF Aborter
<1>6. CASE Coordinator
  <2>1. CASE Notice
    BY <2>1, <1>0, OthersKeep DEF Notice, asking
  <2>2. CASE Request
    <3>1. ShutdownRequested \in Phase
      BY DEF ShutdownRequested, Phase
    <3> QED BY <2>2, <3>1, <1>0, TransitionKeeps DEF Request, asking
  <2> QED BY <1>6, <2>1, <2>2 DEF Coordinator
<1>7. CASE Main
  <2>1. CASE Run
    <3>1. Running \in Phase /\ 1 \in 0 .. Len(Closing) + 2
      BY DEF Running, Phase, Closing
    <3> QED BY <2>1, <3>1, <1>0, TransitionKeeps DEF Run, asking
  <2>2. CASE Drained
    <3>1. 2 \in 0 .. Len(Closing) + 2
      BY DEF Closing
    <3> QED BY <2>2, <3>1, <1>0, OthersKeep DEF Drained, asking
  <2>3. CASE Close
    <3>1. main - 1 \in 1 .. 6
      BY <2>3, ClosingPhases DEF Close
    <3>2. Closing[main - 1] \in Phase /\ main + 1 \in 0 .. Len(Closing) + 2
      BY <3>1, <1>0, ClosingPhases
    <3> QED BY <2>3, <3>2, <1>0, TransitionKeeps DEF Close, asking
  <2> QED BY <1>7, <2>1, <2>2, <2>3 DEF Main
<1>8. CASE Quiet \/ UNCHANGED vars
  BY <1>8, <1>0, OthersKeep DEF Quiet, vars, asking, target
<1> QED BY <1>1, <1>2, <1>3, <1>4, <1>5, <1>6, <1>7, <1>8 DEF Next

THEOREM Invariance == Spec => []IInv
BY Initially, Step, PTL DEF Spec

-----------------------------------------------------------------------------
\* Manager.mu and the goroutines keep their types, and the lock has one holder: the
\* caller that is between mu.Lock() and Wait or return (state.go:127-135).
THEOREM TypeCorrect == Spec => []TypeOK
<1>1. IInv => TypeOK
  BY DEF IInv
<1> QED BY <1>1, Invariance, PTL

\* No wake-up is lost: a parked caller is parked in a pause, and the helper that will
\* wake it when the context ends is still there (state.go:109-136).
THEOREM NoLostWakeupCorrect == Spec => []NoLostWakeup
<1>1. IInv => NoLostWakeup
  BY DEF IInv, Held, Awaited, NoLostWakeup
<1> QED BY <1>1, Invariance, PTL

\* In one pause each worker starts at most one job, the one it had been let through
\* with before (worker.go:95-103).
THEOREM PauseStopsCorrect == Spec => []PauseStops
<1>1. IInv => PauseStops
  BY DEF IInv, Once, PauseStops
<1> QED BY <1>1, Invariance, PTL
=============================================================================
