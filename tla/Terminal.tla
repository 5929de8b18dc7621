------------------------------ MODULE Terminal ------------------------------
(***************************************************************************)
(* The owner of the terminal, internal/output/terminal/manager.go: every   *)
(* method is a map from one state of the manager to the next.  A method    *)
(* that fails returns an error, which cmd/scan.go ignores after the start, *)
(* so a failed call is the state it leaves behind.                         *)
(* Stop, SwitchOwner, the phase STOPPING and the owner Statistics are not  *)
(* used by the program.                                                    *)
(***************************************************************************)

Phase == {"STARTING", "RUNNING", "STOPPING", "WAITING_WORKERS", "FINALIZING",
          "TERMINAL_SHUTDOWN", "SUMMARY", "PIPELINE", "DONE"}

Owner == {"None", "Configuration", "Progress", "Summary", "Pipeline"}

Manager == [phase : Phase, owner : Owner]

ValidTransitions ==
  { <<"STARTING", "RUNNING">>, <<"STARTING", "STOPPING">>,
    <<"RUNNING", "STOPPING">>, <<"RUNNING", "WAITING_WORKERS">>,
    <<"STOPPING", "WAITING_WORKERS">>, <<"STOPPING", "DONE">>,
    <<"WAITING_WORKERS", "FINALIZING">>,
    <<"FINALIZING", "TERMINAL_SHUTDOWN">>, <<"FINALIZING", "DONE">>,
    <<"TERMINAL_SHUTDOWN", "SUMMARY">>, <<"TERMINAL_SHUTDOWN", "DONE">>,
    <<"SUMMARY", "PIPELINE">>, <<"SUMMARY", "DONE">>,
    <<"PIPELINE", "DONE">> }

New == [phase |-> "STARTING", owner |-> "None"]

\* The phases in which nobody may write.
Silent == {"WAITING_WORKERS", "FINALIZING", "DONE"}

Valid(m, to) == <<m.phase, to>> \in ValidTransitions

TransitionTo(m, to) == IF Valid(m, to) THEN [m EXCEPT !.phase = to] ELSE m

AcquireOwner(m, o) ==
  IF m.phase # "DONE" /\ m.owner \in {"None", o} THEN [m EXCEPT !.owner = o] ELSE m

ReleaseOwner(m, o) == IF m.owner = o THEN [m EXCEPT !.owner = "None"] ELSE m

(***************************************************************************)
(* The two halves of a helper run under one lock, but when the second one  *)
(* fails the first one stays.                                              *)
(***************************************************************************)
AcquireAndTransition(m, o, to) ==
  IF Valid(m, to) THEN AcquireOwner(TransitionTo(m, to), o) ELSE m

TransitionAndRelease(m, to, o) ==
  IF Valid(m, to) THEN ReleaseOwner(TransitionTo(m, to), o) ELSE m

\* Emit writes, instead of returning an error.
Accepts(m, o) == m.owner = o /\ m.phase \notin Silent
=============================================================================
