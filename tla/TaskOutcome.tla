----------------------------- MODULE TaskOutcome -----------------------------
(***************************************************************************)
(* What the process manager promises about a command, whatever races it:   *)
(* it runs once, it ends once, and nobody is told an outcome before there  *)
(* is one to tell.                                                         *)
(***************************************************************************)
CONSTANT Task

VARIABLES
  phase,   (* "new", "running" or "over".                              *)
  told     (* The tasks whose outcome has been reported to the model.  *)

vars == <<phase, told>>

Init ==
  /\ phase = [t \in Task |-> "new"]
  /\ told = {}

Begin(t) ==
  /\ phase[t] = "new"
  /\ phase' = [phase EXCEPT ![t] = "running"]
  /\ UNCHANGED told

End(t) ==
  /\ phase[t] = "running"
  /\ phase' = [phase EXCEPT ![t] = "over"]
  /\ UNCHANGED told

Tell(S) ==
  /\ \A t \in S : phase[t] = "over"
  /\ told' = told \cup S
  /\ UNCHANGED phase

Next ==
  \/ \E t \in Task : Begin(t) \/ End(t)
  \/ \E S \in SUBSET Task : Tell(S)

Spec == Init /\ [][Next]_vars
=============================================================================
