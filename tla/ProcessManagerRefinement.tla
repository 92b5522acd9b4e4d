---------------------- MODULE ProcessManagerRefinement ----------------------
(***************************************************************************)
(* The process manager implements TaskOutcome: a task's phase is read off  *)
(* its ProcessState, and the model has been told once bash returned the    *)
(* result, a reader collected it or a notice delivered it.                 *)
(***************************************************************************)
EXTENDS ProcessManager

PhaseOf(t) == CASE state[t].status = "unstarted" -> "new"
                [] Terminal(t) -> "over"
                [] OTHER -> "running"

Promise == INSTANCE TaskOutcome WITH
  phase <- [t \in Task |-> PhaseOf(t)],
  told  <- {t \in Task : heard[t] # {}}

\* Every step of the manager and its callers is a step of the promise or
\* invisible to it: no outcome is reported before it is final, by bash, by a
\* reader or by a notice.
ImplementsTaskOutcome == Promise!Spec
=============================================================================
