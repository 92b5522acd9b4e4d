-------------------------- MODULE MCProcessManager --------------------------
(***************************************************************************)
(* ProcessManager for the liveness properties, in two modes at once: the    *)
(* one the constants give (interactive, with bash's foreground wait), and a *)
(* headless one, without background support.                               *)
(***************************************************************************)
EXTENDS ProcessManager

VARIABLE run     \* which of the two

Headless == INSTANCE ProcessManager WITH
  BackgroundEnabled <- FALSE, ForegroundWait <- FALSE

BothSpec ==
  /\ \/ run = "interactive" /\ Init
     \/ run = "headless" /\ Headless!Init
  /\ [][ /\ run' = run
         /\ \/ run = "interactive" /\ Next
            \/ run = "headless" /\ Headless!Next
       ]_<<run, vars>>
  /\ [](run = "headless") \/ Fairness
  /\ [](run = "interactive") \/ Headless!Fairness
=============================================================================
