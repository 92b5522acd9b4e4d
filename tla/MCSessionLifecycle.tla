------------------------- MODULE MCSessionLifecycle -------------------------
(***************************************************************************)
(* SessionLifecycle with two sessions that share both of their shards, and,  *)
(* in behaviours of its own, the registry of their process managers with     *)
(* room for one.                                                             *)
(***************************************************************************)
EXTENDS SessionLifecycle, ProcessRegistry

CONSTANTS s1, s2, a

SharedShard == [s \in {s1, s2} |-> a]

VARIABLE part

\* Nobody asks for anything.
Idle ==
  [does |-> "prompt", via |-> "direct", session |-> s1, stage |-> "done",
   waits |-> None, seen |-> {}, reply |-> "error"]

PartsInit ==
  /\ RegistryInit
  /\ \/ part = "runs" /\ Init
     \/ /\ part = "processes"
        /\ stored = [s \in Session |-> {}]
        /\ request = [q \in Request |-> Idle]
        /\ holder = [g \in Gate |-> None]
        /\ run = [q \in Request |-> NoRun]
        /\ active = [s \in Session |-> None]
        /\ managers = {}
        /\ wiped = [s \in Session |-> {}]

PartsNext ==
  /\ part' = part
  /\ \/ part = "runs" /\ Next /\ UNCHANGED registryVars
     \/ part = "processes" /\ RegistryNext /\ UNCHANGED vars

PartsSpec == PartsInit /\ [][PartsNext]_<<part, vars, registryVars>> /\ Fairness
=============================================================================
