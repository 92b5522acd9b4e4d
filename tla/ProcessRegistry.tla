--------------------------- MODULE ProcessRegistry ---------------------------
(***************************************************************************)
(* The process managers of all sessions (app, agent/processes.rs), each of  *)
(* which outlives the turns that use it.  The registry lets go of managers   *)
(* nobody needs, by the number of references to them and by what their       *)
(* commands have come to, and it gives up those of a session that is cleared *)
(* or deleted.  One manager from the inside is ProcessManager; that turns of *)
(* a session exclude each other and its retirement is SessionLifecycle's.    *)
(*                                                                         *)
(* A manager is the number of its creation.  Turns, dumps of the prompt,     *)
(* callers that wait for a stop, retirements and the exit hold references;   *)
(* a manager that nobody holds any more is dropped.                          *)
(***************************************************************************)
EXTENDS Naturals, FiniteSets

CONSTANTS
  SessionId,
  Command,       \* Commands that may be started.
  MaxManagers,   \* MAX_SESSION_PROCESS_MANAGERS.
  MaxMade        \* Managers that are made: bounds the model.

VARIABLES
  registry,   \* managers: of each session, 0 for none
  made,       \* how many managers have been made
  closed,     \* the managers that start nothing any more
  command,    \* each command, as its manager's table has it
  turn,       \* the manager a session's turn holds, 0 for none
  guest,      \* the one a dump or a caller that waits for a stop holds
  retiring,   \* the one that is being terminated
  retired,    \* History: the managers that were retired
  exit        \* "not yet", or those kill_all_now has listed

registryVars == <<registry, made, closed, command, turn, guest, retiring, retired, exit>>

NoManager == 0
NoCommand == [manager |-> NoManager, status |-> "none", claimed |-> FALSE, asked |-> FALSE]
Living == {"foreground", "background"}
NotYet == {NoManager}

Registered == {registry[s] : s \in SessionId} \ {NoManager}

Borrowed ==
  (UNION {{turn[s], guest[s], retiring[s]} : s \in SessionId} \cup exit) \ {NoManager}

Held == Registered \cup Borrowed

Of(m) == {c \in Command : command[c].manager = m}

(* Every command of these managers is asked to stop (terminate_all).         *)
Stopped(commands, managers) ==
  [c \in Command |-> IF commands[c].manager \in managers /\ commands[c].status \in Living
                     THEN [commands[c] EXCEPT !.asked = TRUE] ELSE commands[c]]

(* What nobody holds any more is dropped, which closes and stops it.         *)
Settle(commands, shut) ==
  LET dropped == Held \ Held'
  IN /\ closed' = shut \cup dropped
     /\ command' = Stopped(commands, dropped)

RegistryInit ==
  /\ registry = [s \in SessionId |-> NoManager]
  /\ made = 0
  /\ closed = {}
  /\ command = [c \in Command |-> NoCommand]
  /\ turn = [s \in SessionId |-> NoManager]
  /\ guest = [s \in SessionId |-> NoManager]
  /\ retiring = [s \in SessionId |-> NoManager]
  /\ retired = {}
  /\ exit = NotYet

-----------------------------------------------------------------------------
(* Acquiring. *)

IsIdle(m) == Of(m) = {}

\* Ended, and the model has heard of it.
IsReclaimable(m) ==
  \A c \in Of(m) : command[c].status = "ended" /\ command[c].claimed

\* Mutant: whether the model has heard of it is not asked.
Reclaimable_Unheard(m) ==
  m \notin Borrowed /\ \A c \in Of(m) : command[c].status = "ended"

Reclaimable(m) == m \notin Borrowed /\ IsReclaimable(m)

\* Mutant: an idle manager goes, whoever holds it.
Kept_Unreferenced(m) == ~IsIdle(m)

\* Idle managers that nobody else references are dropped first.
Kept(m) == ~IsIdle(m) \/ m \in Borrowed

Without(managers, sessions) ==
  [s \in SessionId |-> IF s \in sessions THEN NoManager ELSE managers[s]]

Full(managers) == Cardinality({s \in SessionId : managers[s] # NoManager}) >= MaxManagers

\* When the rest is too many, reclaimable ones go, in any order, until there is
\* room or no other.
Reclaims(managers) ==
  LET able == {s \in SessionId : managers[s] # NoManager /\ Reclaimable(managers[s])}
  IN {gone \in SUBSET able :
        /\ gone # able => ~Full(Without(managers, gone))
        /\ \A s \in gone : Full(Without(managers, gone \ {s}))}

\* The session's manager, a new one, or none if there is still no room.
Acquire(s, m) ==
  LET kept == Without(registry, {t \in SessionId : registry[t] # NoManager /\ ~Kept(registry[t])})
  IN IF kept[s] # NoManager
     THEN m = kept[s] /\ registry' = kept /\ made' = made
     ELSE \E gone \in Reclaims(kept) :
            LET rest == Without(kept, gone)
            IN IF Full(rest)
               THEN m = NoManager /\ registry' = rest /\ made' = made
               ELSE /\ made < MaxMade
                    /\ m = made + 1 /\ made' = m
                    /\ registry' = [rest EXCEPT ![s] = m]

-----------------------------------------------------------------------------
(* Who uses a manager. *)

\* The notices of a manager are taken: the model hears of what has ended.
Heard(m) ==
  [c \in Command |-> IF c \in Of(m) /\ command[c].status = "ended"
                     THEN [command[c] EXCEPT !.claimed = TRUE] ELSE command[c]]

\* build_turn; it fails when there is no room.
TurnBuilds(s) ==
  /\ turn[s] = NoManager /\ retiring[s] = NoManager
  /\ \E m \in 0 .. MaxMade :
       /\ Acquire(s, m)
       /\ turn' = [turn EXCEPT ![s] = m]
       /\ UNCHANGED <<guest, retiring, retired, exit>>
       /\ Settle(Heard(m), closed)

\* Other notices reach the turn while it goes on.
TurnHears(s) ==
  /\ turn[s] # NoManager
  /\ command' = Heard(turn[s])
  /\ UNCHANGED <<registry, made, closed, turn, guest, retiring, retired, exit>>

\* Old records of which the model has heard are pruned first.
TurnStarts(s, c) ==
  /\ turn[s] \notin closed \cup {NoManager}
  /\ command[c] = NoCommand
  /\ \E old \in SUBSET {d \in Of(turn[s]) : command[d].claimed},
       how \in {"foreground", "background"} :
       command' = [d \in Command |->
         IF d = c THEN [NoCommand EXCEPT !.manager = turn[s], !.status = how]
         ELSE IF d \in old THEN NoCommand ELSE command[d]]
  /\ UNCHANGED <<registry, made, closed, turn, guest, retiring, retired, exit>>

\* What runs in the foreground ends before the turn, and its record with it.
CommandEnds(c) ==
  /\ command[c].status \in Living
  /\ command' = [command EXCEPT ![c] =
       IF @.status = "foreground" THEN NoCommand ELSE [@ EXCEPT !.status = "ended"]]
  /\ UNCHANGED <<registry, made, closed, turn, guest, retiring, retired, exit>>

TurnEnds(s) ==
  /\ turn[s] # NoManager
  /\ \A c \in Of(turn[s]) : command[c].status # "foreground"
  /\ turn' = [turn EXCEPT ![s] = NoManager]
  /\ UNCHANGED <<registry, made, guest, retiring, retired, exit>>
  /\ Settle(command, closed)

\* dump_prompt builds a turn for its text alone, beside any other.
DumpBuilds(s) ==
  /\ guest[s] = NoManager
  /\ \E m \in 0 .. MaxMade :
       /\ Acquire(s, m)
       /\ guest' = [guest EXCEPT ![s] = m]
  /\ UNCHANGED <<turn, retiring, retired, exit>>
  /\ Settle(command, closed)

\* background_foreground.
UserMovesAside(s) ==
  /\ registry[s] # NoManager
  /\ command' = [c \in Command |->
       IF c \in Of(registry[s]) /\ command[c].status = "foreground"
       THEN [command[c] EXCEPT !.status = "background"] ELSE command[c]]
  /\ UNCHANGED <<registry, made, closed, turn, guest, retiring, retired, exit>>

\* stop_background and stop_all_background: the caller waits for what it stops.
UserStops(s) ==
  /\ guest[s] = NoManager /\ registry[s] # NoManager
  /\ LET running == {c \in Of(registry[s]) : command[c].status = "background"}
     IN \E some \in {{c} : c \in running} \cup {running} :
          command' = [c \in Command |-> IF c \in some THEN [command[c] EXCEPT !.asked = TRUE]
                                        ELSE command[c]]
  /\ guest' = [guest EXCEPT ![s] = registry[s]]
  /\ UNCHANGED <<registry, made, closed, turn, retiring, retired, exit>>

GuestLeaves(s) ==
  /\ guest[s] # NoManager
  /\ guest' = [guest EXCEPT ![s] = NoManager]
  /\ UNCHANGED <<registry, made, turn, retiring, retired, exit>>
  /\ Settle(command, closed)

\* retire: no turn of the session runs, or begins before it is over.
Retire(s) ==
  /\ turn[s] = NoManager /\ retiring[s] = NoManager /\ registry[s] # NoManager
  /\ registry' = [registry EXCEPT ![s] = NoManager]
  /\ retiring' = [retiring EXCEPT ![s] = registry[s]]
  /\ retired' = retired \cup {registry[s]}
  /\ closed' = closed \cup {registry[s]}
  /\ command' = Stopped(command, {registry[s]})
  /\ UNCHANGED <<made, turn, guest, exit>>

\* Every command has ended, or the time is up.
RetireEnds(s) ==
  /\ retiring[s] # NoManager
  /\ retiring' = [retiring EXCEPT ![s] = NoManager]
  /\ UNCHANGED <<registry, made, turn, guest, retired, exit>>
  /\ Settle(command, closed)

\* kill_all_now lists the managers under its lock and kills without it.
ExitLists ==
  /\ exit = NotYet
  /\ exit' = Registered
  /\ UNCHANGED <<registry, made, closed, command, turn, guest, retiring, retired>>

ExitKills ==
  /\ exit \notin {NotYet, {}}
  /\ exit' = {}
  /\ UNCHANGED <<registry, made, turn, guest, retiring, retired>>
  /\ Settle(Stopped(command, exit), closed \cup exit)

RegistryNext ==
  \/ \E s \in SessionId :
       \/ TurnBuilds(s) \/ TurnHears(s) \/ TurnEnds(s)
       \/ DumpBuilds(s) \/ GuestLeaves(s)
       \/ UserMovesAside(s) \/ UserStops(s)
       \/ Retire(s) \/ RetireEnds(s)
       \/ \E c \in Command : TurnStarts(s, c)
  \/ \E c \in Command : CommandEnds(c)
  \/ ExitLists \/ ExitKills

RegistrySpec == RegistryInit /\ [][RegistryNext]_registryVars

-----------------------------------------------------------------------------
\* A command that lives can be found, moved and killed through its session, or
\* has been asked to stop.
LivingCanBeFound ==
  \A c \in Command : command[c].status \in Living /\ ~command[c].asked =>
    command[c].manager \in Registered

\* Room for another session is never made from a notice that the model has not
\* heard, nor from an output it has not been told of.
UnheardIsKept ==
  \A c \in Command : command[c].status = "ended" /\ ~command[c].claimed =>
    command[c].manager \in Registered \cup retired

\* The keys and lists that go by the session reach what its turn works with.
TurnsAreReached ==
  \A s \in SessionId : turn[s] # NoManager => registry[s] = turn[s]

\* Idle managers come and go, whoever acquires, waits, dumps or retires, and
\* nothing that still matters goes with them.
ManagersAreKept == LivingCanBeFound /\ UnheardIsKept /\ TurnsAreReached
==============================================================================
