-------------------------- MODULE SessionLifecycle --------------------------
(***************************************************************************)
(* Who may run in, clear or delete a session, and when (app,               *)
(* agent/agent.rs, agent/run_manager.rs, agent/run/registry.rs,            *)
(* agent/run/runtime.rs, agent/processes.rs, sessions/gates.rs).           *)
(*                                                                         *)
(* Requests arrive for sessions, directly or through a channel; a prompt   *)
(* starts a run.  A lifecycle gate admits one request of a session at a    *)
(* time, which aborts the session's run and waits for it; a run goes on    *)
(* after its request has left the gate.  A request is named by itself and  *)
(* so is the run it starts.  The transcript is reduced to the turns in its *)
(* context: Transcript has the file itself.                                *)
(***************************************************************************)
EXTENDS Naturals

CONSTANTS
  Session,
  Request,
  None,
  Shard,        (* The shards of a SessionGates, 64 in the code.             *)
  ShardOf,      (* The shard of a session: the hash of its key.              *)
  MaxFlushes    (* Flushes of one run: bounds the model.                     *)

ASSUME NoneIsNoRequest == None \notin Request

ASSUME ShardsAreAssigned == ShardOf \in [Session -> Shard]

VARIABLES
  stored,     (* The context of each session in storage, None if deleted.    *)
  request,    (* Each request and how far its handler has come.              *)
  holder,     (* Who holds each gate.                                        *)
  run,        (* The run of each request.                                    *)
  active,     (* RunRegistry: the run registered for each session.           *)
  managers,   (* ProcessRegistry: the sessions that have a manager.          *)
  wiped       (* Whose turns were cleared or deleted: history, not in the code. *)

vars == <<stored, request, holder, run, active, managers, wiped>>

\* Agent::session_lifecycle_gates and RunManager::gates are two arrays.
LifecycleGate(s) == <<"lifecycle", ShardOf[s]>>

\* Mutant: the run manager takes the agent's gates.
ConversationGate_Shared(s) == LifecycleGate(s)

ConversationGate(s) == <<"conversation", ShardOf[s]>>

Gate == {"lifecycle", "conversation"} \X Shard

Stage ==
  {"arrived", "routing", "resolved", "checking", "admitted", "aborting", "waiting",
   "alone", "retired", "started", "done"}

RequestState ==
  [does : {"prompt", "clear", "delete"}, via : {"direct", "channel"}, session : Session,
   stage : Stage, waits : Request \cup {None}, seen : SUBSET Request,
   reply : {"none", "run", "steered", "command", "error"}]

RunState ==
  [stage : {"none", "spawned", "driving", "ending", "saved", "completed", "gone"},
   cancelled : BOOLEAN, history : SUBSET Request, flushes : Nat, unread : BOOLEAN]

NoRun == [stage |-> "none", cancelled |-> FALSE, history |-> {}, flushes |-> 0, unread |-> FALSE]

Init ==
  /\ stored = [s \in Session |-> {}]
  /\ request \in
       [Request -> {r \in [does : {"prompt", "clear", "delete"}, via : {"direct", "channel"},
                           session : Session, stage : {"arrived"}, waits : {None},
                           seen : {{}}, reply : {"none"}] :
                      r.does = "delete" => r.via = "direct"}]
  /\ holder = [g \in Gate |-> None]
  /\ run = [q \in Request |-> NoRun]
  /\ active = [s \in Session |-> None]
  /\ managers = {}
  /\ wiped = [s \in Session |-> {}]

SessionOf(q) == request[q].session

\* The run's completion token is cancelled.
Completed(q) == run[q].stage \in {"completed", "gone"}

\* The task of the run exists and its token is not cancelled.
Live(q) == run[q].stage \in {"spawned", "driving", "ending", "saved"}

At(q, stage) == request[q].stage = stage

Goto(q, stage) == request' = [request EXCEPT ![q].stage = stage]

\* The handler answers; its guards are dropped.
Answer(q, reply) ==
  /\ request' = [request EXCEPT ![q].stage = "done", ![q].reply = reply]
  /\ holder' = [g \in Gate |-> IF holder[g] = q THEN None ELSE holder[g]]

Lock(q, g) == holder[g] = None /\ holder' = [holder EXCEPT ![g] = q]

-----------------------------------------------------------------------------
(***************************************************************************)
(* Routing: RunManager::send, Agent::submit.                               *)
(***************************************************************************)

ChannelEnters(q) ==
  /\ At(q, "arrived")
  /\ request[q].via = "channel"
  /\ Lock(q, ConversationGate(SessionOf(q)))
  /\ Goto(q, "routing")
  /\ UNCHANGED <<stored, run, active, managers, wiped>>

\* Session::open, or a new session under the same id: its metadata is saved.
Opened(s) == IF stored[s] = None THEN {} ELSE stored[s]

Resolves(q) ==
  LET s == SessionOf(q)
  IN  /\ request[q].does # "delete"
      /\ At(q, IF request[q].via = "channel" THEN "routing" ELSE "arrived")
      /\ stored' = [stored EXCEPT ![s] = Opened(s)]
      /\ request' = [request EXCEPT ![q].seen = Opened(s),
                                    ![q].stage = IF request[q].via = "channel"
                                                 THEN "checking" ELSE "resolved"]
      /\ UNCHANGED <<holder, run, active, managers, wiped>>

\* RunRegistry::contains drops a completed run that is still registered.
ActiveAfterCheck(s) ==
  IF active[s] # None /\ Completed(active[s]) THEN None ELSE active[s]

\* A command is not queued behind a response.
ChannelRefuses(q) ==
  LET s == SessionOf(q)
  IN  /\ At(q, "checking")
      /\ request[q].does # "prompt"
      /\ active' = [active EXCEPT ![s] = ActiveAfterCheck(s)]
      /\ IF ActiveAfterCheck(s) # None
           THEN Answer(q, "command")
           ELSE Goto(q, "resolved") /\ UNCHANGED holder
      /\ UNCHANGED <<stored, run, managers, wiped>>

\* RunRegistry::try_steer.
Steerable(s) == active[s] # None /\ ~Completed(active[s]) /\ ~run[active[s]].cancelled

ChannelSteers(q) ==
  LET s == SessionOf(q)
  IN  /\ At(q, "checking")
      /\ request[q].does = "prompt"
      /\ Steerable(s)
      /\ run' = [run EXCEPT ![active[s]].unread = TRUE]
      /\ Answer(q, "steered")
      /\ UNCHANGED <<stored, active, managers, wiped>>

ChannelSubmits(q) ==
  /\ At(q, "checking")
  /\ request[q].does = "prompt"
  /\ ~Steerable(SessionOf(q))
  /\ Goto(q, "resolved")
  /\ UNCHANGED <<stored, holder, run, active, managers, wiped>>

-----------------------------------------------------------------------------
(***************************************************************************)
(* The lifecycle gate, and what is done inside.                            *)
(***************************************************************************)

\* delete_session does not open the session first.
EntersGate(q) ==
  /\ At(q, IF request[q].does = "delete" THEN "arrived" ELSE "resolved")
  /\ Lock(q, LifecycleGate(SessionOf(q)))
  /\ Goto(q, "admitted")
  /\ UNCHANGED <<stored, run, active, managers, wiped>>

\* Mutant: the run is aborted but not waited for.
ChecksActive_NoWait(q) ==
  LET s == SessionOf(q)
  IN  /\ At(q, "admitted")
      /\ active' = [active EXCEPT ![s] = ActiveAfterCheck(s)]
      /\ Goto(q, "alone")
      /\ UNCHANGED <<stored, holder, run, managers, wiped>>

\* abort_run_and_wait_for_completion looks for a run before it aborts it.
ChecksActive(q) ==
  LET s == SessionOf(q)
  IN  /\ At(q, "admitted")
      /\ active' = [active EXCEPT ![s] = ActiveAfterCheck(s)]
      /\ Goto(q, IF ActiveAfterCheck(s) = None THEN "alone" ELSE "aborting")
      /\ UNCHANGED <<stored, holder, run, managers, wiped>>

\* The run may have left between the look and the abort.
AbortsRun(q) ==
  LET r == active[SessionOf(q)]
  IN  /\ At(q, "aborting")
      /\ IF r = None
           THEN Goto(q, "alone") /\ UNCHANGED run
           ELSE /\ run' = [run EXCEPT ![r].cancelled = TRUE]
                /\ request' = [request EXCEPT ![q].stage = "waiting", ![q].waits = r]
      /\ UNCHANGED <<stored, holder, active, managers, wiped>>

RunHasStopped(q) ==
  /\ At(q, "waiting")
  /\ Completed(request[q].waits)
  /\ Goto(q, "alone")
  /\ UNCHANGED <<stored, holder, run, active, managers, wiped>>

\* Mutant: the time limit ends the wait as if the run had stopped.
WaitTimesOut_Proceeds(q) ==
  /\ At(q, "waiting")
  /\ ~Completed(request[q].waits)
  /\ Goto(q, "alone")
  /\ UNCHANGED <<stored, holder, run, active, managers, wiped>>

\* RUN_ABORT_WAIT_TIMEOUT.
WaitTimesOut(q) ==
  /\ At(q, "waiting")
  /\ ~Completed(request[q].waits)
  /\ Answer(q, "error")
  /\ UNCHANGED <<stored, run, active, managers, wiped>>

\* start_run: the selection is saved in the session's metadata, which makes the
\* session exist, and the run is spawned.
StartsRun(q) ==
  /\ At(q, "alone")
  /\ request[q].does = "prompt"
  /\ stored' = [stored EXCEPT ![SessionOf(q)] = Opened(SessionOf(q))]
  /\ run' = [run EXCEPT ![q].stage = "spawned"]
  /\ Goto(q, "started")
  /\ UNCHANGED <<holder, active, managers, wiped>>

RegistersRun(q) ==
  /\ At(q, "started")
  /\ active' = IF Completed(q) THEN active ELSE [active EXCEPT ![SessionOf(q)] = q]
  /\ Answer(q, "run")
  /\ UNCHANGED <<stored, run, managers, wiped>>

Retires(q) ==
  /\ At(q, "alone")
  /\ request[q].does # "prompt"
  /\ managers' = managers \ {SessionOf(q)}
  /\ Goto(q, "retired")
  /\ UNCHANGED <<stored, holder, run, active, wiped>>

\* The runs begun in a session so far.
Begun(s) == {r \in Request : SessionOf(r) = s /\ run[r].stage # "none"}

\* write_clear_marker and save, or remove_dir_all.
ClearsOrDeletes(q) ==
  /\ At(q, "retired")
  /\ stored' = [stored EXCEPT ![SessionOf(q)] =
                  IF request[q].does = "clear" THEN {} ELSE None]
  /\ wiped' = [wiped EXCEPT ![SessionOf(q)] = @ \cup Begun(SessionOf(q))]
  /\ Answer(q, "command")
  /\ UNCHANGED <<run, active, managers>>

\* The caller's connection or lease is gone: the handler is dropped where it
\* awaits, and its guards with it.  Nothing is awaited from spawn to register.
CallerLeaves(q) ==
  /\ request[q].stage \notin {"arrived", "started", "done"}
  /\ Answer(q, "error")
  /\ UNCHANGED <<stored, run, active, managers, wiped>>

-----------------------------------------------------------------------------
(***************************************************************************)
(* The run: run_loop, drive_one_turn.                                      *)
(***************************************************************************)

\* The turn is built from the Session the request opened; whether it acquires a
\* process manager is its policy's choice.
RunBuilds(q) ==
  /\ run[q].stage = "spawned"
  /\ ~run[q].cancelled
  /\ run' = [run EXCEPT ![q].stage = "driving", ![q].history = request[q].seen]
  /\ managers' \in {managers, managers \cup {SessionOf(q)}}
  /\ UNCHANGED <<stored, request, holder, active, wiped>>

\* The run was aborted before it could build, or the turn could not be built.
RunBuildsNothing(q) ==
  /\ run[q].stage = "spawned"
  /\ run' = [run EXCEPT ![q].stage = "ending"]
  /\ UNCHANGED <<stored, request, holder, active, managers, wiped>>

RunFlushes(q) ==
  /\ run[q].stage = "driving"
  /\ run[q].flushes < MaxFlushes
  /\ stored' = [stored EXCEPT ![SessionOf(q)] = Opened(SessionOf(q)) \cup {q}]
  /\ run' = [run EXCEPT ![q].flushes = @ + 1]
  /\ UNCHANGED <<request, holder, active, managers, wiped>>

\* The engine drains the steering queue.
RunDrains(q) ==
  /\ run[q].stage = "driving"
  /\ run[q].unread
  /\ run' = [run EXCEPT ![q].unread = FALSE]
  /\ UNCHANGED <<stored, request, holder, active, managers, wiped>>

\* The engine found nothing more to do, failed, or saw that it was cancelled.
RunStopsDriving(q) ==
  /\ run[q].stage = "driving"
  /\ run' = [run EXCEPT ![q].stage = "ending"]
  /\ UNCHANGED <<stored, request, holder, active, managers, wiped>>

\* RunFinished and the usage totals are written.
RunSaves(q) ==
  /\ run[q].stage = "ending"
  /\ stored' = [stored EXCEPT ![SessionOf(q)] = Opened(SessionOf(q))]
  /\ run' = [run EXCEPT ![q].stage = "saved"]
  /\ UNCHANGED <<request, holder, active, managers, wiped>>

\* RunRegistry::complete cancels the token before it takes the lock ...
RunCompletes(q) ==
  /\ run[q].stage = "saved"
  /\ run' = [run EXCEPT ![q].stage = "completed"]
  /\ UNCHANGED <<stored, request, holder, active, managers, wiped>>

\* Mutant: the session's run is removed, whichever it is.
RunLeavesRegistry_Any(q) ==
  /\ run[q].stage = "completed"
  /\ run' = [run EXCEPT ![q].stage = "gone"]
  /\ active' = [active EXCEPT ![SessionOf(q)] = None]
  /\ UNCHANGED <<stored, request, holder, managers, wiped>>

\* ... and removes the session's run if it is still this one.
RunLeavesRegistry(q) ==
  /\ run[q].stage = "completed"
  /\ run' = [run EXCEPT ![q].stage = "gone"]
  /\ active' = [active EXCEPT ![SessionOf(q)] = IF @ = q THEN None ELSE @]
  /\ UNCHANGED <<stored, request, holder, managers, wiped>>

\* Agent::abort_run, or the consumer drops the Run.
UserAborts(q) ==
  /\ Live(q)
  /\ run' = [run EXCEPT ![q].cancelled = TRUE]
  /\ UNCHANGED <<stored, request, holder, active, managers, wiped>>

Routing(q) ==
  \/ ChannelEnters(q)
  \/ Resolves(q)
  \/ ChannelRefuses(q)
  \/ ChannelSteers(q)
  \/ ChannelSubmits(q)

Handling(q) ==
  \/ ChecksActive(q)
  \/ AbortsRun(q)
  \/ RunHasStopped(q)
  \/ WaitTimesOut(q)
  \/ StartsRun(q)
  \/ RegistersRun(q)
  \/ Retires(q)
  \/ ClearsOrDeletes(q)

Running(q) ==
  \/ RunBuilds(q)
  \/ RunBuildsNothing(q)
  \/ RunFlushes(q)
  \/ RunDrains(q)
  \/ RunStopsDriving(q)
  \/ RunSaves(q)
  \/ RunCompletes(q)
  \/ RunLeavesRegistry(q)

Next ==
  \E q \in Request :
    Routing(q) \/ EntersGate(q) \/ Handling(q) \/ Running(q) \/ UserAborts(q) \/ CallerLeaves(q)

Spec == Init /\ [][Next]_vars

\* Handlers and runs are polled; the gates are first come, first served; an
\* engine that is cancelled stops.  The engine need not stop by itself, and
\* neither users nor time limits are relied on.
Fairness ==
  \A q \in Request :
    /\ SF_vars(ChannelEnters(q)) /\ SF_vars(EntersGate(q))
    /\ WF_vars(Resolves(q)) /\ WF_vars(ChannelRefuses(q))
    /\ WF_vars(ChannelSteers(q) \/ ChannelSubmits(q))
    /\ WF_vars(ChecksActive(q)) /\ WF_vars(AbortsRun(q)) /\ WF_vars(RunHasStopped(q))
    /\ WF_vars(StartsRun(q)) /\ WF_vars(RegistersRun(q))
    /\ WF_vars(Retires(q)) /\ WF_vars(ClearsOrDeletes(q))
    /\ WF_vars(RunBuilds(q) \/ RunBuildsNothing(q))
    /\ WF_vars(run[q].cancelled /\ RunStopsDriving(q))
    /\ WF_vars(RunSaves(q)) /\ WF_vars(RunCompletes(q)) /\ WF_vars(RunLeavesRegistry(q))

FairSpec == Spec /\ Fairness

-----------------------------------------------------------------------------

TypeOK ==
  /\ stored \in [Session -> (SUBSET Request) \cup {None}]
  /\ request \in [Request -> RequestState]
  /\ \A q \in Request : At(q, "waiting") => request[q].waits \in Request
  /\ holder \in [Gate -> Request \cup {None}]
  /\ run \in [Request -> RunState]
  /\ active \in [Session -> Request \cup {None}]
  /\ managers \subseteq Session
  /\ wiped \in [Session -> SUBSET Request]

\* A session has one live run at most, and none while a request is about to
\* start one, to clear the session or to delete it.
OneAtATime ==
  \A q, r \in Request : SessionOf(q) = SessionOf(r) /\ Live(r) =>
    /\ Live(q) => q = r
    /\ request[q].stage \notin {"alone", "retired"}

\* A live run can be found, and so aborted, as soon as its request is answered:
\* neither a late predecessor nor a dropped caller takes it off the registry.
LiveIsRegistered ==
  \A q \in Request : Live(q) /\ ~At(q, "started") => active[SessionOf(q)] = q

\* "closes the check/insert race that could leave a finished run registered".
FinishedIsNotRegistered ==
  \A s \in Session : active[s] # None => run[active[s]].stage # "gone"

\* The registry names the runs that can still be aborted or steered, and no
\* others, whichever of a run's start, end and successor comes last.
RegistryIsExact == LiveIsRegistered /\ FinishedIsNotRegistered

\* From the retirement of its processes until it is cleared or deleted, a
\* session gets no new process manager.
RetiredStaysRetired ==
  \A q \in Request : At(q, "retired") => SessionOf(q) \notin managers

\* No run outlives a clear or a deletion: no turn of a run begun before it is in
\* a stored context after it.
ClearedStaysCleared ==
  \A s \in Session : stored[s] # None => stored[s] \cap wiped[s] = {}

\* A clear or a deletion is final for what came before it: its process manager
\* is not replaced while it goes on, and no earlier turn is written back.
GoneStaysGone == RetiredStaysRetired /\ ClearedStaysCleared

\* Every request is answered, whatever shards the sessions share.
RequestsAreAnswered == \A q \in Request : At(q, "resolved") ~> At(q, "done")

\* The factory "resolves the latest history at call time": what a turn is built
\* from is what the session holds.
HistoryIsLatest ==
  \A q \in Request : run[q].stage = "driving" /\ run[q].flushes = 0 =>
    run[q].history = stored[SessionOf(q)]

\* Queued messages "cannot disappear": what a run accepted and was not aborted
\* before it heard, it hears.
SteeredIsHeard ==
  \A q \in Request : run[q].stage = "gone" /\ run[q].unread => run[q].cancelled
=============================================================================
