--------------------------- MODULE ProcessManager ---------------------------
(***************************************************************************)
(* The background process manager of one session (engine,                  *)
(* tools/process/manager.rs) together with the callers that drive it: the  *)
(* `bash` tool's start and foreground loop, the `task_output` and          *)
(* `task_stop` tools, the user's detach and stop keys, and the host's two  *)
(* shutdown paths.  One action is one critical section of the code: the    *)
(* locks are parking_lot mutexes held for a few statements, so the         *)
(* interleavings are those of the sections, not of the statements.         *)
(*                                                                         *)
(* A task is numbered by the order in which it was started (the code has a *)
(* UUID and `started_at`), and the bash call that starts task t is "call   *)
(* t".  The reasons for backgrounding other than Explicit tell nothing     *)
(* apart here and share the status "moved"; Completed and Failed share     *)
(* "ended".                                                                *)
(***************************************************************************)
EXTENDS Naturals, FiniteSets

CONSTANTS
  MaxTasks,          (* Commands ever issued: bounds the model.             *)
  MaxRunning,        (* MAX_RUNNING_TASKS, 32 in the code.                  *)
  MaxTracked,        (* MAX_TRACKED_TASKS, 96 in the code.                  *)
  MaxRetained,       (* MAX_RETAINED_TERMINAL_TASKS, 64 in the code.        *)
  MaxTombstones,     (* MAX_TOMBSTONES, 256 in the code.                    *)
  GlobalPermits,     (* MAX_GLOBAL_RUNNING_TASKS, 128 in the code.          *)
  MaxOthers,         (* Permits other sessions hold at once: bounds the model. *)
  BackgroundEnabled, (* with_process_manager: an interactive or channel run.*)
  ForegroundWait     (* with_foreground_wait: bash yields after a while.    *)

ASSUME LimitsAreNaturals ==
  /\ MaxTasks \in Nat
  /\ MaxRunning \in Nat
  /\ MaxTracked \in Nat
  /\ MaxRetained \in Nat
  /\ MaxTombstones \in Nat
  /\ GlobalPermits \in Nat
  /\ MaxOthers \in Nat

ASSUME ModesAreBoolean ==
  /\ BackgroundEnabled \in BOOLEAN
  /\ ForegroundWait \in BOOLEAN

VARIABLES
  shutdown,      (* `closed`, and which path closed the manager.            *)
  lifecycle,     (* The call holding the lifecycle lock, 0 when free.       *)
  permits,       (* Free permits of the process-wide semaphore.             *)
  others,        (* Permits held by other sessions.                         *)
  tasks,         (* Keys of the task table.                                 *)
  tomb,          (* Tombstone of each task.                                 *)
  entombed,      (* How many tombstones were ever pushed.                   *)
  state,         (* ProcessState of each task; outlives the table entry.    *)
  watcher,       (* The watcher task spawned by start.                      *)
  proc,          (* The operating system's process group.                   *)
  output,        (* Whether the output file exists.                         *)
  notifications, (* Queued completion notices.                              *)
  heard,         (* History: how the model learned of a task's outcome.     *)
  bash,          (* Where bash call t is.                                   *)
  reader,        (* Where the task_output or task_stop call on t is.        *)
  wait           (* How reader t's copy of the release generation compares. *)

admission == <<shutdown, lifecycle, permits, others>>
table     == <<tasks, tomb, entombed>>
delivery  == <<notifications, heard>>
calls     == <<bash, reader, wait>>
vars == <<admission, table, state, watcher, proc, output, delivery, calls>>

Task == 1..MaxTasks

Running  == {"foreground", "explicit", "moved"}
Finished == {"ended", "timedout", "killed"}
Status   == {"unstarted"} \cup Running \cup Finished

ProcessState ==
  [status : Status, stopRequested : BOOLEAN, notify : BOOLEAN,
   claimed : BOOLEAN]

Tombstone == [retained : BOOLEAN, final : BOOLEAN, at : Nat]
NoTombstone == [retained |-> FALSE, final |-> FALSE, at |-> 0]

Terminal(t)     == state[t].status \in Finished
Backgrounded(t) == state[t].status \in {"explicit", "moved"}
closed          == shutdown # "open"
Unfinished(t)   == t \in tasks /\ ~Terminal(t)
Holding(t)      == watcher[t] \in {"select", "late", "exited", "killed", "timedout"}
Informed(t)     == "collected" \in heard[t] \/ "notice" \in heard[t]
BlockingWaiters == {t \in Task : reader[t] \in {"enter", "watch"}}
Remembered(t)   == tomb[t].at > 0 /\ tomb[t].at + MaxTombstones > entombed

Init ==
  /\ shutdown = "open"
  /\ lifecycle = 0
  /\ permits = GlobalPermits
  /\ others = 0
  /\ tasks = {}
  /\ tomb = [t \in Task |-> NoTombstone]
  /\ entombed = 0
  /\ state = [t \in Task |-> [status |-> "unstarted", stopRequested |-> FALSE,
                              notify |-> FALSE, claimed |-> FALSE]]
  /\ watcher = [t \in Task |-> "none"]
  /\ proc = [t \in Task |-> "none"]
  /\ output = [t \in Task |-> FALSE]
  /\ notifications = {}
  /\ heard = [t \in Task |-> {}]
  /\ bash = [t \in Task |-> "uncalled"]
  /\ reader = [t \in Task |-> "idle"]
  /\ wait = [t \in Task |-> "fresh"]

-----------------------------------------------------------------------------
(***************************************************************************)
(* Starting a command.  `start` holds the lifecycle lock from its first    *)
(* statement to its last; only kill_all_now does not take that lock, so    *)
(* the section is split where the closed flag has been read and the table  *)
(* entry is not there yet.                                                 *)
(***************************************************************************)

\* Mutant: pruning counts every finished task as collected.
Claimable_Uncollected == {t \in tasks : Terminal(t)}

Claimable == {t \in tasks : Terminal(t) /\ state[t].claimed}

Surplus ==
  LET retained == Cardinality({t \in tasks : Terminal(t)})
  IN  IF retained > MaxRetained THEN retained - MaxRetained ELSE 0

\* prune_claimed_terminal_tasks: the oldest claimed tasks beyond the cap.
Pruned == {t \in Claimable : Cardinality({u \in Claimable : u < t}) < Surplus}

Rank(t, S) == Cardinality({u \in S : u <= t})

Entomb(S, retained) ==
  /\ tomb' = [t \in Task |->
                IF t \in S THEN [retained |-> retained, final |-> Terminal(t),
                                 at |-> entombed + Rank(t, S)]
                           ELSE tomb[t]]
  /\ entombed' = entombed + Cardinality(S)

Prune ==
  /\ tasks' = tasks \ Pruned
  /\ Entomb(Pruned, FALSE)
  /\ output' = [t \in Task |-> output[t] /\ t \notin Pruned]

RoomAfterPrune ==
  /\ Cardinality({t \in tasks : ~Terminal(t)}) < MaxRunning
  /\ Cardinality(tasks \ Pruned) < MaxTracked
  /\ permits > 0

NextCall(t) == bash[t] = "uncalled" /\ \A u \in Task : u < t => bash[u] # "uncalled"

ExplicitRunning == \E u \in tasks : state[u].status = "explicit"

StartAdmit(t, mode) ==
  /\ NextCall(t)
  /\ lifecycle = 0
  /\ ~closed
  /\ mode = "explicit" => BackgroundEnabled /\ ~ExplicitRunning
  /\ RoomAfterPrune
  /\ Prune
  /\ permits' = permits - 1
  /\ lifecycle' = t
  /\ bash' = [bash EXCEPT ![t] = mode]
  /\ UNCHANGED <<shutdown, others, state, watcher, proc, delivery, reader, wait>>

\* The one-explicit-task policy and the closed flag refuse before anything is
\* pruned; a full manager has already pruned when it refuses.
StartRefuse(t, mode) ==
  /\ NextCall(t)
  /\ lifecycle = 0
  /\ mode = "explicit" => BackgroundEnabled
  /\ bash' = [bash EXCEPT ![t] = "failed"]
  /\ IF closed \/ (mode = "explicit" /\ ExplicitRunning)
       THEN UNCHANGED <<table, output>>
       ELSE ~RoomAfterPrune /\ Prune
  /\ UNCHANGED <<admission, state, watcher, proc, delivery, reader, wait>>

\* Mutant: a failed spawn forgets the permit it took.
StartFail_KeepsPermit(t) ==
  /\ lifecycle = t
  /\ lifecycle' = 0
  /\ bash' = [bash EXCEPT ![t] = "failed"]
  /\ UNCHANGED <<shutdown, permits, others, table, state, watcher, proc, output,
                 delivery, reader, wait>>

\* The directory, the file or the spawn failed: the permit is dropped with the
\* stack frame and the empty output file is removed.
StartFail(t) ==
  /\ lifecycle = t
  /\ lifecycle' = 0
  /\ permits' = permits + 1
  /\ bash' = [bash EXCEPT ![t] = "failed"]
  /\ UNCHANGED <<shutdown, others, table, state, watcher, proc, output, delivery,
                 reader, wait>>

\* The child runs, the record enters the table and the watcher is spawned.  An
\* explicit background call returns at once, the others enter the poll loop.
StartInsert(t) ==
  LET explicit == bash[t] = "explicit"
  IN  /\ lifecycle = t
      /\ lifecycle' = 0
      /\ tasks' = tasks \cup {t}
      /\ state' = [state EXCEPT
                     ![t].status = IF explicit THEN "explicit" ELSE "foreground",
                     ![t].notify = explicit]
      /\ watcher' = [watcher EXCEPT ![t] = "select"]
      /\ proc' = [proc EXCEPT ![t] = "alive"]
      /\ output' = [output EXCEPT ![t] = TRUE]
      /\ bash' = [bash EXCEPT ![t] = IF explicit THEN "background" ELSE "poll"]
      /\ UNCHANGED <<shutdown, permits, others, tomb, entombed, delivery, reader, wait>>

\* Other sessions of the process draw on the same semaphore.
OtherSessionStarts ==
  /\ permits > 0
  /\ others < MaxOthers
  /\ permits' = permits - 1
  /\ others' = others + 1
  /\ UNCHANGED <<shutdown, lifecycle, table, state, watcher, proc, output, delivery, calls>>

OtherSessionEnds ==
  /\ others > 0
  /\ permits' = permits + 1
  /\ others' = others - 1
  /\ UNCHANGED <<shutdown, lifecycle, table, state, watcher, proc, output, delivery, calls>>

-----------------------------------------------------------------------------
(***************************************************************************)
(* The watcher: select over the child, the cancel token and the deadline,  *)
(* then the drain of the pipes, then two separate critical sections: the   *)
(* final status is published under the task's lock, and the notice is      *)
(* queued under the notifications lock and the task's lock.  The cancel    *)
(* token is always fired with requested_status, so `stopRequested` stands  *)
(* for both.                                                               *)
(***************************************************************************)

ProcessExits(t) ==
  /\ proc[t] = "alive"
  /\ proc' = [proc EXCEPT ![t] = "dead"]
  /\ UNCHANGED <<admission, table, state, watcher, output, delivery, calls>>

\* Mutant: after the deadline the loop no longer listens to the cancel token.
Selecting_UntilDeadline(t) == watcher[t] = "select"

Selecting(t) == watcher[t] \in {"select", "late"}

WatcherReaps(t) ==
  /\ Selecting(t)
  /\ proc[t] = "dead"
  /\ watcher' = [watcher EXCEPT ![t] = "exited"]
  /\ UNCHANGED <<admission, table, state, proc, output, delivery, calls>>

WatcherCancelled(t) ==
  /\ Selecting(t)
  /\ state[t].stopRequested
  /\ proc' = [proc EXCEPT ![t] = "dead"]
  /\ watcher' = [watcher EXCEPT ![t] = "killed"]
  /\ UNCHANGED <<admission, table, state, output, delivery, calls>>

MoveToBackground(S) ==
  state' = [t \in Task |->
              IF t \in S /\ state[t].status = "foreground"
                THEN [state[t] EXCEPT !.status = "moved", !.notify = TRUE]
                ELSE state[t]]

WatcherDeadlineKills(t) ==
  /\ watcher[t] = "select"
  /\ proc' = [proc EXCEPT ![t] = "dead"]
  /\ watcher' = [watcher EXCEPT ![t] = "timedout"]
  /\ UNCHANGED <<admission, table, state, output, delivery, calls>>

WatcherDeadlineMoves(t) ==
  /\ watcher[t] = "select"
  /\ MoveToBackground({t})
  /\ watcher' = [watcher EXCEPT ![t] = "late"]
  /\ UNCHANGED <<admission, table, proc, output, delivery, calls>>

\* The deadline kills only where there is no background support.
WatcherDeadline(t) ==
  IF BackgroundEnabled THEN WatcherDeadlineMoves(t) ELSE WatcherDeadlineKills(t)

\* forced_status, else requested_status, else what the exit code says.
Outcome(t) ==
  IF watcher[t] \in {"killed", "timedout"} THEN watcher[t]
  ELSE IF state[t].stopRequested THEN "killed" ELSE "ended"

WatcherPublishes(t) ==
  /\ watcher[t] \in {"exited", "killed", "timedout"}
  /\ state' = [state EXCEPT ![t].status = Outcome(t)]
  /\ permits' = permits + 1
  /\ watcher' = [watcher EXCEPT ![t] = "published"]
  /\ UNCHANGED <<shutdown, lifecycle, others, table, proc, output, delivery, calls>>

\* Mutant: the notice is queued without looking at the claim.
WantsNotice_Unclaimed(t) == state[t].notify

WantsNotice(t) == state[t].notify /\ ~state[t].claimed

WatcherNotifies(t) ==
  /\ watcher[t] = "published"
  /\ notifications' = IF WantsNotice(t) THEN notifications \cup {t} ELSE notifications
  /\ watcher' = [watcher EXCEPT ![t] = "done"]
  /\ UNCHANGED <<admission, table, state, proc, output, heard, calls>>

-----------------------------------------------------------------------------
(***************************************************************************)
(* The bash call's poll loop.  Each tick reads a snapshot and acts on it.  *)
(***************************************************************************)

\* Who asked (`stopped_by_user`) only changes the wording of the notice.
RequestStop(S) ==
  state' = [t \in Task |->
              IF t \in S /\ ~Terminal(t)
                THEN [state[t] EXCEPT !.stopRequested = TRUE]
                ELSE state[t]]

\* format_terminal_result: the outcome is on its way to the model, and the file
\* goes unless it holds output the reply had to cut.
ReturnTerminalResult(t) ==
  /\ \E truncated \in BOOLEAN :
       output' = [output EXCEPT ![t] = @ /\ truncated /\ state[t].status # "killed"]
  /\ heard' = [heard EXCEPT ![t] = @ \cup {"result"}]
  /\ bash' = [bash EXCEPT ![t] = "forget"]

\* Mutant: the poll returns a result without waiting for a final status.
BashSeesTerminal_Early(t) ==
  /\ bash[t] = "poll"
  /\ t \in tasks
  /\ ReturnTerminalResult(t)
  /\ UNCHANGED <<admission, table, state, watcher, proc, notifications, reader, wait>>

BashSeesTerminal(t) ==
  /\ bash[t] = "poll"
  /\ t \in tasks
  /\ Terminal(t)
  /\ ReturnTerminalResult(t)
  /\ UNCHANGED <<admission, table, state, watcher, proc, notifications, reader, wait>>

BashSeesBackground(t) ==
  /\ bash[t] = "poll"
  /\ t \in tasks
  /\ Backgrounded(t)
  /\ bash' = [bash EXCEPT ![t] = "background"]
  /\ UNCHANGED <<admission, table, state, watcher, proc, output, delivery, reader, wait>>

\* The yield limit has elapsed in a tick whose snapshot was still foreground.
BashDecidesToYield(t) ==
  /\ bash[t] = "poll"
  /\ BackgroundEnabled /\ ForegroundWait
  /\ t \in tasks
  /\ state[t].status = "foreground"
  /\ bash' = [bash EXCEPT ![t] = "yield"]
  /\ UNCHANGED <<admission, table, state, watcher, proc, output, delivery, reader, wait>>

BashYields(t) ==
  /\ bash[t] = "yield"
  /\ state[t].status = "foreground"
  /\ MoveToBackground({t})
  /\ bash' = [bash EXCEPT ![t] = "background"]
  /\ UNCHANGED <<admission, table, watcher, proc, output, delivery, reader, wait>>

\* `background` returned false: completed_result formats the snapshot as final,
\* whatever its status is by now.
BashYieldsTooLate(t) ==
  /\ bash[t] = "yield"
  /\ state[t].status # "foreground"
  /\ ReturnTerminalResult(t)
  /\ UNCHANGED <<admission, table, state, watcher, proc, notifications, reader, wait>>

\* Mutant: the aborted call returns without stopping its task.
BashCancelled_NoStop(t) ==
  /\ bash[t] = "poll"
  /\ bash' = [bash EXCEPT ![t] = "stopping"]
  /\ UNCHANGED <<admission, table, state, watcher, proc, output, delivery, reader, wait>>

\* The run was aborted: stop the task, then wait up to five seconds for it.
BashCancelled(t) ==
  /\ bash[t] = "poll"
  /\ RequestStop({t})
  /\ bash' = [bash EXCEPT ![t] = "stopping"]
  /\ UNCHANGED <<admission, table, watcher, proc, output, delivery, reader, wait>>

\* The wait ended, with a terminal status or by its own timeout.
BashStopped(t) ==
  /\ bash[t] = "stopping"
  /\ output' = [output EXCEPT ![t] = FALSE]
  /\ bash' = [bash EXCEPT ![t] = "forget"]
  /\ UNCHANGED <<admission, table, state, watcher, proc, delivery, reader, wait>>

\* forget: the record leaves the table, then its notice leaves the queue.
BashForgets(t) ==
  /\ bash[t] = "forget"
  /\ tasks' = tasks \ {t}
  /\ Entomb({t} \cap tasks, TRUE)
  /\ bash' = [bash EXCEPT ![t] = "retract"]
  /\ UNCHANGED <<admission, state, watcher, proc, output, delivery, reader, wait>>

BashRetractsNotice(t) ==
  /\ bash[t] = "retract"
  /\ notifications' = notifications \ {t}
  /\ bash' = [bash EXCEPT ![t] = "returned"]
  /\ UNCHANGED <<admission, table, state, watcher, proc, output, heard, reader, wait>>

-----------------------------------------------------------------------------
(***************************************************************************)
(* task_output and task_stop.  The model knows a task's id only once bash  *)
(* has returned it.  A blocking watch enters the waiter count and then     *)
(* reads the release generation: two statements with another thread free   *)
(* to run between them.  wait[t] says how the copy compares: "released" if  *)
(* the generation has moved since it was taken; "counted" if a release      *)
(* counted this wait before it took its copy, which makes the copy "missed" *)
(* - equal to the generation, so that release will not end the wait.       *)
(***************************************************************************)

ReaderAt(t, from, to) ==
  /\ reader[t] = from
  /\ bash[t] = "background"
  /\ reader' = [reader EXCEPT ![t] = to]

WatchEnters(t) ==
  /\ ReaderAt(t, "idle", "enter")
  /\ wait' = [wait EXCEPT ![t] = "fresh"]
  /\ UNCHANGED <<admission, table, state, watcher, proc, output, delivery, bash>>

WatchCapturesGeneration(t) ==
  /\ ReaderAt(t, "enter", "watch")
  /\ wait' = [wait EXCEPT ![t] = IF @ = "counted" THEN "missed" ELSE "fresh"]
  /\ UNCHANGED <<admission, table, state, watcher, proc, output, delivery, bash>>

WatchSeesTerminal(t) ==
  /\ ReaderAt(t, "watch", "claim")
  /\ t \in tasks /\ Terminal(t)
  /\ UNCHANGED <<admission, table, state, watcher, proc, output, delivery, bash, wait>>

WatchReleased(t) ==
  /\ ReaderAt(t, "watch", "idle")
  /\ Unfinished(t)
  /\ wait[t] = "released"
  /\ UNCHANGED <<admission, table, state, watcher, proc, output, delivery, bash, wait>>

WatchMissing(t) ==
  /\ ReaderAt(t, "watch", "idle")
  /\ t \notin tasks
  /\ UNCHANGED <<admission, table, state, watcher, proc, output, delivery, bash, wait>>

\* block: false, on a finished task; on an unfinished one it changes nothing.
PollSeesTerminal(t) ==
  /\ ReaderAt(t, "idle", "claim")
  /\ t \in tasks /\ Terminal(t)
  /\ UNCHANGED <<admission, table, state, watcher, proc, output, delivery, bash, wait>>

ModelStops(t) ==
  /\ ReaderAt(t, "idle", "stop")
  /\ t \in tasks
  /\ RequestStop({t})
  /\ UNCHANGED <<admission, table, watcher, proc, output, delivery, bash, wait>>

StopSeesTerminal(t) ==
  /\ ReaderAt(t, "stop", "claim")
  /\ t \in tasks /\ Terminal(t)
  /\ UNCHANGED <<admission, table, state, watcher, proc, output, delivery, bash, wait>>

\* The run's cancel token, the stop's five-second bound, or a task that has
\* left the table: the call ends and claims nothing.
ReaderGivesUp(t) ==
  /\ \E from \in {"watch", "stop"} : ReaderAt(t, from, "idle")
  /\ UNCHANGED <<admission, table, state, watcher, proc, output, delivery, bash, wait>>

\* claim_notification marks the task first and clears the queue second, under
\* two different locks.
ClaimMarks(t) ==
  /\ ReaderAt(t, "claim", "retract")
  /\ state' = [state EXCEPT ![t].claimed = @ \/ t \in tasks]
  /\ heard' = [heard EXCEPT ![t] = @ \cup {"collected"}]
  /\ UNCHANGED <<admission, table, watcher, proc, output, notifications, bash, wait>>

ClaimRetractsNotice(t) ==
  /\ ReaderAt(t, "retract", "idle")
  /\ notifications' = notifications \ {t}
  /\ UNCHANGED <<admission, table, state, watcher, proc, output, heard, bash, wait>>

\* The run drains the queue when a turn is built and when follow-ups are
\* polled: never while one of its tool calls is in flight.
TurnBoundary ==
  /\ \A t \in Task : bash[t] \in {"uncalled", "failed", "background", "returned"}
  /\ \A t \in Task : reader[t] = "idle"

TakeNotifications ==
  /\ TurnBoundary
  /\ notifications # {}
  /\ notifications' = {}
  /\ state' = [t \in Task |-> [state[t] EXCEPT !.claimed =
                                 @ \/ (t \in notifications /\ t \in tasks)]]
  /\ heard' = [t \in Task |-> IF t \in notifications THEN heard[t] \cup {"notice"}
                                                     ELSE heard[t]]
  /\ UNCHANGED <<admission, table, watcher, proc, output, calls>>

-----------------------------------------------------------------------------
(***************************************************************************)
(* The user's keys and the host's shutdown paths.                          *)
(***************************************************************************)

\* background_all_foreground: ctrl+b, or a queued message that needs the turn.
UserDetaches ==
  /\ BackgroundEnabled
  /\ \E t \in tasks : state[t].status = "foreground"
  /\ MoveToBackground(tasks)
  /\ UNCHANGED <<admission, table, watcher, proc, output, delivery, calls>>

\* release_blocking_waiters bumps the generation if anyone is counted.
UserReleasesWaits ==
  /\ BlockingWaiters # {}
  /\ wait' = [t \in Task |-> CASE reader[t] = "watch" -> "released"
                               [] reader[t] = "enter" -> "counted"
                               [] OTHER -> wait[t]]
  /\ UNCHANGED <<admission, table, state, watcher, proc, output, delivery, bash, reader>>

UserStops(t) ==
  /\ t \in tasks /\ Backgrounded(t)
  /\ RequestStop({t})
  /\ UNCHANGED <<admission, table, watcher, proc, output, delivery, calls>>

UserStopsAll ==
  /\ \E t \in tasks : Backgrounded(t)
  /\ RequestStop({t \in tasks : Backgrounded(t)})
  /\ UNCHANGED <<admission, table, watcher, proc, output, delivery, calls>>

\* requested_status alone: neither shutdown path touches the attribution.
RequestShutdownStop ==
  state' = [t \in Task |-> [state[t] EXCEPT !.stopRequested = @ \/ Unfinished(t)]]

\* terminate_all waits for a start in progress; kill_all_now does not.
TerminateAll ==
  /\ lifecycle = 0
  /\ shutdown' = "terminated"
  /\ RequestShutdownStop
  /\ UNCHANGED <<lifecycle, permits, others, table, watcher, proc, output, delivery, calls>>

KillAllNow ==
  /\ BackgroundEnabled
  /\ shutdown' = IF closed THEN shutdown ELSE "killed"
  /\ RequestShutdownStop
  /\ proc' = [t \in Task |-> IF Unfinished(t) THEN "dead" ELSE proc[t]]
  /\ UNCHANGED <<lifecycle, permits, others, table, watcher, output, delivery, calls>>

-----------------------------------------------------------------------------

Start(t) ==
  \/ \E mode \in {"starting", "explicit"} : StartAdmit(t, mode) \/ StartRefuse(t, mode)
  \/ StartFail(t)
  \/ StartInsert(t)

Watcher(t) ==
  \/ WatcherReaps(t)
  \/ WatcherCancelled(t)
  \/ WatcherDeadline(t)
  \/ WatcherPublishes(t)
  \/ WatcherNotifies(t)

Bash(t) ==
  \/ BashSeesTerminal(t)
  \/ BashSeesBackground(t)
  \/ BashDecidesToYield(t)
  \/ BashYields(t)
  \/ BashYieldsTooLate(t)
  \/ BashCancelled(t)
  \/ BashStopped(t)
  \/ BashForgets(t)
  \/ BashRetractsNotice(t)

Reader(t) ==
  \/ WatchEnters(t)
  \/ WatchCapturesGeneration(t)
  \/ WatchSeesTerminal(t)
  \/ WatchReleased(t)
  \/ WatchMissing(t)
  \/ PollSeesTerminal(t)
  \/ ModelStops(t)
  \/ StopSeesTerminal(t)
  \/ ReaderGivesUp(t)
  \/ ClaimMarks(t)
  \/ ClaimRetractsNotice(t)

User ==
  \/ UserDetaches
  \/ UserReleasesWaits
  \/ \E t \in Task : UserStops(t)
  \/ UserStopsAll

Host ==
  \/ TakeNotifications
  \/ TerminateAll
  \/ KillAllNow
  \/ OtherSessionStarts
  \/ OtherSessionEnds

Next ==
  \/ \E t \in Task : Start(t) \/ ProcessExits(t) \/ Watcher(t) \/ Bash(t) \/ Reader(t)
  \/ User
  \/ Host

Spec == Init /\ [][Next]_vars

\* What the runtime keeps moving: spawned watchers and tool futures are polled,
\* timers fire and a killed process dies.  Nothing obliges a user, the model or
\* a command to act, and a run need not be aborted.
BashResponds(t) ==
  \/ BashSeesTerminal(t)
  \/ BashSeesBackground(t)
  \/ BashDecidesToYield(t)
  \/ BashYields(t)
  \/ BashYieldsTooLate(t)
  \/ BashStopped(t)
  \/ BashForgets(t)
  \/ BashRetractsNotice(t)

Fairness ==
  \A t \in Task :
    /\ WF_vars(WatcherReaps(t))
    /\ WF_vars(WatcherCancelled(t))
    /\ WF_vars(WatcherDeadline(t))
    /\ WF_vars(WatcherPublishes(t))
    /\ WF_vars(WatcherNotifies(t))
    /\ WF_vars(BashResponds(t))
    /\ WF_vars(WatchSeesTerminal(t) \/ WatchReleased(t) \/ WatchMissing(t))

FairSpec == Spec /\ Fairness

-----------------------------------------------------------------------------

TypeOK ==
  /\ shutdown \in {"open", "killed", "terminated"}
  /\ lifecycle \in Task \cup {0}
  /\ permits \in Nat
  /\ others \in Nat
  /\ tasks \subseteq Task
  /\ tomb \in [Task -> Tombstone]
  /\ entombed \in Nat
  /\ state \in [Task -> ProcessState]
  /\ watcher \in [Task -> {"none", "select", "late", "exited", "killed", "timedout",
                           "published", "done"}]
  /\ proc \in [Task -> {"none", "alive", "dead"}]
  /\ output \in [Task -> BOOLEAN]
  /\ notifications \subseteq Task
  /\ heard \in [Task -> SUBSET {"result", "collected", "notice"}]
  /\ bash \in [Task -> {"uncalled", "starting", "explicit", "failed", "poll", "yield",
                        "stopping", "forget", "retract", "background", "returned"}]
  /\ reader \in [Task -> {"idle", "enter", "watch", "stop", "claim", "retract"}]
  /\ wait \in [Task -> {"fresh", "counted", "missed", "released"}]

(***************************************************************************)
(* Safety.                                                                 *)
(***************************************************************************)

\* Every permit of the process-wide semaphore is free, held by another session,
\* or held by a start in progress or a task whose end is not published yet: no
\* path through start, a kill, a timeout or an exit leaks one or frees it twice.
PermitsBalance ==
  permits + others + Cardinality({t \in Task : Holding(t) \/ lifecycle = t})
    = GlobalPermits

\* "You will be notified when it completes": once the watcher of a command the
\* model was told is in the background has finished, its outcome is queued or
\* the model has had it, whatever raced the end (ctrl+b, the deadline, a claim).
CompletionNotLost ==
  \A t \in Task :
    bash[t] = "background" /\ watcher[t] = "done"
      => t \in notifications \/ Informed(t)

\* A notice is never queued for an outcome already claimed: outside the claim's
\* own two critical sections, the queue and the claims are disjoint.
ClaimedNotQueued ==
  \A t \in notifications : state[t].claimed => reader[t] = "retract"

\* A background command's outcome reaches the model once: it is neither lost nor
\* announced after it has been collected.
HeardExactlyOnce == CompletionNotLost /\ ClaimedNotQueued

\* The output path handed to the model stays readable until the outcome of the
\* task has been collected or delivered: pruning never outruns delivery.
OutputKeptUntilHeard ==
  \A t \in Task : bash[t] = "background" /\ ~Informed(t) => output[t]

\* start's two admission limits hold whatever the interleaving with other
\* starts, ends and prunes.
WithinLimits ==
  /\ Cardinality({t \in tasks : ~Terminal(t)}) <= MaxRunning
  /\ Cardinality(tasks) <= MaxTracked

\* A process the manager no longer tracks cannot be listed, stopped or killed:
\* a live one has been told to stop, or it is in the table of a manager that
\* terminate_all has not been through. A start in progress finishes before
\* terminate_all looks, and a later start is refused.
LivingIsTracked ==
  \A t \in Task : proc[t] = "alive" =>
    state[t].stopRequested \/ (t \in tasks /\ shutdown # "terminated")

\* A deadline that kills never has a notice armed: the TimedOut arm of
\* notification_summary is unreachable.
TimedOutIsSilent ==
  \A t \in Task : watcher[t] = "timedout" \/ state[t].status = "timedout"
                   => ~state[t].notify

\* A published outcome is final: no late detach, deadline or stop rewrites it.
OutcomeIsFinal ==
  [][\A t \in Task : Terminal(t) => state'[t].status = state[t].status]_vars

(***************************************************************************)
(* What the repository says and the code does not do.                      *)
(***************************************************************************)

\* kill_all_now "is the only thing that reliably prevents orphaned children on
\* exit": after it, every process has been signalled or told to stop.
KillAllNowLeavesNoOrphan ==
  shutdown = "killed" =>
    \A t \in Task : proc[t] = "alive" => state[t].stopRequested

\* background_all_foreground: "The processes keep running and their output files
\* stay put": a command moved aside and not stopped is tracked and readable.
DetachedStaysPut ==
  \A t \in Task :
    state[t].status = "moved" /\ ~state[t].stopRequested => t \in tasks /\ output[t]

(***************************************************************************)
(* Liveness.                                                               *)
(***************************************************************************)

\* A stop that was asked for takes effect, whoever asked and however late.
StopTakesEffect ==
  \A t \in Task : state[t].stopRequested ~> Terminal(t)

\* A blocking wait whose release was sent hands the turn back.
ReleasedWaitEnds ==
  \A t \in Task : (reader[t] = "watch" /\ wait[t] = "released") ~> reader[t] # "watch"

\* A foreground bash call does not hold the turn for ever: its command ends, is
\* moved aside, or is killed by the deadline where it cannot be moved.
BashCallEnds ==
  \A t \in Task : bash[t] = "poll" ~> bash[t] \in {"returned", "background"}

\* The turn comes back, whichever of the three it waits for.
CallsEnd == StopTakesEffect /\ ReleasedWaitEnds /\ BashCallEnds

=============================================================================
