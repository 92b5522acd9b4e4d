------------------------ MODULE ProcessManagerProofs ------------------------
(***************************************************************************)
(* What holds of the process manager for every number of tasks, every      *)
(* limit and every mode of the runtime.                                    *)
(***************************************************************************)
EXTENDS ProcessManagerRefinement, FiniteSetTheorems, TLAPS

(***************************************************************************)
(* The inductive invariant.  A task is described by four cursors (the      *)
(* bash call, the watcher, the process and a reader) and by its state; the *)
(* parts say which combinations can meet.                                  *)
(***************************************************************************)

\* Before the insert nothing of a task exists but its call.
Unborn(t) ==
  /\ watcher[t] = "none" /\ proc[t] = "none"
  /\ t \notin tasks /\ t \notin notifications
  /\ ~Informed(t) /\ reader[t] = "idle"
  /\ ~state[t].notify /\ ~state[t].claimed

BirthInv ==
  \A t \in Task :
    /\ bash[t] \in {"uncalled", "starting", "explicit", "failed"} => Unborn(t)
    /\ watcher[t] = "none" <=> state[t].status = "unstarted"
    /\ watcher[t] = "none" => bash[t] \in {"uncalled", "starting", "explicit", "failed"}
    /\ bash[t] \in {"starting", "explicit"} <=> lifecycle = t
    /\ proc[t] = "alive" => watcher[t] \in {"select", "late"}

\* The status is final exactly from the moment the watcher has published it.
StageInv ==
  \A t \in Task : Terminal(t) <=> watcher[t] \in {"published", "done"}

\* A claim is how the model has heard, and is made on behalf of a command that
\* bash has handed back.
ClaimInv ==
  \A t \in Task :
    /\ state[t].claimed => /\ bash[t] \in {"background", "returned"}
                           /\ Informed(t)
    /\ reader[t] = "retract" => "collected" \in heard[t]
    /\ reader[t] \in {"claim", "retract"} => Terminal(t)
    /\ reader[t] # "idle" => bash[t] = "background"

\* A notice is queued by a finished watcher only.
QueueInv ==
  \A t \in notifications : watcher[t] = "done"

\* Whoever moves a command to the background arms its notice.
ArmedInv ==
  \A t \in Task :
    /\ bash[t] = "background" => state[t].notify
    /\ Backgrounded(t) => state[t].notify
    /\ bash[t] \in {"poll", "yield"} => output[t]

\* Nothing arms a notice where there is no background support, and the deadline
\* kills only there.
ModeInv ==
  \A t \in Task :
    /\ ~BackgroundEnabled => ~state[t].notify /\ bash[t] \notin {"explicit", "yield"}
    /\ watcher[t] = "timedout" \/ state[t].status = "timedout" => ~BackgroundEnabled
    /\ bash[t] = "yield" => ForegroundWait

DeliveryInv ==
  /\ BirthInv /\ StageInv /\ ClaimInv /\ QueueInv /\ ArmedInv /\ ModeInv
  /\ CompletionNotLost
  /\ ClaimedNotQueued
  /\ OutputKeptUntilHeard

-----------------------------------------------------------------------------
(***************************************************************************)
(* Type correctness.                                                       *)
(***************************************************************************)

\* Every set of tasks is finite and has a size.
LEMMA TaskIsFinite == \A S \in SUBSET Task : IsFiniteSet(S) /\ Cardinality(S) \in Nat
<1>1. IsFiniteSet(Task)
  BY FS_Interval, LimitsAreNaturals DEF Task
<1> QED
  BY <1>1, FS_Subset, FS_CardinalityType

\* Recording the tombstones of a set of tasks keeps their types.
LEMMA EntombType ==
  ASSUME TypeOK, NEW S \in SUBSET Task, NEW retained \in BOOLEAN, Entomb(S, retained)
  PROVE  tomb' \in [Task -> Tombstone] /\ entombed' \in Nat
<1>1. \A t \in Task : Rank(t, S) \in Nat
  <2>1. \A t \in Task : {u \in S : u <= t} \in SUBSET Task
    OBVIOUS
  <2> QED
    BY <2>1, TaskIsFinite DEF Rank
<1>2. Cardinality(S) \in Nat
  BY TaskIsFinite
<1> QED
  BY <1>1, <1>2 DEF Entomb, TypeOK, Tombstone, Terminal

\* prune_claimed_terminal_tasks keeps the types of what it writes.
LEMMA PruneType ==
  ASSUME TypeOK, Prune
  PROVE  /\ tasks' \subseteq Task
         /\ tomb' \in [Task -> Tombstone] /\ entombed' \in Nat
         /\ output' \in [Task -> BOOLEAN]
<1>1. Pruned \in SUBSET Task
  BY DEF Pruned, Claimable, TypeOK
<1>2. tomb' \in [Task -> Tombstone] /\ entombed' \in Nat
  BY <1>1, EntombType DEF Prune
<1> QED
  BY <1>2 DEF Prune, TypeOK

\* Updating a field of a task's record gives a task's record.
LEMMA RecordType ==
  \A s \in ProcessState :
    /\ \A x \in Status : [s EXCEPT !.status = x] \in ProcessState
    /\ \A x \in Status, b \in BOOLEAN : [s EXCEPT !.status = x, !.notify = b] \in ProcessState
    /\ \A b \in BOOLEAN : [s EXCEPT !.stopRequested = b] \in ProcessState
    /\ \A b \in BOOLEAN : [s EXCEPT !.claimed = b] \in ProcessState
BY DEF ProcessState

\* The three operations on many records at once keep the type of the table.
LEMMA StateType ==
  ASSUME TypeOK, NEW S,
         MoveToBackground(S) \/ RequestStop(S) \/ RequestShutdownStop
  PROVE  state' \in [Task -> ProcessState]
<1>1. CASE MoveToBackground(S)
  <2>1. \A t \in Task : [state[t] EXCEPT !.status = "moved", !.notify = TRUE] \in ProcessState
    BY RecordType DEF TypeOK, Status, Running
  <2> QED
    BY <1>1, <2>1 DEF MoveToBackground, TypeOK
<1>2. CASE RequestStop(S)
  <2>1. \A t \in Task : [state[t] EXCEPT !.stopRequested = TRUE] \in ProcessState
    BY RecordType DEF TypeOK
  <2> QED
    BY <1>2, <2>1 DEF RequestStop, TypeOK
<1>3. CASE RequestShutdownStop
  <2>1. \A t \in Task : [state[t] EXCEPT !.stopRequested = @ \/ Unfinished(t)] \in ProcessState
    BY RecordType DEF TypeOK
  <2> QED
    BY <1>3, <2>1 DEF RequestShutdownStop
<1> QED
  BY <1>1, <1>2, <1>3

\* Every variable keeps its type in every reachable state of the manager.
THEOREM TypeCorrect == Spec => []TypeOK
<1>1. Init => TypeOK
  BY LimitsAreNaturals DEF Init, TypeOK, ProcessState, Status, Tombstone, NoTombstone
<1>2. TypeOK /\ [Next]_vars => TypeOK'
  <2> SUFFICES ASSUME TypeOK, [Next]_vars
               PROVE  TypeOK'
    OBVIOUS
  <2> USE DEF admission, table, delivery, calls
  <2>1. ASSUME NEW t \in Task, Start(t)
        PROVE  TypeOK'
    <3>1. ASSUME NEW mode \in {"starting", "explicit"}, StartAdmit(t, mode)
          PROVE  TypeOK'
      BY <3>1, PruneType DEF StartAdmit, RoomAfterPrune, TypeOK
    <3>2. ASSUME NEW mode \in {"starting", "explicit"}, StartRefuse(t, mode)
          PROVE  TypeOK'
      <4>1. CASE UNCHANGED <<table, output>>
        BY <3>2, <4>1 DEF StartRefuse, TypeOK
      <4>2. CASE Prune
        BY <3>2, <4>2, PruneType DEF StartRefuse, TypeOK
      <4> QED
        BY <3>2, <4>1, <4>2 DEF StartRefuse
    <3>3. CASE StartFail(t)
      BY <3>3 DEF StartFail, TypeOK, ProcessState, Status, Running
    <3>4. CASE StartInsert(t)
      <4>1. \A st \in {"explicit", "foreground"}, b \in BOOLEAN :
              [state[t] EXCEPT !.status = st, !.notify = b] \in ProcessState
        BY RecordType DEF TypeOK, Status, Running
      <4>2. state' \in [Task -> ProcessState]
        BY <3>4, <4>1 DEF StartInsert, TypeOK
      <4> QED
        BY <3>4, <4>2 DEF StartInsert, TypeOK
    <3> QED
      BY <2>1, <3>1, <3>2, <3>3, <3>4 DEF Start
  <2>2. ASSUME NEW t \in Task, ProcessExits(t)
        PROVE  TypeOK'
    BY <2>2 DEF ProcessExits, TypeOK
  <2>3. ASSUME NEW t \in Task, Watcher(t)
        PROVE  TypeOK'
    <3>1. CASE WatcherReaps(t)
      BY <3>1 DEF WatcherReaps, TypeOK, Selecting
    <3>2. CASE WatcherCancelled(t)
      BY <3>2 DEF WatcherCancelled, TypeOK, Selecting
    <3>3. CASE ~BackgroundEnabled /\ WatcherDeadlineKills(t)
      BY <3>3 DEF WatcherDeadlineKills, TypeOK
    <3>4. CASE BackgroundEnabled /\ WatcherDeadlineMoves(t)
      BY <3>4, StateType DEF WatcherDeadlineMoves, TypeOK
    <3>5. CASE WatcherPublishes(t)
      BY <3>5 DEF WatcherPublishes, TypeOK, Outcome, ProcessState, Status, Finished
    <3>6. CASE WatcherNotifies(t)
      BY <3>6 DEF WatcherNotifies, TypeOK
    <3> QED
      BY <2>3, <3>1, <3>2, <3>3, <3>4, <3>5, <3>6 DEF Watcher, WatcherDeadline
  <2>4. ASSUME NEW t \in Task, Bash(t)
        PROVE  TypeOK'
    <3>1. CASE BashSeesTerminal(t)
      BY <3>1 DEF BashSeesTerminal, TypeOK, ReturnTerminalResult
    <3>2. CASE BashSeesBackground(t)
      BY <3>2 DEF BashSeesBackground, TypeOK
    <3>3. CASE BashDecidesToYield(t)
      BY <3>3 DEF BashDecidesToYield, TypeOK
    <3>4. CASE BashYields(t)
      BY <3>4, StateType DEF BashYields, TypeOK
    <3>5. CASE BashYieldsTooLate(t)
      BY <3>5 DEF BashYieldsTooLate, TypeOK, ReturnTerminalResult
    <3>6. CASE BashCancelled(t)
      BY <3>6, StateType DEF BashCancelled, TypeOK
    <3>7. CASE BashStopped(t)
      BY <3>7 DEF BashStopped, TypeOK
    <3>8. CASE BashForgets(t)
      <4>1. {t} \cap tasks \in SUBSET Task
        OBVIOUS
      <4> QED
        BY <3>8, <4>1, EntombType DEF BashForgets, TypeOK
    <3>9. CASE BashRetractsNotice(t)
      BY <3>9 DEF BashRetractsNotice, TypeOK
    <3> QED
      BY <2>4, <3>1, <3>2, <3>3, <3>4, <3>5, <3>6, <3>7, <3>8, <3>9 DEF Bash
  <2>5. ASSUME NEW t \in Task, Reader(t)
        PROVE  TypeOK'
    <3>1. CASE WatchEnters(t)
      BY <3>1 DEF WatchEnters, TypeOK, ReaderAt
    <3>2. CASE WatchCapturesGeneration(t)
      BY <3>2 DEF WatchCapturesGeneration, TypeOK, ReaderAt
    <3>3. CASE WatchSeesTerminal(t)
      BY <3>3 DEF WatchSeesTerminal, TypeOK, ReaderAt
    <3>4. CASE WatchReleased(t)
      BY <3>4 DEF WatchReleased, TypeOK, ReaderAt
    <3>5. CASE WatchMissing(t)
      BY <3>5 DEF WatchMissing, TypeOK, ReaderAt
    <3>6. CASE PollSeesTerminal(t)
      BY <3>6 DEF PollSeesTerminal, TypeOK, ReaderAt
    <3>7. CASE ModelStops(t)
      BY <3>7, StateType DEF ModelStops, TypeOK, ReaderAt
    <3>8. CASE StopSeesTerminal(t)
      BY <3>8 DEF StopSeesTerminal, TypeOK, ReaderAt
    <3>9. CASE ReaderGivesUp(t)
      BY <3>9 DEF ReaderGivesUp, TypeOK, ReaderAt
    <3>10. CASE ClaimMarks(t)
      <4>1. \A b \in BOOLEAN : [state[t] EXCEPT !.claimed = b] \in ProcessState
        BY RecordType DEF TypeOK
      <4>2. state' \in [Task -> ProcessState]
        BY <3>10, <4>1 DEF ClaimMarks, TypeOK
      <4> QED
        BY <3>10, <4>2 DEF ClaimMarks, TypeOK, ReaderAt
    <3>11. CASE ClaimRetractsNotice(t)
      BY <3>11 DEF ClaimRetractsNotice, TypeOK, ReaderAt
    <3> QED
      BY <2>5, <3>1, <3>2, <3>3, <3>4, <3>5, <3>6, <3>7, <3>8, <3>9, <3>10, <3>11 DEF Reader
  <2>6. CASE User
    <3>1. CASE UserDetaches
      BY <3>1, StateType DEF UserDetaches, TypeOK
    <3>2. CASE UserReleasesWaits
      BY <3>2 DEF UserReleasesWaits, TypeOK
    <3>3. ASSUME NEW t \in Task, UserStops(t)
          PROVE  TypeOK'
      BY <3>3, StateType DEF UserStops, TypeOK
    <3>4. CASE UserStopsAll
      BY <3>4, StateType DEF UserStopsAll, TypeOK
    <3> QED
      BY <2>6, <3>1, <3>2, <3>3, <3>4 DEF User
  <2>7. CASE Host
    <3>1. CASE TakeNotifications
      <4>1. \A t \in Task, b \in BOOLEAN : [state[t] EXCEPT !.claimed = b] \in ProcessState
        BY RecordType DEF TypeOK
      <4>2. state' \in [Task -> ProcessState]
        BY <3>1, <4>1 DEF TakeNotifications
      <4> QED
        BY <3>1, <4>2 DEF TakeNotifications, TypeOK
    <3>2. CASE TerminateAll
      BY <3>2, StateType DEF TerminateAll, TypeOK
    <3>3. CASE KillAllNow
      BY <3>3, StateType DEF KillAllNow, TypeOK
    <3>4. CASE OtherSessionStarts
      BY <3>4 DEF OtherSessionStarts, TypeOK
    <3>5. CASE OtherSessionEnds
      BY <3>5 DEF OtherSessionEnds, TypeOK
    <3> QED
      BY <2>7, <3>1, <3>2, <3>3, <3>4, <3>5 DEF Host
  <2>8. CASE UNCHANGED vars
    BY <2>8 DEF vars, TypeOK
  <2> QED
    BY <2>1, <2>2, <2>3, <2>4, <2>5, <2>6, <2>7, <2>8 DEF Next
<1> QED
  BY <1>1, <1>2, PTL DEF Spec

-----------------------------------------------------------------------------
(***************************************************************************)
(* The inductive step.                                                     *)
(***************************************************************************)

\* What each update of a task's record does to each of its fields.
LEMMA RecordFields ==
  \A s \in ProcessState :
    /\ LET r == [s EXCEPT !.status = "moved", !.notify = TRUE]
       IN  /\ r.status = "moved" /\ r.notify
           /\ r.claimed = s.claimed /\ r.stopRequested = s.stopRequested
    /\ \A b \in BOOLEAN :
         LET r == [s EXCEPT !.stopRequested = b]
         IN  /\ r.status = s.status /\ r.notify = s.notify
             /\ r.claimed = s.claimed /\ r.stopRequested = b
BY DEF ProcessState

\* background() and background_all_foreground touch foreground tasks only, and
\* arm the notice of each one they move.
LEMMA MoveEffect ==
  ASSUME TypeOK, NEW S, MoveToBackground(S), NEW t \in Task
  PROVE  IF t \in S /\ state[t].status = "foreground"
           THEN /\ state'[t].status = "moved"
                /\ state'[t].notify
                /\ state'[t].claimed = state[t].claimed
                /\ state'[t].stopRequested = state[t].stopRequested
           ELSE state'[t] = state[t]
<1>1. state[t] \in ProcessState
  BY DEF TypeOK
<1>2. CASE t \in S /\ state[t].status = "foreground"
  <2>1. state'[t] = [state[t] EXCEPT !.status = "moved", !.notify = TRUE]
    BY <1>2 DEF MoveToBackground
  <2> QED
    BY <1>1, <1>2, <2>1, RecordFields
<1>3. CASE ~(t \in S /\ state[t].status = "foreground")
  BY <1>3 DEF MoveToBackground
<1> QED
  BY <1>2, <1>3

\* A stop request changes no status, claim or armed notice.
LEMMA StopEffect ==
  ASSUME TypeOK, NEW S, NEW t \in Task,
         RequestStop(S) \/ RequestShutdownStop
  PROVE  /\ state'[t].status = state[t].status
         /\ state'[t].notify = state[t].notify
         /\ state'[t].claimed = state[t].claimed
         /\ state[t].stopRequested => state'[t].stopRequested
<1>1. state[t] \in ProcessState
  BY DEF TypeOK
<1>2. CASE RequestStop(S)
  <2>1. CASE t \in S /\ ~Terminal(t)
    <3>1. state'[t] = [state[t] EXCEPT !.stopRequested = TRUE]
      BY <1>2, <2>1 DEF RequestStop
    <3> QED
      BY <1>1, <3>1, RecordFields
  <2>2. CASE ~(t \in S /\ ~Terminal(t))
    BY <1>2, <2>2 DEF RequestStop
  <2> QED
    BY <2>1, <2>2
<1>3. CASE RequestShutdownStop
  <2>1. PICK b \in BOOLEAN : /\ b <=> state[t].stopRequested \/ Unfinished(t)
                             /\ state'[t] = [state[t] EXCEPT !.stopRequested = b]
    BY <1>1, <1>3 DEF RequestShutdownStop, ProcessState, Unfinished
  <2> QED
    BY <1>1, <2>1, RecordFields
<1> QED
  BY <1>2, <1>3

\* A step that leaves what DeliveryInv reads alone preserves it.
LEMMA SameDelivery ==
  ASSUME TypeOK, DeliveryInv,
         UNCHANGED <<lifecycle, tasks, watcher, output, notifications, heard, bash>>,
         \A u \in Task : \/ reader'[u] = reader[u]
                         \/ reader[u] = "idle" /\ bash[u] = "background" /\ reader'[u] = "stop",
         \A u \in Task : proc'[u] = proc[u] \/ (proc'[u] = "dead" /\ u \in tasks),
         \A u \in Task : /\ state'[u].status = state[u].status
                         /\ state'[u].notify = state[u].notify
                         /\ state'[u].claimed = state[u].claimed
  PROVE  DeliveryInv'
<1>1. BirthInv'
  <2>1. ASSUME NEW u \in Task, Unborn(u), bash[u] # "background"
        PROVE  Unborn(u)'
    BY <2>1 DEF Unborn, Informed, DeliveryInv, BirthInv
  <2> QED
    BY <2>1 DEF DeliveryInv, BirthInv
<1>2. StageInv'
  BY DEF DeliveryInv, StageInv, Terminal
<1>3. ClaimInv'
  BY DEF DeliveryInv, ClaimInv, Informed, Terminal
<1>4. QueueInv'
  BY DEF DeliveryInv, QueueInv
<1>5. ArmedInv'
  BY DEF DeliveryInv, ArmedInv, Backgrounded
<1>6. ModeInv'
  BY DEF DeliveryInv, ModeInv
<1>7. CompletionNotLost'
  BY DEF DeliveryInv, CompletionNotLost, Informed
<1>8. ClaimedNotQueued'
  BY DEF DeliveryInv, ClaimedNotQueued, TypeOK
<1>9. OutputKeptUntilHeard'
  BY DEF DeliveryInv, OutputKeptUntilHeard, Informed
<1> QED
  BY <1>1, <1>2, <1>3, <1>4, <1>5, <1>6, <1>7, <1>8, <1>9 DEF DeliveryInv

\* Each section of `start` preserves DeliveryInv.
LEMMA StartDelivery ==
  ASSUME TypeOK, DeliveryInv, NEW t \in Task, Start(t)
  PROVE  DeliveryInv'
<1> USE DEF admission, table, delivery, calls, Terminal, Finished, Backgrounded, TypeOK,
        DeliveryInv, BirthInv, StageInv, ClaimInv, QueueInv, ArmedInv, ModeInv, Unborn,
        CompletionNotLost, ClaimedNotQueued, OutputKeptUntilHeard, Informed
<1>3. ASSUME NEW mode \in {"starting", "explicit"}, StartAdmit(t, mode)
      PROVE  DeliveryInv'
  BY <1>3 DEF StartAdmit, NextCall, Prune, Pruned, Claimable, closed, Task
<1>4. ASSUME NEW mode \in {"starting", "explicit"}, StartRefuse(t, mode)
      PROVE  DeliveryInv'
  <2>1. CASE UNCHANGED <<table, output>>
    BY <1>4, <2>1 DEF StartRefuse, NextCall, Task
  <2>2. CASE Prune
    BY <1>4, <2>2 DEF StartRefuse, NextCall, Prune, Pruned, Claimable, Task
  <2> QED
    BY <1>4, <2>1, <2>2 DEF StartRefuse
<1>1. CASE StartFail(t)
  BY <1>1 DEF StartFail, Task
<1>2. CASE StartInsert(t)
  <2>1. /\ state'[t].status = IF bash[t] = "explicit" THEN "explicit" ELSE "foreground"
        /\ state'[t].notify <=> bash[t] = "explicit"
        /\ state'[t].claimed = state[t].claimed
        /\ \A u \in Task \ {t} : state'[u] = state[u]
    BY <1>2 DEF StartInsert, TypeOK, ProcessState
  <2> QED
    <3>1. /\ lifecycle = t /\ lifecycle' = 0
          /\ tasks' = tasks \cup {t}
          /\ watcher' = [watcher EXCEPT ![t] = "select"]
          /\ proc' = [proc EXCEPT ![t] = "alive"]
          /\ output' = [output EXCEPT ![t] = TRUE]
          /\ bash' = [bash EXCEPT ![t] = IF bash[t] = "explicit" THEN "background" ELSE "poll"]
          /\ UNCHANGED <<notifications, heard, reader>>
      BY <1>2 DEF StartInsert
    <3>2. BirthInv' /\ StageInv' /\ QueueInv'
      BY <2>1, <3>1, SMTT(40) DEF Task
    <3>3. ClaimInv'
      BY <2>1, <3>1, SMTT(40) DEF Task
    <3>4. ArmedInv'
      BY <2>1, <3>1, SMTT(40) DEF Task
    <3>5. ModeInv'
      BY <2>1, <3>1, SMTT(40) DEF Task
    <3>6. CompletionNotLost' /\ ClaimedNotQueued' /\ OutputKeptUntilHeard'
      BY <2>1, <3>1 DEF Task
    <3> HIDE DEF BirthInv, StageInv, ClaimInv, QueueInv, ArmedInv, ModeInv,
             CompletionNotLost, ClaimedNotQueued, OutputKeptUntilHeard
    <3> QED
      BY <3>2, <3>3, <3>4, <3>5, <3>6
<1> HIDE DEF TypeOK, DeliveryInv
<1> QED
  BY <1>1, <1>2, <1>3, <1>4 DEF Start

\* Each section of the watcher preserves DeliveryInv.
LEMMA WatcherDelivery ==
  ASSUME TypeOK, DeliveryInv, NEW t \in Task, Watcher(t)
  PROVE  DeliveryInv'
<1> USE DEF admission, table, delivery, calls, Terminal, Finished, Backgrounded, TypeOK,
        DeliveryInv, BirthInv, StageInv, ClaimInv, QueueInv, ArmedInv, ModeInv, Unborn,
        CompletionNotLost, ClaimedNotQueued, OutputKeptUntilHeard, Informed
<1>1. CASE WatcherReaps(t)
  BY <1>1 DEF WatcherReaps, Selecting
<1>2. CASE WatcherCancelled(t)
  BY <1>2 DEF WatcherCancelled, Selecting
<1>3. CASE ~BackgroundEnabled /\ WatcherDeadlineKills(t)
  BY <1>3 DEF WatcherDeadlineKills
<1>4. CASE BackgroundEnabled /\ WatcherDeadlineMoves(t)
  BY <1>4, MoveEffect DEF WatcherDeadlineMoves
<1>5. CASE WatcherPublishes(t)
  BY <1>5 DEF WatcherPublishes, Outcome
<1>6. CASE WatcherNotifies(t)
  BY <1>6 DEF WatcherNotifies, WantsNotice
<1> QED
  BY <1>1, <1>2, <1>3, <1>4, <1>5, <1>6 DEF Watcher, WatcherDeadline

\* Each section of the bash poll loop preserves DeliveryInv.
LEMMA BashDelivery ==
  ASSUME TypeOK, DeliveryInv, NEW t \in Task, Bash(t)
  PROVE  DeliveryInv'
<1> USE DEF admission, table, delivery, calls, Terminal, Finished, Backgrounded, TypeOK,
        DeliveryInv, BirthInv, StageInv, ClaimInv, QueueInv, ArmedInv, ModeInv, Unborn,
        CompletionNotLost, ClaimedNotQueued, OutputKeptUntilHeard, Informed
<1>1. CASE BashSeesTerminal(t)
  BY <1>1 DEF BashSeesTerminal, ReturnTerminalResult
<1>2. CASE BashSeesBackground(t)
  BY <1>2 DEF BashSeesBackground
<1>3. CASE BashDecidesToYield(t)
  BY <1>3 DEF BashDecidesToYield
<1>4. CASE BashYields(t)
  BY <1>4, MoveEffect DEF BashYields
<1>5. CASE BashYieldsTooLate(t)
  BY <1>5 DEF BashYieldsTooLate, ReturnTerminalResult
<1>6. CASE BashCancelled(t)
  <2>1. \A u \in Task : /\ state'[u].status = state[u].status
                        /\ state'[u].notify = state[u].notify
                        /\ state'[u].claimed = state[u].claimed
    <3> HIDE DEF TypeOK, DeliveryInv
    <3> QED
      BY <1>6, StopEffect DEF BashCancelled
  <2> QED
    <3>1. /\ bash[t] = "poll" /\ bash' = [bash EXCEPT ![t] = "stopping"]
          /\ UNCHANGED <<admission, table, watcher, proc, output, delivery, reader, wait>>
      BY <1>6 DEF BashCancelled
    <3>2. BirthInv' /\ StageInv' /\ QueueInv'
      BY <2>1, <3>1, SMTT(40)
    <3>3. ClaimInv' /\ ArmedInv' /\ ModeInv'
      BY <2>1, <3>1, SMTT(40)
    <3>4. CompletionNotLost' /\ ClaimedNotQueued' /\ OutputKeptUntilHeard'
      BY <2>1, <3>1, SMTT(40)
    <3> HIDE DEF BirthInv, StageInv, ClaimInv, QueueInv, ArmedInv, ModeInv,
             CompletionNotLost, ClaimedNotQueued, OutputKeptUntilHeard
    <3> QED
      BY <3>2, <3>3, <3>4
<1>7. CASE BashStopped(t)
  BY <1>7 DEF BashStopped
<1>8. CASE BashForgets(t)
  BY <1>8 DEF BashForgets, Entomb
<1>9. CASE BashRetractsNotice(t)
  BY <1>9 DEF BashRetractsNotice
<1> QED
  BY <1>1, <1>2, <1>3, <1>4, <1>5, <1>6, <1>7, <1>8, <1>9 DEF Bash

\* Each section of task_output and task_stop preserves DeliveryInv.
LEMMA ReaderDelivery ==
  ASSUME TypeOK, DeliveryInv, NEW t \in Task, Reader(t)
  PROVE  DeliveryInv'
<1> USE DEF admission, table, delivery, calls, Terminal, Finished, Backgrounded, TypeOK,
        DeliveryInv, BirthInv, StageInv, ClaimInv, QueueInv, ArmedInv, ModeInv, Unborn,
        CompletionNotLost, ClaimedNotQueued, OutputKeptUntilHeard, Informed
<1>1. CASE WatchEnters(t)
  BY <1>1 DEF WatchEnters, ReaderAt
<1>2. CASE WatchCapturesGeneration(t)
  BY <1>2 DEF WatchCapturesGeneration, ReaderAt
<1>3. CASE WatchSeesTerminal(t)
  BY <1>3 DEF WatchSeesTerminal, ReaderAt
<1>4. CASE WatchReleased(t)
  BY <1>4 DEF WatchReleased, ReaderAt
<1>5. CASE WatchMissing(t)
  BY <1>5 DEF WatchMissing, ReaderAt
<1>6. CASE PollSeesTerminal(t)
  BY <1>6 DEF PollSeesTerminal, ReaderAt
<1>7. CASE ModelStops(t)
  <2>1. \A u \in Task : /\ state'[u].status = state[u].status
                        /\ state'[u].notify = state[u].notify
                        /\ state'[u].claimed = state[u].claimed
    <3> HIDE DEF TypeOK, DeliveryInv
    <3> QED
      BY <1>7, StopEffect DEF ModelStops
  <2> QED
    <3>1. /\ UNCHANGED <<lifecycle, tasks, watcher, proc, output, notifications, heard, bash>>
          /\ \A u \in Task : \/ reader'[u] = reader[u]
                             \/ reader[u] = "idle" /\ bash[u] = "background" /\ reader'[u] = "stop"
      BY <1>7 DEF ModelStops, ReaderAt
    <3> HIDE DEF TypeOK, DeliveryInv
    <3> QED
      BY <2>1, <3>1, SameDelivery
<1>8. CASE StopSeesTerminal(t)
  BY <1>8 DEF StopSeesTerminal, ReaderAt
<1>9. CASE ReaderGivesUp(t)
  BY <1>9 DEF ReaderGivesUp, ReaderAt
<1>10. CASE ClaimMarks(t)
  <2>1. /\ state'[t].status = state[t].status
        /\ state'[t].notify = state[t].notify
        /\ \A u \in Task \ {t} : state'[u] = state[u]
    BY <1>10 DEF ClaimMarks, TypeOK, ProcessState
  <2> QED
    <3>1. /\ reader[t] = "claim" /\ bash[t] = "background"
          /\ reader' = [reader EXCEPT ![t] = "retract"]
          /\ heard' = [heard EXCEPT ![t] = @ \cup {"collected"}]
          /\ UNCHANGED <<admission, table, watcher, proc, output, notifications, bash, wait>>
      BY <1>10 DEF ClaimMarks, ReaderAt
    <3>2. BirthInv' /\ StageInv' /\ QueueInv'
      BY <2>1, <3>1
    <3>3. ClaimInv' /\ ArmedInv' /\ ModeInv'
      BY <2>1, <3>1
    <3>4. CompletionNotLost' /\ ClaimedNotQueued' /\ OutputKeptUntilHeard'
      BY <2>1, <3>1
    <3> HIDE DEF BirthInv, StageInv, ClaimInv, QueueInv, ArmedInv, ModeInv,
             CompletionNotLost, ClaimedNotQueued, OutputKeptUntilHeard
    <3> QED
      BY <3>2, <3>3, <3>4
<1>11. CASE ClaimRetractsNotice(t)
  BY <1>11 DEF ClaimRetractsNotice, ReaderAt
<1> QED
  BY <1>1, <1>2, <1>3, <1>4, <1>5, <1>6, <1>7, <1>8, <1>9, <1>10, <1>11 DEF Reader

\* The user's keys preserve DeliveryInv.
LEMMA UserDelivery ==
  ASSUME TypeOK, DeliveryInv, User
  PROVE  DeliveryInv'
<1> USE DEF admission, table, delivery, calls
<1>1. CASE UserDetaches
  BY <1>1, MoveEffect DEF UserDetaches, TypeOK, DeliveryInv, BirthInv, StageInv, ClaimInv,
     QueueInv, ArmedInv, ModeInv, Unborn, CompletionNotLost, ClaimedNotQueued,
     OutputKeptUntilHeard, Informed, Terminal, Finished, Backgrounded
<1>2. CASE UserReleasesWaits
  BY <1>2, SameDelivery DEF UserReleasesWaits
<1>3. ASSUME NEW S, RequestStop(S),
             UNCHANGED <<admission, table, watcher, proc, output, delivery, calls>>
      PROVE  DeliveryInv'
  <2>1. \A u \in Task : /\ state'[u].status = state[u].status
                        /\ state'[u].notify = state[u].notify
                        /\ state'[u].claimed = state[u].claimed
    BY <1>3, StopEffect
  <2> QED
    BY <1>3, <2>1, SameDelivery
<1> QED
  BY <1>1, <1>2, <1>3 DEF User, UserStops, UserStopsAll

\* The shutdown paths and the delivery of notices preserve DeliveryInv.
LEMMA HostDelivery ==
  ASSUME TypeOK, DeliveryInv, Host
  PROVE  DeliveryInv'
<1> USE DEF admission, table, delivery, calls
<1>1. CASE TakeNotifications
  <2>1. \A u \in Task : state'[u].status = state[u].status /\ state'[u].notify = state[u].notify
    BY <1>1 DEF TakeNotifications, TypeOK, ProcessState
  <2>2. \A u \in Task : u \notin notifications =>
          state'[u].claimed = state[u].claimed /\ heard'[u] = heard[u]
    BY <1>1 DEF TakeNotifications, TypeOK, ProcessState
  <2>3. \A u \in Task : \/ "collected" \in heard[u] \/ "notice" \in heard[u] \/ u \in notifications
                       => "collected" \in heard'[u] \/ "notice" \in heard'[u]
    BY <1>1 DEF TakeNotifications, TypeOK
  <2>4. /\ \A u \in Task : reader[u] = "idle"
        /\ \A u \in Task : bash[u] \in {"uncalled", "failed", "background", "returned"}
        /\ notifications' = {}
        /\ UNCHANGED <<lifecycle, tasks, watcher, proc, output, bash, reader>>
    BY <1>1 DEF TakeNotifications, TurnBoundary
  <2>5. BirthInv'
    <3>1. ASSUME NEW u \in Task, Unborn(u)
          PROVE  Unborn(u)'
      BY <2>1, <2>2, <2>4, <3>1 DEF Unborn, Informed
    <3> QED
      BY <2>1, <2>4, <3>1 DEF DeliveryInv, BirthInv
  <2>6. StageInv' /\ QueueInv' /\ ArmedInv' /\ ModeInv'
    BY <2>1, <2>4 DEF DeliveryInv, StageInv, QueueInv, ArmedInv, ModeInv, Terminal, Backgrounded
  <2>7. ClaimInv'
    <3>1. \A u \in Task : u \in notifications => bash[u] \in {"background", "returned"}
      BY <2>4 DEF DeliveryInv, BirthInv, QueueInv, Unborn, TypeOK
    <3>2. \A u \in Task : state'[u].claimed => bash[u] \in {"background", "returned"} /\ Informed(u)'
      BY <2>2, <2>3, <3>1 DEF DeliveryInv, ClaimInv, Informed
    <3> QED
      BY <2>4, <3>2 DEF ClaimInv
  <2>8. CompletionNotLost' /\ ClaimedNotQueued' /\ OutputKeptUntilHeard'
    BY <2>3, <2>4 DEF DeliveryInv, CompletionNotLost, ClaimedNotQueued, OutputKeptUntilHeard,
                      Informed
  <2> QED
    BY <2>5, <2>6, <2>7, <2>8 DEF DeliveryInv
<1>2. ASSUME RequestShutdownStop,
             \A u \in Task : proc'[u] = proc[u] \/ (proc'[u] = "dead" /\ u \in tasks),
             UNCHANGED <<lifecycle, table, watcher, output, delivery, calls>>
      PROVE  DeliveryInv'
  <2>1. \A u \in Task : /\ state'[u].status = state[u].status
                        /\ state'[u].notify = state[u].notify
                        /\ state'[u].claimed = state[u].claimed
    BY <1>2, StopEffect
  <2> QED
    BY <1>2, <2>1, SameDelivery
<1>3. CASE TerminateAll
  BY <1>2, <1>3 DEF TerminateAll
<1>4. CASE KillAllNow
  BY <1>2, <1>4 DEF KillAllNow, Unfinished
<1>5. CASE OtherSessionStarts
  BY <1>5, SameDelivery DEF OtherSessionStarts
<1>6. CASE OtherSessionEnds
  BY <1>6, SameDelivery DEF OtherSessionEnds
<1> QED
  BY <1>1, <1>3, <1>4, <1>5, <1>6 DEF Host

\* The end of a process preserves DeliveryInv.
LEMMA ExitDelivery ==
  ASSUME TypeOK, DeliveryInv, NEW t \in Task, ProcessExits(t)
  PROVE  DeliveryInv'
<1> USE DEF admission, table, delivery, calls, Terminal, Finished, Backgrounded, TypeOK,
        DeliveryInv, BirthInv, StageInv, ClaimInv, QueueInv, ArmedInv, ModeInv, Unborn,
        CompletionNotLost, ClaimedNotQueued, OutputKeptUntilHeard, Informed
<1> QED
  BY DEF ProcessExits

\* An empty manager satisfies DeliveryInv.
LEMMA InitDelivery == Init => DeliveryInv
BY DEF Init, Informed, DeliveryInv, BirthInv, StageInv, ClaimInv, QueueInv, ArmedInv, ModeInv, Unborn,
       CompletionNotLost, ClaimedNotQueued, OutputKeptUntilHeard, Terminal, Backgrounded,
       Finished, Task

\* A step that changes nothing preserves DeliveryInv.
LEMMA StutterDelivery ==
  ASSUME DeliveryInv, UNCHANGED vars
  PROVE  DeliveryInv'
<1> USE DEF admission, table, delivery, calls, Terminal, Finished, Backgrounded, TypeOK,
        DeliveryInv, BirthInv, StageInv, ClaimInv, QueueInv, ArmedInv, ModeInv, Unborn,
        CompletionNotLost, ClaimedNotQueued, OutputKeptUntilHeard, Informed
<1> QED
  BY DEF vars

\* The inductive invariant of completion delivery: how far a watcher is, what
\* its task's record says and who has claimed or queued its outcome always agree.
THEOREM DeliveryInvariant == Spec => []DeliveryInv
<1>1. TypeOK /\ DeliveryInv /\ [Next]_vars => DeliveryInv'
  BY StartDelivery, ExitDelivery, WatcherDelivery, BashDelivery, ReaderDelivery, UserDelivery,
     HostDelivery, StutterDelivery DEF Next
<1> QED
  BY <1>1, InitDelivery, TypeCorrect, PTL DEF Spec

-----------------------------------------------------------------------------
(***************************************************************************)
(* What follows from it.                                                   *)
(***************************************************************************)

\* A finished background command's outcome is queued or has been heard.
THEOREM CompletionIsNotLost == Spec => []CompletionNotLost
<1>1. DeliveryInv => CompletionNotLost
  BY DEF DeliveryInv
<1> QED
  BY <1>1, DeliveryInvariant, PTL

\* A collected outcome is not announced again.
THEOREM ClaimedIsNotQueued == Spec => []ClaimedNotQueued
<1>1. DeliveryInv => ClaimedNotQueued
  BY DEF DeliveryInv
<1> QED
  BY <1>1, DeliveryInvariant, PTL

\* The two together: an outcome reaches the model once.
THEOREM OutcomesAreHeardOnce == Spec => []HeardExactlyOnce
<1>1. CompletionNotLost /\ ClaimedNotQueued => HeardExactlyOnce
  BY DEF HeardExactlyOnce
<1> QED
  BY <1>1, CompletionIsNotLost, ClaimedIsNotQueued, PTL

\* Pruning never removes an output file whose outcome is still to be heard.
THEOREM OutputIsKept == Spec => []OutputKeptUntilHeard
<1>1. DeliveryInv => OutputKeptUntilHeard
  BY DEF DeliveryInv
<1> QED
  BY <1>1, DeliveryInvariant, PTL

\* The TimedOut arm of the notification summary is unreachable.
THEOREM TimedOutNeverNotifies == Spec => []TimedOutIsSilent
<1>1. DeliveryInv => TimedOutIsSilent
  BY DEF DeliveryInv, ModeInv, TimedOutIsSilent
<1> QED
  BY <1>1, DeliveryInvariant, PTL

-----------------------------------------------------------------------------
(***************************************************************************)
(* Outcomes are final, and the manager implements TaskOutcome.             *)
(***************************************************************************)

SameStatus(u) == state'[u].status = state[u].status

\* What a step does to the statuses: it begins one task, ends one, or moves
\* running tasks aside.
StatusStep ==
  \/ \E t \in Task : /\ state[t].status = "unstarted" /\ state'[t].status \in Running
                     /\ \A u \in Task \ {t} : SameStatus(u)
                     /\ UNCHANGED heard
  \/ \E t \in Task : /\ state[t].status \in Running /\ state'[t].status \in Finished
                     /\ \A u \in Task \ {t} : SameStatus(u)
                     /\ UNCHANGED heard
  \/ /\ \A u \in Task : \/ SameStatus(u)
                        \/ state[u].status = "foreground" /\ state'[u].status = "moved"
     /\ UNCHANGED heard
  \/ /\ \A u \in Task : SameStatus(u)
     /\ \A u \in Task : \/ heard'[u] = heard[u]
                        \/ ~ForegroundWait => Terminal(u) /\ heard[u] \subseteq heard'[u]

\* A stop request leaves every status as it is.
LEMMA StopStatus ==
  ASSUME TypeOK, NEW S, UNCHANGED heard,
         RequestStop(S) \/ RequestShutdownStop
  PROVE  StatusStep
BY StopEffect DEF StatusStep, SameStatus

\* Moving commands to the background ends none and begins none.
LEMMA MoveStatus ==
  ASSUME TypeOK, NEW S, MoveToBackground(S), UNCHANGED heard
  PROVE  StatusStep
<1>1. ASSUME NEW u \in Task
      PROVE  \/ state'[u].status = state[u].status
             \/ state[u].status = "foreground" /\ state'[u].status = "moved"
  <2>1. CASE u \in S /\ state[u].status = "foreground"
    BY <2>1, MoveEffect
  <2>2. CASE ~(u \in S /\ state[u].status = "foreground")
    BY <2>2 DEF MoveToBackground
  <2> QED
    BY <2>1, <2>2
<1>2. \A u \in Task : \/ SameStatus(u)
                      \/ state[u].status = "foreground" /\ state'[u].status = "moved"
  BY <1>1 DEF SameStatus
<1> QED
  BY <1>2 DEF StatusStep

\* A step that leaves statuses and reports alone is invisible to the promise.
LEMMA IdleStatus ==
  ASSUME UNCHANGED <<state, heard>>
  PROVE  StatusStep
BY DEF StatusStep, SameStatus

\* A step that only reports finished outcomes is a step of the promise.
LEMMA TellStatus ==
  ASSUME TypeOK, NEW t \in Task, ReturnTerminalResult(t), UNCHANGED state,
         ~ForegroundWait => Terminal(t)
  PROVE  StatusStep
<1>1. \A u \in Task : heard'[u] = heard[u] \/ (u = t /\ heard[u] \subseteq heard'[u])
  BY DEF ReturnTerminalResult, TypeOK
<1> QED
  BY <1>1 DEF StatusStep, SameStatus

\* `start` begins at most one command.
LEMMA StartStatus ==
  ASSUME TypeOK, DeliveryInv, NEW t \in Task, Start(t)
  PROVE  StatusStep
<1> USE DEF admission, table, delivery, calls
<1>1. CASE StartInsert(t)
  <2>1. state[t].status = "unstarted"
    BY <1>1 DEF StartInsert, DeliveryInv, BirthInv, Unborn
  <2>2. /\ state'[t].status = IF bash[t] = "explicit" THEN "explicit" ELSE "foreground"
        /\ \A u \in Task \ {t} : state'[u] = state[u]
    BY <1>1 DEF StartInsert, TypeOK, ProcessState
  <2>3. UNCHANGED heard
    BY <1>1 DEF StartInsert
  <2> QED
    BY <2>1, <2>2, <2>3 DEF StatusStep, SameStatus, Running
<1>2. CASE ~StartInsert(t)
  <2>1. UNCHANGED <<state, heard>>
    BY <1>2 DEF Start, StartAdmit, StartRefuse, StartFail
  <2> QED
    BY <2>1, IdleStatus
<1> QED
  BY <1>1, <1>2

\* The watcher ends at most its own command, once.
LEMMA WatcherStatus ==
  ASSUME TypeOK, DeliveryInv, NEW t \in Task, Watcher(t)
  PROVE  StatusStep
<1> USE DEF admission, table, delivery, calls
<1>1. CASE WatcherPublishes(t)
  <2>1. state[t].status \in Running
    BY <1>1 DEF WatcherPublishes, DeliveryInv, BirthInv, StageInv, Terminal, TypeOK,
                ProcessState, Status
  <2>2. Outcome(t) \in Finished
    BY <1>1 DEF WatcherPublishes, Outcome, Finished
  <2>3. state'[t].status = Outcome(t) /\ \A u \in Task \ {t} : state'[u] = state[u]
    BY <1>1 DEF WatcherPublishes, TypeOK, ProcessState
  <2>4. UNCHANGED heard
    BY <1>1 DEF WatcherPublishes
  <2> QED
    BY <2>1, <2>2, <2>3, <2>4 DEF StatusStep, SameStatus
<1>2. CASE BackgroundEnabled /\ WatcherDeadlineMoves(t)
  BY <1>2, MoveStatus DEF WatcherDeadlineMoves
<1>3. CASE ~WatcherPublishes(t) /\ ~(BackgroundEnabled /\ WatcherDeadlineMoves(t))
  <2>1. UNCHANGED <<state, heard>>
    BY <1>3 DEF Watcher, WatcherReaps, WatcherCancelled, WatcherDeadline, WatcherDeadlineKills,
                WatcherNotifies
  <2> QED
    BY <2>1, IdleStatus
<1> QED
  BY <1>1, <1>2, <1>3

\* The bash poll loop reports finished outcomes only.
LEMMA BashStatus ==
  ASSUME TypeOK, DeliveryInv, NEW t \in Task, Bash(t)
  PROVE  StatusStep
<1> USE DEF admission, table, delivery, calls
<1>1. CASE BashSeesTerminal(t)
  BY <1>1, TellStatus DEF BashSeesTerminal
<1>2. CASE BashYieldsTooLate(t)
  <2>1. ForegroundWait
    BY <1>2 DEF BashYieldsTooLate, DeliveryInv, ModeInv
  <2> QED
    BY <1>2, <2>1, TellStatus DEF BashYieldsTooLate
<1>3. CASE BashYields(t)
  BY <1>3, MoveStatus DEF BashYields
<1>4. CASE BashCancelled(t)
  BY <1>4, StopStatus DEF BashCancelled
<1>5. CASE BashSeesBackground(t) \/ BashDecidesToYield(t) \/ BashStopped(t) \/ BashForgets(t)
             \/ BashRetractsNotice(t)
  <2>1. UNCHANGED <<state, heard>>
    BY <1>5 DEF BashSeesBackground, BashDecidesToYield, BashStopped, BashForgets,
                BashRetractsNotice
  <2> QED
    BY <2>1, IdleStatus
<1> QED
  BY <1>1, <1>2, <1>3, <1>4, <1>5 DEF Bash

\* task_output and task_stop report finished outcomes only.
LEMMA ReaderStatus ==
  ASSUME TypeOK, DeliveryInv, NEW t \in Task, Reader(t)
  PROVE  StatusStep
<1> USE DEF admission, table, delivery, calls
<1>1. CASE ModelStops(t)
  BY <1>1, StopStatus DEF ModelStops
<1>2. CASE ClaimMarks(t)
  <2>1. Terminal(t)
    BY <1>2 DEF ClaimMarks, ReaderAt, DeliveryInv, ClaimInv
  <2>2. \A u \in Task : state'[u].status = state[u].status
    BY <1>2 DEF ClaimMarks, TypeOK, ProcessState
  <2>3. \A u \in Task : heard'[u] = heard[u] \/ (u = t /\ heard[u] \subseteq heard'[u])
    BY <1>2 DEF ClaimMarks, TypeOK
  <2> QED
    BY <2>1, <2>2, <2>3 DEF StatusStep, SameStatus
<1>3. CASE ~ModelStops(t) /\ ~ClaimMarks(t)
  <2>1. UNCHANGED <<state, heard>>
    BY <1>3 DEF Reader, WatchEnters, WatchCapturesGeneration, WatchSeesTerminal, WatchReleased,
                WatchMissing, PollSeesTerminal, StopSeesTerminal, ReaderGivesUp,
                ClaimRetractsNotice
  <2> QED
    BY <2>1, IdleStatus
<1> QED
  BY <1>1, <1>2, <1>3

\* The host reports finished outcomes only.
LEMMA HostStatus ==
  ASSUME TypeOK, DeliveryInv, User \/ Host
  PROVE  StatusStep
<1> USE DEF admission, table, delivery, calls
<1>1. CASE TakeNotifications
  <2>1. \A u \in Task : state'[u].status = state[u].status
    BY <1>1 DEF TakeNotifications, TypeOK, ProcessState
  <2>2. \A u \in notifications : Terminal(u)
    BY DEF DeliveryInv, QueueInv, StageInv, TypeOK
  <2>3. \A u \in Task : \/ heard'[u] = heard[u]
                        \/ u \in notifications /\ heard[u] \subseteq heard'[u]
    BY <1>1 DEF TakeNotifications
  <2> QED
    BY <2>1, <2>2, <2>3 DEF StatusStep, SameStatus
<1>2. CASE UserDetaches
  BY <1>2, MoveStatus DEF UserDetaches
<1>3. CASE UserStopsAll \/ \E t \in Task : UserStops(t)
  BY <1>3, StopStatus DEF UserStopsAll, UserStops
<1>4. CASE TerminateAll \/ KillAllNow
  BY <1>4, StopStatus DEF TerminateAll, KillAllNow
<1>5. CASE UserReleasesWaits \/ OtherSessionStarts \/ OtherSessionEnds
  BY <1>5, IdleStatus DEF UserReleasesWaits, OtherSessionStarts, OtherSessionEnds
<1> QED
  BY <1>1, <1>2, <1>3, <1>4, <1>5 DEF User, Host

\* Every step begins one command, ends one, reports finished ones or does nothing.
LEMMA EveryStatusStep ==
  ASSUME TypeOK, DeliveryInv, [Next]_vars
  PROVE  StatusStep
<1>1. CASE \E t \in Task : ProcessExits(t)
  BY <1>1, IdleStatus DEF ProcessExits, delivery
<1>2. CASE UNCHANGED vars
  BY <1>2, IdleStatus DEF vars, delivery
<1> QED
  BY <1>1, <1>2, StartStatus, WatcherStatus, BashStatus, ReaderStatus, HostStatus DEF Next

\* No late detach, deadline, stop or claim rewrites a published outcome.
THEOREM OutcomesAreFinal == Spec => OutcomeIsFinal
<1>1. StatusStep => \A t \in Task : Terminal(t) => state'[t].status = state[t].status
  BY DEF StatusStep, SameStatus, Terminal, Finished, Running
<1>2. TypeOK /\ DeliveryInv /\ [Next]_vars =>
        [\A t \in Task : Terminal(t) => state'[t].status = state[t].status]_vars
  BY <1>1, EveryStatusStep
<1> QED
  BY <1>2, TypeCorrect, DeliveryInvariant, PTL DEF Spec, OutcomeIsFinal

\* An empty manager has promised nothing.
LEMMA InitPromise == Init => Promise!Init
BY DEF Init, Promise!Init, PhaseOf, Terminal, Finished

\* Every step of the manager is a step of the promise or a stutter.
LEMMA StepPromise ==
  ASSUME TypeOK, StatusStep, ~ForegroundWait
  PROVE  [Promise!Next]_(Promise!vars)
<1> DEFINE phase == [u \in Task |-> PhaseOf(u)]
           told  == {u \in Task : heard[u] # {}}
<1>0. \A u \in Task : state[u].status \in Status /\ heard[u] \subseteq {"result", "collected", "notice"}
  BY DEF TypeOK, ProcessState
<1>1. CASE \E t \in Task : /\ state[t].status = "unstarted" /\ state'[t].status \in Running
                           /\ \A u \in Task \ {t} : SameStatus(u)
                           /\ UNCHANGED heard
  <2>1. PICK t \in Task : /\ state[t].status = "unstarted" /\ state'[t].status \in Running
                          /\ \A u \in Task \ {t} : state'[u].status = state[u].status
                          /\ UNCHANGED heard
    BY <1>1 DEF SameStatus
  <2>2. PhaseOf(t) = "new" /\ PhaseOf(t)' = "running"
    BY <2>1 DEF PhaseOf, Terminal, Running, Finished
  <2>3. \A u \in Task \ {t} : PhaseOf(u)' = PhaseOf(u)
    BY <2>1 DEF PhaseOf, Terminal
  <2>4. told' = told
    <3>1. heard' = heard
      BY <2>1
    <3> QED
      BY <3>1
  <2>5. phase[t] = "new" /\ phase' = [phase EXCEPT ![t] = "running"]
    BY <2>2, <2>3
  <2>6. Promise!Begin(t)
    BY <2>4, <2>5 DEF Promise!Begin
  <2> QED
    BY <2>6 DEF Promise!Next
<1>2. CASE \E t \in Task : /\ state[t].status \in Running /\ state'[t].status \in Finished
                           /\ \A u \in Task \ {t} : SameStatus(u)
                           /\ UNCHANGED heard
  <2>1. PICK t \in Task : /\ state[t].status \in Running /\ state'[t].status \in Finished
                          /\ \A u \in Task \ {t} : state'[u].status = state[u].status
                          /\ UNCHANGED heard
    BY <1>2 DEF SameStatus
  <2>2. PhaseOf(t) = "running" /\ PhaseOf(t)' = "over"
    BY <2>1 DEF PhaseOf, Terminal, Running, Finished
  <2>3. \A u \in Task \ {t} : PhaseOf(u)' = PhaseOf(u)
    BY <2>1 DEF PhaseOf, Terminal
  <2>4. told' = told
    <3>1. heard' = heard
      BY <2>1
    <3> QED
      BY <3>1
  <2>5. phase[t] = "running" /\ phase' = [phase EXCEPT ![t] = "over"]
    BY <2>2, <2>3
  <2>6. Promise!End(t)
    BY <2>4, <2>5 DEF Promise!End
  <2> QED
    BY <2>6 DEF Promise!Next
<1>3. CASE /\ \A u \in Task : \/ SameStatus(u)
                              \/ state[u].status = "foreground" /\ state'[u].status = "moved"
           /\ UNCHANGED heard
  <2>1. \A u \in Task : PhaseOf(u)' = PhaseOf(u)
    BY <1>3 DEF PhaseOf, Terminal, Finished, SameStatus
  <2>2. UNCHANGED <<phase, told>>
    BY <1>3, <2>1
  <2> QED
    BY <2>2 DEF Promise!vars
<1>4. CASE /\ \A u \in Task : SameStatus(u)
           /\ \A u \in Task : heard'[u] = heard[u] \/ (Terminal(u) /\ heard[u] \subseteq heard'[u])
  <2>1. \A u \in Task : PhaseOf(u)' = PhaseOf(u)
    BY <1>4 DEF PhaseOf, Terminal, SameStatus
  <2>2. UNCHANGED phase
    BY <2>1
  <2>3. PICK S \in SUBSET Task : S = {u \in Task : Terminal(u) /\ heard'[u] # {}}
    OBVIOUS
  <2>4. told' = told \cup S
    BY <1>4, <2>3
  <2>5. \A u \in S : phase[u] = "over"
    BY <2>3 DEF PhaseOf, Terminal, Finished
  <2>6. Promise!Tell(S)
    BY <2>2, <2>4, <2>5 DEF Promise!Tell
  <2> QED
    BY <2>6 DEF Promise!Next
<1> QED
  BY <1>1, <1>2, <1>3, <1>4 DEF StatusStep

\* Without the foreground-wait timer the manager implements TaskOutcome.
THEOREM Implements ==
  ASSUME ~ForegroundWait
  PROVE  Spec => ImplementsTaskOutcome
<1>1. TypeOK /\ DeliveryInv /\ [Next]_vars => [Promise!Next]_(Promise!vars)
  BY EveryStatusStep, StepPromise
<1> QED
  BY <1>1, InitPromise, TypeCorrect, DeliveryInvariant, PTL
  DEF Spec, ImplementsTaskOutcome, Promise!Spec

-----------------------------------------------------------------------------
(***************************************************************************)
(* The semaphore's account balances for every number of sessions, tasks    *)
(* and permits.  The argument counts the holders: a step either leaves     *)
(* them alone, adds one while taking a permit or drops one while giving it *)
(* back.                                                                   *)
(***************************************************************************)


Holders == {t \in Task : Holding(t) \/ lifecycle = t}

\* The holders of permits can be counted.
LEMMA HoldersCount == IsFiniteSet(Holders) /\ Cardinality(Holders) \in Nat
BY TaskIsFinite DEF Holders

\* Giving back a permit as one holder leaves keeps the balance.
LEMMA HolderLeaves ==
  ASSUME NEW t \in Task, TypeOK, PermitsBalance, t \in Holders, Holders' = Holders \ {t},
         permits' = permits + 1, others' = others
  PROVE  PermitsBalance'
<1>1. Cardinality(Holders') = Cardinality(Holders) - 1
  BY HoldersCount, FS_RemoveElement
<1> QED
  BY <1>1, HoldersCount DEF PermitsBalance, Holders, TypeOK

\* Taking a permit as one holder enters keeps the balance.
LEMMA HolderEnters ==
  ASSUME NEW t \in Task, TypeOK, PermitsBalance, t \notin Holders, Holders' = Holders \cup {t},
         permits > 0, permits' = permits - 1, others' = others
  PROVE  PermitsBalance'
<1>1. Cardinality(Holders') = Cardinality(Holders) + 1
  BY HoldersCount, FS_AddElement
<1> QED
  BY <1>1, HoldersCount DEF PermitsBalance, Holders, TypeOK

\* A step that changes neither holders nor permits keeps the balance.
LEMMA HoldersStay ==
  ASSUME TypeOK, PermitsBalance, Holders' = Holders, permits' + others' = permits + others
  PROVE  PermitsBalance'
BY HoldersCount DEF PermitsBalance, Holders, TypeOK

\* `start` takes one permit when it is admitted and returns it when it fails.
LEMMA StartBalance ==
  ASSUME TypeOK, DeliveryInv, PermitsBalance, NEW t \in Task, Start(t)
  PROVE  PermitsBalance'
<1> USE DEF admission, table, delivery, calls
<1>1. ASSUME NEW mode \in {"starting", "explicit"}, StartAdmit(t, mode)
      PROVE  PermitsBalance'
  <2>1. t \notin Holders /\ Holders' = Holders \cup {t}
    BY <1>1 DEF StartAdmit, NextCall, Holders, Holding, DeliveryInv, BirthInv, Unborn, Task
  <2> QED
    BY <1>1, <2>1, HolderEnters DEF StartAdmit, RoomAfterPrune
<1>2. ASSUME NEW mode \in {"starting", "explicit"}, StartRefuse(t, mode)
      PROVE  PermitsBalance'
  BY <1>2, HoldersStay DEF StartRefuse, Holders, Holding
<1>3. CASE StartFail(t)
  <2>1. t \in Holders /\ Holders' = Holders \ {t}
    BY <1>3 DEF StartFail, Holders, Holding, DeliveryInv, BirthInv, Unborn, Task
  <2> QED
    BY <1>3, <2>1, HolderLeaves DEF StartFail
<1>4. CASE StartInsert(t)
  <2>1. Holders' = Holders
    BY <1>4 DEF StartInsert, Holders, Holding, TypeOK, Task
  <2> QED
    BY <1>4, <2>1, HoldersStay DEF StartInsert
<1> QED
  BY <1>1, <1>2, <1>3, <1>4 DEF Start

\* The watcher returns its permit once, when it publishes.
LEMMA WatcherBalance ==
  ASSUME TypeOK, DeliveryInv, PermitsBalance, NEW t \in Task, Watcher(t)
  PROVE  PermitsBalance'
<1> USE DEF admission, table, delivery, calls
<1>1. CASE WatcherPublishes(t)
  <2>1. t \in Holders /\ Holders' = Holders \ {t}
    BY <1>1 DEF WatcherPublishes, Holders, Holding, DeliveryInv, BirthInv, Unborn, TypeOK
  <2> QED
    BY <1>1, <2>1, HolderLeaves DEF WatcherPublishes
<1>2. CASE ~WatcherPublishes(t)
  <2>1. Holders' = Holders /\ UNCHANGED <<permits, others>>
    BY <1>2 DEF Watcher, WatcherReaps, WatcherCancelled, WatcherDeadline, WatcherDeadlineKills,
                WatcherDeadlineMoves, WatcherNotifies, Selecting, Holders, Holding, TypeOK
  <2> QED
    BY <2>1, HoldersStay
<1> QED
  BY <1>1, <1>2

\* The other actions leave the watchers and the lifecycle lock alone.
LEMMA OtherBalance ==
  ASSUME TypeOK, PermitsBalance, UNCHANGED <<lifecycle, watcher>>,
         \/ UNCHANGED <<permits, others>>
         \/ OtherSessionStarts
         \/ OtherSessionEnds
  PROVE  PermitsBalance'
<1>1. Holders' = Holders
  BY DEF Holders, Holding
<1>2. permits' + others' = permits + others
  BY DEF OtherSessionStarts, OtherSessionEnds, TypeOK
<1> QED
  BY <1>1, <1>2, HoldersStay

\* The calls, keys and process ends of a session move no permit.
LEMMA BystanderBalance ==
  ASSUME TypeOK, PermitsBalance, NEW t \in Task, ProcessExits(t) \/ Bash(t) \/ Reader(t)
  PROVE  PermitsBalance'
<1> USE DEF admission
<1>1. CASE ProcessExits(t)
  BY <1>1, OtherBalance DEF ProcessExits
<1>2. CASE Bash(t)
  <2>1. UNCHANGED <<lifecycle, watcher, permits, others>>
    BY <1>2 DEF Bash, BashSeesTerminal, BashSeesBackground, BashDecidesToYield, BashYields,
                BashYieldsTooLate, BashCancelled, BashStopped, BashForgets, BashRetractsNotice
  <2> QED
    BY <2>1, OtherBalance
<1>3. CASE Reader(t)
  <2>1. UNCHANGED <<lifecycle, watcher, permits, others>>
    BY <1>3 DEF Reader, WatchEnters, WatchCapturesGeneration, WatchSeesTerminal, WatchReleased,
                WatchMissing, PollSeesTerminal, ModelStops, StopSeesTerminal, ReaderGivesUp,
                ClaimMarks, ClaimRetractsNotice
  <2> QED
    BY <2>1, OtherBalance
<1> QED
  BY <1>1, <1>2, <1>3

\* The host's actions keep the balance.
LEMMA HostBalance ==
  ASSUME TypeOK, PermitsBalance, User \/ Host
  PROVE  PermitsBalance'
<1>1. UNCHANGED <<lifecycle, watcher>> /\
      (UNCHANGED <<permits, others>> \/ OtherSessionStarts \/ OtherSessionEnds)
  BY DEF User, Host, UserDetaches, UserReleasesWaits, UserStops, UserStopsAll,
         TakeNotifications, TerminateAll, KillAllNow, OtherSessionStarts, OtherSessionEnds,
         admission
<1> QED
  BY <1>1, OtherBalance

\* No path through start, a kill, a deadline or an exit leaks a permit of the
\* process-wide semaphore or gives one back twice.
THEOREM PermitsAlwaysBalance == Spec => []PermitsBalance
<1>1. Init => PermitsBalance
  <2>1. ASSUME Init
        PROVE  Holders = {}
    BY <2>1 DEF Init, Holders, Holding, Task
  <2> QED
    BY <2>1, FS_EmptySet, LimitsAreNaturals DEF Init, PermitsBalance, Holders
<1>2. TypeOK /\ DeliveryInv /\ PermitsBalance /\ [Next]_vars => PermitsBalance'
  <2> SUFFICES ASSUME TypeOK, DeliveryInv, PermitsBalance, [Next]_vars
               PROVE  PermitsBalance'
    OBVIOUS
  <2>1. CASE UNCHANGED vars
    BY <2>1, OtherBalance DEF vars, admission
  <2> QED
    BY <2>1, StartBalance, WatcherBalance, BystanderBalance, HostBalance DEF Next
<1> QED
  BY <1>1, <1>2, TypeCorrect, DeliveryInvariant, PTL DEF Spec

-----------------------------------------------------------------------------
(***************************************************************************)
(* The two admission limits.  A start in progress already occupies its     *)
(* place: with it counted in, the limits are inductive.                    *)
(***************************************************************************)

Starting == {t \in Task : lifecycle = t}
Places   == {t \in tasks : ~Terminal(t)} \cup Starting
Entries  == tasks \cup Starting

ReservedWithinLimits == Cardinality(Places) <= MaxRunning /\ Cardinality(Entries) <= MaxTracked

\* A subset of a set of tasks is no larger than the set.
LEMMA SubsetCount ==
  \A S \in SUBSET Task : \A R \in SUBSET S : Cardinality(R) <= Cardinality(S)
BY TaskIsFinite, FS_Subset

\* The places and entries in use are sets of tasks.
LEMMA PlacesType ==
  ASSUME TypeOK
  PROVE  Places \in SUBSET Task /\ Entries \in SUBSET Task
BY DEF TypeOK, Places, Entries, Starting

\* A step that adds no place and no entry keeps the limits.
LEMMA FewerPlaces ==
  ASSUME TypeOK, ReservedWithinLimits, Places' \subseteq Places, Entries' \subseteq Entries
  PROVE  ReservedWithinLimits'
<1>1. Cardinality(Places') <= Cardinality(Places) /\ Cardinality(Entries') <= Cardinality(Entries)
  BY PlacesType, SubsetCount
<1>2. /\ Cardinality(Places) \in Nat /\ Cardinality(Places') \in Nat
      /\ Cardinality(Entries) \in Nat /\ Cardinality(Entries') \in Nat
  BY PlacesType, TaskIsFinite
<1> QED
  BY <1>1, <1>2, LimitsAreNaturals DEF ReservedWithinLimits

\* Finished tasks stay finished, so a step that adds no entry adds no place.
LEMMA QuietPlaces ==
  ASSUME TypeOK, DeliveryInv, ReservedWithinLimits, [Next]_vars,
         tasks' \subseteq tasks, lifecycle' = lifecycle
  PROVE  ReservedWithinLimits'
<1>1. \A t \in Task : Terminal(t) => Terminal(t)'
  BY EveryStatusStep DEF StatusStep, SameStatus, Terminal, Finished, Running
<1> QED
  BY <1>1, FewerPlaces DEF Places, Entries, Starting, TypeOK

\* Admission reserves a place and an entry only where there is room for both.
LEMMA AdmitPlaces ==
  ASSUME TypeOK, DeliveryInv, NEW t \in Task, NEW mode \in {"starting", "explicit"},
         StartAdmit(t, mode)
  PROVE  ReservedWithinLimits'
<1> DEFINE P == {u \in tasks : ~Terminal(u)}
           E == tasks \ Pruned
<1>1. P \in SUBSET Task /\ E \in SUBSET Task
  BY DEF TypeOK
<1>2. Cardinality(P) < MaxRunning /\ Cardinality(E) < MaxTracked
  BY DEF StartAdmit, RoomAfterPrune
<1>3. Places' \subseteq P \cup {t} /\ Entries' \subseteq E \cup {t}
  BY DEF StartAdmit, Prune, Places, Entries, Starting, Terminal
<1>4. Cardinality(P \cup {t}) <= Cardinality(P) + 1 /\ Cardinality(E \cup {t}) <= Cardinality(E) + 1
  <2>1. \A S \in SUBSET Task : Cardinality(S \cup {t}) \in {Cardinality(S), Cardinality(S) + 1}
    BY TaskIsFinite, FS_AddElement
  <2>2. Cardinality(P) \in Nat /\ Cardinality(E) \in Nat
    BY <1>1, TaskIsFinite
  <2> QED
    BY <1>1, <2>1, <2>2
<1>5. P \cup {t} \in SUBSET Task /\ E \cup {t} \in SUBSET Task
  BY <1>1
<1>6. /\ Cardinality(Places') <= Cardinality(P \cup {t})
      /\ Cardinality(Entries') <= Cardinality(E \cup {t})
  BY <1>3, <1>5, SubsetCount
<1>7. /\ Cardinality(P) \in Nat /\ Cardinality(E) \in Nat
      /\ Cardinality(P \cup {t}) \in Nat /\ Cardinality(E \cup {t}) \in Nat
  BY <1>1, <1>5, TaskIsFinite
<1>8. Places' \in SUBSET Task /\ Entries' \in SUBSET Task
  BY <1>3, <1>5
<1>9. Cardinality(Places') \in Nat /\ Cardinality(Entries') \in Nat
  BY <1>8, TaskIsFinite
<1> HIDE DEF P, E
<1> QED
  BY <1>2, <1>4, <1>6, <1>7, <1>9, LimitsAreNaturals DEF ReservedWithinLimits

\* Each section of `start` keeps the limits.
LEMMA StartPlaces ==
  ASSUME TypeOK, DeliveryInv, ReservedWithinLimits, [Next]_vars, NEW t \in Task, Start(t)
  PROVE  ReservedWithinLimits'
<1> USE DEF admission, table
<1>1. ASSUME NEW mode \in {"starting", "explicit"}, StartAdmit(t, mode)
      PROVE  ReservedWithinLimits'
  BY <1>1, AdmitPlaces
<1>2. ASSUME NEW mode \in {"starting", "explicit"}, StartRefuse(t, mode)
      PROVE  ReservedWithinLimits'
  BY <1>2, QuietPlaces DEF StartRefuse, Prune
<1>3. CASE StartFail(t)
  BY <1>3, FewerPlaces DEF StartFail, Places, Entries, Starting, Terminal, Task
<1>4. CASE StartInsert(t)
  <2>1. \A u \in Task \ {t} : state'[u] = state[u]
    BY <1>4 DEF StartInsert, TypeOK
  <2> QED
    BY <1>4, <2>1, FewerPlaces
    DEF StartInsert, Places, Entries, Starting, Terminal, Task, TypeOK
<1> QED
  BY <1>1, <1>2, <1>3, <1>4 DEF Start

\* Whatever starts, ends and prunes interleave, a session never has more than
\* MAX_RUNNING_TASKS commands running or MAX_TRACKED_TASKS records.
THEOREM LimitsHold == Spec => []WithinLimits
<1>1. Init => ReservedWithinLimits
  <2>1. ASSUME Init
        PROVE  Places = {} /\ Entries = {}
    BY <2>1 DEF Init, Places, Entries, Starting, Task
  <2> QED
    BY <2>1, FS_EmptySet, LimitsAreNaturals DEF ReservedWithinLimits
<1>2. TypeOK /\ DeliveryInv /\ ReservedWithinLimits /\ [Next]_vars => ReservedWithinLimits'
  <2> SUFFICES ASSUME TypeOK, DeliveryInv, ReservedWithinLimits, [Next]_vars
               PROVE  ReservedWithinLimits'
    OBVIOUS
  <2> USE DEF admission, table
  <2>1. ASSUME NEW t \in Task, ProcessExits(t) \/ Watcher(t) \/ Bash(t) \/ Reader(t)
        PROVE  tasks' \subseteq tasks /\ lifecycle' = lifecycle
    <3>1. CASE ProcessExits(t) \/ Watcher(t)
      BY <3>1 DEF ProcessExits, Watcher, WatcherReaps, WatcherCancelled, WatcherDeadline, WatcherDeadlineKills,
                  WatcherDeadlineMoves, WatcherPublishes, WatcherNotifies
    <3>2. CASE Bash(t)
      BY <3>2 DEF Bash, BashSeesTerminal, BashSeesBackground, BashDecidesToYield, BashYields,
                  BashYieldsTooLate, BashCancelled, BashStopped, BashForgets, BashRetractsNotice
    <3>3. CASE Reader(t)
      BY <3>3 DEF Reader, WatchEnters, WatchCapturesGeneration, WatchSeesTerminal, WatchReleased,
                  WatchMissing, PollSeesTerminal, ModelStops, StopSeesTerminal, ReaderGivesUp,
                  ClaimMarks, ClaimRetractsNotice
    <3> QED
      BY <2>1, <3>1, <3>2, <3>3
  <2>2. CASE User \/ Host \/ UNCHANGED vars
    <3>1. tasks' \subseteq tasks /\ lifecycle' = lifecycle
      BY <2>2 DEF User, Host, UserDetaches, UserReleasesWaits, UserStops, UserStopsAll, vars,
                  TakeNotifications, TerminateAll, KillAllNow, OtherSessionStarts,
                  OtherSessionEnds
    <3> QED
      BY <3>1, QuietPlaces
  <2> QED
    BY <2>1, <2>2, StartPlaces, QuietPlaces DEF Next
<1>3. TypeOK /\ ReservedWithinLimits => WithinLimits
  <2> SUFFICES ASSUME TypeOK, ReservedWithinLimits
               PROVE  WithinLimits
    OBVIOUS
  <2> DEFINE P == {t \in tasks : ~Terminal(t)}
  <2>1. P \in SUBSET Places /\ tasks \in SUBSET Entries
    BY DEF Places, Entries
  <2>2. Cardinality(P) <= Cardinality(Places) /\ Cardinality(tasks) <= Cardinality(Entries)
    BY <2>1, PlacesType, SubsetCount
  <2>3. /\ Cardinality(P) \in Nat /\ Cardinality(Places) \in Nat
        /\ Cardinality(tasks) \in Nat /\ Cardinality(Entries) \in Nat
    BY PlacesType, TaskIsFinite DEF TypeOK
  <2> QED
    BY <2>2, <2>3, LimitsAreNaturals DEF ReservedWithinLimits, WithinLimits
<1> QED
  BY <1>1, <1>2, <1>3, TypeCorrect, DeliveryInvariant, PTL DEF Spec

-----------------------------------------------------------------------------
(***************************************************************************)
(* No live process is forgotten.                                           *)
(***************************************************************************)

\* The one way out: the call's yield came after someone else's detach, and
\* bash took the command for a finished one.
Outrun(t) ==
  /\ ForegroundWait
  /\ Backgrounded(t)
  /\ bash[t] \in {"forget", "retract", "returned"}

Stopped(t) == state[t].stopRequested

\* A live process is tracked by a manager that can still be told to end it, has
\* been told to stop, or was outrun.
LivingKept(t) ==
  proc[t] = "alive" => Stopped(t) \/ (t \in tasks /\ shutdown # "terminated") \/ Outrun(t)

\* A bash call about to forget its task has seen it end, told it to stop, or was
\* outrun.
CallKept(t) ==
  /\ bash[t] = "stopping" => Terminal(t) \/ Stopped(t)
  /\ bash[t] = "forget" => Terminal(t) \/ Stopped(t) \/ Outrun(t)

\* terminate_all and a start in progress exclude one another.
LockKept == lifecycle # 0 => shutdown # "terminated"

LivingInv ==
  /\ LockKept
  /\ \A t \in Task : LivingKept(t)
  /\ \A t \in Task : CallKept(t)

\* What every step does to a task's record: a stop is never withdrawn, an end
\* never undone, and a task moved aside comes back only by ending.
StateGrows ==
  \A u \in Task :
    /\ Stopped(u) => Stopped(u)'
    /\ Terminal(u) => Terminal(u)'
    /\ Backgrounded(u) => Backgrounded(u)' \/ Terminal(u)'

\* A status changes by beginning, by ending or by moving aside.
LEMMA StatusGrows ==
  ASSUME TypeOK, DeliveryInv, [Next]_vars, NEW u \in Task
  PROVE  /\ Terminal(u) => Terminal(u)'
         /\ Backgrounded(u) => Backgrounded(u)' \/ Terminal(u)'
<1>1. StatusStep
  BY EveryStatusStep
<1> QED
  BY <1>1 DEF StatusStep, SameStatus, Terminal, Backgrounded, Running, Finished

\* Only stop requests write the flag, and they set it.
LEMMA StopGrows ==
  ASSUME TypeOK, [Next]_vars, NEW u \in Task, Stopped(u)
  PROVE  Stopped(u)'
<1>1. state[u] \in ProcessState
  BY DEF TypeOK
<1>2. CASE UNCHANGED state
  BY <1>2 DEF Stopped
<1>3. ASSUME NEW S, RequestStop(S) \/ RequestShutdownStop
      PROVE  Stopped(u)'
  BY <1>3, StopEffect DEF Stopped
<1>4. ASSUME NEW S, MoveToBackground(S)
      PROVE  Stopped(u)'
  BY <1>4, MoveEffect DEF Stopped
<1>5. ASSUME NEW t \in Task, Start(t)
      PROVE  Stopped(u)'
  <2>1. CASE StartInsert(t)
    <3>1. state'[u] = state[u] \/ \E x, b : state'[u] = [state[u] EXCEPT !.status = x, !.notify = b]
      BY <2>1 DEF StartInsert, TypeOK
    <3> QED
      BY <1>1, <3>1 DEF Stopped, ProcessState
  <2> QED
    BY <1>2, <1>5, <2>1 DEF Start, StartAdmit, StartRefuse, StartFail
<1>6. ASSUME NEW t \in Task, Watcher(t)
      PROVE  Stopped(u)'
  <2>1. CASE WatcherPublishes(t)
    <3>1. state'[u] = state[u] \/ \E x : state'[u] = [state[u] EXCEPT !.status = x]
      BY <2>1 DEF WatcherPublishes, TypeOK
    <3> QED
      BY <1>1, <3>1 DEF Stopped, ProcessState
  <2> QED
    BY <1>2, <1>4, <1>6, <2>1 DEF Watcher, WatcherReaps, WatcherCancelled, WatcherDeadline,
       WatcherDeadlineMoves, WatcherDeadlineKills, WatcherNotifies
<1>7. ASSUME NEW t \in Task, Bash(t)
      PROVE  Stopped(u)'
  BY <1>2, <1>3, <1>4, <1>7 DEF Bash, BashSeesTerminal, BashSeesBackground, BashDecidesToYield,
     BashYields, BashYieldsTooLate, BashCancelled, BashStopped, BashForgets, BashRetractsNotice
<1>8. ASSUME NEW t \in Task, Reader(t)
      PROVE  Stopped(u)'
  <2>1. CASE ClaimMarks(t)
    <3>1. state'[u] = state[u] \/ \E b : state'[u] = [state[u] EXCEPT !.claimed = b]
      BY <2>1 DEF ClaimMarks, TypeOK
    <3> QED
      BY <1>1, <3>1 DEF Stopped, ProcessState
  <2> QED
    BY <1>2, <1>3, <1>8, <2>1 DEF Reader, WatchEnters, WatchCapturesGeneration,
       WatchSeesTerminal, WatchReleased, WatchMissing, PollSeesTerminal, ModelStops,
       StopSeesTerminal, ReaderGivesUp, ClaimRetractsNotice
<1>9. CASE User
  BY <1>2, <1>3, <1>4, <1>9 DEF User, UserDetaches, UserReleasesWaits, UserStops, UserStopsAll,
     calls
<1>10. CASE Host
  <2>1. CASE TakeNotifications
    <3>1. PICK b \in BOOLEAN : /\ b <=> state[u].claimed \/ (u \in notifications /\ u \in tasks)
                               /\ state'[u] = [state[u] EXCEPT !.claimed = b]
      BY <1>1, <2>1 DEF TakeNotifications, ProcessState
    <3> QED
      BY <1>1, <3>1 DEF Stopped, ProcessState
  <2> QED
    BY <1>2, <1>3, <1>10, <2>1 DEF Host, TerminateAll, KillAllNow, OtherSessionStarts,
       OtherSessionEnds
<1>11. CASE \E t \in Task : ProcessExits(t)
  BY <1>2, <1>11 DEF ProcessExits
<1>12. CASE UNCHANGED vars
  BY <1>2, <1>12 DEF vars
<1> QED
  BY <1>5, <1>6, <1>7, <1>8, <1>9, <1>10, <1>11, <1>12 DEF Next

\* The two lemmas together.
LEMMA StateAlwaysGrows ==
  ASSUME TypeOK, DeliveryInv, [Next]_vars
  PROVE  StateGrows
BY StatusGrows, StopGrows DEF StateGrows

\* A finished task has no live process.
LEMMA FinishedIsDead ==
  ASSUME DeliveryInv, NEW u \in Task, Terminal(u)
  PROVE  proc[u] # "alive"
BY DEF DeliveryInv, BirthInv, StageInv

\* A step that moves no bash call, forgets finished tasks only and revives
\* nothing keeps every live process tracked.
LEMMA LivingStays ==
  ASSUME TypeOK, DeliveryInv, LivingInv, StateGrows, DeliveryInv',
         UNCHANGED <<lifecycle, shutdown, bash>>,
         \A u \in Task : /\ proc'[u] = "alive" => proc[u] = "alive"
                         /\ u \in tasks => u \in tasks' \/ Terminal(u)
  PROVE  LivingInv'
<1>1. LockKept'
  BY DEF LivingInv, LockKept
<1>2. ASSUME NEW u \in Task
      PROVE  LivingKept(u)'
  <2>1. Terminal(u)' => proc'[u] # "alive"
    BY DEF DeliveryInv, BirthInv, StageInv
  <2> QED
    BY <2>1, FinishedIsDead DEF LivingInv, LivingKept, StateGrows, Outrun
<1>3. ASSUME NEW u \in Task
      PROVE  CallKept(u)'
  BY DEF LivingInv, CallKept, StateGrows, Outrun
<1> QED
  BY <1>1, <1>2, <1>3 DEF LivingInv

\* `start` under its lock: a pruned task has ended, and a new one is tracked
\* before the lock is released.
LEMMA StartLiving ==
  ASSUME TypeOK, DeliveryInv, LivingInv, StateGrows, DeliveryInv', NEW t \in Task, Start(t)
  PROVE  LivingInv'
<1> USE DEF admission, table, delivery, calls
<1>1. t # 0
  BY DEF Task
<1>2. ASSUME \A u \in Task : proc'[u] = proc[u],
             \A u \in Task : u \in tasks => u \in tasks' \/ Terminal(u),
             \A u \in Task \ {t} : bash'[u] = bash[u],
             bash[t] \in {"uncalled", "starting", "explicit"},
             bash'[t] \in {"starting", "explicit", "failed"},
             UNCHANGED shutdown
      PROVE  \A u \in Task : LivingKept(u)' /\ CallKept(u)'
  <2>1. ASSUME NEW u \in Task, u # t
        PROVE  LivingKept(u)' /\ CallKept(u)'
    <3>1. Terminal(u)' => proc'[u] # "alive"
      BY DEF DeliveryInv, BirthInv, StageInv
    <3> QED
      BY <1>2, <2>1, <3>1, FinishedIsDead
      DEF LivingInv, LivingKept, CallKept, StateGrows, Outrun
  <2>2. LivingKept(t)' /\ CallKept(t)'
    BY <1>2 DEF LivingKept, CallKept, DeliveryInv, BirthInv, Unborn
  <2> QED
    BY <2>1, <2>2
<1>3. ASSUME Prune, NEW u \in Task, u \in tasks
      PROVE  u \in tasks' \/ Terminal(u)
  BY <1>3 DEF Prune, Pruned, Claimable
<1>4. ASSUME NEW mode \in {"starting", "explicit"}, StartAdmit(t, mode)
      PROVE  LivingInv'
  <2>1. LockKept'
    BY <1>4 DEF StartAdmit, closed, LockKept
  <2>2. \A u \in Task : LivingKept(u)' /\ CallKept(u)'
    BY <1>2, <1>3, <1>4 DEF StartAdmit, NextCall, TypeOK
  <2> QED
    BY <2>1, <2>2 DEF LivingInv
<1>5. ASSUME NEW mode \in {"starting", "explicit"}, StartRefuse(t, mode)
      PROVE  LivingInv'
  <2>1. LockKept'
    BY <1>5 DEF StartRefuse, LockKept, LivingInv
  <2>2. \A u \in Task : u \in tasks => u \in tasks' \/ Terminal(u)
    BY <1>3, <1>5 DEF StartRefuse
  <2>3. \A u \in Task : LivingKept(u)' /\ CallKept(u)'
    BY <1>2, <1>5, <2>2 DEF StartRefuse, NextCall, TypeOK
  <2> QED
    BY <2>1, <2>3 DEF LivingInv
<1>6. CASE StartFail(t)
  <2>1. LockKept'
    BY <1>6 DEF StartFail, LockKept
  <2>2. bash[t] \in {"starting", "explicit"}
    BY <1>6 DEF StartFail, DeliveryInv, BirthInv
  <2>3. \A u \in Task : LivingKept(u)' /\ CallKept(u)'
    BY <1>2, <1>6, <2>2 DEF StartFail, TypeOK
  <2> QED
    BY <2>1, <2>3 DEF LivingInv
<1>7. CASE StartInsert(t)
  <2>1. LockKept'
    BY <1>7 DEF StartInsert, LockKept
  <2>2. shutdown' # "terminated" /\ t \in tasks'
    BY <1>1, <1>7 DEF StartInsert, LivingInv, LockKept
  <2>3. ASSUME NEW u \in Task, u # t
        PROVE  LivingKept(u)' /\ CallKept(u)'
    <3>1. /\ proc'[u] = proc[u] /\ bash'[u] = bash[u] /\ shutdown' = shutdown
          /\ u \in tasks => u \in tasks'
      BY <1>7, <2>3 DEF StartInsert, TypeOK
    <3>2. Terminal(u)' => proc'[u] # "alive"
      BY DEF DeliveryInv, BirthInv, StageInv
    <3> QED
      BY <3>1, <3>2 DEF LivingInv, LivingKept, CallKept, StateGrows, Outrun
  <2>4. LivingKept(t)' /\ CallKept(t)'
    BY <1>7, <2>2 DEF StartInsert, LivingKept, CallKept, TypeOK
  <2> QED
    BY <2>1, <2>3, <2>4 DEF LivingInv
<1> QED
  BY <1>4, <1>5, <1>6, <1>7 DEF Start

\* The bash call gives its task up only when it has seen it end, told it to stop
\* or was outrun, and forgets it no earlier.
LEMMA BashLiving ==
  ASSUME TypeOK, DeliveryInv, LivingInv, StateGrows, DeliveryInv', NEW t \in Task, Bash(t)
  PROVE  LivingInv'
<1> USE DEF admission, table, delivery, calls
<1>1. UNCHANGED <<shutdown, lifecycle, proc>>
  BY DEF Bash, BashSeesTerminal, BashSeesBackground, BashDecidesToYield, BashYields,
     BashYieldsTooLate, BashCancelled, BashStopped, BashForgets, BashRetractsNotice
<1>2. LockKept'
  BY <1>1 DEF LivingInv, LockKept
<1>3. \A u \in Task \ {t} : /\ bash'[u] = bash[u]
                            /\ u \in tasks => u \in tasks'
  BY DEF Bash, BashSeesTerminal, BashSeesBackground, BashDecidesToYield, BashYields,
     BashYieldsTooLate, BashCancelled, BashStopped, BashForgets, BashRetractsNotice,
     ReturnTerminalResult, TypeOK
<1>4. \A u \in Task : Terminal(u)' => proc'[u] # "alive"
  BY DEF DeliveryInv, BirthInv, StageInv
<1>5. ASSUME NEW u \in Task, u # t
      PROVE  LivingKept(u)' /\ CallKept(u)'
  BY <1>1, <1>3, <1>4, <1>5 DEF LivingInv, LivingKept, CallKept, StateGrows, Outrun
<1>6. Stopped(t) => Stopped(t)'
  BY DEF StateGrows
<1>7. LivingKept(t)' /\ CallKept(t)'
  <2>1. CASE BashSeesTerminal(t)
    BY <1>1, <1>4, <2>1 DEF BashSeesTerminal, ReturnTerminalResult, LivingInv, LivingKept,
       CallKept, StateGrows, TypeOK
  <2>2. ASSUME BashSeesBackground(t) \/ BashDecidesToYield(t) \/ BashYields(t)
        PROVE  LivingKept(t)' /\ CallKept(t)'
    <3>1. /\ bash[t] \notin {"forget", "retract", "returned"}
          /\ bash'[t] \notin {"stopping", "forget"}
          /\ UNCHANGED tasks
      BY <2>2 DEF BashSeesBackground, BashDecidesToYield, BashYields, TypeOK
    <3> QED
      BY <1>1, <1>6, <3>1 DEF LivingInv, LivingKept, CallKept, Outrun
  <2>3. CASE BashYieldsTooLate(t)
    <3>1. /\ bash[t] = "yield" /\ bash'[t] = "forget" /\ UNCHANGED <<tasks, state>>
          /\ ForegroundWait
      BY <2>3 DEF BashYieldsTooLate, ReturnTerminalResult, TypeOK, DeliveryInv, ModeInv
    <3>2. state[t].status # "unstarted"
      BY <3>1 DEF DeliveryInv, BirthInv
    <3>3. state[t].status \in Status /\ state[t].status # "foreground"
      BY <2>3 DEF BashYieldsTooLate, TypeOK, ProcessState
    <3>4. Terminal(t)' \/ Backgrounded(t)'
      BY <3>1, <3>2, <3>3 DEF Terminal, Backgrounded, Status, Running
    <3> QED
      BY <1>1, <1>4, <1>6, <3>1, <3>4 DEF LivingInv, LivingKept, CallKept, Outrun
  <2>4. CASE BashCancelled(t)
    <3>1. /\ bash[t] = "poll" /\ bash'[t] = "stopping" /\ UNCHANGED tasks
      BY <2>4 DEF BashCancelled, TypeOK
    <3>2. Terminal(t)' \/ Stopped(t)'
      <4>1. CASE Terminal(t)
        BY <4>1 DEF StateGrows
      <4>2. CASE ~Terminal(t)
        <5>1. state'[t] = [state[t] EXCEPT !.stopRequested = TRUE]
          BY <2>4, <4>2 DEF BashCancelled, RequestStop
        <5> QED
          BY <5>1 DEF Stopped, TypeOK, ProcessState
      <4> QED
        BY <4>1, <4>2
    <3> QED
      BY <1>1, <1>4, <1>6, <3>1, <3>2 DEF LivingKept, CallKept
  <2>5. CASE BashStopped(t)
    <3>1. bash[t] = "stopping" /\ bash'[t] = "forget" /\ UNCHANGED <<tasks, state>>
      BY <2>5 DEF BashStopped, TypeOK
    <3> QED
      BY <1>1, <1>4, <1>6, <3>1 DEF LivingInv, LivingKept, CallKept, StateGrows
  <2>6. CASE BashForgets(t)
    <3>1. bash[t] = "forget" /\ bash'[t] = "retract" /\ UNCHANGED state
      BY <2>6 DEF BashForgets, TypeOK
    <3> QED
      BY <1>1, <1>4, <1>6, <3>1 DEF LivingInv, LivingKept, CallKept, StateGrows, Outrun,
         Backgrounded
  <2>7. CASE BashRetractsNotice(t)
    <3>1. bash[t] = "retract" /\ bash'[t] = "returned" /\ UNCHANGED <<tasks, state>>
      BY <2>7 DEF BashRetractsNotice, TypeOK
    <3> QED
      BY <1>1, <1>6, <3>1 DEF LivingInv, LivingKept, CallKept, Outrun, Backgrounded
  <2> QED
    BY <2>1, <2>2, <2>3, <2>4, <2>5, <2>6, <2>7 DEF Bash
<1> QED
  BY <1>2, <1>5, <1>7 DEF LivingInv

\* terminate_all stops every task of the table before it lets go of the lock;
\* kill_all_now kills them where they stand.
LEMMA ShutdownLiving ==
  ASSUME TypeOK, DeliveryInv, LivingInv, StateGrows, DeliveryInv',
         TerminateAll \/ KillAllNow
  PROVE  LivingInv'
<1> USE DEF admission, table, delivery, calls
<1>1. CASE KillAllNow
  <2>1. /\ UNCHANGED <<lifecycle, tasks, bash>>
        /\ shutdown' = "terminated" => shutdown = "terminated"
        /\ \A u \in Task : proc'[u] = "alive" => proc[u] = "alive"
    BY <1>1 DEF KillAllNow, closed
  <2>2. \A u \in Task : Terminal(u)' => proc'[u] # "alive"
    BY DEF DeliveryInv, BirthInv, StageInv
  <2> QED
    BY <2>1, <2>2 DEF LivingInv, LockKept, LivingKept, CallKept, StateGrows, Outrun
<1>2. CASE TerminateAll
  <2>1. UNCHANGED <<lifecycle, tasks, bash, proc>> /\ lifecycle = 0
    BY <1>2 DEF TerminateAll
  <2>2. ASSUME NEW u \in Task, u \in tasks, proc[u] = "alive"
        PROVE  Stopped(u)'
    <3>1. ~Terminal(u)
      BY <2>2, FinishedIsDead
    <3>2. PICK b \in BOOLEAN : /\ b <=> state[u].stopRequested \/ Unfinished(u)
                               /\ state'[u] = [state[u] EXCEPT !.stopRequested = b]
      BY <1>2 DEF TerminateAll, RequestShutdownStop, TypeOK, ProcessState, Unfinished
    <3>3. b
      BY <2>2, <3>1, <3>2 DEF Unfinished
    <3>4. state[u] \in ProcessState
      BY DEF TypeOK
    <3> QED
      BY <3>2, <3>3, <3>4, RecordFields DEF Stopped
  <2>3. \A u \in Task : Terminal(u)' => proc'[u] # "alive"
    BY DEF DeliveryInv, BirthInv, StageInv
  <2>4. \A u \in Task : LivingKept(u)' /\ CallKept(u)'
    BY <2>1, <2>2, <2>3 DEF LivingInv, LivingKept, CallKept, StateGrows, Outrun
  <2> QED
    BY <2>1, <2>4 DEF LivingInv, LockKept
<1> QED
  BY <1>1, <1>2

\* No step forgets a live process.
LEMMA StepLiving ==
  ASSUME TypeOK, DeliveryInv, LivingInv, DeliveryInv', [Next]_vars
  PROVE  LivingInv'
<1> USE DEF admission, table, delivery, calls
<1>1. StateGrows
  BY StateAlwaysGrows
<1>2. ASSUME NEW t \in Task, Watcher(t)
      PROVE  LivingInv'
  <2>1. /\ UNCHANGED <<lifecycle, shutdown, bash, tasks>>
        /\ \A u \in Task : proc'[u] = "alive" => proc[u] = "alive"
    BY <1>2 DEF Watcher, WatcherReaps, WatcherCancelled, WatcherDeadline, WatcherDeadlineMoves,
       WatcherDeadlineKills, WatcherPublishes, WatcherNotifies, TypeOK
  <2> QED
    BY <1>1, <2>1, LivingStays
<1>3. ASSUME NEW t \in Task, Reader(t)
      PROVE  LivingInv'
  <2>1. UNCHANGED <<lifecycle, shutdown, bash, tasks, proc>>
    BY <1>3 DEF Reader, WatchEnters, WatchCapturesGeneration, WatchSeesTerminal, WatchReleased,
       WatchMissing, PollSeesTerminal, ModelStops, StopSeesTerminal, ReaderGivesUp, ClaimMarks,
       ClaimRetractsNotice
  <2> QED
    BY <1>1, <2>1, LivingStays
<1>4. CASE User
  <2>1. UNCHANGED <<lifecycle, shutdown, bash, tasks, proc>>
    BY <1>4 DEF User, UserDetaches, UserReleasesWaits, UserStops, UserStopsAll
  <2> QED
    BY <1>1, <2>1, LivingStays
<1>5. CASE TakeNotifications \/ OtherSessionStarts \/ OtherSessionEnds
  <2>1. UNCHANGED <<lifecycle, shutdown, bash, tasks, proc>>
    BY <1>5 DEF TakeNotifications, OtherSessionStarts, OtherSessionEnds
  <2> QED
    BY <1>1, <2>1, LivingStays
<1>6. ASSUME NEW t \in Task, ProcessExits(t)
      PROVE  LivingInv'
  <2>1. /\ UNCHANGED <<lifecycle, shutdown, bash, tasks>>
        /\ \A u \in Task : proc'[u] = "alive" => proc[u] = "alive"
    BY <1>6 DEF ProcessExits, TypeOK
  <2> QED
    BY <1>1, <2>1, LivingStays
<1>7. CASE UNCHANGED vars
  <2>1. UNCHANGED <<lifecycle, shutdown, bash, tasks, proc>>
    BY <1>7 DEF vars
  <2> QED
    BY <1>1, <2>1, LivingStays
<1> QED
  BY <1>1, <1>2, <1>3, <1>4, <1>5, <1>6, <1>7, StartLiving, BashLiving, ShutdownLiving
  DEF Next, Host

\* A live process is tracked by a manager that can still end it, has been told
\* to stop, or is a command whose yield was outrun by a detach.
THEOREM LivingInvariant == Spec => []LivingInv
<1>1. Init => LivingInv
  BY DEF Init, LivingInv, LockKept, LivingKept, CallKept
<1>2. TypeOK /\ DeliveryInv /\ LivingInv /\ DeliveryInv' /\ [Next]_vars => LivingInv'
  BY StepLiving
<1> QED
  BY <1>1, <1>2, TypeCorrect, DeliveryInvariant, PTL DEF Spec

\* Where bash does not yield by itself no live process is ever forgotten.
THEOREM LivingIsAlwaysTracked ==
  ASSUME ~ForegroundWait
  PROVE  Spec => []LivingIsTracked
<1>1. LivingInv => LivingIsTracked
  BY DEF LivingInv, LivingKept, Outrun, Stopped, LivingIsTracked
<1> QED
  BY <1>1, LivingInvariant, PTL
=============================================================================
