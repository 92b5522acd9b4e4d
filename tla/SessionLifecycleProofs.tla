----------------------- MODULE SessionLifecycleProofs -----------------------
(***************************************************************************)
(* Proofs about SessionLifecycle, for any sessions, requests and shards.   *)
(***************************************************************************)
EXTENDS SessionLifecycle, ProcessRegistry, TLAPS

\* The steps of one request, its run and its caller.
Step(q) == Routing(q) \/ EntersGate(q) \/ Handling(q) \/ Running(q) \/ UserAborts(q) \/ CallerLeaves(q)

-----------------------------------------------------------------------------
(***************************************************************************)
(* Types.                                                                  *)
(***************************************************************************)

\* Answering a request keeps the types of the requests and the gates.
LEMMA AnswerType ==
  ASSUME TypeOK, NEW q \in Request, NEW reply \in {"none", "run", "steered", "command", "error"},
         Answer(q, reply)
  PROVE  /\ request' \in [Request -> RequestState]
         /\ \A p \in Request : request'[p].stage = "waiting" => request'[p].waits \in Request
         /\ holder' \in [Gate -> Request \cup {None}]
<1>1. [request[q] EXCEPT !.stage = "done", !.reply = reply] \in RequestState
  <2>1. request[q] \in RequestState
    BY DEF TypeOK
  <2> QED
    BY <2>1 DEF RequestState, Stage
<1>2. request' = [request EXCEPT ![q] = [request[q] EXCEPT !.stage = "done", !.reply = reply]]
  BY DEF TypeOK, Answer
<1>3. /\ request' \in [Request -> RequestState]
      /\ \A p \in Request : request'[p].stage = "waiting" => request'[p].waits \in Request
  BY <1>1, <1>2 DEF TypeOK, At, RequestState
<1>4. holder' \in [Gate -> Request \cup {None}]
  BY DEF TypeOK, Answer
<1> QED
  BY <1>3, <1>4

\* Moving a request on keeps the types, unless it starts to wait.
LEMMA GotoType ==
  ASSUME TypeOK, NEW q \in Request, NEW stage \in Stage \ {"waiting"}, Goto(q, stage)
  PROVE  /\ request' \in [Request -> RequestState]
         /\ \A p \in Request : request'[p].stage = "waiting" => request'[p].waits \in Request
  BY DEF TypeOK, Goto, At, RequestState, Stage

\* A gate is held by a request of the model.
LEMMA LockType ==
  ASSUME TypeOK, NEW q \in Request, NEW g \in Gate, Lock(q, g)
  PROVE  holder' \in [Gate -> Request \cup {None}]
  BY DEF TypeOK, Lock

\* Both gates of a session exist.
LEMMA GatesExist ==
  ASSUME NEW s \in Session
  PROVE  LifecycleGate(s) \in Gate /\ ConversationGate(s) \in Gate
  BY ShardsAreAssigned DEF LifecycleGate, ConversationGate, Gate

\* An opened session has a context.
LEMMA OpenedType ==
  ASSUME TypeOK, NEW s \in Session
  PROVE  Opened(s) \in SUBSET Request
  BY DEF TypeOK, Opened

\* The registry keeps its type when a completed run is dropped from it.
LEMMA CheckType ==
  ASSUME TypeOK, NEW s \in Session
  PROVE  ActiveAfterCheck(s) \in Request \cup {None}
  BY DEF TypeOK, ActiveAfterCheck

\* Every step of routing keeps the types.
LEMMA RoutingType ==
  ASSUME TypeOK, NEW q \in Request, Routing(q)
  PROVE  TypeOK'
<1> DEFINE s == SessionOf(q)
<1>s. s \in Session
  BY DEF TypeOK, SessionOf, RequestState
<1> HIDE DEF s
<1>1. CASE ChannelEnters(q)
  <2>1. Lock(q, ConversationGate(s)) /\ Goto(q, "routing") /\ UNCHANGED <<stored, run, active, managers, wiped>>
    BY <1>1 DEF ChannelEnters, s
  <2> QED
    BY <1>s, <2>1, GotoType, LockType, GatesExist DEF TypeOK, At, Stage
<1>2. CASE Resolves(q)
  <2>1. /\ stored' = [stored EXCEPT ![s] = Opened(s)]
        /\ UNCHANGED <<holder, run, active, managers, wiped>>
        /\ \E stage \in {"checking", "resolved"} :
             request' = [request EXCEPT ![q].seen = Opened(s), ![q].stage = stage]
    BY <1>2 DEF Resolves, s
  <2>2. Opened(s) \in SUBSET Request
    BY <1>s, OpenedType
  <2>3. /\ request' \in [Request -> RequestState]
        /\ \A p \in Request : request'[p].stage = "waiting" => request'[p].waits \in Request
    <3>1. PICK stage \in {"checking", "resolved"} :
            request' = [request EXCEPT ![q].seen = Opened(s), ![q].stage = stage]
      BY <2>1
    <3>2. [request[q] EXCEPT !.seen = Opened(s), !.stage = stage] \in RequestState
      <4>1. request[q] \in RequestState
        BY DEF TypeOK
      <4> QED
        BY <2>2, <4>1 DEF RequestState, Stage
    <3>3. request' = [request EXCEPT ![q] = [request[q] EXCEPT !.seen = Opened(s), !.stage = stage]]
      BY <3>1 DEF TypeOK
    <3> QED
      BY <3>2, <3>3 DEF TypeOK, RequestState, At
  <2> QED
    BY <1>s, <2>1, <2>2, <2>3 DEF TypeOK, At
<1>3. CASE ChannelRefuses(q)
  <2>1. /\ active' = [active EXCEPT ![s] = ActiveAfterCheck(s)]
        /\ Answer(q, "command") \/ (Goto(q, "resolved") /\ UNCHANGED holder)
        /\ UNCHANGED <<stored, run, managers, wiped>>
    BY <1>3 DEF ChannelRefuses, s
  <2>2. active' \in [Session -> Request \cup {None}]
    BY <1>s, <2>1, CheckType DEF TypeOK
  <2> QED
    BY <2>1, <2>2, AnswerType, GotoType DEF TypeOK, At, Stage
<1>4. CASE ChannelSteers(q)
  <2>1. /\ Answer(q, "steered")
        /\ active[s] \in Request
        /\ run' = [run EXCEPT ![active[s]].unread = TRUE]
        /\ UNCHANGED <<stored, active, managers, wiped>>
    BY <1>4, <1>s DEF ChannelSteers, Steerable, TypeOK, s
  <2>2. run' \in [Request -> RunState]
    BY <2>1 DEF TypeOK, RunState
  <2> QED
    BY <2>1, <2>2, AnswerType DEF TypeOK, At
<1>5. CASE ChannelSubmits(q)
  BY <1>5, GotoType DEF ChannelSubmits, TypeOK, At, Stage
<1> QED
  BY <1>1, <1>2, <1>3, <1>4, <1>5 DEF Routing

\* Every step of the handler keeps the types.
LEMMA HandlingType ==
  ASSUME TypeOK, NEW q \in Request, Handling(q)
  PROVE  TypeOK'
<1> DEFINE s == SessionOf(q)
<1>s. s \in Session
  BY DEF TypeOK, SessionOf, RequestState
<1> HIDE DEF s
<1>1. CASE ChecksActive(q)
  <2>1. /\ active' = [active EXCEPT ![s] = ActiveAfterCheck(s)]
        /\ \E stage \in {"alone", "aborting"} : Goto(q, stage)
        /\ UNCHANGED <<stored, holder, run, managers, wiped>>
    BY <1>1 DEF ChecksActive, s
  <2>2. active' \in [Session -> Request \cup {None}]
    BY <1>s, <2>1, CheckType DEF TypeOK
  <2> QED
    BY <2>1, <2>2, GotoType DEF TypeOK, At, Stage
<1>2. CASE AbortsRun(q)
  <2>1. CASE active[s] = None
    BY <1>2, <2>1, GotoType DEF AbortsRun, TypeOK, At, Stage, s
  <2>2. CASE active[s] # None
    <3>1. /\ active[s] \in Request
          /\ run' = [run EXCEPT ![active[s]].cancelled = TRUE]
          /\ request' = [request EXCEPT ![q].stage = "waiting", ![q].waits = active[s]]
          /\ UNCHANGED <<stored, holder, active, managers, wiped>>
      BY <1>2, <1>s, <2>2 DEF AbortsRun, TypeOK, s
    <3>2. run' \in [Request -> RunState]
      BY <3>1 DEF TypeOK, RunState
    <3>3. /\ request' \in [Request -> RequestState]
          /\ \A p \in Request : request'[p].stage = "waiting" => request'[p].waits \in Request
      <4>1. [request[q] EXCEPT !.stage = "waiting", !.waits = active[s]] \in RequestState
        <5>1. request[q] \in RequestState
          BY DEF TypeOK
        <5> QED
          BY <3>1, <5>1 DEF RequestState, Stage
      <4>2. request' =
              [request EXCEPT ![q] = [request[q] EXCEPT !.stage = "waiting", !.waits = active[s]]]
        BY <3>1 DEF TypeOK
      <4> QED
        BY <3>1, <4>1, <4>2 DEF TypeOK, RequestState, At
    <3> QED
      BY <3>1, <3>2, <3>3 DEF TypeOK, At
  <2> QED
    BY <2>1, <2>2
<1>3. CASE RunHasStopped(q)
  BY <1>3, GotoType DEF RunHasStopped, TypeOK, At, Stage
<1>4. CASE WaitTimesOut(q)
  BY <1>4, AnswerType DEF WaitTimesOut, TypeOK, At
<1>5. CASE StartsRun(q)
  <2>1. run' \in [Request -> RunState]
    BY <1>5 DEF StartsRun, TypeOK, RunState
  <2>2. stored' \in [Session -> (SUBSET Request) \cup {None}]
    BY <1>5, <1>s, OpenedType DEF StartsRun, TypeOK, s
  <2> QED
    BY <1>5, <2>1, <2>2, GotoType DEF StartsRun, TypeOK, At, Stage
<1>6. CASE RegistersRun(q)
  <2>1. active' \in [Session -> Request \cup {None}]
    BY <1>6, <1>s DEF RegistersRun, TypeOK, s
  <2> QED
    BY <1>6, <2>1, AnswerType DEF RegistersRun, TypeOK, At
<1>7. CASE Retires(q)
  BY <1>7, GotoType DEF Retires, TypeOK, At, Stage
<1>8. CASE ClearsOrDeletes(q)
  <2>1. stored' \in [Session -> (SUBSET Request) \cup {None}]
    BY <1>8, <1>s DEF ClearsOrDeletes, TypeOK, s
  <2>2. wiped' \in [Session -> SUBSET Request]
    BY <1>8, <1>s DEF ClearsOrDeletes, TypeOK, Begun, s
  <2> QED
    BY <1>8, <2>1, <2>2, AnswerType DEF ClearsOrDeletes, TypeOK, At
<1> QED
  BY <1>1, <1>2, <1>3, <1>4, <1>5, <1>6, <1>7, <1>8 DEF Handling

\* Every step of a run keeps the types.
LEMMA RunningType ==
  ASSUME TypeOK, NEW q \in Request, Running(q)
  PROVE  TypeOK'
<1> DEFINE s == SessionOf(q)
<1>s. s \in Session
  BY DEF TypeOK, SessionOf, RequestState
<1> HIDE DEF s
<1>r. run' \in [Request -> RunState]
  <2>1. CASE RunBuilds(q)
    <3>1. request[q].seen \in SUBSET Request
      BY DEF TypeOK, RequestState
    <3>2. run' \in [Request -> RunState]
      <4>1. run[q] \in RunState
        BY DEF TypeOK
      <4>2. [run[q] EXCEPT !.stage = "driving", !.history = request[q].seen] \in RunState
        BY <3>1, <4>1 DEF RunState
      <4>3. run' =
              [run EXCEPT ![q] = [run[q] EXCEPT !.stage = "driving", !.history = request[q].seen]]
        BY <2>1 DEF RunBuilds, TypeOK
      <4> QED
        BY <4>2, <4>3 DEF TypeOK
    <3> QED
      BY <3>2
  <2>2. CASE RunFlushes(q)
    <3>1. run[q] \in RunState
      BY DEF TypeOK
    <3>2. [run[q] EXCEPT !.flushes = @ + 1] \in RunState
      BY <3>1 DEF RunState
    <3>3. run' = [run EXCEPT ![q] = [run[q] EXCEPT !.flushes = @ + 1]]
      BY <2>2 DEF RunFlushes, TypeOK
    <3> QED
      BY <3>2, <3>3 DEF TypeOK
  <2>3. CASE RunDrains(q)
    BY <2>3 DEF RunDrains, TypeOK, RunState
  <2>4. CASE RunBuildsNothing(q) \/ RunStopsDriving(q) \/ RunSaves(q)
    BY <2>4 DEF RunBuildsNothing, RunStopsDriving, RunSaves, TypeOK, RunState
  <2>5. CASE RunCompletes(q) \/ RunLeavesRegistry(q)
    BY <2>5 DEF RunCompletes, RunLeavesRegistry, TypeOK, RunState
  <2> QED
    BY <2>1, <2>2, <2>3, <2>4, <2>5 DEF Running
<1>m. managers' \subseteq Session
  BY <1>s DEF Running, RunBuilds, RunBuildsNothing, RunFlushes, RunDrains, RunStopsDriving,
         RunSaves, RunCompletes, RunLeavesRegistry, TypeOK, s
<1>t. stored' \in [Session -> (SUBSET Request) \cup {None}]
  BY <1>s, OpenedType DEF Running, RunBuilds, RunBuildsNothing, RunFlushes, RunDrains,
         RunStopsDriving, RunSaves, RunCompletes, RunLeavesRegistry, TypeOK, s
<1>a. active' \in [Session -> Request \cup {None}]
  BY <1>s DEF Running, RunBuilds, RunBuildsNothing, RunFlushes, RunDrains, RunStopsDriving,
         RunSaves, RunCompletes, RunLeavesRegistry, TypeOK, s
<1>u. UNCHANGED <<request, holder, wiped>>
  BY DEF Running, RunBuilds, RunBuildsNothing, RunFlushes, RunDrains, RunStopsDriving,
         RunSaves, RunCompletes, RunLeavesRegistry
<1> QED
  BY <1>r, <1>m, <1>t, <1>a, <1>u DEF TypeOK, At

\* Every value stays of its type.
THEOREM TypeCorrect == Spec => []TypeOK
<1>1. Init => TypeOK
  BY DEF Init, TypeOK, NoRun, RunState, RequestState, Stage, At
<1>2. TypeOK /\ [Next]_vars => TypeOK'
  <2> SUFFICES ASSUME TypeOK, [Next]_vars PROVE TypeOK'
    OBVIOUS
  <2>1. CASE UNCHANGED vars
    BY <2>1 DEF vars, TypeOK, At
  <2>2. CASE Next
    <3> PICK q \in Request : Step(q)
      BY <2>2 DEF Next, Step
    <3>1. CASE EntersGate(q)
      <4>1. SessionOf(q) \in Session
        BY DEF TypeOK, SessionOf, RequestState
      <4> QED
        BY <3>1, <4>1, GotoType, LockType, GatesExist DEF EntersGate, TypeOK, At, Stage
    <3>2. CASE UserAborts(q)
      BY <3>2 DEF UserAborts, TypeOK, RunState, At
    <3>3. CASE CallerLeaves(q)
      BY <3>3, AnswerType DEF CallerLeaves, TypeOK, At
    <3> QED
      BY <3>1, <3>2, <3>3, RoutingType, HandlingType, RunningType DEF Step
  <2> QED
    BY <2>1, <2>2
<1> QED
  BY <1>1, <1>2, PTL DEF Spec

-----------------------------------------------------------------------------
(***************************************************************************)
(* The inductive invariant.                                                *)
(***************************************************************************)

\* The stages of a request inside the lifecycle gate.
Inside == {"admitted", "aborting", "waiting", "alone", "retired", "started"}

\* Who is inside holds the gate.
GateInv ==
  \A q \in Request :
    request[q].stage \in Inside => holder[LifecycleGate(SessionOf(q))] = q

\* Only a request that got as far as that has a run.
BegunInv ==
  \A q \in Request :
    /\ run[q].stage # "none" => request[q].stage \in {"started", "done"}
    /\ request[q].stage = "started" => run[q].stage # "none"

\* A registered run is one of the session, begun and answered, and not gone.
RegistryInv ==
  \A s \in Session : active[s] # None =>
    /\ SessionOf(active[s]) = s
    /\ request[active[s]].stage = "done"
    /\ run[active[s]].stage \notin {"none", "gone"}

\* What a request inside the gate knows of the live runs of its session.
AloneInv ==
  \A q, r \in Request : SessionOf(q) = SessionOf(r) /\ Live(r) =>
    /\ request[q].stage \notin {"alone", "retired"}
    /\ request[q].stage = "waiting" => r = request[q].waits
    /\ request[q].stage = "started" => r = q

\* Whose turns were wiped is of the session, begun, and over.
WipedInv ==
  \A s \in Session : \A r \in wiped[s] :
    SessionOf(r) = s /\ run[r].stage # "none" /\ ~Live(r)

Inv ==
  /\ GateInv
  /\ BegunInv
  /\ RegistryInv
  /\ AloneInv
  /\ WipedInv
  /\ LiveIsRegistered
  /\ RetiredStaysRetired
  /\ ClearedStaysCleared

\* Routing and handling a request, but for the start of its run, leave every run
\* as far as it is: they steer and abort runs.
LEMMA RunsStay ==
  ASSUME TypeOK, NEW q \in Request, Step(q), ~StartsRun(q), ~Running(q), NEW p \in Request
  PROVE  run'[p].stage = run[p].stage
<1>s. SessionOf(q) \in Session
  BY DEF TypeOK, SessionOf, RequestState
<1>1. CASE ChannelSteers(q)
  <2>1. active[SessionOf(q)] \in Request /\ run' = [run EXCEPT ![active[SessionOf(q)]].unread = TRUE]
    BY <1>1, <1>s DEF ChannelSteers, Steerable, TypeOK
  <2> QED
    BY <2>1 DEF TypeOK, RunState
<1>2. CASE AbortsRun(q)
  <2>1. \/ UNCHANGED run
        \/ /\ active[SessionOf(q)] \in Request
           /\ run' = [run EXCEPT ![active[SessionOf(q)]].cancelled = TRUE]
    BY <1>2, <1>s DEF AbortsRun, TypeOK
  <2> QED
    BY <2>1 DEF TypeOK, RunState
<1>3. CASE UserAborts(q)
  BY <1>3 DEF UserAborts, TypeOK, RunState
<1>4. CASE ~ChannelSteers(q) /\ ~AbortsRun(q) /\ ~UserAborts(q)
  <2>1. UNCHANGED run
    BY <1>4 DEF Step, Routing, Handling, ChannelEnters, Resolves, ChannelRefuses, ChannelSubmits,
                EntersGate, ChecksActive, RunHasStopped, WaitTimesOut, RegistersRun, Retires,
                ClearsOrDeletes, CallerLeaves
  <2> QED
    BY <2>1
<1> QED
  BY <1>1, <1>2, <1>3, <1>4

\* The steps of a run are no steps of its request.
LEMMA RunningKeepsRequests ==
  ASSUME NEW q \in Request, Running(q) \/ UserAborts(q)
  PROVE  UNCHANGED <<request, holder, wiped>>
  BY DEF Running, RunBuilds, RunBuildsNothing, RunFlushes, RunDrains, RunStopsDriving, RunSaves,
         RunCompletes, RunLeavesRegistry, UserAborts

\* A step of q's changes no field of a request but q's, and none of q's but its
\* stage and what the handler carries with it.
LEMMA RequestsStay ==
  ASSUME TypeOK, NEW q \in Request, Step(q), NEW p \in Request
  PROVE  /\ request'[p].session = request[p].session
         /\ request'[p].does = request[p].does
         /\ p # q => request'[p] = request[p]
<1>1. CASE Routing(q)
  <2>1. CASE ChannelEnters(q)
    BY <1>1, <2>1 DEF ChannelEnters, Goto, TypeOK, RequestState
  <2>2. CASE Resolves(q)
    BY <1>1, <2>2 DEF Resolves, TypeOK, RequestState
  <2>3. CASE ChannelRefuses(q)
    BY <1>1, <2>3 DEF ChannelRefuses, Answer, Goto, TypeOK, RequestState
  <2>4. CASE ChannelSteers(q) \/ ChannelSubmits(q)
    BY <1>1, <2>4 DEF ChannelSteers, ChannelSubmits, Answer, Goto, TypeOK, RequestState
  <2> QED
    BY <1>1, <2>1, <2>2, <2>3, <2>4 DEF Routing
<1>2. CASE EntersGate(q)
  BY <1>2 DEF EntersGate, Goto, TypeOK, RequestState
<1>3. CASE Handling(q)
  <2>1. CASE AbortsRun(q)
    BY <1>3, <2>1 DEF AbortsRun, Goto, TypeOK, RequestState
  <2>2. CASE ChecksActive(q) \/ RunHasStopped(q) \/ StartsRun(q) \/ Retires(q)
    BY <1>3, <2>2 DEF ChecksActive, RunHasStopped, StartsRun, Retires, Goto, TypeOK, RequestState
  <2>3. CASE WaitTimesOut(q) \/ RegistersRun(q) \/ ClearsOrDeletes(q)
    BY <1>3, <2>3 DEF WaitTimesOut, RegistersRun, ClearsOrDeletes, Answer, TypeOK, RequestState
  <2> QED
    BY <1>3, <2>1, <2>2, <2>3 DEF Handling
<1>4. CASE Running(q) \/ UserAborts(q)
  BY <1>4, RunningKeepsRequests
<1>5. CASE CallerLeaves(q)
  BY <1>5 DEF CallerLeaves, Answer, TypeOK, RequestState
<1> QED
  BY <1>1, <1>2, <1>3, <1>4, <1>5 DEF Step

\* A step of q's leaves the other requests alone, the sessions of all, and how
\* far the other runs are.
LEMMA Locality ==
  ASSUME TypeOK, NEW q \in Request, Step(q), NEW p \in Request
  PROVE  /\ SessionOf(p)' = SessionOf(p)
         /\ p # q => request'[p] = request[p] /\ run'[p].stage = run[p].stage
<1>1. SessionOf(p)' = SessionOf(p) /\ (p # q => request'[p] = request[p])
  BY RequestsStay DEF SessionOf
<1>2. ASSUME p # q PROVE run'[p].stage = run[p].stage
  <2>1. CASE StartsRun(q)
    BY <1>2, <2>1 DEF StartsRun, TypeOK
  <2>2. CASE Running(q)
    BY <1>2, <2>2 DEF Running, RunBuilds, RunBuildsNothing, RunFlushes, RunDrains, RunStopsDriving,
                      RunSaves, RunCompletes, RunLeavesRegistry, TypeOK
  <2> QED
    BY <2>1, <2>2, RunsStay
<1> QED
  BY <1>1, <1>2

\* The two gates of a session are different.
LEMMA GatesDiffer ==
  ASSUME NEW s, NEW t
  PROVE  LifecycleGate(s) # ConversationGate(t)
  BY DEF LifecycleGate, ConversationGate

\* One request of a session at most is inside.
LEMMA OneInside ==
  ASSUME GateInv, NEW p \in Request, NEW q \in Request, SessionOf(p) = SessionOf(q),
         request[p].stage \in Inside, request[q].stage \in Inside
  PROVE  p = q
  BY DEF GateInv

\* Answering keeps the gate invariant.
LEMMA AnswerKeepsGate ==
  ASSUME TypeOK, GateInv, NEW q \in Request, NEW reply, Answer(q, reply), Step(q)
  PROVE  GateInv'
<1> SUFFICES ASSUME NEW p \in Request, request'[p].stage \in Inside
             PROVE  holder'[LifecycleGate(SessionOf(p))] = p
  BY Locality DEF GateInv, LifecycleGate
<1>1. p # q
  BY DEF Answer, Inside, TypeOK, RequestState
<1>2. holder[LifecycleGate(SessionOf(p))] = p
  BY <1>1, Locality DEF GateInv
<1>3. LifecycleGate(SessionOf(p)) \in Gate
  BY GatesExist DEF TypeOK, SessionOf, RequestState
<1> QED
  BY <1>1, <1>2, <1>3 DEF Answer

\* So does moving on inside the gate, or outside it.
LEMMA GotoKeepsGate ==
  ASSUME TypeOK, GateInv, NEW q \in Request, Step(q), UNCHANGED holder,
         request'[q].stage \in Inside => request[q].stage \in Inside
  PROVE  GateInv'
  BY Locality DEF GateInv, LifecycleGate

\* Every step keeps the gate invariant.
LEMMA GateStep ==
  ASSUME TypeOK, GateInv, NEW q \in Request, Step(q)
  PROVE  GateInv'
<1> DEFINE s == SessionOf(q)
<1>s. s \in Session
  BY DEF TypeOK, SessionOf, RequestState
<1>1. CASE ChannelEnters(q)
  <2>1. holder' = [holder EXCEPT ![ConversationGate(s)] = q] /\ request'[q].stage = "routing"
    BY <1>1 DEF ChannelEnters, Lock, Goto, TypeOK, RequestState
  <2> SUFFICES ASSUME NEW p \in Request, request'[p].stage \in Inside
               PROVE  holder'[LifecycleGate(SessionOf(p))] = p
    BY Locality DEF GateInv, LifecycleGate
  <2>2. p # q
    BY <2>1 DEF Inside
  <2>3. holder[LifecycleGate(SessionOf(p))] = p
    BY <2>2, Locality DEF GateInv
  <2>4. LifecycleGate(SessionOf(p)) # ConversationGate(s)
    BY GatesDiffer
  <2> QED
    BY <2>1, <2>3, <2>4 DEF TypeOK
<1>2. CASE EntersGate(q)
  <2>1. /\ holder[LifecycleGate(s)] = None
        /\ holder' = [holder EXCEPT ![LifecycleGate(s)] = q]
    BY <1>2 DEF EntersGate, Lock
  <2> SUFFICES ASSUME NEW p \in Request, request'[p].stage \in Inside
               PROVE  holder'[LifecycleGate(SessionOf(p))] = p
    BY Locality DEF GateInv, LifecycleGate
  <2>2. CASE p = q
    BY <1>s, <2>1, <2>2, GatesExist DEF TypeOK
  <2>3. CASE p # q
    <3>1. holder[LifecycleGate(SessionOf(p))] = p
      BY <2>3, Locality DEF GateInv
    <3>2. LifecycleGate(SessionOf(p)) # LifecycleGate(s)
      BY <2>1, <3>1, NoneIsNoRequest
    <3> QED
      BY <2>1, <3>1, <3>2 DEF TypeOK
  <2> QED
    BY <2>2, <2>3
<1>3. CASE Resolves(q) \/ ChannelSubmits(q)
  <2>1. UNCHANGED holder /\ request'[q].stage \notin Inside
    BY <1>3 DEF Resolves, ChannelSubmits, Goto, Inside, TypeOK, RequestState
  <2> QED
    BY <2>1, GotoKeepsGate
<1>4. CASE ChannelRefuses(q) \/ ChannelSteers(q)
  <2>1. \/ \E reply \in {"command", "steered"} : Answer(q, reply)
        \/ UNCHANGED holder /\ request'[q].stage = "resolved"
    BY <1>4 DEF ChannelRefuses, ChannelSteers, Goto, TypeOK, RequestState
  <2> QED
    BY <2>1, GotoKeepsGate, AnswerKeepsGate DEF Inside
<1>5. CASE ChecksActive(q) \/ AbortsRun(q) \/ RunHasStopped(q) \/ StartsRun(q) \/ Retires(q)
  <2>1. UNCHANGED holder /\ request[q].stage \in Inside
    BY <1>5 DEF ChecksActive, AbortsRun, RunHasStopped, StartsRun, Retires, At, Inside
  <2> QED
    BY <2>1, GotoKeepsGate
<1>6. CASE WaitTimesOut(q) \/ RegistersRun(q) \/ ClearsOrDeletes(q) \/ CallerLeaves(q)
  <2>1. \E reply \in {"error", "run", "command"} : Answer(q, reply)
    BY <1>6 DEF WaitTimesOut, RegistersRun, ClearsOrDeletes, CallerLeaves
  <2> QED
    BY <2>1, AnswerKeepsGate
<1>7. CASE Running(q) \/ UserAborts(q)
  <2>1. UNCHANGED <<holder, request>>
    BY <1>7 DEF Running, RunBuilds, RunBuildsNothing, RunFlushes, RunDrains, RunStopsDriving,
                RunSaves, RunCompletes, RunLeavesRegistry, UserAborts
  <2> QED
    BY <2>1, GotoKeepsGate
<1> QED
  BY <1>1, <1>2, <1>3, <1>4, <1>5, <1>6, <1>7 DEF Step, Routing, Handling

\* What a step of its run does to how far it is.
LEMMA RunMoves ==
  ASSUME TypeOK, NEW q \in Request, Running(q)
  PROVE  /\ run[q].stage # "none"
         /\ run'[q].stage # "none"
         /\ run'[q].stage = "gone" <=> RunLeavesRegistry(q)
         /\ run'[q].stage \in {"spawned", "driving", "ending", "saved"} => Live(q)
<1>1. run[q] \in RunState
  BY DEF TypeOK
<1>2. CASE RunBuilds(q)
  <2>1. run[q].stage = "spawned" /\ run'[q].stage = "driving"
    BY <1>1, <1>2 DEF RunBuilds, TypeOK, RunState
  <2> QED
    BY <2>1 DEF Live, RunLeavesRegistry
<1>3. CASE RunBuildsNothing(q) \/ RunStopsDriving(q)
  <2>1. run[q].stage \in {"spawned", "driving"} /\ run'[q].stage = "ending"
    BY <1>1, <1>3 DEF RunBuildsNothing, RunStopsDriving, TypeOK, RunState
  <2> QED
    BY <2>1 DEF Live, RunLeavesRegistry
<1>4. CASE RunFlushes(q) \/ RunDrains(q)
  <2>1. run[q].stage = "driving" /\ run'[q].stage = "driving"
    BY <1>1, <1>4 DEF RunFlushes, RunDrains, TypeOK, RunState
  <2> QED
    BY <2>1 DEF Live, RunLeavesRegistry
<1>5. CASE RunSaves(q) \/ RunCompletes(q)
  <2>1. run[q].stage \in {"ending", "saved"} /\ run'[q].stage \in {"saved", "completed"}
    BY <1>1, <1>5 DEF RunSaves, RunCompletes, TypeOK, RunState
  <2> QED
    BY <2>1 DEF Live, RunLeavesRegistry
<1>6. CASE RunLeavesRegistry(q)
  <2>1. run[q].stage = "completed" /\ run'[q].stage = "gone"
    BY <1>1, <1>6 DEF RunLeavesRegistry, TypeOK, RunState
  <2> QED
    BY <1>6, <2>1
<1> QED
  BY <1>2, <1>3, <1>4, <1>5, <1>6 DEF Running

\* A run comes alive only where its request starts it.
LEMMA LiveStep ==
  ASSUME TypeOK, NEW q \in Request, Step(q), NEW p \in Request, Live(p)'
  PROVE  Live(p) \/ (p = q /\ StartsRun(q))
<1>1. run'[p].stage \in {"spawned", "driving", "ending", "saved"}
  BY DEF Live
<1>2. CASE p # q
  BY <1>1, <1>2, Locality DEF Live
<1>3. CASE p = q
  BY <1>1, <1>3, RunMoves, RunsStay DEF Live
<1> QED
  BY <1>2, <1>3

\* What a step of a request, its run aside, does to how far the request is.
LEMMA StageMoves ==
  ASSUME TypeOK, NEW q \in Request, Step(q), ~Running(q), ~UserAborts(q)
  PROVE  /\ request[q].stage # "done"
         /\ request[q].stage = "started" => RegistersRun(q) /\ request'[q].stage = "done"
         /\ request'[q].stage = "started" <=> StartsRun(q)
         /\ request'[q].stage = "retired" <=> Retires(q)
         /\ request'[q].stage = "alone" => ChecksActive(q) \/ AbortsRun(q) \/ RunHasStopped(q)
         /\ request'[q].stage = "waiting" => AbortsRun(q)
<1>1. request[q] \in RequestState
  BY DEF TypeOK
<1>2. CASE ChannelEnters(q) \/ Resolves(q) \/ ChannelSubmits(q) \/ EntersGate(q)
  <2>1. /\ request[q].stage \in {"arrived", "routing", "checking", "resolved"}
        /\ request'[q].stage \in {"routing", "checking", "resolved", "admitted"}
    BY <1>1, <1>2 DEF ChannelEnters, Resolves, ChannelSubmits, EntersGate, Goto, At, TypeOK,
                      RequestState
  <2> QED
    BY <2>1 DEF StartsRun, Retires, At
<1>3. CASE ChannelRefuses(q) \/ ChannelSteers(q)
  <2>1. request[q].stage = "checking" /\ request'[q].stage \in {"resolved", "done"}
    BY <1>1, <1>3 DEF ChannelRefuses, ChannelSteers, Answer, Goto, At, TypeOK, RequestState
  <2> QED
    BY <2>1 DEF StartsRun, Retires, At
<1>4. CASE ChecksActive(q)
  <2>1. request[q].stage = "admitted" /\ request'[q].stage \in {"alone", "aborting"}
    BY <1>1, <1>4 DEF ChecksActive, Goto, At, TypeOK, RequestState
  <2> QED
    BY <1>4, <2>1 DEF StartsRun, Retires, At
<1>5. CASE AbortsRun(q)
  <2>1. request[q].stage = "aborting" /\ request'[q].stage \in {"alone", "waiting"}
    BY <1>1, <1>5 DEF AbortsRun, Goto, At, TypeOK, RequestState
  <2> QED
    BY <1>5, <2>1 DEF StartsRun, Retires, At
<1>6. CASE RunHasStopped(q)
  <2>1. request[q].stage = "waiting" /\ request'[q].stage = "alone"
    BY <1>1, <1>6 DEF RunHasStopped, Goto, At, TypeOK, RequestState
  <2> QED
    BY <1>6, <2>1 DEF StartsRun, Retires, At
<1>7. CASE StartsRun(q)
  <2>1. request[q].stage = "alone" /\ request[q].does = "prompt" /\ request'[q].stage = "started"
    BY <1>1, <1>7 DEF StartsRun, Goto, At, TypeOK, RequestState
  <2> QED
    BY <1>7, <2>1 DEF Retires
<1>8. CASE Retires(q)
  <2>1. request[q].stage = "alone" /\ request[q].does # "prompt" /\ request'[q].stage = "retired"
    BY <1>1, <1>8 DEF Retires, Goto, At, TypeOK, RequestState
  <2> QED
    BY <1>8, <2>1 DEF StartsRun
<1>9. CASE RegistersRun(q)
  <2>1. request[q].stage = "started" /\ request'[q].stage = "done"
    BY <1>1, <1>9 DEF RegistersRun, Answer, At, TypeOK, RequestState
  <2> QED
    BY <1>9, <2>1 DEF StartsRun, Retires, At
<1>10. CASE WaitTimesOut(q) \/ ClearsOrDeletes(q) \/ CallerLeaves(q)
  <2>1. request[q].stage \notin {"started", "done"} /\ request'[q].stage = "done"
    BY <1>1, <1>10 DEF WaitTimesOut, ClearsOrDeletes, CallerLeaves, Answer, At, TypeOK, RequestState
  <2>2. ~StartsRun(q) /\ ~Retires(q)
    BY <2>1 DEF StartsRun, Retires, Goto, TypeOK, RequestState
  <2> QED
    BY <2>1, <2>2
<1> QED
  BY <1>2, <1>3, <1>4, <1>5, <1>6, <1>7, <1>8, <1>9, <1>10 DEF Step, Routing, Handling

\* Every step keeps what runs say of their requests.
LEMMA BegunStep ==
  ASSUME TypeOK, BegunInv, NEW q \in Request, Step(q)
  PROVE  BegunInv'
<1> SUFFICES ASSUME NEW p \in Request
             PROVE  /\ run'[p].stage # "none" => request'[p].stage \in {"started", "done"}
                    /\ request'[p].stage = "started" => run'[p].stage # "none"
  BY DEF BegunInv
<1>1. CASE p # q
  BY <1>1, Locality DEF BegunInv
<1>2. CASE p = q /\ Running(q)
  BY <1>2, RunMoves, RunningKeepsRequests DEF BegunInv
<1>3. CASE p = q /\ UserAborts(q) /\ ~Running(q)
  <2>1. ~StartsRun(q)
    BY <1>3, RunningKeepsRequests DEF StartsRun, Goto, At, TypeOK, RequestState
  <2> QED
    BY <1>3, <2>1, RunsStay, RunningKeepsRequests DEF BegunInv
<1>4. CASE p = q /\ StartsRun(q)
  BY <1>4 DEF StartsRun, Goto, TypeOK, RequestState, RunState
<1>5. CASE p = q /\ ~Running(q) /\ ~UserAborts(q) /\ ~StartsRun(q)
  BY <1>5, RunsStay, StageMoves DEF BegunInv
<1> QED
  BY <1>1, <1>2, <1>3, <1>4, <1>5

\* What is done to the registry: a completed run is dropped, a run that has not
\* completed is put in, or a run that leaves takes itself out.
LEMMA ActiveMoves ==
  ASSUME TypeOK, NEW q \in Request, Step(q)
  PROVE  \/ \E s \in Session : active' = [active EXCEPT ![s] = ActiveAfterCheck(s)]
         \/ RegistersRun(q) /\ active' = [active EXCEPT ![SessionOf(q)] = q] /\ ~Completed(q)
         \/ /\ RunLeavesRegistry(q)
            /\ active' = [active EXCEPT ![SessionOf(q)] = IF @ = q THEN None ELSE @]
         \/ UNCHANGED active /\ ~RunLeavesRegistry(q)
<1>s. SessionOf(q) \in Session
  BY DEF TypeOK, SessionOf, RequestState
<1>1. CASE ChannelRefuses(q) \/ ChecksActive(q)
  BY <1>1, <1>s DEF ChannelRefuses, ChecksActive
<1>2. CASE RegistersRun(q)
  <2>1. ~RunLeavesRegistry(q)
    BY <1>2 DEF RegistersRun, RunLeavesRegistry, Answer, At, TypeOK, RequestState
  <2> QED
    BY <1>2, <2>1 DEF RegistersRun
<1>3. CASE RunLeavesRegistry(q)
  BY <1>3 DEF RunLeavesRegistry
<1>4. CASE ~ChannelRefuses(q) /\ ~ChecksActive(q) /\ ~RegistersRun(q) /\ ~RunLeavesRegistry(q)
  <2>1. UNCHANGED active
    BY <1>4 DEF Step, Routing, Handling, Running, ChannelEnters, Resolves, ChannelSteers,
                ChannelSubmits, EntersGate, AbortsRun, RunHasStopped, WaitTimesOut, StartsRun,
                Retires, ClearsOrDeletes, RunBuilds, RunBuildsNothing, RunFlushes, RunDrains,
                RunStopsDriving, RunSaves, RunCompletes, UserAborts, CallerLeaves
  <2> QED
    BY <1>4, <2>1
<1> QED
  BY <1>1, <1>2, <1>3, <1>4

\* So what is registered after a step was registered before it, or is the run
\* that the step registers.
LEMMA RegisteredBefore ==
  ASSUME TypeOK, NEW q \in Request, Step(q), NEW s \in Session, active'[s] # None
  PROVE  \/ active[s] = active'[s]
         \/ RegistersRun(q) /\ s = SessionOf(q) /\ active'[s] = q
<1>1. active' \in [Session -> Request \cup {None}] \/ active' = active
  BY ActiveMoves DEF TypeOK, ActiveAfterCheck
<1>2. ASSUME NEW t \in Session, active' = [active EXCEPT ![t] = ActiveAfterCheck(t)]
      PROVE  active[s] = active'[s]
  BY <1>2 DEF TypeOK, ActiveAfterCheck
<1>3. ASSUME RegistersRun(q), active' = [active EXCEPT ![SessionOf(q)] = q]
      PROVE  active[s] = active'[s] \/ (s = SessionOf(q) /\ active'[s] = q)
  BY <1>3 DEF TypeOK
<1>4. ASSUME active' = [active EXCEPT ![SessionOf(q)] = IF @ = q THEN None ELSE @]
      PROVE  active[s] = active'[s]
  BY <1>4 DEF TypeOK
<1> QED
  BY <1>2, <1>3, <1>4, ActiveMoves

\* A request that is answered stays answered.
LEMMA DoneStays ==
  ASSUME TypeOK, NEW q \in Request, Step(q), NEW p \in Request, request[p].stage = "done"
  PROVE  request'[p].stage = "done"
<1>1. CASE p # q
  BY <1>1, Locality
<1>2. CASE p = q
  BY <1>2, StageMoves, RunningKeepsRequests
<1> QED
  BY <1>1, <1>2

\* A run that has begun and is not gone stays so, but where it leaves.
LEMMA BegunStays ==
  ASSUME TypeOK, BegunInv, NEW q \in Request, Step(q), NEW p \in Request, run[p].stage # "none"
  PROVE  /\ run'[p].stage # "none"
         /\ run[p].stage # "gone" /\ run'[p].stage = "gone" => p = q /\ RunLeavesRegistry(q)
<1>1. CASE p # q
  BY <1>1, Locality
<1>2. CASE p = q /\ Running(q)
  BY <1>2, RunMoves
<1>3. CASE p = q /\ ~Running(q)
  <2>1. ~StartsRun(q)
    BY <1>3 DEF BegunInv, StartsRun, At
  <2> QED
    BY <1>3, <2>1, RunsStay
<1> QED
  BY <1>1, <1>2, <1>3

\* Every step keeps the registry invariant.
LEMMA RegistryStep ==
  ASSUME TypeOK, TypeOK', BegunInv, RegistryInv, NEW q \in Request, Step(q)
  PROVE  RegistryInv'
<1> SUFFICES ASSUME NEW s \in Session, NEW r \in Request, active'[s] = r
             PROVE  /\ request'[r].session = s
                    /\ request'[r].stage = "done"
                    /\ run'[r].stage \notin {"none", "gone"}
  <2>1. \A s \in Session : active'[s] # None => active'[s] \in Request
    BY DEF TypeOK
  <2> QED
    BY <2>1 DEF RegistryInv, SessionOf
<1>0. r # None
  BY NoneIsNoRequest
<1>1. CASE active[s] = r
  <2>1. request[r].session = s /\ request[r].stage = "done" /\ run[r].stage \notin {"none", "gone"}
    BY <1>0, <1>1 DEF RegistryInv, SessionOf
  <2>2. ~(r = q /\ RunLeavesRegistry(q))
    BY <1>0, <1>1, <2>1 DEF RunLeavesRegistry, SessionOf, TypeOK
  <2> QED
    BY <2>1, <2>2, RequestsStay, DoneStays, BegunStays
<1>2. CASE active[s] # r /\ RegistersRun(q) /\ s = SessionOf(q) /\ r = q
  <2>1. request[q].stage = "started" /\ request'[q].stage = "done"
    BY <1>2 DEF RegistersRun, Answer, At, TypeOK, RequestState
  <2>2. run' = run /\ ~Completed(q)
    BY <1>2 DEF RegistersRun
  <2> QED
    BY <1>2, <2>1, <2>2, RequestsStay DEF BegunInv, Completed, SessionOf
<1> QED
  BY <1>0, <1>1, <1>2, RegisteredBefore

\* Every step keeps live runs registered.
LEMMA LiveIsRegisteredStep ==
  ASSUME TypeOK, GateInv, BegunInv, AloneInv, LiveIsRegistered, NEW q \in Request, Step(q)
  PROVE  LiveIsRegistered'
<1> SUFFICES ASSUME NEW p \in Request, Live(p)', request'[p].stage # "started"
             PROVE  active'[SessionOf(p)] = p
  BY Locality DEF LiveIsRegistered, At
<1>s. SessionOf(p) \in Session /\ SessionOf(q) \in Session
  BY DEF TypeOK, SessionOf, RequestState
<1>1. Live(p)
  <2>1. StartsRun(q) => request'[q].stage = "started"
    BY DEF StartsRun, Goto, TypeOK, RequestState
  <2> QED
    BY <2>1, LiveStep
<1>2. CASE request[p].stage = "started"
  <2>1. p = q /\ ~Running(q) /\ ~UserAborts(q)
    BY <1>2, Locality, RunningKeepsRequests
  <2>2. RegistersRun(q)
    BY <1>2, <2>1, StageMoves
  <2>3. ~Completed(q)
    BY <1>1, <2>1 DEF Live, Completed
  <2> QED
    BY <1>s, <2>1, <2>2, <2>3 DEF RegistersRun, TypeOK
<1>3. CASE request[p].stage # "started"
  <2>1. active[SessionOf(p)] = p
    BY <1>1, <1>3 DEF LiveIsRegistered, At
  <2>2. ~Completed(p)
    BY <1>1 DEF Live, Completed
  <2>3. ASSUME NEW s \in Session, active' = [active EXCEPT ![s] = ActiveAfterCheck(s)]
        PROVE  active'[SessionOf(p)] = p
    BY <1>s, <2>1, <2>2, <2>3 DEF ActiveAfterCheck, TypeOK
  <2>4. ASSUME RegistersRun(q), active' = [active EXCEPT ![SessionOf(q)] = q]
        PROVE  active'[SessionOf(p)] = p
    <3>1. SessionOf(p) # SessionOf(q) \/ p = q
      BY <1>1, <2>4 DEF AloneInv, RegistersRun, At
    <3> QED
      BY <1>s, <2>1, <2>4, <3>1 DEF TypeOK
  <2>5. ASSUME RunLeavesRegistry(q),
               active' = [active EXCEPT ![SessionOf(q)] = IF @ = q THEN None ELSE @]
        PROVE  active'[SessionOf(p)] = p
    <3>1. p # q
      BY <1>1, <2>5 DEF RunLeavesRegistry, Live
    <3> QED
      BY <1>s, <2>1, <2>5, <3>1 DEF TypeOK
  <2> QED
    BY <2>1, <2>3, <2>4, <2>5, ActiveMoves
<1> QED
  BY <1>2, <1>3

\* Every step keeps what the requests inside know.
LEMMA AloneStep ==
  ASSUME TypeOK, GateInv, BegunInv, AloneInv, LiveIsRegistered, NEW q \in Request, Step(q)
  PROVE  AloneInv'
<1> SUFFICES ASSUME NEW p \in Request, NEW r \in Request, SessionOf(p) = SessionOf(r), Live(r)'
             PROVE  /\ request'[p].stage \notin {"alone", "retired"}
                    /\ request'[p].stage = "waiting" => r = request'[p].waits
                    /\ request'[p].stage = "started" => r = p
  BY Locality DEF AloneInv
<1>s. SessionOf(p) \in Session
  BY DEF TypeOK, SessionOf, RequestState
<1>1. CASE ~Live(r)
  <2>1. r = q /\ StartsRun(q)
    BY <1>1, LiveStep
  <2>2. request[q].stage = "alone" /\ request'[q].stage = "started"
    BY <2>1 DEF StartsRun, Goto, At, TypeOK, RequestState
  <2>3. CASE p = q
    BY <2>1, <2>2, <2>3
  <2>4. CASE p # q
    <3>1. request'[p] = request[p]
      BY <2>4, Locality
    <3>2. request[p].stage \notin Inside
      BY <2>1, <2>2, <2>4, OneInside DEF Inside
    <3> QED
      BY <3>1, <3>2 DEF Inside
  <2> QED
    BY <2>3, <2>4
<1>2. CASE Live(r) /\ (p # q \/ Running(q) \/ UserAborts(q))
  <2>1. request'[p] = request[p]
    BY <1>2, Locality, RunningKeepsRequests
  <2> QED
    BY <1>2, <2>1 DEF AloneInv
<1>3. CASE Live(r) /\ p = q /\ ~Running(q) /\ ~UserAborts(q)
  <2>1. /\ request[q].stage \notin {"alone", "retired"}
        /\ request[q].stage = "waiting" => r = request[q].waits
        /\ request[q].stage = "started" => r = q
    BY <1>3 DEF AloneInv
  <2>2. ~Completed(r)
    BY <1>3 DEF Live, Completed
  <2>3. ~StartsRun(q) /\ ~Retires(q)
    BY <2>1 DEF StartsRun, Retires, At
  <2>4. ~RunHasStopped(q)
    BY <2>1, <2>2 DEF RunHasStopped, At
  <2>5. ASSUME request[q].stage \in {"admitted", "aborting"}
        PROVE  active[SessionOf(q)] = r
    <3>1. request[r].stage # "started"
      BY <1>3, <2>5, OneInside DEF Inside
    <3> QED
      BY <1>3, <3>1 DEF LiveIsRegistered, At
  <2>6. CASE ChecksActive(q)
    <3>1. active[SessionOf(q)] = r
      BY <2>5, <2>6 DEF ChecksActive, At
    <3>2. ActiveAfterCheck(SessionOf(q)) # None
      BY <2>2, <3>1, NoneIsNoRequest DEF ActiveAfterCheck
    <3>3. request'[q].stage = "aborting"
      BY <2>6, <3>2 DEF ChecksActive, Goto, TypeOK, RequestState
    <3> QED
      BY <1>3, <3>3
  <2>7. CASE AbortsRun(q)
    <3>1. active[SessionOf(q)] = r
      BY <2>5, <2>7 DEF AbortsRun, At
    <3>2. request' = [request EXCEPT ![q].stage = "waiting", ![q].waits = r]
      BY <2>7, <3>1, NoneIsNoRequest DEF AbortsRun
    <3>3. request'[q].stage = "waiting" /\ request'[q].waits = r
      BY <3>2 DEF TypeOK, RequestState
    <3> QED
      BY <1>3, <3>3
  <2>8. CASE ~ChecksActive(q) /\ ~AbortsRun(q)
    BY <1>3, <2>3, <2>4, <2>8, StageMoves
  <2> QED
    BY <2>6, <2>7, <2>8
<1> QED
  BY <1>1, <1>2, <1>3

\* Only a clear or a deletion wipes anything.
LEMMA WipedMoves ==
  ASSUME NEW q \in Request, Step(q), ~ClearsOrDeletes(q)
  PROVE  UNCHANGED wiped
  BY DEF Step, Routing, Handling, Running, ChannelEnters, Resolves, ChannelRefuses, ChannelSteers,
         ChannelSubmits, EntersGate, ChecksActive, AbortsRun, RunHasStopped, WaitTimesOut,
         StartsRun, RegistersRun, Retires, RunBuilds, RunBuildsNothing, RunFlushes, RunDrains,
         RunStopsDriving, RunSaves, RunCompletes, RunLeavesRegistry, UserAborts, CallerLeaves

\* Every step keeps what was wiped over.
LEMMA WipedStep ==
  ASSUME TypeOK, BegunInv, AloneInv, WipedInv, NEW q \in Request, Step(q)
  PROVE  WipedInv'
<1> SUFFICES ASSUME NEW s \in Session, NEW r \in Request, r \in wiped'[s]
             PROVE  request'[r].session = s /\ run'[r].stage # "none" /\ ~Live(r)'
  <2>1. \A s \in Session : wiped'[s] \subseteq Request
    <3>1. CASE ClearsOrDeletes(q)
      BY <3>1 DEF ClearsOrDeletes, TypeOK, Begun
    <3> QED
      BY <3>1, WipedMoves DEF TypeOK
  <2> QED
    BY <2>1 DEF WipedInv, SessionOf
<1>1. request[r].session = s /\ run[r].stage # "none" /\ ~Live(r)
  <2>1. CASE r \in wiped[s]
    BY <2>1 DEF WipedInv, SessionOf
  <2>2. CASE r \notin wiped[s]
    <3>1. ClearsOrDeletes(q)
      BY <2>2, WipedMoves
    <3>2. s = SessionOf(q) /\ r \in Begun(s)
      BY <2>2, <3>1 DEF ClearsOrDeletes, TypeOK
    <3>3. request[q].stage = "retired"
      BY <3>1 DEF ClearsOrDeletes, At
    <3> QED
      BY <3>2, <3>3 DEF Begun, AloneInv, SessionOf
  <2> QED
    BY <2>1, <2>2
<1>2. ~StartsRun(r) \/ r # q
  BY <1>1 DEF BegunInv, StartsRun, At
<1> QED
  BY <1>1, <1>2, RequestsStay, BegunStays, LiveStep

\* Only a run that builds acquires a process manager.
LEMMA ManagersMoves ==
  ASSUME NEW q \in Request, Step(q), ~RunBuilds(q)
  PROVE  managers' \subseteq managers
  BY DEF Step, Routing, Handling, Running, ChannelEnters, Resolves, ChannelRefuses, ChannelSteers,
         ChannelSubmits, EntersGate, ChecksActive, AbortsRun, RunHasStopped, WaitTimesOut,
         StartsRun, RegistersRun, Retires, ClearsOrDeletes, RunBuildsNothing, RunFlushes,
         RunDrains, RunStopsDriving, RunSaves, RunCompletes, RunLeavesRegistry, UserAborts,
         CallerLeaves

\* Every step keeps retired sessions without a manager.
LEMMA RetiredStep ==
  ASSUME TypeOK, AloneInv, RetiredStaysRetired, NEW q \in Request, Step(q)
  PROVE  RetiredStaysRetired'
<1> SUFFICES ASSUME NEW p \in Request, request'[p].stage = "retired"
             PROVE  SessionOf(p) \notin managers'
  BY Locality DEF RetiredStaysRetired, At
<1>1. CASE p = q /\ Retires(q)
  BY <1>1 DEF Retires
<1>2. CASE request[p].stage = "retired" /\ RunBuilds(q)
  <2>1. Live(q)
    BY <1>2 DEF RunBuilds, Live
  <2>2. SessionOf(p) # SessionOf(q)
    BY <1>2, <2>1 DEF AloneInv
  <2> QED
    BY <1>2, <2>2 DEF RunBuilds, RetiredStaysRetired, At
<1>3. CASE request[p].stage = "retired" /\ ~RunBuilds(q)
  BY <1>3, ManagersMoves DEF RetiredStaysRetired, At
<1>4. request[p].stage = "retired" \/ (p = q /\ Retires(q))
  BY Locality, StageMoves, RunningKeepsRequests
<1> QED
  BY <1>1, <1>2, <1>3, <1>4

\* What a step puts in storage: nothing, an empty context, the turns that were
\* there, or those and one of a live run.
LEMMA StoredMoves ==
  ASSUME TypeOK, NEW q \in Request, Step(q), NEW s \in Session
  PROVE  \/ stored'[s] \in {None, {}, Opened(s)}
         \/ Live(q) /\ SessionOf(q) = s /\ stored'[s] = Opened(s) \cup {q}
         \/ stored'[s] = stored[s]
<1>1. CASE Resolves(q) \/ StartsRun(q) \/ RunSaves(q)
  BY <1>1 DEF Resolves, StartsRun, RunSaves, TypeOK
<1>2. CASE RunFlushes(q)
  BY <1>2 DEF RunFlushes, Live, TypeOK
<1>3. CASE ClearsOrDeletes(q)
  BY <1>3 DEF ClearsOrDeletes, TypeOK
<1>4. CASE ~(Resolves(q) \/ StartsRun(q) \/ RunSaves(q) \/ RunFlushes(q) \/ ClearsOrDeletes(q))
  <2>1. UNCHANGED stored
    BY <1>4 DEF Step, Routing, Handling, Running, ChannelEnters, ChannelRefuses, ChannelSteers,
                ChannelSubmits, EntersGate, ChecksActive, AbortsRun, RunHasStopped, WaitTimesOut,
                RegistersRun, Retires, RunBuilds, RunBuildsNothing, RunDrains, RunStopsDriving,
                RunCompletes, RunLeavesRegistry, UserAborts, CallerLeaves
  <2> QED
    BY <2>1
<1> QED
  BY <1>1, <1>2, <1>3, <1>4

\* Every step keeps what was wiped out of storage.
LEMMA ClearedStep ==
  ASSUME TypeOK, WipedInv, ClearedStaysCleared, NEW q \in Request, Step(q)
  PROVE  ClearedStaysCleared'
<1> SUFFICES ASSUME NEW s \in Session, stored'[s] # None
             PROVE  stored'[s] \cap wiped'[s] = {}
  BY DEF ClearedStaysCleared
<1>1. CASE ClearsOrDeletes(q)
  <2>1. CASE s = SessionOf(q)
    BY <1>1, <2>1 DEF ClearsOrDeletes, TypeOK
  <2>2. CASE s # SessionOf(q)
    BY <1>1, <2>2 DEF ClearsOrDeletes, TypeOK, ClearedStaysCleared
  <2> QED
    BY <2>1, <2>2
<1>2. CASE ~ClearsOrDeletes(q)
  <2>1. wiped'[s] = wiped[s]
    BY <1>2, WipedMoves
  <2>2. Opened(s) \cap wiped[s] = {}
    BY DEF Opened, ClearedStaysCleared
  <2>3. Live(q) /\ SessionOf(q) = s => q \notin wiped[s]
    BY DEF WipedInv
  <2> QED
    BY <2>1, <2>2, <2>3, StoredMoves DEF ClearedStaysCleared
<1> QED
  BY <1>1, <1>2

-----------------------------------------------------------------------------
(***************************************************************************)
(* The theorems.                                                           *)
(***************************************************************************)

\* The invariant is inductive.
THEOREM Invariance == Spec => []Inv
<1>1. Init => Inv
  <2> SUFFICES ASSUME Init PROVE Inv
    OBVIOUS
  <2>1. \A q \in Request : request[q].stage = "arrived" /\ run[q].stage = "none"
    BY DEF Init, NoRun
  <2>2. \A q \in Request : ~Live(q)
    BY <2>1 DEF Live
  <2> QED
    BY <2>1, <2>2 DEF Init, Inv, GateInv, BegunInv, RegistryInv, AloneInv, WipedInv, Inside,
                      LiveIsRegistered, RetiredStaysRetired, ClearedStaysCleared, At
<1>2. TypeOK /\ TypeOK' /\ Inv /\ [Next]_vars => Inv'
  <2> SUFFICES ASSUME TypeOK, TypeOK', Inv, [Next]_vars PROVE Inv'
    OBVIOUS
  <2>1. CASE UNCHANGED vars
    BY <2>1 DEF vars, Inv, GateInv, BegunInv, RegistryInv, AloneInv, WipedInv, LiveIsRegistered,
                RetiredStaysRetired, ClearedStaysCleared, At, Live, SessionOf, LifecycleGate
  <2>2. CASE Next
    <3> PICK q \in Request : Step(q)
      BY <2>2 DEF Next, Step
    <3> QED
      BY GateStep, BegunStep, RegistryStep, LiveIsRegisteredStep, AloneStep, WipedStep,
         RetiredStep, ClearedStep DEF Inv
  <2> QED
    BY <2>1, <2>2
<1> QED
  BY <1>1, <1>2, TypeCorrect, PTL DEF Spec

\* Neither the gate, nor a wait that the request abandons, lets a run start, or
\* a session be cleared or deleted, while another run of the session is alive.
THEOREM OneRunAtATime == Spec => []OneAtATime
<1>1. TypeOK /\ Inv => OneAtATime
  <2> SUFFICES ASSUME TypeOK, Inv, NEW q \in Request, NEW r \in Request,
                      SessionOf(q) = SessionOf(r), Live(r)
               PROVE  /\ Live(q) => q = r
                      /\ request[q].stage \notin {"alone", "retired"}
    BY DEF OneAtATime
  <2>1. request[q].stage \notin {"alone", "retired"}
    BY DEF Inv, AloneInv
  <2>2. ASSUME Live(q) PROVE q = r
    <3>1. CASE At(q, "started") \/ At(r, "started")
      BY <2>2, <3>1 DEF Inv, AloneInv, At
    <3>2. CASE ~At(q, "started") /\ ~At(r, "started")
      BY <2>2, <3>2 DEF Inv, LiveIsRegistered
    <3> QED
      BY <3>1, <3>2
  <2> QED
    BY <2>1, <2>2
<1> QED
  BY <1>1, TypeCorrect, Invariance, PTL

\* Abort finds every live run, whichever of its predecessors leaves late.
THEOREM LiveRunsAreFound == Spec => []LiveIsRegistered
<1>1. Inv => LiveIsRegistered
  BY DEF Inv
<1> QED
  BY <1>1, Invariance, PTL

\* The check under the registry's lock closes the race it names.
THEOREM FinishedRunsLeave == Spec => []FinishedIsNotRegistered
<1>1. Inv => FinishedIsNotRegistered
  BY DEF Inv, RegistryInv, FinishedIsNotRegistered
<1> QED
  BY <1>1, Invariance, PTL

\* No manager is acquired between a session's retirement and its end.
THEOREM RetiredSessionsStayRetired == Spec => []RetiredStaysRetired
<1>1. Inv => RetiredStaysRetired
  BY DEF Inv
<1> QED
  BY <1>1, Invariance, PTL

\* No run outlives a clear or a deletion.
THEOREM ClearedSessionsStayCleared == Spec => []ClearedStaysCleared
<1>1. Inv => ClearedStaysCleared
  BY DEF Inv
<1> QED
  BY <1>1, Invariance, PTL

\* The registry names exactly the runs that can still be aborted or steered.
THEOREM RegistryExactness == Spec => []RegistryIsExact
<1>1. LiveIsRegistered /\ FinishedIsNotRegistered => RegistryIsExact
  BY DEF RegistryIsExact
<1> QED
  BY <1>1, LiveRunsAreFound, FinishedRunsLeave, PTL

\* What a clear or a deletion ends stays ended.
THEOREM ClearsAreFinal == Spec => []GoneStaysGone
<1>1. RetiredStaysRetired /\ ClearedStaysCleared => GoneStaysGone
  BY DEF GoneStaysGone
<1> QED
  BY <1>1, RetiredSessionsStayRetired, ClearedSessionsStayCleared, PTL


-----------------------------------------------------------------------------
(***************************************************************************)
(* The registry of process managers keeps whatever still matters.           *)
(***************************************************************************)


Record ==
  [manager : Nat, status : Living \cup {"none", "ended"}, claimed : BOOLEAN, asked : BOOLEAN]

ManagersTypeOK ==
  /\ registry \in [SessionId -> Nat]
  /\ made \in Nat
  /\ command \in [Command -> Record]
  /\ turn \in [SessionId -> Nat]

\* What a command has come to still matters to somebody.
Matters(r) == r.status \in Living \/ (r.status = "ended" /\ ~r.claimed)

\* A command that lives although it was asked to stop ends in its table: what
\* is let go has none that live, asked or not.
MattersIsKept ==
  \A c \in Command : Matters(command[c]) => command[c].manager \in Registered \cup retired

ManagersInv == ManagersTypeOK /\ LivingCanBeFound /\ MattersIsKept /\ TurnsAreReached

\* What a step may make of a command without anything being lost by it.
Milder(old, new) ==
  /\ new \in Record
  /\ Matters(new) => new.manager = old.manager /\ Matters(old)
  /\ new.status \in Living /\ ~new.asked => old.status \in Living /\ ~old.asked

(* Asking commands to stop changes nothing else.                             *)
LEMMA StoppedIsMilder ==
  ASSUME NEW f \in [Command -> Record], NEW those
  PROVE  /\ Stopped(f, those) \in [Command -> Record]
         /\ \A c \in Command : Milder(f[c], Stopped(f, those)[c])
  <1>1. \A d \in Command : Stopped(f, those)[d] \in Record
    BY DEF Stopped, Record
  <1>2. Stopped(f, those) \in [Command -> Record]
    BY <1>1 DEF Stopped
  <1>3. \A c \in Command : Milder(f[c], Stopped(f, those)[c])
    BY DEF Stopped, Record, Milder, Matters
  <1> QED BY <1>2, <1>3

(* Taking notices claims what has ended.                                     *)
LEMMA HeardIsMilder ==
  ASSUME ManagersTypeOK, NEW m
  PROVE  /\ Heard(m) \in [Command -> Record]
         /\ \A c \in Command : Milder(command[c], Heard(m)[c])
  <1>1. \A d \in Command : Heard(m)[d] \in Record
    BY DEF Heard, Record, ManagersTypeOK
  <1>2. Heard(m) \in [Command -> Record]
    BY <1>1 DEF Heard
  <1>3. \A c \in Command : Milder(command[c], Heard(m)[c])
    BY DEF Heard, Record, ManagersTypeOK, Milder, Matters, Living
  <1> QED BY <1>2, <1>3

LEMMA MilderIsTransitive ==
  ASSUME NEW r, NEW s, NEW t, Milder(r, s), Milder(s, t)
  PROVE  Milder(r, t)
  BY DEF Milder

(* A manager that is borrowed, or has a command that matters, stays; and who *)
(* acquires one has the one that is registered.                              *)
LEMMA AcquireKeeps ==
  ASSUME ManagersTypeOK, NEW s \in SessionId, NEW m \in Nat, Acquire(s, m)
  PROVE  /\ registry' \in [SessionId -> Nat]
         /\ made' \in Nat
         /\ m # NoManager => registry'[s] = m
         /\ \A t \in SessionId :
              registry[t] # NoManager /\ (\/ registry[t] \in Borrowed
                                          \/ \E c \in Of(registry[t]) : Matters(command[c]))
                => registry'[t] = registry[t]
  <1> DEFINE stays(t) == registry[t] # NoManager /\ (\/ registry[t] \in Borrowed
                                                     \/ \E c \in Of(registry[t]) : Matters(command[c]))
             kept == Without(registry, {t \in SessionId : registry[t] # NoManager /\ ~Kept(registry[t])})
  <1>1. kept \in [SessionId -> Nat]
    BY DEF Without, ManagersTypeOK, NoManager
  <1>2. ASSUME NEW t \in SessionId, stays(t)
        PROVE  /\ kept[t] = registry[t]
               /\ ~Reclaimable(kept[t])
    <2>1. kept[t] = registry[t]
      BY <1>2 DEF Without, Kept, IsIdle
    <2>2. ~Reclaimable(registry[t])
      BY <1>2 DEF Reclaimable, IsReclaimable, Matters, Living
    <2> QED BY <2>1, <2>2
  <1>3. CASE kept[s] # NoManager
    BY <1>1, <1>2, <1>3 DEF Acquire, ManagersTypeOK
  <1>4. CASE kept[s] = NoManager
    <2>1. PICK gone \in Reclaims(kept) :
            LET rest == Without(kept, gone)
            IN IF Full(rest)
               THEN m = NoManager /\ registry' = rest /\ made' = made
               ELSE /\ made < MaxMade
                    /\ m = made + 1 /\ made' = m
                    /\ registry' = [rest EXCEPT ![s] = m]
      BY <1>4 DEF Acquire
    <2> DEFINE rest == Without(kept, gone)
    <2>2. rest \in [SessionId -> Nat]
      BY <1>1 DEF Without, NoManager
    <2>3. \A t \in gone : Reclaimable(kept[t])
      BY DEF Reclaims
    <2>4. \A t \in SessionId : stays(t) => rest[t] = registry[t] /\ t # s
      BY <1>2, <1>4, <2>3 DEF Without, NoManager
    <2> HIDE DEF rest, kept
    <2> QED BY <2>1, <2>2, <2>4 DEF rest, ManagersTypeOK
  <1> QED BY <1>3, <1>4

(* Where commands only get milder, and no registration is lost that they or  *)
(* a turn need, the invariant goes on.                                       *)
LEMMA NothingIsLost ==
  ASSUME ManagersInv,
         registry' \in [SessionId -> Nat], made' \in Nat, turn' \in [SessionId -> Nat],
         DOMAIN command' = Command,
         command' = [c \in Command |-> command'[c]],
         \A c \in Command : Milder(command[c], command'[c]),
         retired \subseteq retired',
         \A t \in SessionId : registry[t] # NoManager
             /\ (\E c \in Of(registry[t]) : Matters(command[c])) => registry'[t] = registry[t],
         \A t \in SessionId : turn'[t] # NoManager => registry'[t] = turn'[t]
  PROVE  ManagersInv'
  <1>1. ManagersTypeOK'
    BY DEF ManagersTypeOK, ManagersInv, Milder
  <1>2. ASSUME NEW c \in Command, Matters(command[c]), command[c].manager \in Registered
        PROVE  command[c].manager \in Registered'
    <2>1. PICK t \in SessionId : registry[t] = command[c].manager /\ registry[t] # NoManager
      BY <1>2 DEF Registered
    <2>2. registry'[t] = registry[t]
      BY <2>1, <1>2 DEF Of
    <2> QED BY <2>1, <2>2 DEF Registered
  <1>3. LivingCanBeFound'
    BY <1>2 DEF LivingCanBeFound, ManagersInv, Milder, Matters
  <1>4. MattersIsKept'
    BY <1>2 DEF MattersIsKept, ManagersInv, Milder
  <1>5. TurnsAreReached'
    BY DEF TurnsAreReached
  <1> QED BY <1>1, <1>3, <1>4, <1>5 DEF ManagersInv

-----------------------------------------------------------------------------
LEMMA ManagersInitInv == RegistryInit => ManagersInv
  <1> SUFFICES ASSUME RegistryInit PROVE ManagersInv
    OBVIOUS
  <1>1. ManagersTypeOK
    BY DEF RegistryInit, ManagersTypeOK, Record, NoCommand, NoManager
  <1>2. \A c \in Command : command[c].status = "none"
    BY DEF RegistryInit, NoCommand
  <1> QED
    BY <1>1, <1>2 DEF ManagersInv, LivingCanBeFound, MattersIsKept, Matters, TurnsAreReached,
                      Living, RegistryInit

(* Whatever the commands were made into, what nobody holds is asked to stop. *)
LEMMA SettleIsMilder ==
  ASSUME ManagersTypeOK, NEW f \in [Command -> Record], NEW shut,
         \A c \in Command : Milder(command[c], f[c]),
         Settle(f, shut)
  PROVE  /\ DOMAIN command' = Command
         /\ command' = [c \in Command |-> command'[c]]
         /\ \A c \in Command : Milder(command[c], command'[c])
  <1>1. command' = Stopped(f, Held \ Held')
    BY DEF Settle
  <1>2. command' \in [Command -> Record]
    BY <1>1, StoppedIsMilder, Zenon DEF Stopped
  <1>3. ASSUME NEW c \in Command PROVE Milder(command[c], command'[c])
    BY <1>1, StoppedIsMilder, MilderIsTransitive
  <1> QED BY <1>2, <1>3

LEMMA MilderIsReflexive ==
  ASSUME ManagersTypeOK
  PROVE  command \in [Command -> Record] /\ \A c \in Command : Milder(command[c], command[c])
  BY DEF ManagersTypeOK, Milder

LEMMA ManagersStepInv == ManagersInv /\ [RegistryNext]_registryVars => ManagersInv'
  <1> SUFFICES ASSUME ManagersInv, [RegistryNext]_registryVars PROVE ManagersInv'
    OBVIOUS
  <1> USE DEF NoManager
  <1>a. ManagersTypeOK
    BY DEF ManagersInv
  <1>b. \A t \in SessionId : turn[t] # 0 => turn[t] = registry[t] /\ turn[t] \in Borrowed
    <2> TAKE t \in SessionId
    <2>1. turn[t] \in UNION {{turn[s], guest[s], retiring[s]} : s \in SessionId}
      OBVIOUS
    <2> QED
      BY <2>1 DEF ManagersInv, TurnsAreReached, Borrowed
  <1>1. ASSUME NEW s \in SessionId, TurnBuilds(s) PROVE ManagersInv'
    <2>1. PICK m \in 0 .. MaxMade :
            /\ Acquire(s, m)
            /\ turn' = [turn EXCEPT ![s] = m]
            /\ UNCHANGED <<guest, retiring, retired, exit>>
            /\ Settle(Heard(m), closed)
      BY <1>1 DEF TurnBuilds
    <2>2. m \in Nat
      OBVIOUS
    <2>3. turn' \in [SessionId -> Nat]
      BY <2>1, <2>2, <1>a DEF ManagersTypeOK
    <2>4. \A t \in SessionId : turn'[t] # 0 => registry'[t] = turn'[t]
      BY <2>1, <2>2, <1>a, <1>b, AcquireKeeps DEF ManagersTypeOK
    <2> QED
      BY <2>1, <2>2, <2>3, <2>4, <1>a, AcquireKeeps, HeardIsMilder, SettleIsMilder,
         NothingIsLost
  <1>2. ASSUME NEW s \in SessionId, DumpBuilds(s) PROVE ManagersInv'
    <2>1. PICK m \in 0 .. MaxMade :
            Acquire(s, m) /\ guest' = [guest EXCEPT ![s] = m]
      BY <1>2 DEF DumpBuilds
    <2>2. m \in Nat
      OBVIOUS
    <2>3. turn' = turn /\ retired' = retired /\ Settle(command, closed)
      BY <1>2 DEF DumpBuilds
    <2>4. \A t \in SessionId : turn'[t] # 0 => registry'[t] = turn'[t]
      BY <2>1, <2>2, <2>3, <1>a, <1>b, AcquireKeeps
    <2> QED
      BY <2>1, <2>2, <2>3, <2>4, <1>a, AcquireKeeps, MilderIsReflexive, SettleIsMilder,
         NothingIsLost DEF ManagersTypeOK
  \* The other steps register nobody; a retirement is the only one to take off.
  <1>3. ASSUME registry' = registry, made' = made, retired' = retired,
               turn' \in [SessionId -> Nat],
               \A t \in SessionId : turn'[t] # 0 => turn'[t] = turn[t],
               command' \in [Command -> Record],
               \A c \in Command : Milder(command[c], command'[c])
        PROVE  ManagersInv'
    <2>1. \A t \in SessionId : turn'[t] # 0 => registry'[t] = turn'[t]
      BY <1>3, <1>b
    <2> QED
      BY <1>3, <2>1, <1>a, NothingIsLost DEF ManagersTypeOK
  <1>4. ASSUME NEW s \in SessionId, TurnHears(s) PROVE ManagersInv'
    BY <1>4, <1>3, <1>a, HeardIsMilder DEF TurnHears, ManagersTypeOK
  <1>5. ASSUME registry' = registry, made' = made, retired' = retired,
               turn' \in [SessionId -> Nat],
               \A t \in SessionId : turn'[t] # 0 => turn'[t] = turn[t],
               NEW f \in [Command -> Record], NEW shut,
               \A c \in Command : Milder(command[c], f[c]),
               Settle(f, shut)
        PROVE  ManagersInv'
    BY <1>5, <1>3, <1>a, SettleIsMilder DEF Milder
  <1>6. ASSUME NEW s \in SessionId, TurnEnds(s) PROVE ManagersInv'
    BY <1>6, <1>5, <1>a, MilderIsReflexive DEF TurnEnds, ManagersTypeOK
  <1>7. ASSUME NEW s \in SessionId, GuestLeaves(s) PROVE ManagersInv'
    BY <1>7, <1>5, <1>a, MilderIsReflexive DEF GuestLeaves, ManagersTypeOK
  <1>8. ASSUME NEW s \in SessionId, RetireEnds(s) PROVE ManagersInv'
    BY <1>8, <1>5, <1>a, MilderIsReflexive DEF RetireEnds, ManagersTypeOK
  <1>9. ASSUME ExitKills PROVE ManagersInv'
    <2>1. Settle(Stopped(command, exit), closed \cup exit)
      BY <1>9 DEF ExitKills
    <2> QED
      BY <1>9, <2>1, <1>5, <1>a, StoppedIsMilder DEF ExitKills, ManagersTypeOK
  <1>10. ASSUME ExitLists PROVE ManagersInv'
    BY <1>10, <1>3, <1>a, MilderIsReflexive DEF ExitLists, ManagersTypeOK
  <1>11. ASSUME NEW s \in SessionId, UserMovesAside(s) PROVE ManagersInv'
    <2>1. \A c \in Command : command'[c] \in Record /\ Milder(command[c], command'[c])
      BY <1>11, <1>a DEF UserMovesAside, ManagersTypeOK, Record, Milder, Matters, Living
    <2>2. command' \in [Command -> Record]
      BY <1>11, <2>1 DEF UserMovesAside
    <2> QED
      BY <1>11, <2>1, <2>2, <1>3, <1>a DEF UserMovesAside, ManagersTypeOK
  <1>12. ASSUME NEW s \in SessionId, UserStops(s) PROVE ManagersInv'
    <2>1. PICK some \in SUBSET Command :
            command' = [c \in Command |-> IF c \in some THEN [command[c] EXCEPT !.asked = TRUE]
                                          ELSE command[c]]
      BY <1>12 DEF UserStops, Of
    <2>2. \A c \in Command : command'[c] \in Record /\ Milder(command[c], command'[c])
      BY <2>1, <1>a DEF ManagersTypeOK, Record, Milder, Matters, Living
    <2>3. command' \in [Command -> Record]
      BY <2>1, <2>2
    <2> QED
      BY <1>12, <2>2, <2>3, <1>3, <1>a DEF UserStops, ManagersTypeOK
  <1>13. ASSUME NEW s \in SessionId, Retire(s) PROVE ManagersInv'
    <2>1. command' \in [Command -> Record] /\ \A c \in Command : Milder(command[c], command'[c])
      BY <1>13, <1>a, StoppedIsMilder DEF Retire, ManagersTypeOK
    <2>2. ManagersTypeOK'
      BY <1>13, <2>1, <1>a DEF Retire, ManagersTypeOK
    <2>3. Registered \subseteq Registered' \cup {registry[s]}
      BY <1>13, <1>a DEF Retire, Registered, ManagersTypeOK
    <2>4. \A c \in Command : command[c].manager = registry[s] /\ command'[c].status \in Living
             => command'[c].asked
      BY <1>13, <1>a DEF Retire, Stopped, ManagersTypeOK, Record, Living
    <2>5. LivingCanBeFound'
      BY <2>1, <2>3, <2>4 DEF LivingCanBeFound, ManagersInv, Milder, Matters
    <2>6. MattersIsKept'
      BY <1>13, <2>1, <2>3 DEF MattersIsKept, ManagersInv, Milder, Retire
    <2>7. TurnsAreReached'
      BY <1>13, <1>a DEF TurnsAreReached, ManagersInv, Retire, ManagersTypeOK
    <2> QED BY <2>2, <2>5, <2>6, <2>7 DEF ManagersInv
  <1>14. ASSUME NEW c \in Command, CommandEnds(c) PROVE ManagersInv'
    <2>1. ManagersTypeOK'
      BY <1>14, <1>a DEF CommandEnds, ManagersTypeOK, Record, NoCommand, Living
    <2>2. \A d \in Command : Matters(command'[d]) =>
             Matters(command[d]) /\ command'[d].manager = command[d].manager
      BY <1>14, <1>a DEF CommandEnds, ManagersTypeOK, Record, NoCommand, Living, Matters
    <2>3. \A d \in Command : command'[d].status \in Living => command'[d] = command[d]
      BY <1>14, <1>a DEF CommandEnds, ManagersTypeOK, Record, NoCommand, Living
    <2>4. Registered' = Registered /\ retired' = retired
      BY <1>14 DEF CommandEnds, Registered
    <2>5. TurnsAreReached'
      BY <1>14 DEF TurnsAreReached, ManagersInv, CommandEnds
    <2> QED
      BY <2>1, <2>2, <2>3, <2>4, <2>5 DEF ManagersInv, LivingCanBeFound, MattersIsKept
  <1>15. ASSUME NEW s \in SessionId, NEW c \in Command, TurnStarts(s, c) PROVE ManagersInv'
    <2>1. PICK old \in SUBSET Command, how \in Living :
            command' = [d \in Command |->
              IF d = c THEN [NoCommand EXCEPT !.manager = turn[s], !.status = how]
              ELSE IF d \in old THEN NoCommand ELSE command[d]]
      BY <1>15 DEF TurnStarts, Living, Of
    <2>2. turn[s] # 0 /\ turn[s] \in Registered
      BY <1>15, <1>b DEF TurnStarts, Registered
    <2>3. Registered' = Registered /\ retired' = retired
      BY <1>15 DEF TurnStarts, Registered
    <2>4. ManagersTypeOK'
      BY <1>15, <2>1, <1>a DEF TurnStarts, ManagersTypeOK, Record, NoCommand, Living
    <2>5. \A d \in Command : Matters(command'[d]) \/ command'[d].status \in Living =>
             command'[d] = command[d] \/ command'[d].manager = turn[s]
      BY <2>1, <1>a DEF ManagersTypeOK, Record, NoCommand, Living, Matters
    <2>6. TurnsAreReached'
      BY <1>15 DEF TurnsAreReached, ManagersInv, TurnStarts
    <2> QED
      BY <2>2, <2>3, <2>4, <2>5, <2>6 DEF ManagersInv, LivingCanBeFound, MattersIsKept
  <1>16. CASE UNCHANGED registryVars
    BY <1>16, <1>3, <1>a, MilderIsReflexive DEF registryVars, ManagersTypeOK
  <1> QED
    BY <1>1, <1>2, <1>4, <1>6, <1>7, <1>8, <1>9, <1>10, <1>11, <1>12, <1>13, <1>14, <1>15,
       <1>16 DEF RegistryNext

(* However many sessions come and go, a manager whose commands live or whose *)
(* notices are unheard is registered, and so is the one a turn works with.   *)
THEOREM ManagersStay == RegistrySpec => []ManagersAreKept
  <1>1. ManagersInv => ManagersAreKept
    BY DEF ManagersInv, ManagersAreKept, MattersIsKept, UnheardIsKept, Matters
  <1> QED BY <1>1, ManagersInitInv, ManagersStepInv, PTL DEF RegistrySpec
==============================================================================
