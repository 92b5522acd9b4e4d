----------------------------- MODULE RunDelivery -----------------------------
(***************************************************************************)
(* A run from the engine to its consumer (app/src/agent/run/runtime.rs,     *)
(* projection.rs, run.rs, engine/src/runner/event_sink.rs).                 *)
(*                                                                         *)
(* The engine sends its events into a bounded channel; the run loop takes   *)
(* one at a time, projects it to what is saved and what is shown, saves     *)
(* turn by turn and shows through the outbox.  The consumer may be slow,    *)
(* abort, or leave at any moment.  What the transcript does with a write,   *)
(* and conflicts between its writers, is module Transcript.                 *)
(***************************************************************************)
EXTENDS Outbox

CONSTANTS
  Script,        \* the engine's events if nobody cancels: <<kind, id>> each
  Closing,       \* where in Script a cancelled engine goes on
  SinkCapacity,  \* mpsc::channel(64)
  Payload        \* payload bytes of a public event, by kind

\* Events nothing is shown of; all others have a public event, with its payload.
Silent == {"turn_end", "user", "agent_end"}

ASSUME ScriptEnds ==
  /\ Script \in Seq((DOMAIN Payload \cup Silent) \X Nat)
  /\ Closing \in 1..Len(Script)
  /\ \A i \in 1..Len(Script) : Script[i][1] = "agent_end" <=> i = Len(Script)
  /\ SinkCapacity \in Nat \ {0}

ASSUME PayloadAssumption ==
  /\ Payload \in [DOMAIN Payload -> Nat]
  /\ {"started", "error", "finished"} \subseteq DOMAIN Payload
  /\ IsFiniteSet(DOMAIN Payload)

VARIABLES
  position,   \* the engine's next event
  engine,     \* off, running, ended
  sink,       \* events between the engine and the run loop
  sinkClosed, \* engine_rx is dropped
  cancelled,  \* RunControl's token
  pc,         \* the run loop
  pending,    \* pending_events
  unseen,     \* ~consumer_closed
  buffer,     \* transcript items not yet flushed
  failed,     \* persistence_failed
  consumer,   \* the task that owns Run
  saved,      \* ghost: ids in the session's transcript
  took        \* ghost: engine events the run loop has taken

engineVars == <<position, engine, sink>>
loopVars == <<pc, pending, unseen, buffer, failed, sinkClosed, saved, took>>
vars == <<outboxVars, engineVars, loopVars, cancelled, consumer>>

-----------------------------------------------------------------------------
(* map_agent_event: what is saved comes before what is shown. A compaction      *)
(* saves what came before it first; the checkpoint itself is Transcript's.      *)
Shown(kind, id) == [does |-> "show", kind |-> kind, id |-> id]
Saved(id) == [does |-> "save", kind |-> "item", id |-> id]
Signal(name) == [does |-> name, kind |-> "signal", id |-> 0]

Projection(event) ==
  LET kind == event[1] id == event[2] IN
  CASE kind = "turn_start" -> <<Signal("begin"), Shown(kind, id)>>
    [] kind = "turn_end" -> <<Signal("flush")>>
    [] kind = "message" -> <<Saved(id), Shown(kind, id)>>
    [] kind = "user" -> <<Saved(id)>>
    [] kind = "compaction" -> <<Signal("flush"), Saved(id), Shown(kind, id)>>
    [] kind = "agent_end" -> <<Signal("complete")>>
    [] OTHER -> <<Shown(kind, id)>>

PublicEvent(kind, id) == Packet(kind, <<id>>, Payload[kind])

Init ==
  /\ OutboxInit
  /\ position = 1 /\ engine = "off" /\ sink = <<>>
  /\ pc = "started" /\ pending = <<>> /\ unseen = TRUE /\ buffer = <<>>
  /\ failed = FALSE /\ sinkClosed = FALSE /\ saved = <<>> /\ took = <<>>
  /\ cancelled = FALSE /\ consumer = "reads"

-----------------------------------------------------------------------------
(* The engine. *)

\* A cancelled engine goes on with its closing events.
Position == IF cancelled /\ position < Closing THEN Closing ELSE position

\* Tool progress is tried and dropped when the channel is full; everything
\* else waits for capacity.
Enters(event) ==
  \/ Len(sink) < SinkCapacity /\ sink' = Append(sink, event)
  \/ Len(sink) = SinkCapacity /\ event[1] = "progress" /\ UNCHANGED sink

EngineSends ==
  /\ engine = "running" /\ ~sinkClosed
  /\ Enters(Script[Position])
  /\ position' = Position + 1
  /\ engine' = IF Position = Len(Script) THEN "ended" ELSE engine
  /\ UNCHANGED <<outboxVars, loopVars, cancelled, consumer>>

\* The channel is closed: send fails, cancels the engine, and it winds up.
EngineGivesUp ==
  /\ engine = "running" /\ sinkClosed
  /\ engine' = "ended"
  /\ UNCHANGED <<outboxVars, position, sink, loopVars, cancelled, consumer>>

-----------------------------------------------------------------------------
(* The run loop. *)
Goto(place) == pc' = place

StartRun ==
  /\ pc = "started"
  /\ SendIfOpen(PublicEvent("started", 0))
  /\ Goto("build")
  /\ UNCHANGED <<engineVars, pending, unseen, buffer, failed, sinkClosed,
                 saved, took, cancelled, consumer>>

\* A run cancelled before its engine is built goes straight to its end.
BuildTurn ==
  /\ pc = "build" /\ ~cancelled
  /\ engine' = "running"
  /\ Goto("pull")
  /\ UNCHANGED <<outboxVars, position, sink, pending, unseen, buffer, failed,
                 sinkClosed, saved, took, cancelled, consumer>>

SkipTurn ==
  /\ pc = "build" /\ cancelled
  /\ Goto("finish")
  /\ UNCHANGED <<outboxVars, engineVars, pending, unseen, buffer, failed,
                 sinkClosed, saved, took, cancelled, consumer>>

BuildFails ==
  /\ pc = "build" /\ ~cancelled
  /\ SendIfOpen(PublicEvent("error", 0))
  /\ Goto("finish")
  /\ UNCHANGED <<engineVars, pending, unseen, buffer, failed, sinkClosed,
                 saved, took, cancelled, consumer>>

\* Backpressure lies between two engine events, never inside one.
MustWait == unseen /\ OverBudget

Pull ==
  /\ pc = "pull"
  /\ Goto(IF MustWait THEN "listen" ELSE "select")
  /\ UNCHANGED <<outboxVars, engineVars, pending, unseen, buffer, failed,
                 sinkClosed, saved, took, cancelled, consumer>>

Waits(enter, place, act) ==
  /\ pc = enter /\ act /\ Goto(place)
  /\ UNCHANGED <<engineVars, pending, unseen, buffer, failed, sinkClosed,
                 saved, took, cancelled, consumer>>

\* Mutant: look first, listen afterwards, sleep without looking again.
WaitForCapacity_LooksFirst ==
  \/ Waits("listen", "recheck", UNCHANGED outboxVars)
  \/ HasCapacity /\ Waits("recheck", "select", StopListening)
  \/ ~HasCapacity /\ Waits("recheck", "late", UNCHANGED outboxVars)
  \/ Waits("late", "parked", Listen)
  \/ Woken /\ Waits("parked", "listen", StopListening)

WaitForCapacity ==
  \/ Waits("listen", "recheck", Listen)
  \/ HasCapacity /\ Waits("recheck", "select", StopListening)
  \/ ~HasCapacity /\ Waits("recheck", "parked", UNCHANGED outboxVars)
  \/ Woken /\ Waits("parked", "listen", StopListening)

\* Mutant: the run ends with its consumer.
NoticeConsumer_Leaves ==
  /\ pc = "select" /\ receiverClosed /\ unseen
  /\ unseen' = FALSE
  /\ cancelled' = TRUE
  /\ Goto("flush")
  /\ UNCHANGED <<outboxVars, engineVars, pending, buffer, failed, sinkClosed,
                 saved, took, consumer>>

\* tx.closed(): cancel the engine, but go on taking what it still has to say.
NoticeConsumer ==
  /\ pc = "select" /\ receiverClosed /\ unseen
  /\ unseen' = FALSE
  /\ cancelled' = TRUE
  /\ Goto("pull")
  /\ UNCHANGED <<outboxVars, engineVars, pending, buffer, failed, sinkClosed,
                 saved, took, consumer>>

\* Every end of the engine, a panic's too, comes with its agent_end: the channel
\* is never found closed and empty.
TakeEvent ==
  /\ pc = "select" /\ sink # <<>>
  /\ sink' = Tail(sink)
  /\ took' = Append(took, Head(sink))
  /\ pending' = Projection(Head(sink))
  /\ Goto("handle")
  /\ UNCHANGED <<outboxVars, position, engine, unseen, buffer, failed,
                 sinkClosed, saved, cancelled, consumer>>

\* One projected event; the next one, or back to the engine.
Handles(does) == pc = "handle" /\ Head(pending).does = does
NextPending ==
  /\ pending' = Tail(pending)
  /\ Goto(IF Len(pending) = 1 THEN "pull" ELSE "handle")

BeginTurn ==
  /\ Handles("begin")
  /\ NextPending
  /\ UNCHANGED <<outboxVars, engineVars, unseen, buffer, failed, sinkClosed,
                 saved, took, cancelled, consumer>>

BufferItem ==
  /\ Handles("save")
  /\ buffer' = Append(buffer, Head(pending).id)
  /\ NextPending
  /\ UNCHANGED <<outboxVars, engineVars, unseen, failed, sinkClosed, saved,
                 took, cancelled, consumer>>

FlushTurn ==
  /\ Handles("flush")
  /\ saved' = saved \o buffer /\ buffer' = <<>>
  /\ NextPending
  /\ UNCHANGED <<outboxVars, engineVars, unseen, failed, sinkClosed, took,
                 cancelled, consumer>>

\* A strict write that fails is shown, cancels the engine and is not repeated.
FlushFails ==
  /\ Handles("flush") \/ pc = "flush"
  /\ buffer # <<>>
  /\ SendIfOpen(PublicEvent("error", 0))
  /\ cancelled' = TRUE /\ failed' = TRUE
  /\ pending' = <<>> /\ sinkClosed' = TRUE
  /\ Goto("finish")
  /\ UNCHANGED <<engineVars, unseen, buffer, saved, took, consumer>>

CompleteTurn ==
  /\ Handles("complete")
  /\ pending' = <<>>
  /\ Goto("flush")
  /\ UNCHANGED <<outboxVars, engineVars, unseen, buffer, failed, sinkClosed,
                 saved, took, cancelled, consumer>>

Show ==
  /\ Handles("show")
  /\ LET event == PublicEvent(Head(pending).kind, Head(pending).id)
     IN \/ unseen /\ Send(event) /\ UNCHANGED <<unseen, cancelled>>
        \/ /\ unseen /\ SendFails
           /\ unseen' = FALSE /\ cancelled' = TRUE
        \/ ~unseen /\ UNCHANGED <<outboxVars, unseen, cancelled>>
  /\ NextPending
  /\ UNCHANGED <<engineVars, buffer, failed, sinkClosed, saved, took, consumer>>

FinalFlush ==
  /\ pc = "flush"
  /\ saved' = saved \o buffer /\ buffer' = <<>>
  /\ sinkClosed' = TRUE
  /\ Goto("finish")
  /\ UNCHANGED <<outboxVars, engineVars, pending, unseen, failed, took,
                 cancelled, consumer>>

Finish ==
  /\ pc = "finish"
  /\ SendIfOpen(PublicEvent("finished", 0))
  /\ Goto("drop")
  /\ UNCHANGED <<engineVars, pending, unseen, buffer, failed, sinkClosed,
                 saved, took, cancelled, consumer>>

DropSenderOfRun ==
  /\ pc = "drop"
  /\ DropSender
  /\ Goto("done")
  /\ UNCHANGED <<engineVars, pending, unseen, buffer, failed, sinkClosed,
                 saved, took, cancelled, consumer>>

-----------------------------------------------------------------------------
(* The consumer: Run::next, abort and Drop. *)
Consumes(enter, place, act) ==
  /\ consumer = enter /\ act /\ consumer' = place
  /\ UNCHANGED <<engineVars, loopVars, cancelled>>

Receive ==
  \/ Consumes("reads", "took", Pop)
  \/ Consumes("took", "reads", NotifyDrained)
  \/ Consumes("reads", "parked",
       events = <<>> /\ ~senderClosed /\ UNCHANGED outboxVars)
  \/ Consumes("parked", "reads", TakePermit)
  \/ Consumes("reads", "exhausted",
       events = <<>> /\ senderClosed /\ UNCHANGED outboxVars)

Abort ==
  /\ consumer \in {"reads", "parked"} /\ ~cancelled
  /\ cancelled' = TRUE
  /\ UNCHANGED <<outboxVars, engineVars, loopVars, consumer>>

\* Drop aborts the run before the receiver is gone.
Leave ==
  /\ consumer \in {"reads", "parked"}
  /\ consumer' = "leaving"
  /\ cancelled' = TRUE
  /\ UNCHANGED <<outboxVars, engineVars, loopVars>>

Gone == Consumes("leaving", "gone", DropReceiver)

Next ==
  \/ EngineSends \/ EngineGivesUp
  \/ StartRun \/ BuildTurn \/ SkipTurn \/ BuildFails \/ Pull
  \/ WaitForCapacity \/ NoticeConsumer \/ TakeEvent
  \/ BeginTurn \/ BufferItem \/ FlushTurn \/ FlushFails \/ CompleteTurn \/ Show
  \/ FinalFlush \/ Finish \/ DropSenderOfRun
  \/ Receive \/ Abort \/ Leave \/ Gone

RunLoop ==
  \/ StartRun \/ BuildTurn \/ SkipTurn \/ Pull \/ WaitForCapacity
  \/ NoticeConsumer \/ TakeEvent \/ BeginTurn \/ BufferItem
  \/ FlushTurn \/ CompleteTurn \/ Show \/ FinalFlush \/ Finish
  \/ DropSenderOfRun

\* Tasks are scheduled. The consumer reads on or leaves; nobody has to abort,
\* leave or fail.
Fairness ==
  /\ WF_vars(EngineSends \/ EngineGivesUp)
  /\ WF_vars(RunLoop)
  /\ WF_vars(Receive)
  /\ WF_vars(Gone)

Spec == Init /\ [][Next]_vars /\ Fairness

-----------------------------------------------------------------------------
\* What the engine said that belongs in the transcript.
ItemOf(event) ==
  IF event[1] \in {"user", "message", "compaction"} THEN <<event[2]>> ELSE <<>>
ItemsOf(history) == FlattenSeq([i \in DOMAIN history |-> ItemOf(history[i])])

\* However the run ends, all the engine said until then is in the transcript,
\* in its order, also when nobody was listening any more.
NothingUnsaved ==
  pc \in {"finish", "drop", "done"} /\ ~failed =>
    saved = ItemsOf(took) /\ (engine # "off" => sink = <<>> /\ engine = "ended")

\* Merging loses, repeats and reorders nothing, and no delta lands in another
\* content block: what was received and what waits is what was published
\* (outbox.rs:118), and what the engine said is what is saved.
ContentIsConserved ==
  /\ received \o Contents(events) = published
  /\ NothingUnsaved

SumBytes(queue) ==
  LET upTo[i \in 0..Len(queue)] == IF i = 0 THEN 0 ELSE upTo[i - 1] + queue[i].bytes
  IN upTo[Len(queue)]
Largest == CHOOSE n \in {Payload[k] : k \in DOMAIN Payload} :
             \A k \in DOMAIN Payload : Payload[k] <= n

\* The account is exact: were merged deltas charged to the queue and not to
\* their event it would never return to zero, and the engine would be held back
\* for good. And the queue exceeds its budget by no more than the event in
\* hand, the error and the end of the run.
BudgetIsKept ==
  /\ pendingBytes = SumBytes(events)
  /\ pendingBytes <= MaxPendingBytes + 3 * (Header + Largest)

\* The run comes to its end unless its consumer holds it back for ever, and a
\* consumer that stays is told so.
ToldTheEnd ==
  \/ consumer = "gone"
  \/ consumer = "exhausted" /\ received[Len(received)][1] = "finished"
RunEnds == <>(pc = "done" /\ ToldTheEnd)
==============================================================================
