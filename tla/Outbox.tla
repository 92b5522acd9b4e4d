-------------------------------- MODULE Outbox --------------------------------
(***************************************************************************)
(* Live delivery of one run's events to its consumer                        *)
(* (app/src/agent/run/outbox.rs).  The sender never waits inside send: it   *)
(* queues, merging adjacent deltas once the queue is long, and asks for     *)
(* capacity between the engine's events.  Both sides signal through         *)
(* tokio's Notify: ready keeps a permit, drained wakes only futures that    *)
(* exist already.                                                           *)
(*                                                                         *)
(* An event is a record of its kind, the ids of what it carries and the     *)
(* bytes it is charged with; a delta's kind names the content block.        *)
(***************************************************************************)
EXTENDS Integers, Sequences, SequencesExt

CONSTANTS
  DeltaKinds,         \* events that may be merged with one of their own kind
  CoalesceAfter,      \* COALESCE_AFTER_EVENTS
  MaxPendingBytes     \* MAX_PENDING_BYTES

ASSUME OutboxAssumption ==
  CoalesceAfter \in Nat \ {0} /\ MaxPendingBytes \in Nat

VARIABLES
  events,          \* State::events
  pendingBytes,    \* State::pending_bytes
  senderClosed,    \* State::sender_closed
  receiverClosed,  \* the receiver_closed token
  ready,           \* a permit stored in Notify ready
  drained,         \* the sender's drained future: none, listening or woken
  published,       \* ghost: what send accepted, one <<kind, id>> each
  received         \* ghost: what recv returned, likewise

outboxVars == <<events, pendingBytes, senderClosed, receiverClosed, ready,
                drained, published, received>>

Header == 1   \* the fixed headroom an event is charged with

Packet(kind, ids, payload) ==
  [kind |-> kind, ids |-> ids, bytes |-> Header + payload]

Parts(event) == [i \in DOMAIN event.ids |-> <<event.kind, event.ids[i]>>]
Contents(queue) == FlattenSeq([i \in DOMAIN queue |-> Parts(queue[i])])

OutboxInit ==
  /\ events = <<>> /\ pendingBytes = 0
  /\ senderClosed = FALSE /\ receiverClosed = FALSE
  /\ ready = FALSE /\ drained = "none"
  /\ published = <<>> /\ received = <<>>

-----------------------------------------------------------------------------
(* EventSender *)

\* Mutant: deltas of different content blocks are merged.
Coalesces_AnyDelta(last, event) == {last.kind, event.kind} \subseteq DeltaKinds

Coalesces(last, event) == last.kind = event.kind /\ event.kind \in DeltaKinds

\* Mutant: the merged event keeps the bytes of its first delta.
Merged_Uncharged(last, event) == [last EXCEPT !.ids = @ \o event.ids]

Merged(last, event) ==
  [last EXCEPT !.ids = @ \o event.ids, !.bytes = @ + event.bytes - Header]

SendCoalesced(event) ==
  /\ events' = Append(Front(events), Merged(Last(events), event))
  /\ pendingBytes' = pendingBytes + event.bytes - Header

SendQueued(event) ==
  /\ events' = Append(events, event)
  /\ pendingBytes' = pendingBytes + event.bytes

\* send on a live receiver
Send(event) ==
  /\ ~receiverClosed
  /\ IF Len(events) >= CoalesceAfter /\ Coalesces(Last(events), event)
     THEN SendCoalesced(event) ELSE SendQueued(event)
  /\ ready' = TRUE
  /\ published' = published \o Parts(event)
  /\ UNCHANGED <<senderClosed, receiverClosed, drained, received>>

\* Err(DeliveryClosed)
SendFails == receiverClosed /\ UNCHANGED outboxVars

\* `let _ = tx.send(..)`
SendIfOpen(event) == Send(event) \/ SendFails

OverBudget == pendingBytes > MaxPendingBytes

\* wait_for_capacity creates its future before it looks ...
Listen ==
  /\ drained' = "listening"
  /\ UNCHANGED <<events, pendingBytes, senderClosed, receiverClosed, ready,
                 published, received>>

HasCapacity == receiverClosed \/ ~OverBudget

\* ... and then sleeps until the receiver drains or goes away.
Woken == drained = "woken" \/ receiverClosed

StopListening ==
  /\ drained' = "none"
  /\ UNCHANGED <<events, pendingBytes, senderClosed, receiverClosed, ready,
                 published, received>>

DropSender ==
  /\ senderClosed' = TRUE
  /\ ready' = TRUE
  /\ UNCHANGED <<events, pendingBytes, receiverClosed, drained, published,
                 received>>

-----------------------------------------------------------------------------
(* EventReceiver *)

Pop ==
  /\ events # <<>>
  /\ events' = Tail(events)
  /\ pendingBytes' = IF pendingBytes > Head(events).bytes
                     THEN pendingBytes - Head(events).bytes ELSE 0
  /\ received' = received \o Parts(Head(events))
  /\ UNCHANGED <<senderClosed, receiverClosed, ready, drained, published>>

NotifyDrained ==
  /\ drained' = IF drained = "listening" THEN "woken" ELSE drained
  /\ UNCHANGED <<events, pendingBytes, senderClosed, receiverClosed, ready,
                 published, received>>

TakePermit ==
  /\ ready
  /\ ready' = FALSE
  /\ UNCHANGED <<events, pendingBytes, senderClosed, receiverClosed, drained,
                 published, received>>

DropReceiver ==
  /\ receiverClosed' = TRUE
  /\ UNCHANGED <<events, pendingBytes, senderClosed, ready, drained, published,
                 received>>
==============================================================================
