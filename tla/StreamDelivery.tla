--------------------------- MODULE StreamDelivery ---------------------------
(***************************************************************************)
(* Delivering a run to a chat (app, gateway/delivery/stream.rs) through a   *)
(* platform that can edit what it has posted: the first characters are      *)
(* posted, later ones are shown by editing, and after so many edits the     *)
(* rest goes on in a new message.  The sink is Feishu's: a post may reply   *)
(* into a topic, and every call to the platform can fail, before or after   *)
(* it has taken effect there.                                               *)
(*                                                                         *)
(* The text is counted in units.  A message of the chat is what the         *)
(* platform shows: the units from + 1 .. to, and whether it still ends in   *)
(* the ellipsis of an answer that goes on.                                  *)
(***************************************************************************)
EXTENDS Naturals, Sequences

CONSTANTS
  MaxText,      (* Units the run writes: bounds the model.                   *)
  MinInitial,   (* min_initial_chars.                                        *)
  MaxLen,       (* max_message_len, more than the reserve.                   *)
  Reserve,      (* What compose_display keeps free for the status, 80.       *)
  MaxEdits,     (* max_edits_per_message, 0 for any number.                  *)
  MaxToolEvents (* Tool events of the run: bounds the model.                 *)

VARIABLES
  pc,            \* "stream", "final" or "done"
  canEdit,       \* capabilities().can_edit
  replyTo,       \* whether the sink still replies into the topic
  text,          \* text_buf.len()
  offset,        \* text_offset
  shown,         \* last_sent_end
  msg,           \* msg_id: the message being edited, 0 for None
  edits,         \* edit_count
  continuation,
  toolEvents,
  chat,          \* what the platform shows
  faults         \* History: which calls went wrong, and what was too long

cursor == <<offset, shown, msg, edits, continuation>>
platform == <<chat, replyTo>>
vars == <<pc, canEdit, text, cursor, toolEvents, platform, faults>>

Init ==
  /\ pc = "stream"
  /\ canEdit \in BOOLEAN
  /\ replyTo \in BOOLEAN
  /\ text = 0 /\ offset = 0 /\ shown = 0
  /\ msg = 0 /\ edits = 0 /\ continuation = FALSE
  /\ toolEvents = 0
  /\ chat = <<>>
  /\ faults = {}

-----------------------------------------------------------------------------
(* The sink. *)

AtMost(n, bound) == IF n > bound THEN bound ELSE n

Message(length, clean, named, topic) ==
  [from |-> offset, to |-> offset + length, clean |-> clean, edits |-> 0,
   named |-> named, topic |-> topic]

\* Every call gets a second token when its first is refused, and no third.
\* reply_text keeps the answer in the topic: the next part replies to this one,
\* or, when the answer had no id to reply to, goes to the chat.
ReplyText(length, clean, named) ==
  /\ chat' = Append(chat, Message(length, clean, named, TRUE))
  /\ replyTo' = named

SendText(length, clean, named) ==
  /\ chat' = Append(chat, Message(length, clean, named, FALSE))
  /\ UNCHANGED replyTo

Posts(length, clean, named) ==
  \/ replyTo /\ ReplyText(length, clean, named)
  \/ ~replyTo /\ SendText(length, clean, named)

\* The platform took the post and its answer never came: reply_to stays.
PostsUnheard(length, clean) ==
  /\ chat' = Append(chat, Message(length, clean, TRUE, replyTo))
  /\ UNCHANGED replyTo

\* edit_text, of a message that has an id.
Edits(length, clean) ==
  /\ chat[msg].named
  /\ chat' = [chat EXCEPT ![msg].to = offset + length, ![msg].clean = clean,
                          ![msg].edits = @ + 1]
  /\ UNCHANGED replyTo

Fault(kinds) == faults' = faults \cup kinds

-----------------------------------------------------------------------------
(* deliver_progressive. *)

Display(length) == AtMost(length - offset, MaxLen - Reserve)
FinalText(length) == AtMost(length - offset, MaxLen)
Hides(length, limit) == IF length - offset > limit THEN {"too long"} ELSE {}

\* A failed first post is tried again with the next characters.
SendInitial(length) ==
  \/ \E named \in BOOLEAN :
       /\ Posts(Display(length), FALSE, named)
       /\ msg' = Len(chat) + 1
       /\ edits' = 0 /\ continuation' = FALSE
       /\ shown' = length
       /\ Fault(Hides(length, MaxLen - Reserve)
                  \cup (IF named THEN {} ELSE {"no id"}))
       /\ UNCHANGED offset
  \/ /\ PostsUnheard(Display(length), FALSE)
     /\ Fault({"unheard"})
     /\ UNCHANGED cursor
  \/ UNCHANGED <<cursor, platform, faults>>

\* The rest of the text goes into a new message.
NextMessage(from) ==
  /\ offset' = from /\ shown' = from
  /\ msg' = 0 /\ continuation' = TRUE
  /\ UNCHANGED edits

\* Mutant: after a refused edit the next message starts at the end of the text.
EditFails_SkipsAhead(length) ==
  /\ \/ UNCHANGED platform /\ Fault({"edit"})
     \/ Edits(Display(length), FALSE) /\ Fault({"edit", "unheard"})
  /\ NextMessage(length)

\* The last edit a message may have finishes it, and is not checked.
Finalise(length) ==
  /\ \/ Edits(FinalText(length), TRUE) /\ Fault(Hides(length, MaxLen))
     \/ UNCHANGED platform /\ Fault({"final edit"})
  /\ NextMessage(length)

EditFails(length) ==
  /\ \/ UNCHANGED platform /\ Fault({"edit"})
     \/ Edits(Display(length), FALSE) /\ Fault({"edit", "unheard"})
  /\ NextMessage(shown)

EditSucceeds(length) ==
  /\ Edits(Display(length), FALSE)
  /\ Fault(Hides(length, MaxLen - Reserve))
  /\ edits' = edits + 1 /\ shown' = length
  /\ UNCHANGED <<offset, msg, continuation>>

LastEditLeft == MaxEdits > 0 /\ edits + 1 >= MaxEdits

TryEditCounted(length) ==
  \/ LastEditLeft /\ Finalise(length)
  \/ ~LastEditLeft /\ (EditFails(length) \/ EditSucceeds(length))

Threshold == IF continuation THEN 1 ELSE MinInitial

ShowsProgress(length) ==
  \/ msg = 0 /\ length - offset >= Threshold /\ SendInitial(length)
  \/ msg # 0 /\ TryEditCounted(length)

\* An edit waits until the throttle has passed since the last one.
Delta ==
  /\ pc = "stream" /\ text < MaxText
  /\ text' = text + 1
  /\ \/ canEdit /\ ShowsProgress(text + 1)
     \/ /\ ~canEdit \/ msg # 0 \/ text + 1 - offset < Threshold
        /\ UNCHANGED <<cursor, platform, faults>>
  /\ UNCHANGED <<pc, canEdit, toolEvents>>

\* A tool's start, progress or end is shown at once, where there is a message.
ToolEvent ==
  /\ pc = "stream" /\ toolEvents < MaxToolEvents
  /\ toolEvents' = toolEvents + 1
  /\ IF canEdit /\ msg # 0 THEN TryEditCounted(text)
                           ELSE UNCHANGED <<cursor, platform, faults>>
  /\ UNCHANGED <<pc, canEdit, text>>

RunEnds ==
  /\ pc = "stream"
  /\ pc' = "final"
  /\ UNCHANGED <<canEdit, text, cursor, toolEvents, platform, faults>>

-----------------------------------------------------------------------------
(* The end of the run. *)

LastPost ==
  \/ \E named \in BOOLEAN :
       /\ Posts(FinalText(text), TRUE, named)
       /\ Fault(Hides(text, MaxLen))
  \/ PostsUnheard(FinalText(text), TRUE) /\ Fault(Hides(text, MaxLen))
  \/ UNCHANGED platform /\ Fault({"last post"})

EditsAtEnd == msg # 0 /\ (MaxEdits = 0 \/ edits < MaxEdits)

\* Neither answer is waited for but the edit's, whose failure is a new post.
FinalDelivery ==
  /\ pc = "final"
  /\ pc' = "done"
  /\ IF FinalText(text) = 0 THEN UNCHANGED <<platform, faults>>
     ELSE \/ /\ EditsAtEnd
             /\ Edits(FinalText(text), TRUE)
             /\ Fault(Hides(text, MaxLen))
          \/ ~EditsAtEnd /\ LastPost
  /\ UNCHANGED <<canEdit, text, cursor, toolEvents>>

\* The failed edit may or may not have shown: the same text is posted anew.
FinalEditFails ==
  /\ pc = "final" /\ FinalText(text) > 0 /\ EditsAtEnd
  /\ \/ UNCHANGED platform
     \/ Edits(FinalText(text), TRUE)
  /\ Fault({"last edit"})
  /\ msg' = 0
  /\ UNCHANGED <<pc, canEdit, text, offset, shown, edits, continuation, toolEvents>>

Next == Delta \/ ToolEvent \/ RunEnds \/ FinalDelivery \/ FinalEditFails

Spec == Init /\ [][Next]_vars /\ WF_vars(RunEnds \/ FinalDelivery \/ FinalEditFails)

-----------------------------------------------------------------------------

Units(m) == (m.from + 1)..m.to
Shows(unit) == {i \in DOMAIN chat : unit \in Units(chat[i])}

\* What the user reads at the end is the whole answer, however it was split
\* over messages, edited, refused and posted again: a unit is missing only when
\* the text outgrew a message, or when an edit or a post whose result the code
\* ignores failed.  Nothing is said twice, except after an answer the platform
\* gave and the program never got, and when the last edit was refused.
AnswerIsWhole ==
  pc = "done" =>
    /\ faults \cap {"too long", "final edit", "last post"} = {} =>
         \A unit \in 1..text : Shows(unit) # {}
    /\ faults \cap {"unheard", "last edit"} = {} =>
         \A i, j \in DOMAIN chat : i # j => Units(chat[i]) \cap Units(chat[j]) = {}

=============================================================================
