-------------------------------- MODULE ChatView --------------------------------
(***************************************************************************)
(* A conversation in the browser, live and resumed.                         *)
(*                                                                         *)
(* Each event of the engine is projected twice (run/projection.rs): to items *)
(* of the transcript, and to a public event that becomes nodes of the page    *)
(* while it happens (conversation/projection.rs, http/server.rs).  A page     *)
(* opened later is made of the items alone, those since the last compaction   *)
(* (sessions/replay.rs, storage.rs).  The browser renders both (ui/chat.js)   *)
(* and keeps the readings of the session under them.                          *)
(*                                                                         *)
(* Delivery is in order and whole while the stream is open: that is module    *)
(* RunDelivery's, and other writers of the transcript are Transcript's.       *)
(***************************************************************************)
EXTENDS Integers, Sequences, FiniteSets, SequencesExt

CONSTANTS
  Answers,         \* what a model may answer: the kinds of its blocks
  Measures,        \* what a call may take: usage and metrics
  Window,          \* the context window
  MaxMessages,     \* bound: messages when a user speaks
  MaxTurns,        \* execution limit, and bound: turns of a run
  MaxCompactions,  \* bound: compactions of the conversation
  MaxTroubles      \* bound: failures, waits, interruptions and answers cut short

VARIABLES
  at,         \* where the engine is
  turn,       \* turn_number of the run
  results,    \* the answer's tool calls, and what became of those that ended
  messages,   \* the context, as items
  said,       \* messages so far
  compacted,  \* compactions so far
  troubles,   \* troubles so far
  cancelled,  \* RunControl's token
  buffer,     \* turn_transcripts not yet written
  entries,    \* the session's transcript
  page,       \* the browser
  attached,   \* its stream is open
  current     \* ghost: the page has seen all there is

engineVars == <<at, turn, results, messages, said, compacted, troubles, cancelled>>
vars == <<engineVars, buffer, entries, page, attached, current>>

-----------------------------------------------------------------------------
(* Transcript items.  A summary is the user message that a compaction puts at  *)
(* the head of the context.                                                    *)
User(id) == [type |-> "user", id |-> id]
Summary == User(0)
Assistant(id, blocks, stop, output) ==
  [type |-> "assistant", id |-> id, blocks |-> blocks, stop |-> stop, output |-> output]
ToolResult(call, failed) == [type |-> "tool", id |-> call, failed |-> failed]
Compact(id, kept) == [type |-> "compact", id |-> id, messages |-> kept]
Stats(of, data) == [type |-> "stats", of |-> of, data |-> data]
IsContextItem(item) == item.type \notin {"stats", "compact"}

\* Content blocks: each has its place in the answer, a call its own name.
Blocks(id, kinds) ==
  [i \in DOMAIN kinds |->
     [kind |-> kinds[i], of |-> id, key |-> <<kinds[i], IF kinds[i] = "call" THEN <<id, i>> ELSE i>>]]
Calls(blocks) == {blocks[i].key[2] : i \in {j \in DOMAIN blocks : blocks[j].kind = "call"}}

-----------------------------------------------------------------------------
(* map_agent_event: what is saved, what is shown, and when it is written.      *)
Save(item) == [does |-> "save", what |-> item]
Show(event) == [does |-> "show", what |-> event]
Signal(name, event) == [does |-> name, what |-> event]

MapTurn(e) == <<IF e.on = "turn_start" THEN Show(e) ELSE Signal("flush", e)>>
MapMessage(e) ==
  IF e.on = "prompt" THEN <<Save(User(e.id))>>
  ELSE <<Save(Assistant(e.id, e.blocks, e.stop, e.output)), Show(e)>>
\* Mutant: a tool's time is shown and not saved.
MapToolEnd_Unmeasured(e) == <<Save(ToolResult(e.id, e.failed)), Show(e)>>

MapToolEnd(e) ==
  <<Save(ToolResult(e.id, e.failed)), Save(Stats("tool_end", [took |-> e.took])), Show(e)>>
MapCall(e) == <<Save(Stats(e.on, e)), Show(e)>>
MapCompaction(e) ==
  <<IF e.on = "compaction_start" THEN Save(Stats(e.on, e)) ELSE Signal("compact", e), Show(e)>>

MapAgentEvent(e) ==
  CASE e.on \in {"turn_start", "turn_end"} -> MapTurn(e)
    [] e.on \in {"prompt", "answer"} -> MapMessage(e)
    [] e.on = "tool_end" -> MapToolEnd(e)
    [] e.on \in {"call_start", "call_end", "retry"} -> MapCall(e)
    [] e.on \in {"compaction_start", "compaction"} -> MapCompaction(e)
    [] e.on = "agent_end" -> <<Signal("flush", e)>>
    [] e.on \in {"delta", "tool_start", "wait", "error"} -> <<Show(e)>>

-----------------------------------------------------------------------------
(* map_run_event: the nodes of a public event.                                 *)
NoReading == -1
Reading(used) == IF Window = 0 THEN NoReading ELSE used
Used(measure) == measure.input + measure.output

ContextNode(e) == [type |-> "context", used |-> Reading(e.estimated)]
ToolNode(e) ==
  [type |-> "tool", id |-> e.id, took |-> e.took,
   status |-> IF e.on = "tool_start" THEN "running" ELSE IF e.failed THEN "error" ELSE "done"]
AnswerNode(e) ==
  [type |-> "assistant", status |-> "settled", id |-> e.id, blocks |-> e.blocks, stop |-> e.stop]
Notice(type) == [type |-> type]
TailNodes(e) ==
  <<[type |-> "assistant", status |-> "tail", turn |-> e.turn, measure |-> e.measure,
     stop |-> e.stop, used |-> Reading(Used(e.measure))]>>
    \o (IF e.stop = "max_tokens" THEN <<Notice("max_tokens")>> ELSE <<>>)
CompactNode(id) == [type |-> "compact", id |-> id]
RunNode == [type |-> "assistant", status |-> "run"]

MapRunEvent(e) ==
  CASE e.on = "call_start" -> IF Window = 0 THEN <<>> ELSE <<ContextNode(e)>>
    [] e.on \in {"tool_start", "tool_end"} -> <<ToolNode(e)>>
    [] e.on = "answer" -> <<AnswerNode(e)>>
    [] e.on = "call_end" -> TailNodes(e)
    [] e.on \in {"retry", "wait"} -> <<Notice("retry")>>
    [] e.on = "compaction" -> <<CompactNode(e.id)>>
    [] e.on = "delta" -> <<[type |-> "assistant", status |-> "delta"]>>
    [] e.on = "finished" -> <<RunNode>>
    [] e.on = "error" -> <<Notice("error")>>
    [] OTHER -> <<>>

-----------------------------------------------------------------------------
(* A page opened later.                                                        *)

\* The tail of the file from its last compaction on.
ActiveEntries(list) ==
  LET last == SelectLastInSeq(list, LAMBDA e : e.type = "compact") IN
  IF last = 0 THEN list ELSE SubSeq(list, last, Len(list))

\* The kept messages, without the summary at their head, come before their
\* compaction.
Resumed(item) ==
  IF item.type # "compact" THEN <<item>>
  ELSE LET kept == SelectSeq(item.messages, IsContextItem)
       IN (IF kept # <<>> /\ Head(kept) = Summary THEN Tail(kept) ELSE kept)
            \o <<Compact(item.id, <<>>)>>
ResumeTranscript(list) == FlattenSeq([i \in DOMAIN list |-> Resumed(list[i])])

ReplayNode(item) ==
  CASE item.type = "user" -> <<item>>
    [] item.type = "assistant" ->
         <<[AnswerNode(item) EXCEPT !.status =
              IF item.stop = "aborted" THEN "interrupted" ELSE "settled"]>>
    [] item.type = "tool" ->
         <<[type |-> "tool", id |-> item.id, status |-> IF item.failed THEN "error" ELSE "done"]>>
    [] item.type = "compact" -> <<CompactNode(item.id)>>
    [] OTHER -> <<>>
ReplayNodes(items) == FlattenSeq([i \in DOMAIN items |-> ReplayNode(items[i])])

NoReadings ==
  [turns |-> 0, steps |-> 0, input |-> 0, output |-> 0, took |-> 0, ttft |-> 0, ttftSteps |-> 0,
   streamed |-> 0, decoded |-> 0, tool |-> 0, used |-> NoReading]

\* One completed call, but for its turn and the context it leaves.
AddCall(readings, m) ==
  LET streams == m.streaming > 0 /\ m.output > 0 IN
  [readings EXCEPT
     !.steps = @ + 1, !.input = @ + m.input, !.output = @ + m.output, !.took = @ + m.took,
     !.ttft = @ + m.ttft, !.ttftSteps = @ + (IF m.ttft > 0 THEN 1 ELSE 0),
     !.streamed = @ + (IF streams THEN m.streaming ELSE 0),
     !.decoded = @ + (IF streams THEN m.output ELSE 0)]

AddEntry(readings, item) ==
  IF item.type # "stats" THEN readings
  ELSE CASE item.of = "call_end" ->
              [AddCall(readings, item.data.measure) EXCEPT
                 !.used = IF Window = 0 THEN @ ELSE Reading(Used(item.data.measure))]
         [] item.of = "tool_end" -> [readings EXCEPT !.tool = @ + item.data.took]
         [] OTHER -> readings

IsCall(item) == item.type = "stats" /\ item.of = "call_end"
SessionStats(list) ==
  [FoldLeft(AddEntry, NoReadings, list) EXCEPT
     !.turns = Cardinality({list[i].data.turn : i \in {j \in DOMAIN list : IsCall(list[j])}})]

-----------------------------------------------------------------------------
(* The browser: rows, the row its stream writes to (0: none yet), readings.     *)
(* Of the past it keeps, as ghosts, the settled content it was sent, and the    *)
(* readings it had when it was sent the last compaction.                        *)

\* blockEl: one element for a key, whose content the last writer sets.
Put(blocks, key, content) ==
  IF \E i \in DOMAIN blocks : blocks[i][1] = key
  THEN [i \in DOMAIN blocks |-> IF blocks[i][1] = key THEN <<key, content>> ELSE blocks[i]]
  ELSE Append(blocks, <<key, content>>)
ApplyBlocks(blocks, answer) ==
  FoldLeft(LAMBDA shown, b : Put(shown, b.key, IF b.kind = "call" THEN b.key ELSE <<b.kind, b.of>>),
           blocks, answer)
PaintTool(blocks, node) == Put(blocks, <<"call", node.id>>, <<"call", node.id>>)

AssistantRow(blocks) == [row |-> "assistant", blocks |-> blocks]
NoticeRow(type) == [row |-> type, blocks |-> <<>>]

\* The row to write to, made when there is none.
Started(view) ==
  IF view.row > 0 THEN view
  ELSE [view EXCEPT !.rows = Append(@, AssistantRow(<<>>)), !.row = Len(view.rows) + 1]
InRow(view, Change(_)) ==
  LET started == Started(view) IN
  [started EXCEPT !.rows[started.row].blocks = Change(@)]

Settles(node) ==
  \/ node.type = "assistant" /\ node.status \in {"settled", "interrupted"}
  \/ node.type = "tool" /\ node.status \in {"done", "error"}
  \/ node.type = "compact"
Content(node) ==
  CASE node.type = "assistant" -> <<"assistant", node.id, node.blocks, node.stop>>
    [] node.type = "tool" -> <<"tool", node.id, node.status>>
    [] node.type = "compact" -> <<"compact", node.id>>
Contents(nodes) == LET settled == SelectSeq(nodes, Settles)
                   IN [i \in DOMAIN settled |-> Content(settled[i])]

FoldStats(readings, node) ==
  [AddCall(readings, node.measure) EXCEPT
     !.turns = IF node.turn > @ THEN node.turn ELSE @,
     !.used = IF Window = 0 THEN @ ELSE node.used]

ConsumeTool(view, node) ==
  LET painted == InRow(view, LAMBDA blocks : PaintTool(blocks, node)) IN
  IF node.status = "running" THEN painted
  ELSE [painted EXCEPT !.readings.tool = @ + node.took]

ConsumeAssistant(view, node) ==
  CASE node.status = "settled" -> InRow(view, LAMBDA blocks : ApplyBlocks(blocks, node.blocks))
    [] node.status = "tail" -> [Started(view) EXCEPT !.readings = FoldStats(@, node)]
    [] node.status \in {"delta", "run"} -> Started(view)

ConsumeCompact(view) ==
  [view EXCEPT !.rows = Append(@, NoticeRow("compact")), !.row = 0, !.before = view.readings]

ConsumeNode(view, node) ==
  LET seen == [view EXCEPT !.sent = @ \o Contents(<<node>>)] IN
  CASE node.type = "context" -> [seen EXCEPT !.readings.used = node.used]
    [] node.type = "compact" -> ConsumeCompact(seen)
    [] node.type \in {"retry", "error", "max_tokens"} ->
         [seen EXCEPT !.rows = Append(@, NoticeRow(node.type))]
    [] node.type = "tool" -> ConsumeTool(seen, node)
    [] node.type = "assistant" -> ConsumeAssistant(seen, node)

\* renderTranscript: every answer has a row of its own, its tools are in it.
RenderNode(view, node) ==
  CASE node.type = "user" -> [view EXCEPT !.row = 0, !.rows = Append(@, NoticeRow("user"))]
    [] node.type = "compact" -> [view EXCEPT !.row = 0, !.rows = Append(@, NoticeRow("compact"))]
    [] node.type = "tool" -> InRow(view, LAMBDA blocks : PaintTool(blocks, node))
    [] node.type = "assistant" ->
         InRow([view EXCEPT !.row = 0], LAMBDA blocks : ApplyBlocks(blocks, node.blocks))

Blank ==
  [rows |-> <<>>, row |-> 0, readings |-> NoReadings, sent |-> <<>>, before |-> NoReadings]

\* session_detail, and what the browser makes of it.
Replayed == ReplayNodes(ResumeTranscript(ActiveEntries(entries)))
Rendered ==
  [FoldLeft(RenderNode, Blank, Replayed) EXCEPT
     !.readings = SessionStats(ActiveEntries(entries)), !.sent = Contents(Replayed)]

-----------------------------------------------------------------------------
(* Events, one after the other, of the signals they are mapped to             *)
(* (drive_one_turn): what is written, and what an open page is sent.           *)
Mapped(events) == FlattenSeq([i \in DOMAIN events |-> MapAgentEvent(events[i])])

Handle(log, signal) ==
  CASE signal.does = "save" -> [log EXCEPT !.buffer = Append(@, signal.what)]
    [] signal.does = "show" -> [log EXCEPT !.nodes = @ \o MapRunEvent(signal.what)]
    [] signal.does = "flush" -> [log EXCEPT !.entries = @ \o log.buffer, !.buffer = <<>>]
    [] signal.does = "compact" ->
         [log EXCEPT
            !.entries = @ \o log.buffer \o <<Compact(signal.what.id, signal.what.messages)>>,
            !.buffer = <<Stats("compaction", <<>>)>>]

Handled(signals) ==
  LET log == FoldLeft(Handle, [entries |-> entries, buffer |-> buffer, nodes |-> <<>>], signals) IN
  /\ entries' = log.entries
  /\ buffer' = log.buffer
  /\ page' = IF attached THEN FoldLeft(ConsumeNode, page, log.nodes) ELSE page

\* What goes wrong is counted.
Troubles(wrong) ==
  /\ wrong => troubles < MaxTroubles
  /\ troubles' = IF wrong THEN troubles + 1 ELSE troubles

Emits(signals) == Handled(signals) /\ UNCHANGED <<attached, current>>

-----------------------------------------------------------------------------
(* The engine, as the events it emits.                                         *)

\* An item read back is the message it was made of, its blocks, its stop reason
\* and what it used; statistics are no messages.
AgentMessages(item) == IF IsContextItem(item) THEN <<item>> ELSE <<>>
ContextOf(list) ==
  FlattenSeq([i \in DOMAIN list |->
    IF list[i].type = "compact" THEN list[i].messages ELSE AgentMessages(list[i])])

\* sendMessage: the message is shown at once, the engine starts from the file.
Send ==
  /\ at = "idle" /\ said < MaxMessages
  /\ at' = "prompt" /\ turn' = 0 /\ cancelled' = FALSE /\ attached' = TRUE
  /\ messages' = ContextOf(ActiveEntries(entries))
  /\ page' = [page EXCEPT !.rows = Append(@, NoticeRow("user")), !.row = 0]
  /\ UNCHANGED <<results, said, compacted, troubles, buffer, entries, current>>

Spoken(id) == Mapped(<<[on |-> "prompt", id |-> id]>>)

\* A summary takes the place of what came first, at least one message.
Compacts(list) ==
  /\ compacted < MaxCompactions
  /\ compacted' = compacted + 1
  /\ \E first \in 2..Len(list) + 1 :
       /\ first <= Len(list) => list[first].type # "tool"
       /\ first > Len(list) => Last(list).type = "tool"
       /\ messages' = <<Summary>> \o SubSeq(list, first, Len(list))
  /\ Emits(Mapped(<<[on |-> "compaction_start"],
                    [on |-> "compaction", id |-> compacted', messages |-> messages']>>))

\* The request was too large: the answer that says so is dropped.
Overflowed(list) ==
  /\ list # <<>> /\ Last(list).type = "assistant"
  /\ Last(list).stop = "error" \/ (Last(list).stop = "length" /\ Last(list).output = 0)

CompactsBeforePrompt ==
  /\ at = "prompt" /\ \E i \in DOMAIN messages : messages[i].type = "assistant"
  /\ \/ Compacts(messages)
     \/ Overflowed(messages) /\ Compacts(Front(messages))
  /\ at' = "admit"
  /\ UNCHANGED <<turn, results, said, troubles, cancelled>>

Prompts ==
  /\ at \in {"prompt", "admit"}
  /\ at' = "turn" /\ said' = said + 1 /\ messages' = Append(messages, User(said'))
  /\ Emits(Spoken(said'))
  /\ UNCHANGED <<turn, results, compacted, troubles, cancelled>>

\* Steering, follow-ups and nudges come with the turn.
TurnStarts ==
  /\ at \in {"turn", "settled"} /\ ~cancelled
  /\ \E spoken \in BOOLEAN :
       /\ spoken => said < MaxMessages
       /\ at = "settled" => spoken
       /\ said' = IF spoken THEN said + 1 ELSE said
       /\ messages' = IF spoken THEN Append(messages, User(said')) ELSE messages
       /\ Emits(Mapped(<<[on |-> "turn_start"]>>) \o (IF spoken THEN Spoken(said') ELSE <<>>))
  /\ at' = "call"
  /\ UNCHANGED <<turn, results, compacted, troubles, cancelled>>

LimitStops ==
  /\ at = "call" /\ turn = MaxTurns
  /\ at' = "end" /\ said' = said + 1 /\ messages' = Append(messages, User(said'))
  /\ Emits(Spoken(said'))
  /\ UNCHANGED <<turn, results, compacted, troubles, cancelled>>

CallStarts ==
  /\ (at = "call" /\ turn < MaxTurns) \/ at = "again"
  /\ turn' = IF at = "call" THEN turn + 1 ELSE turn
  /\ at' = "calling"
  /\ Emits(Mapped(<<[on |-> "call_start", turn |-> turn', estimated |-> Len(messages)]>>))
  /\ UNCHANGED <<results, messages, said, compacted, troubles, cancelled>>

CallEnd(measure, stop) == [on |-> "call_end", turn |-> turn, measure |-> measure, stop |-> stop]
Failed(measure) == CallEnd([measure EXCEPT !.input = 0, !.output = 0], "error")

CallStreams ==
  /\ at \in {"calling", "waiting"} /\ attached /\ page.row = 0
  /\ Emits(Mapped(<<[on |-> "delta"]>>))
  /\ UNCHANGED engineVars

CallRetried ==
  /\ at = "calling" /\ ~cancelled /\ Troubles(TRUE)
  /\ at' = "again"
  /\ \E m \in Measures : Emits(Mapped(<<Failed(m), [on |-> "retry"]>>))
  /\ UNCHANGED <<turn, results, messages, said, compacted, cancelled>>

CallWaits ==
  /\ at \in {"calling", "waiting"} /\ ~cancelled /\ Troubles(TRUE)
  /\ at' = "waiting"
  /\ Emits(Mapped(<<[on |-> "wait"]>>))
  /\ UNCHANGED <<turn, results, messages, said, compacted, cancelled>>

Answer(blocks, stop, output) ==
  [on |-> "answer", id |-> said', blocks |-> blocks, stop |-> stop, output |-> output]
Answered(events, blocks, stop, output) ==
  /\ said' = said + 1
  /\ messages' = Append(messages, Assistant(said', blocks, stop, output))
  /\ Emits(Mapped(Append(events, Answer(blocks, stop, output))))
  /\ UNCHANGED <<turn, compacted, cancelled>>

CallAnswers ==
  /\ at \in {"calling", "waiting"}
  /\ \E kinds \in Answers \ {<<>>}, m \in Measures, short \in BOOLEAN :
       LET blocks == Blocks(said + 1, kinds)
           calls == Calls(blocks)
           stop == IF short THEN "length" ELSE IF calls = {} THEN "stop" ELSE "toolUse"
       IN /\ Troubles(short)
          /\ Answered(<<CallEnd(m, stop)>>, blocks, stop, m.output)
          /\ results' = [c \in calls |-> "called"]
          /\ at' = IF calls = {} THEN "answered" ELSE "tools"

CallFails ==
  /\ at \in {"calling", "waiting"} /\ Troubles(~cancelled)
  /\ \E m \in Measures :
       Answered(<<Failed(m)>>, Blocks(said + 1, <<"text">>), "error", 0)
  /\ at' = "failed"
  /\ UNCHANGED results

CallCancelled ==
  /\ at \in {"calling", "waiting", "again"} /\ cancelled
  /\ Answered(<<>>, <<>>, "aborted", 0)
  /\ at' = "failed"
  /\ UNCHANGED <<results, troubles>>

FailedTurnEnds ==
  /\ at = "failed"
  /\ Emits(Mapped((IF Last(messages).stop = "error" /\ ~cancelled THEN <<[on |-> "error"]>> ELSE <<>>)
                   \o <<[on |-> "turn_end"]>>))
  /\ at' = IF Last(messages).stop = "error" THEN "checked" ELSE "end"
  /\ UNCHANGED <<turn, results, messages, said, compacted, troubles, cancelled>>

\* Calls start in order and end in any.
Before(c) == {d \in DOMAIN results : d[2] < c[2]}
ToolStarts ==
  /\ at = "tools"
  /\ \E c \in DOMAIN results :
       /\ results[c] = "called" /\ \A d \in Before(c) : results[d] # "called"
       /\ results' = [results EXCEPT ![c] = "running"]
       /\ Emits(Mapped(<<[on |-> "tool_start", id |-> c, failed |-> FALSE, took |-> 0]>>))
  /\ UNCHANGED <<at, turn, messages, said, compacted, troubles, cancelled>>

ToolEnds ==
  /\ at = "tools"
  /\ \E c \in DOMAIN results, m \in Measures, failed \in BOOLEAN :
       /\ results[c] = "running"
       /\ Last(messages).stop = "length" => failed
       /\ Troubles(failed /\ Last(messages).stop # "length")
       /\ results' = [results EXCEPT ![c] = IF failed THEN "failed" ELSE "done"]
       /\ Emits(Mapped(<<[on |-> "tool_end", id |-> c, failed |-> failed, took |-> m.took]>>))
  /\ UNCHANGED <<at, turn, messages, said, compacted, cancelled>>

\* Results enter the context in the order of their calls.
ResultItems ==
  LET order == SetToSortSeq(DOMAIN results, LAMBDA c, d : c[2] < d[2])
  IN [i \in DOMAIN order |-> ToolResult(order[i], results[order[i]] = "failed")]

TurnEnds ==
  /\ \/ at = "answered" /\ at' = "settled"
     \/ /\ at = "tools" /\ at' = "turn"
        /\ \A c \in DOMAIN results : results[c] \in {"done", "failed"}
  /\ messages' = messages \o ResultItems
  /\ results' = <<>>
  /\ Emits(Mapped(<<[on |-> "turn_end"]>>))
  /\ UNCHANGED <<turn, said, compacted, troubles, cancelled>>

CompactsAtEnd ==
  /\ at \in {"settled", "checked"}
  /\ \/ Compacts(messages) /\ at' = "end"
     \/ Overflowed(messages) /\ Compacts(Front(messages)) /\ at' = "turn"
  /\ UNCHANGED <<turn, results, said, troubles, cancelled>>

RunEnds ==
  /\ at \in {"settled", "checked", "end"} \/ (at = "turn" /\ cancelled)
  /\ at' = "idle" /\ attached' = FALSE
  /\ Handled(Mapped(<<[on |-> "agent_end"]>>)
               \o <<Save(Stats("finished", <<>>)), Signal("flush", <<>>), Show([on |-> "finished"])>>)
  /\ UNCHANGED <<turn, results, messages, said, compacted, troubles, cancelled, current>>

-----------------------------------------------------------------------------
(* The reader.                                                                 *)
Stops ==
  /\ at # "idle" /\ ~cancelled /\ Troubles(TRUE)
  /\ cancelled' = TRUE
  /\ UNCHANGED <<at, turn, results, messages, said, compacted, buffer, entries, page,
                 attached, current>>

\* A dropped response is a stop request too.
Disconnects ==
  /\ at # "idle" /\ attached /\ Troubles(TRUE)
  /\ attached' = FALSE /\ cancelled' = TRUE /\ current' = FALSE
  /\ UNCHANGED <<at, turn, results, messages, said, compacted, buffer, entries, page>>

Resumes ==
  /\ ~attached
  /\ page' = Rendered /\ current' = (at = "idle")
  /\ UNCHANGED <<engineVars, buffer, entries, attached>>

Init ==
  /\ at = "idle" /\ turn = 0 /\ results = <<>> /\ messages = <<>>
  /\ said = 0 /\ compacted = 0 /\ troubles = 0 /\ cancelled = FALSE
  /\ buffer = <<>> /\ entries = <<>>
  /\ page = Blank /\ attached = FALSE /\ current = TRUE

Next ==
  \/ Send \/ CompactsBeforePrompt \/ Prompts \/ TurnStarts \/ LimitStops
  \/ CallStarts \/ CallStreams \/ CallRetried \/ CallWaits
  \/ CallAnswers \/ CallFails \/ CallCancelled \/ FailedTurnEnds
  \/ ToolStarts \/ ToolEnds \/ TurnEnds \/ CompactsAtEnd \/ RunEnds
  \/ Stops \/ Disconnects \/ Resumes

Spec == Init /\ [][Next]_vars

-----------------------------------------------------------------------------
(* What a page that saw everything and a page opened now have in common.       *)
SinceCompact(contents) ==
  LET last == SelectLastInSeq(contents, LAMBDA c : c[1] = "compact")
  IN SubSeq(contents, IF last = 0 THEN 1 ELSE last, Len(contents))

Counted == {"steps", "input", "output", "took", "ttft", "ttftSteps", "streamed", "decoded", "tool"}
ReadingsAgree(readings, before, resumed) ==
  /\ \A f \in Counted : readings[f] = before[f] + resumed[f]
  /\ compacted = 0 => readings.turns = resumed.turns
  /\ LET calls == SelectSeq(ActiveEntries(entries),
                          LAMBDA e : e.type = "stats" /\ e.of \in {"call_start", "call_end"})
     IN calls # <<>> /\ Last(calls).of = "call_end" => readings.used = resumed.used

\* What the rows of a page hold.
Written(view) ==
  UNION {{view.rows[i].blocks[j][2] : j \in DOMAIN view.rows[i].blocks} : i \in DOMAIN view.rows}
CallsOn(view) == {c \in Written(view) : c[1] = "call"}

(* When nothing runs, a page that saw it all and a page opened now agree: on   *)
(* all since the last compaction, word for word; on what that one kept, which   *)
(* was shown before, its summary never among it; on the tool calls in their     *)
(* rows; and on the readings, those since that compaction being what a page     *)
(* opened now would show.                                                      *)
LiveAndResumedAgree ==
  at = "idle" /\ current =>
    LET resumed == Contents(Replayed) IN
    /\ SinceCompact(page.sent) = SinceCompact(resumed)
    /\ Range(resumed) \subseteq Range(page.sent)
    /\ Summary \notin Range(Replayed)
    /\ CallsOn(Rendered) \subseteq CallsOn(page)
    /\ ReadingsAgree(page.readings, page.before, SessionStats(ActiveEntries(entries)))

-----------------------------------------------------------------------------
(* What is said of the page, and is not so.                                    *)
CutShort(item) == item.type = "stats" /\ item.of = "call_end" /\ item.data.stop = "length"

\* A reply that stopped at the output limit gets a notice of its own
\* (map_run_event, completed calls).
LimitIsShown ==
  attached /\ (\E i \in DOMAIN buffer : CutShort(buffer[i])) =>
    \E i \in DOMAIN page.rows : page.rows[i].row = "max_tokens"
=============================================================================
