------------------------------- MODULE Decoders -------------------------------
(***************************************************************************)
(* One answer of a provider, from the bytes to the message the agent gets:  *)
(* the four wire formats the engine reads (Anthropic Messages, OpenAI chat  *)
(* completions, OpenAI Responses, Bedrock) and the complete JSON answers     *)
(* the first two fall back to.  The server tells a few items (text,          *)
(* thinking, tool calls) piece by piece; the decoder shows every piece to    *)
(* the listener at once and builds the message that is kept.                 *)
(*                                                                         *)
(* A piece is a number of its own; a text, a thought or the JSON of a tool's *)
(* arguments is the sequence of its pieces, 0 the blank line between the     *)
(* parts of a thought.  Indices count from 1.                                *)
(***************************************************************************)
EXTENDS Naturals, Sequences, SequencesExt, FiniteSets, Functions, TLC

CONSTANTS MaxItems,   \* items of an answer
          MaxPieces   \* pieces of an answer

VARIABLES
  wire,     \* the format of the provider that is asked
  said,     \* the items the server told, in its order
  open,     \* those it has not closed
  ended,    \* the reason it gave for stopping, or ""
  decoder,  \* what the decoder has built and shown
  outcome,  \* "asking", "reading", "message" or the kind of failure
  message   \* the content of the message, at the end

vars == <<wire, said, open, ended, decoder, outcome, message>>

Wires == {"anthropic", "chat", "responses", "bedrock"}
Kinds == {"text", "thinking", "tool"}

Item(kind, at, announced) ==
  [kind |-> kind, at |-> at, announced |-> announced, body |-> <<>>]

(* A tool call is known by the item it is, 0 while its id is not known.       *)
Block(kind, id, body) == [kind |-> kind, id |-> id, body |-> body]
EmptyText == Block("text", 0, <<>>)
Unseen == [body |-> <<>>, id |-> 0, starts |-> 0, ends |-> 0, arguments |-> <<>>,
           astray |-> FALSE]

Fresh == 1 + Cardinality((UNION {Range(said[i].body) : i \in DOMAIN said}) \ {0})
IsSequential == wire \in {"anthropic", "bedrock"}

NewDecoder == [content |-> <<>>, slots |-> <<>>, shown |-> <<>>, stop |-> "stop",
               usage |-> FALSE, terminal |-> FALSE]

-----------------------------------------------------------------------------
(* What the listener makes of the events, by content_index.                  *)

Seen(d, i) == IF i \in DOMAIN d.shown THEN d.shown[i] ELSE Unseen
Noted(d, i, seen) == [d EXCEPT !.shown = (i :> seen) @@ @]

ToolCallStart(d, i, id) ==
  Noted(d, i, [Seen(d, i) EXCEPT !.starts = @ + 1, !.id = id])

ShowDelta(d, i, p) == Noted(d, i, [Seen(d, i) EXCEPT !.body = Append(@, p)])

ToolCallDelta(d, i, p) ==
  Noted(d, i, [Seen(d, i) EXCEPT !.astray = @ \/ Seen(d, i).starts = 0 \/ Seen(d, i).ends > 0])

ToolCallEnd(d, i, id, arguments) ==
  Noted(d, i, [Seen(d, i) EXCEPT !.ends = @ + 1, !.id = id, !.arguments = arguments,
                                 !.astray = @ \/ Seen(d, i).id # id])

(* A block of the content.                                                   *)
Pushed(d, block) == [d EXCEPT !.content = Append(@, block)]
NextIndex(d) == Len(d.content) + 1
Grown(d, i, p) == [d EXCEPT !.content[i].body = Append(@, p)]
Slot(d, i, slot) == [d EXCEPT !.slots = (i :> slot) @@ @]
Has(d, kind) == \E i \in DOMAIN d.content : d.content[i].kind = kind
LastOf(d, kind) ==
  CHOOSE i \in DOMAIN d.content :
    /\ d.content[i].kind = kind
    /\ \A j \in i + 1..Len(d.content) : d.content[j].kind # kind

-----------------------------------------------------------------------------
(* anthropic: content blocks by their index.                                 *)

\* A gap is filled with copies of the block that comes.
PaddedWithClones(content, i, block) ==
  content \o [k \in 1..i - 1 - Len(content) |-> block]

Padded(content, i, block) ==
  content \o [k \in 1..i - 1 - Len(content) |-> EmptyText]

ContentBlockStart(d, i, kind, id) ==
  LET block == CASE kind = "tool" -> Block("tool", id, <<>>)
                 [] kind = "thinking" -> Block("thinking", 0, <<>>)
                 [] OTHER -> EmptyText
      placed == [d EXCEPT !.content =
                   LET padded == Padded(@, i, block) IN
                   IF i > Len(padded) THEN Append(padded, block)
                   ELSE [padded EXCEPT ![i] = block]]
  IN IF kind = "tool" THEN ToolCallStart(placed, i, id) ELSE placed

BufferOf(d, i) == IF i \in DOMAIN d.slots THEN d.slots[i] ELSE <<>>

ContentBlockDelta(d, i, kind, p) ==
  IF kind = "tool"
  THEN LET buffered == Slot(d, i, Append(BufferOf(d, i), p)) IN
       IF d.content[i].kind = "tool" THEN ToolCallDelta(buffered, i, p) ELSE buffered
  ELSE ShowDelta(IF d.content[i].kind = kind THEN Grown(d, i, p) ELSE d, i, p)

ContentBlockStop(d, i) ==
  IF d.content[i].kind # "tool" THEN d
  ELSE ToolCallEnd([d EXCEPT !.content[i].body = BufferOf(d, i),
                             !.slots = Restrict(@, DOMAIN @ \ {i})],
                   i, d.content[i].id, BufferOf(d, i))

HasEffectiveContent(content) ==
  \E i \in DOMAIN content : content[i].kind = "tool" \/ content[i].body # <<>>

DecodedAnthropic(d) ==
  IF ~d.terminal THEN "incomplete"
  ELSE IF ~HasEffectiveContent(d.content) /\ d.stop # "error" THEN "empty"
  ELSE "message"

-----------------------------------------------------------------------------
(* chat: deltas of one message, tool calls by their index.                   *)

AtTail(d, kind) ==
  IF d.content # <<>> /\ Last(d.content).kind = kind THEN d
  ELSE Pushed(d, Block(kind, 0, <<>>))

ChatDelta(d, kind, p) ==
  LET tail == AtTail(d, kind) IN
  ShowDelta(Grown(tail, Len(tail.content), p), Len(tail.content), p)

NoBuffer == [at |-> 0, id |-> 0, arguments |-> <<>>, started |-> FALSE]

\* The buffers up to the one an index names.
Buffered(d, t) ==
  IF t <= Len(d.slots) THEN d
  ELSE [d EXCEPT !.slots = d.slots \o [k \in 1..t - Len(d.slots) |-> NoBuffer]]

Reserved(d, t) ==
  IF Buffered(d, t).slots[t].at # 0 THEN Buffered(d, t)
  ELSE [Pushed(Buffered(d, t), Block("tool", 0, <<>>)) EXCEPT !.slots[t].at = NextIndex(d)]

\* A chunk brings the id, some of the arguments, or both.
Named(d, t, id) == IF id = 0 THEN d ELSE [d EXCEPT !.slots[t].id = id]

Announced(d, t) ==
  IF d.slots[t].started \/ d.slots[t].id = 0 THEN d
  ELSE ToolCallStart([d EXCEPT !.slots[t].started = TRUE], d.slots[t].at, d.slots[t].id)

Argued(d, t, pieces) == [d EXCEPT !.slots[t].arguments = @ \o pieces]

Streamed(d, t, pieces) ==
  IF pieces = <<>> \/ ~d.slots[t].started THEN d
  ELSE ToolCallDelta(d, d.slots[t].at, pieces[1])

ToolCallChunk(d, t, id, pieces) ==
  Streamed(Announced(Argued(Named(Reserved(d, t), t, id), t, pieces), t), t, pieces)

\* The arguments are repaired when they are cut short; the pieces stand for both.
Finalized(d, t) ==
  LET buffer == d.slots[t]
      at == IF buffer.at # 0 THEN buffer.at ELSE NextIndex(d)
      block == Block("tool", buffer.id, buffer.arguments)
      placed == IF at <= Len(d.content) THEN [d EXCEPT !.content[at] = block]
                ELSE Pushed(d, block)
  IN ToolCallEnd(placed, at, buffer.id, buffer.arguments)

FinalizeToolCalls(d) == FoldLeft(Finalized, d, [t \in DOMAIN d.slots |-> t])

DecodedChat(d) ==
  IF d.content = <<>> /\ d.slots = <<>> /\ ~d.usage THEN "empty" ELSE "message"

-----------------------------------------------------------------------------
(* responses: output items by their index.                                   *)

CreateSlot(d, o, kind, id) ==
  IF o \in DOMAIN d.slots \/ kind \notin Kinds THEN d
  ELSE LET slot == [kind |-> kind, at |-> NextIndex(d), id |-> id,
                    arguments |-> <<>>, started |-> id # 0]
           placed == Slot(Pushed(d, Block(kind, id, <<>>)), o, slot)
       IN IF kind = "tool" /\ id # 0 THEN ToolCallStart(placed, slot.at, id) ELSE placed

EnsureSlot(d, o, kind) ==
  IF o \in DOMAIN d.slots /\ d.slots[o].kind = kind THEN d
  ELSE Slot(Pushed(d, Block(kind, 0, <<>>)), o,
            [kind |-> kind, at |-> NextIndex(d), id |-> 0, arguments |-> <<>>, started |-> FALSE])

ItemDelta(d, o, kind, p) ==
  LET ensured == EnsureSlot(d, o, kind) IN
  ShowDelta(Grown(ensured, ensured.slots[o].at, p), ensured.slots[o].at, p)

StartedSlot(d, o) ==
  IF d.slots[o].started \/ d.slots[o].id = 0 THEN d
  ELSE ToolCallStart([d EXCEPT !.slots[o].started = TRUE], d.slots[o].at, d.slots[o].id)

ArgumentsDelta(d, o, p) ==
  IF o \notin DOMAIN d.slots THEN d
  ELSE LET started == StartedSlot([d EXCEPT !.slots[o].arguments = Append(@, p)], o) IN
       IF started.slots[o].started THEN ToolCallDelta(started, d.slots[o].at, p) ELSE started

ReasoningSummaryPartDone(d, o) ==
  LET ensured == EnsureSlot(d, o, "thinking")
      at == ensured.slots[o].at
  IN IF ensured.content[at].body = <<>> THEN ensured
     ELSE ShowDelta(Grown(ensured, at, 0), at, 0)

FunctionCallArgumentsDone(d, o, arguments) ==
  IF o \in DOMAIN d.slots THEN [d EXCEPT !.slots[o].arguments = arguments] ELSE d

\* The parts of a finished thought are joined: nothing follows the last.
Joined(body) == IF body # <<>> /\ Last(body) = 0 THEN Front(body) ELSE body

FinishSlot(d, o, id, body) ==
  IF o \notin DOMAIN d.slots THEN d
  ELSE LET slot == d.slots[o]
           started == IF slot.started THEN d ELSE ToolCallStart(d, slot.at, id)
       IN IF slot.kind = "tool"
          THEN ToolCallEnd([started EXCEPT !.content[slot.at] = Block("tool", id, body)],
                           slot.at, id, body)
          ELSE IF Joined(body) = <<>> THEN d
          ELSE [d EXCEPT !.content[slot.at].body = Joined(body)]

OutputItemDone(d, o, item) ==
  FinishSlot(CreateSlot(d, o, item.kind, o), o, o, item.body)

DecodedResponses(d) ==
  IF ~d.terminal THEN "incomplete"
  ELSE IF d.content = <<>> /\ ~d.usage THEN "empty"
  ELSE "message"

-----------------------------------------------------------------------------
(* bedrock: the deltas name no block; text belongs to the first one of its    *)
(* kind, a tool's input and every end of a block to the last tool.           *)

BedrockStart(d, kind, id) ==
  IF kind # "tool" THEN d
  ELSE ToolCallStart(Pushed(d, Block("tool", id, <<>>)), NextIndex(d), id)

FirstText(d) == CHOOSE i \in DOMAIN d.content :
                  /\ d.content[i].kind = "text"
                  /\ \A j \in 1..i - 1 : d.content[j].kind # "text"

BedrockText(d, p) ==
  LET held == IF Has(d, "text") THEN d ELSE Pushed(d, EmptyText) IN
  ShowDelta(Grown(held, FirstText(held), p), FirstText(held), p)

BedrockInput(d, p) ==
  LET i == LastOf(d, "tool") IN
  ToolCallDelta(Slot(d, i, Append(BufferOf(d, i), p)), i, p)

BedrockStop(d) ==
  IF ~Has(d, "tool") THEN d
  ELSE LET i == LastOf(d, "tool") IN
       ToolCallEnd([d EXCEPT !.content[i].body = BufferOf(d, i),
                             !.slots = Restrict(@, DOMAIN @ \ {i})],
                   i, d.content[i].id, BufferOf(d, i))

-----------------------------------------------------------------------------
(* A complete JSON answer, shown block by block.                             *)

Emitted(d, block) ==
  IF block.kind = "tool"
  THEN ToolCallEnd(ToolCallStart(Pushed(d, block), NextIndex(d), block.id),
                   NextIndex(d), block.id, block.body)
  ELSE IF block.body = <<>> THEN d
  ELSE Noted(Pushed(d, block), NextIndex(d), [Unseen EXCEPT !.body = block.body])

\* A chat completion has its thought first, then its text, then its calls.
InOrder(blocks) ==
  IF wire = "anthropic" THEN blocks
  ELSE LET of(kind) == SelectSeq(blocks, LAMBDA b : b.kind = kind) IN
       of("thinking") \o of("text") \o of("tool")

ParseSuccessResponse(blocks) == FoldLeft(Emitted, NewDecoder, InOrder(blocks))

-----------------------------------------------------------------------------
Init ==
  /\ wire \in Wires
  /\ said = <<>> /\ open = {} /\ ended = ""
  /\ decoder = NewDecoder
  /\ outcome = "asking" /\ message = <<>>

Fails(kind) == outcome' = kind /\ UNCHANGED <<wire, said, open, ended, decoder, message>>

\* The answer to the request: a refusal, a stream, or something else.
Refused == outcome = "asking" /\ Fails("failed")

Answered ==
  /\ outcome = "asking"
  /\ outcome' = "reading"
  /\ UNCHANGED <<wire, said, open, ended, decoder, message>>

\* A complete JSON answer; only Anthropic's is refused when it says nothing.
AnsweredWhole ==
  /\ outcome = "asking" /\ wire \in {"anthropic", "chat"}
  /\ \E kinds \in UNION {[1..n -> Kinds] : n \in 0..2}, full \in BOOLEAN :
       LET items == [i \in DOMAIN kinds |->
                      [Item(kinds[i], i, "yes") EXCEPT !.body = IF full THEN <<i>> ELSE <<>>]]
           blocks == [i \in DOMAIN kinds |->
                       Block(kinds[i], IF kinds[i] = "tool" THEN i ELSE 0, items[i].body)]
       IN /\ wire = "chat" => \A i, j \in DOMAIN kinds :
                                i # j /\ kinds[i] = kinds[j] => kinds[i] = "tool"
          /\ said' = items
          /\ decoder' = ParseSuccessResponse(blocks)
          /\ outcome' = IF wire = "anthropic" /\ ~HasEffectiveContent(blocks)
                        THEN "empty" ELSE "message"
          /\ message' = decoder'.content
  /\ ended' = "stop"
  /\ UNCHANGED <<wire, open>>

-----------------------------------------------------------------------------
(* The server's events.                                                      *)

Tells(item, d) ==
  /\ said' = Append(said, item)
  /\ open' = open \cup {Len(said) + 1}
  /\ decoder' = d
  /\ UNCHANGED <<wire, ended, outcome, message>>

MayTell == outcome = "reading" /\ ended = "" /\ Len(said) < MaxItems

\* A content block starts, perhaps after one the endpoint left out.
StartBlock ==
  /\ MayTell /\ wire = "anthropic" /\ open = {}
  /\ \E kind \in Kinds \cup {"other"}, gap \in 0..1 :
       LET at == NextIndex(decoder) + gap IN
       Tells(Item(kind, at, "yes"),
             ContentBlockStart(decoder, at, kind, Len(said) + 1))

StartBedrockBlock ==
  /\ MayTell /\ wire = "bedrock" /\ open = {}
  /\ \E kind \in {"text", "tool"} :
       Tells(Item(kind, 0, "yes"), BedrockStart(decoder, kind, Len(said) + 1))

\* The first chunk of a kind or of a tool call; the one of a text may be empty.
StartChunk ==
  /\ MayTell /\ wire = "chat"
  /\ \E kind \in Kinds :
       LET t == 1 + Cardinality({i \in DOMAIN said : said[i].kind = "tool"}) IN
       /\ kind # "tool" => \A i \in DOMAIN said : said[i].kind # kind
       /\ Tells(Item(kind, t, "yes"),
                CASE kind = "tool" -> ToolCallChunk(decoder, t, Len(said) + 1, <<>>)
                  [] kind = "text" -> AtTail(decoder, "text")
                  [] OTHER -> decoder)

\* An output item is added with its name, without one, or not announced at all.
AddItem ==
  /\ MayTell /\ wire = "responses"
  /\ \A i \in open : said[i].announced # "no"
  /\ \E kind \in Kinds \cup {"other"}, announced \in {"yes", "nameless", "no"} :
       /\ announced = "nameless" => kind = "tool"
       /\ announced = "no" => open = {}
       /\ Tells(Item(kind, Len(said) + 1, announced),
                CASE announced = "yes" -> CreateSlot(decoder, Len(said) + 1, kind, Len(said) + 1)
                  [] announced = "nameless" -> CreateSlot(decoder, Len(said) + 1, kind, 0)
                  [] OTHER -> decoder)

\* The decoder reads one more piece p of item i.
Decoded(i, kind, p) ==
  CASE wire = "anthropic" -> ContentBlockDelta(decoder, said[i].at, kind, p)
    [] wire = "chat" /\ kind = "tool" -> ToolCallChunk(decoder, said[i].at, 0, <<p>>)
    [] wire = "chat" /\ kind # "tool" -> ChatDelta(decoder, kind, p)
    [] wire = "responses" /\ kind = "tool" -> ArgumentsDelta(decoder, i, p)
    [] wire = "responses" /\ kind # "tool" -> ItemDelta(decoder, i, kind, p)
    [] wire = "bedrock" /\ kind = "tool" -> BedrockInput(decoder, p)
    [] wire = "bedrock" /\ kind # "tool" -> BedrockText(decoder, p)

Speak(i) ==
  /\ outcome = "reading" /\ ended = "" /\ i \in open
  /\ said[i].kind \in Kinds /\ Fresh <= MaxPieces
  /\ decoder' = Decoded(i, said[i].kind, Fresh)
  /\ said' = [said EXCEPT ![i].body = Append(@, Fresh)]
  /\ UNCHANGED <<wire, open, ended, outcome, message>>

\* A part of a thought is done; the next one starts on a new line.
EndPart(i) ==
  /\ outcome = "reading" /\ ended = "" /\ i \in open
  /\ wire = "responses" /\ said[i].kind = "thinking"
  /\ said[i].body # <<>> /\ Last(said[i].body) # 0
  /\ decoder' = ReasoningSummaryPartDone(decoder, i)
  /\ said' = [said EXCEPT ![i].body = Append(@, 0)]
  /\ UNCHANGED <<wire, open, ended, outcome, message>>

EndArguments(i) ==
  /\ outcome = "reading" /\ ended = "" /\ i \in open
  /\ wire = "responses" /\ said[i].kind = "tool"
  /\ decoder' = FunctionCallArgumentsDone(decoder, i, said[i].body)
  /\ UNCHANGED <<wire, said, open, ended, outcome, message>>

\* A block or an item is over.
Close(i) ==
  /\ outcome = "reading" /\ ended = "" /\ i \in open
  /\ wire # "chat"
  /\ open' = open \ {i}
  /\ decoder' = CASE wire = "anthropic" -> ContentBlockStop(decoder, said[i].at)
                  [] wire = "bedrock" -> BedrockStop(decoder)
                  [] wire = "responses" -> OutputItemDone(decoder, i, said[i])
  /\ UNCHANGED <<wire, said, ended, outcome, message>>

\* message_delta, finish_reason, response.completed or incomplete, messageStop.
End(reason) ==
  /\ outcome = "reading" /\ ended = ""
  /\ IsSequential \/ (wire = "responses" /\ reason # "length") => open = {}
  /\ reason = "refused" => wire = "anthropic"
  /\ ended' = reason
  /\ decoder' = [decoder EXCEPT !.stop = IF reason = "refused" THEN "error" ELSE reason,
                                !.terminal = @ \/ wire = "responses",
                                !.usage = @ \/ wire = "responses"]
  /\ UNCHANGED <<wire, said, open, outcome, message>>

\* A stop reason Anthropic's decoder does not know.
EndUnknown == outcome = "reading" /\ ended = "" /\ wire = "anthropic" /\ open = {} /\ Fails("failed")

\* The chunk with the usage.  Bedrock's metadata is read as a message stop
\* without a reason: its variant comes first and its one field is optional.
Account ==
  /\ outcome = "reading" /\ ended # "" /\ wire \in {"chat", "bedrock"} /\ ~decoder.usage
  /\ decoder' = IF wire = "chat" THEN [decoder EXCEPT !.usage = TRUE]
                ELSE [decoder EXCEPT !.stop = "stop"]
  /\ wire = "bedrock" => decoder.stop # "stop"
  /\ UNCHANGED <<wire, said, open, ended, outcome, message>>

-----------------------------------------------------------------------------
(* The end of the stream, and the checks before the message is built.        *)

ToolUse(d) ==
  IF Has(d, "tool") /\ (wire = "chat" \/ (wire = "anthropic" /\ d.stop # "error")
                        \/ (wire = "responses" /\ d.stop = "stop"))
  THEN [d EXCEPT !.stop = "tools"] ELSE d

Finish(d) ==
  /\ outcome' = CASE wire = "anthropic" -> DecodedAnthropic(d)
                  [] wire = "chat" -> DecodedChat(d)
                  [] wire = "responses" -> DecodedResponses(d)
                  [] wire = "bedrock" -> "message"
  /\ decoder' = ToolUse(IF wire = "chat" THEN FinalizeToolCalls(d) ELSE d)
  /\ message' = IF outcome' = "message" THEN decoder'.content ELSE <<>>
  /\ UNCHANGED <<wire, said, open, ended>>

MessageStop ==
  /\ outcome = "reading" /\ wire = "anthropic" /\ ended # ""
  /\ Finish([decoder EXCEPT !.terminal = TRUE])

\* [DONE] or the end of the connection, whether the server meant it or not.
EndOfStream == outcome = "reading" /\ Finish(decoder)

\* An error event, a read error or a cancellation.  Bedrock's decoder takes a
\* read error for the end.
Break ==
  /\ outcome = "reading"
  /\ IF wire = "bedrock" THEN Finish(decoder) ELSE Fails("failed")

Next ==
  \/ Refused \/ Answered \/ AnsweredWhole
  \/ StartBlock \/ StartBedrockBlock \/ StartChunk \/ AddItem
  \/ \E i \in open : Speak(i) \/ EndPart(i) \/ EndArguments(i) \/ Close(i)
  \/ \E reason \in {"stop", "length", "tools", "refused"} : End(reason)
  \/ EndUnknown \/ Account \/ MessageStop \/ EndOfStream \/ Break

Spec == Init /\ [][Next]_vars

-----------------------------------------------------------------------------
Flat(blocks, kind) ==
  FlattenSeq([i \in DOMAIN SelectSeq(blocks, LAMBDA b : b.kind = kind) |->
                Joined(SelectSeq(blocks, LAMBDA b : b.kind = kind)[i].body)])

Closed == IF wire = "chat" THEN DOMAIN said ELSE DOMAIN said \ open

\* What the listener saw of a block is what the message says of it.
SeenWhole(i) ==
  LET seen == Seen(decoder, i) block == message[i] IN
  IF block.kind # "tool" THEN Joined(seen.body) = Joined(block.body)
  ELSE \/ seen = [Unseen EXCEPT !.starts = 1, !.ends = 1, !.id = block.id,
                                !.arguments = block.body]
       \/ \* an item an incomplete answer never closed
          wire = "responses" /\ ended = "length" /\ seen.ends = 0 /\ block.body = <<>>

\* Bedrock's decoder ends the last tool again with the text that follows it.
TextAfterTool ==
  wire = "bedrock" /\ \E i, j \in DOMAIN said : i < j /\ said[i].kind = "tool" /\ said[j].kind = "text"

\* A message is what the server said: every kind of content in its order and
\* nothing twice, every tool call started once and ended once with the id and
\* the arguments the message keeps, and the deltas shown on the way add up to
\* it.  Where the format has a last event, nothing cut short becomes a message.
StreamIsFaithful ==
  outcome = "message" =>
    /\ wire \in {"anthropic", "responses"} => ended # ""
    /\ wire # "bedrock" \/ (ended # "" /\ ~TextAfterTool) =>
         \A i \in DOMAIN message : SeenWhole(i)
    /\ \A kind \in {"text", "thinking"} :
         ended # "" => Flat(message, kind) = Flat(said, kind)
    /\ ended # "" /\ ~TextAfterTool =>
         {<<i, said[i].body>> : i \in {j \in Closed : said[j].kind = "tool"}}
           \subseteq {<<message[i].id, message[i].body>> : i \in DOMAIN message}
    /\ Cardinality({i \in DOMAIN message : message[i].kind = "tool"})
         <= Cardinality({i \in DOMAIN said : said[i].kind = "tool"})
=============================================================================
