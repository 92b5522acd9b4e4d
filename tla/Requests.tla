------------------------------- MODULE Requests -------------------------------
(***************************************************************************)
(* The request bodies the engine sends for one conversation, to whichever   *)
(* provider and model it is continued with: the tool exchanges are paired   *)
(* (Conversation), what only another model can replay becomes text           *)
(* (context/history.rs), and each protocol's builder writes the messages its *)
(* own way.  And the output and thinking limits of a request.                *)
(*                                                                         *)
(* A block of content has a number that stands for what it says, 0 for       *)
(* nothing: an empty text, an image that cannot be loaded any more.  A       *)
(* thought has the protocol that can replay it.  Tool calls are kept apart,  *)
(* after the other blocks, and known by their ids.                           *)
(***************************************************************************)
EXTENDS Conversation, Integers

CONSTANTS Contents,      \* contents of an answer, without its calls
          MaxMessages,   \* messages of a conversation
          Caps           \* output limits, in units of 1024 tokens

VARIABLES
  history,  \* the messages of the conversation
  body,     \* the last request's messages, as the protocol writes them
  sent,     \* how it was sent: the protocol, and whether images go with it
  limits    \* the output limit, the thinking budget and the level of a request

vars == <<history, body, sent, limits>>

Protocols == {"anthropic", "chat", "responses", "bedrock"}

Text(v) == [kind |-> "text", v |-> v, replay |-> ""]
Image(v) == [kind |-> "image", v |-> v, replay |-> ""]
Thinking(v, protocol) == [kind |-> "thinking", v |-> v, replay |-> protocol]

(* An answer remembers the model that gave it.                               *)
Answer(by, stop, content, calls) ==
  [role |-> "assistant", by |-> by, stop |-> stop, content |-> content, calls |-> calls]

(* What a tool returned, and what stands for a result that is missing.        *)
ResultContent(how) ==
  CASE how = "text" -> <<Text(8)>>
    [] how = "image" -> <<Image(9)>>
    [] how = "both" -> <<Text(8), Image(9)>>
    [] how = "lost" -> <<Image(0)>>
    [] how = "empty" -> <<>>
    [] how = "missing" -> <<Text(7)>>

NotEmpty(b) == b.kind # "text" \/ b.v # 0

-----------------------------------------------------------------------------
(* transform_messages_for_model.                                             *)

Replayable(m, b, model) == m.by = model /\ b.replay = model[1]

TransformedBlock(m, b, model) ==
  IF b.kind # "thinking" \/ Replayable(m, b, model) THEN <<b>>
  ELSE IF b.v = 0 THEN <<>>
  ELSE <<Text(b.v)>>

TransformMessage(m, model) ==
  IF ~IsAssistant(m) THEN m
  ELSE [m EXCEPT !.content =
          FlattenSeq([i \in DOMAIN m.content |-> TransformedBlock(m, m.content[i], model)])]

TransformMessagesForModel(messages, model) ==
  LET paired == SanitizeToolPairs(messages) IN
  [i \in DOMAIN paired |-> TransformMessage(paired[i], model)]

-----------------------------------------------------------------------------
(* A part of a wire message: its type, and what it says or the call it is of. *)
Part(type, v) == [type |-> type, v |-> v]
Wire(role, parts) == [role |-> role, parts |-> parts]
Calls(type, calls) == [i \in DOMAIN calls |-> Part(type, calls[i])]
Flattened(messages, Op(_)) == FlattenSeq([i \in DOMAIN messages |-> Op(messages[i])])

(* anthropic/request.rs                                                      *)

ContentToAnthropic(content) ==
  LET shown == SelectSeq(content, NotEmpty) IN
  [i \in DOMAIN shown |->
     LET b == shown[i] IN
     CASE b.kind = "image" /\ b.v = 0 -> Part("text", 6)   \* [image unavailable]
       [] b.kind = "thinking" /\ b.replay # "anthropic" -> Part("text", b.v)
       [] OTHER -> Part(b.kind, b.v)]

AnthropicMessage(m) ==
  LET parts == CASE IsUser(m) -> ContentToAnthropic(m.who)
                 [] IsAssistant(m) -> ContentToAnthropic(m.content) \o Calls("tool_use", m.calls)
                 [] IsResult(m) -> <<Part("tool_result", m.call)>>
  IN IF parts = <<>> THEN <<>>
     ELSE <<Wire(IF IsAssistant(m) THEN "assistant" ELSE "user", parts)>>

\* Messages are sent as they come.
Unmerged(messages) == messages

MergeConsecutiveRoles(messages) ==
  FoldLeft(LAMBDA merged, m :
             IF merged # <<>> /\ Last(merged).role = m.role
             THEN [merged EXCEPT ![Len(merged)].parts = @ \o m.parts]
             ELSE Append(merged, m),
           <<>>, messages)

AnthropicBody(messages) == MergeConsecutiveRoles(Flattened(messages, AnthropicMessage))

(* openai_compat/request.rs                                                  *)

\* Images go to a model that sees them, if they can be loaded.
OpenAiPart(b, images) ==
  CASE b.kind = "text" -> IF b.v = 0 THEN <<>> ELSE <<Part("text", b.v)>>
    [] b.kind = "image" /\ ~images -> <<Part("text", 6)>>   \* [Image omitted ...]
    [] b.kind = "image" /\ images /\ b.v # 0 -> <<Part("image", b.v)>>
    [] OTHER -> <<>>

ContentToOpenAi(content, images) ==
  FlattenSeq([i \in DOMAIN content |-> OpenAiPart(content[i], images)])

HasImage(content) == \E i \in DOMAIN content : content[i].kind = "image"
ImagesOf(content) == SelectSeq(content, LAMBDA b : b.kind = "image")

ChatAnswer(m) ==
  LET said == SelectSeq(m.content, LAMBDA b : b.kind # "image" /\ b.v # 0)
      parts == [i \in DOMAIN said |-> Part(said[i].kind, said[i].v)] \o Calls("tool_call", m.calls)
  IN IF parts = <<>> THEN <<>> ELSE <<Wire("assistant", parts)>>

\* The images of a result follow in a message of the user's.
ChatResult(m, images) ==
  LET content == ResultContent(m.how) IN
  <<Wire("tool", <<Part("tool_result", m.call)>>)>>
    \o IF HasImage(content) /\ images
       THEN <<Wire("user", ContentToOpenAi(<<Text(5)>> \o ImagesOf(content), images))>>
       ELSE <<>>

ChatMessage(m, images) ==
  CASE IsUser(m) -> <<Wire("user", ContentToOpenAi(m.who, images))>>
    [] IsAssistant(m) -> ChatAnswer(m)
    [] IsResult(m) -> ChatResult(m, images)

ChatBody(messages, images) == Flattened(messages, LAMBDA m : ChatMessage(m, images))

(* openai_responses/request.rs                                               *)

ResponsesBlock(b) ==
  CASE b.kind = "text" /\ b.v # 0 -> <<Wire("assistant", <<Part("text", b.v)>>)>>
    [] b.kind = "thinking" /\ b.replay = "responses" -> <<Wire("reasoning", <<Part("thinking", b.v)>>)>>
    [] OTHER -> <<>>

ResponsesMessage(m, images) ==
  CASE IsUser(m) -> LET parts == ContentToOpenAi(m.who, images) IN
                    IF parts = <<>> THEN <<>> ELSE <<Wire("user", parts)>>
    [] IsAssistant(m) -> Flattened(m.content, ResponsesBlock)
                         \o [i \in DOMAIN m.calls |->
                               Wire("function_call", <<Part("tool_call", m.calls[i])>>)]
    [] IsResult(m) -> <<Wire("function_call_output", <<Part("tool_result", m.call)>>)>>

ResponsesBody(messages, images) == Flattened(messages, LAMBDA m : ResponsesMessage(m, images))

(* bedrock.rs: nothing is merged and nothing is left out.                    *)

BedrockPart(b) ==
  CASE b.kind = "text" /\ b.v # 0 -> <<Part("text", b.v)>>
    [] b.kind = "image" /\ b.v # 0 -> <<Part("image", b.v)>>
    [] OTHER -> <<>>
ContentToBedrock(content) == FlattenSeq([i \in DOMAIN content |-> BedrockPart(content[i])])

BedrockMessage(m) ==
  CASE IsUser(m) -> <<Wire("user", ContentToBedrock(m.who))>>
    [] IsAssistant(m) -> <<Wire("assistant", ContentToBedrock(m.content)
                                             \o Calls("tool_use", m.calls))>>
    [] IsResult(m) -> <<Wire("user", <<Part("tool_result", m.call)>>)>>

BuildRequestBody(protocol, messages, images) ==
  CASE protocol = "anthropic" -> AnthropicBody(messages)
    [] protocol = "chat" -> ChatBody(messages, images)
    [] protocol = "responses" -> ResponsesBody(messages, images)
    [] protocol = "bedrock" -> Flattened(messages, BedrockMessage)

-----------------------------------------------------------------------------
(* Levels count from off, 0, to max, 6; limits are in units of 1024 tokens.   *)

Off == 0
Levels == 0..6
BudgetOf(level) ==
  CASE level = Off -> 0 [] level = 1 -> 1 [] level = 2 -> 2 [] level = 3 -> 8 [] OTHER -> 16
LeastThinking == 1
LeastAnswer == 1
Saturated(n) == Max({0, n})
AtLeastOne(n) == Max({1, n})

\* The next level up that the model has, or else the next one down.
ClampThinkingLevel(level, available) ==
  LET above == {l \in available : l >= level} IN
  IF available = {} THEN Off
  ELSE IF above # {} THEN Min(above) ELSE Max(available)

\* An explicit cap is for the answer: the budget comes on top of it.
AdjustMaxTokens(cap, modelMax, level) ==
  LET room == AtLeastOne(IF cap = 0 THEN modelMax ELSE Min({cap + BudgetOf(level), modelMax})) IN
  [max |-> room, budget |-> Min({BudgetOf(level), Saturated(room - LeastAnswer)})]

\* A model thinks by a budget, by an effort of its own, or by an effort and a
\* budget that is sent as it is.  A budget too small for the API is left out.
AnthropicLimits(cap, modelMax, level, thinks) ==
  LET requested == IF level # Off /\ thinks = "by budget" THEN AdjustMaxTokens(cap, modelMax, level)
                   ELSE [max |-> AtLeastOne(IF cap = 0 THEN modelMax ELSE cap), budget |-> 0]
      bound == AtLeastOne(Min({requested.max, modelMax}))
      budget == Min({requested.budget, Saturated(bound - LeastAnswer)})
  IN [max |-> bound, level |-> level, thinks |-> thinks,
      budget |-> IF thinks = "enabled" THEN BudgetOf(level)
                 ELSE IF budget >= LeastThinking THEN budget ELSE 0]

NoLimits == [max |-> 0, budget |-> 0, level |-> Off, thinks |-> ""]
NotSent == [protocol |-> "", model |-> <<>>, images |-> FALSE]

-----------------------------------------------------------------------------
Init == history = <<>> /\ body = <<>> /\ sent = NotSent /\ limits = NoLimits

Extend(m) == history' = Append(history, m) /\ UNCHANGED <<body, sent, limits>>
\* A request leaves the history as it was, so one that goes on after it is one
\* that goes on before it.
MayExtend == Len(history) < MaxMessages /\ limits = NoLimits /\ sent = NotSent

\* The user says something, perhaps with an image, perhaps one that is gone.
Say ==
  /\ MayExtend
  /\ \E content \in {<<Text(1)>>, <<Text(1), Image(2)>>, <<Image(0)>>} : Extend(User(content))

\* The model of some provider answers; a refused or cut off answer is kept too.
Reply ==
  /\ MayExtend /\ history # <<>> /\ ~IsAssistant(Last(history))
  /\ \E protocol \in Protocols, content \in Contents, calls \in {<<>>, <<20>>, <<20, 21>>},
        stop \in {"stop", "aborted"} :
       /\ \A i \in DOMAIN content : content[i].replay \in {"", protocol}
       /\ Extend(Answer(<<protocol, "m">>, stop, content, calls))

\* A tool returns; a result may be lost with the run that waited for it.
Return ==
  /\ MayExtend
  /\ \E i \in DOMAIN history : \E how \in {"text", "both", "image", "lost", "empty"} :
       /\ IsAssistant(history[i])
       /\ \A j \in i + 1..Len(history) : IsResult(history[j])
       /\ Len(history) - i < Len(history[i].calls)
       /\ Extend(Result(history[i].calls[Len(history) - i + 1], how))

\* The conversation goes on with some model of some protocol.
Send ==
  /\ history # <<>> /\ ~IsAssistant(Last(history)) /\ sent = NotSent
  /\ \E protocol \in Protocols, name \in {"m", "n"}, images \in BOOLEAN :
       /\ sent' = [protocol |-> protocol, model |-> <<protocol, name>>, images |-> images]
       /\ body' = BuildRequestBody(protocol, TransformMessagesForModel(history, <<protocol, name>>), images)
  /\ UNCHANGED <<history, limits>>

\* The limits of a request to a model that has some of the levels.
Limit ==
  /\ history = <<>> /\ limits = NoLimits
  /\ \E cap, modelMax \in Caps, level \in Levels, available \in SUBSET Levels,
        thinks \in {"by budget", "adaptive", "enabled"} :
       limits' = AnthropicLimits(cap, modelMax, ClampThinkingLevel(level, available), thinks)
  /\ UNCHANGED <<history, body, sent>>

Next == Say \/ Reply \/ Return \/ Send \/ Limit

-----------------------------------------------------------------------------
OfType(parts, type) == SelectSeq(parts, LAMBDA p : p.type = type)
Values(parts) == [i \in DOMAIN parts |-> parts[i].v]
CallsOf(m) == ToSet(Values(SelectSeq(m.parts, LAMBDA p : p.type \in {"tool_use", "tool_call"})))
ResultsOf(m) == ToSet(Values(OfType(m.parts, "tool_result")))

\* The message's results are its first parts.
ResultsLead(m) ==
  \A i, j \in DOMAIN m.parts :
    i < j /\ m.parts[j].type = "tool_result" => m.parts[i].type = "tool_result"

AnthropicAccepts ==
  \A i \in DOMAIN body :
    /\ body[i].parts # <<>>
    /\ i > 1 => body[i].role # body[i - 1].role
    /\ \A k \in DOMAIN body[i].parts :
         body[i].parts[k] \notin {Part("text", 0)}
    /\ ResultsLead(body[i])
    /\ IF i = 1 THEN ResultsOf(body[i]) = {} ELSE ResultsOf(body[i]) = CallsOf(body[i - 1])

\* The tool messages of an answer follow it; with images in between they do not.
ImageBetween ==
  \E i, j \in DOMAIN body : i < j /\ body[i].role = "user" /\ body[j].role = "tool"
    /\ \A k \in i..j : body[k].role # "assistant"

ChatAccepts ==
  \A i \in DOMAIN body :
    /\ body[i].parts = <<>> =>
         \E j \in DOMAIN history : IsUser(history[j]) /\ history[j].who = <<Image(0)>>
    /\ LET group == {j \in i + 1..Len(body) : \A k \in i + 1..j : body[k].role = "tool"} IN
       CallsOf(body[i]) # {} =>
         /\ Cardinality(group) = Cardinality(CallsOf(body[i]))
         /\ UNION {ResultsOf(body[j]) : j \in group} = CallsOf(body[i])
    /\ body[i].role = "tool" => i > 1 /\ body[i - 1].role \in {"assistant", "tool"}

ResponsesAccepts ==
  LET calls == SelectSeq(body, LAMBDA m : m.role = "function_call")
      outputs == SelectSeq(body, LAMBDA m : m.role = "function_call_output")
  IN /\ Len(calls) = Len(outputs)
     /\ \A i \in DOMAIN calls : CallsOf(calls[i]) = ResultsOf(outputs[i])
     /\ \A i \in DOMAIN body : body[i].parts # <<>>
     /\ \A i \in DOMAIN body : body[i].role = "function_call" =>
          \E j \in i + 1..Len(body) :
            /\ ResultsOf(body[j]) = CallsOf(body[i])
            /\ \A k \in i + 1..j - 1 : body[k].role \in {"function_call", "function_call_output"}

\* Everything the user said is in the request once, in its order.
UserTexts(messages) ==
  Flattened(SelectSeq(messages, IsUser), LAMBDA m : Values(SelectSeq(m.who, LAMBDA b : b.kind = "text")))
SentTexts == SelectSeq(Flattened(SelectSeq(body, LAMBDA m : m.role = "user"),
                                 LAMBDA m : Values(OfType(m.parts, "text"))), LAMBDA v : v = 1)

\* Whatever model a conversation is continued with, the request is one its API
\* accepts: roles alternate where they must, nothing is empty, every call has
\* its result at the place the protocol wants it, nothing only another model
\* can replay is sent to it, and the user's words are all there.  A request asks
\* for no more thinking than its output limit and the model's levels allow; the
\* budget that goes with an effort is sent unclamped (request.rs:217).
RequestIsAccepted ==
  /\ sent # NotSent =>
       /\ sent.protocol = "anthropic" => AnthropicAccepts
       /\ sent.protocol = "chat" /\ ~ImageBetween => ChatAccepts
       /\ sent.protocol = "responses" => ResponsesAccepts
       /\ SentTexts = UserTexts(history)
       /\ \A i \in DOMAIN body : OfType(body[i].parts, "thinking") # <<>> =>
            \E j \in DOMAIN history : IsAssistant(history[j]) /\ history[j].by = sent.model
  /\ limits.budget > 0 /\ limits.thinks # "enabled" =>
       limits.budget + LeastAnswer <= limits.max /\ limits.level # Off

\* The tool messages of an answer follow it at once.
ResultsStayTogether == sent.protocol = "chat" => ChatAccepts
=============================================================================
