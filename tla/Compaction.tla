------------------------------ MODULE Compaction ------------------------------
(***************************************************************************)
(* What a conversation still knows after compactions, automatic and manual: *)
(* the planner decides what is evicted, the summary chain (the provider's    *)
(* own compaction, a model's summary, a deterministic one) writes what        *)
(* stands for it, and the state carried from one compaction to the next       *)
(* keeps the previous summary and the files worked on.                        *)
(*                                                                         *)
(* A summary is the set of the user's messages its writer was shown, and of   *)
(* the files it lists: how well a model summarises is not the code's affair.  *)
(***************************************************************************)
EXTENDS Conversation

CONSTANTS Files, MaxMessages, MaxCompactions,
          KeepRecent,   \* size of the tail that is kept
          InputParts    \* messages a summarizer is shown

\* The tail is not empty, and a summarizer is shown the first message.
ASSUME SizesAssumption == KeepRecent \in Nat \ {0} /\ InputParts \in Nat /\ InputParts >= 3

VARIABLES
  messages,   \* the active context
  state,      \* CompactionState: what one compaction leaves to the next
  said,       \* messages of the conversation so far
  asked,      \* those of the user
  touched,    \* the file operations of all of them
  omitted,    \* user messages no summarizer was shown, for their number
  forgotten   \* user messages a summary had and its successor was not given

compaction == <<messages, state, said, asked, touched, omitted, forgotten>>

NoSummary == [written |-> FALSE, users |-> {}, ops |-> {}]
Summary(users, ops) == [written |-> TRUE, users |-> users, ops |-> ops]

\* A message of the conversation; its operation is what it does to a file, its
\* size that of its content, and the result of a large read is for its run only.
Message(role, id, op, size) ==
  [role |-> role, id |-> id, op |-> op, size |-> size, brief |-> FALSE,
   text |-> NoSummary, native |-> NoSummary]
NoOp == <<"none", "">>

\* A summary in the context: a user message with the text, or an answer that
\* holds the provider's own item, with the text for other providers.
SummaryMessage(text) == [Message("user", 0, NoOp, 1) EXCEPT !.text = text]
ReplacementMessage(text, item) ==
  [Message("assistant", 0, NoOp, 1) EXCEPT !.text = text, !.native = item]
IsSummary(m) == IsUser(m) /\ m.text.written
IsReplacement(m) == m.native.written

UsersOf(ms) == {ms[i].id : i \in {j \in DOMAIN ms : IsUser(ms[j])}} \ {0}

-----------------------------------------------------------------------------
(* plan.rs.  The plan is where the kept messages begin, and where the turn    *)
(* that is cut in two does, if one is.                                        *)

SizeFrom(ms, i) == FoldRight(LAMBDA m, total : m.size + total, SubSeq(ms, i, Len(ms)), 0)

SnapForward(ms, i) == {k \in ValidCuts(ms) : k >= i}

FindFirstKept(ms) ==
  LET enough == {i \in DOMAIN ms : SizeFrom(ms, i) >= KeepRecent}
      cuts == IF enough = {} THEN {} ELSE SnapForward(ms, Max(enough))
  IN IF ValidCuts(ms) = {} THEN 1
     ELSE IF cuts = {} THEN Min(ValidCuts(ms)) ELSE Min(cuts)

DetectSplitTurn(ms, kept) ==
  LET users == {i \in 1..kept - 1 : IsUser(ms[i])} IN
  IF kept > Len(ms) \/ IsUser(ms[kept]) \/ users = {} THEN kept ELSE Max(users)

PlanMessages(ms, minimum) ==
  LET kept == Max({FindFirstKept(ms), Min({minimum, Len(ms) + 1})}) IN
  IF ms = <<>> \/ kept <= 1 THEN {}
  ELSE {[kept |-> kept, turn |-> DetectSplitTurn(ms, kept)]}

Evicted(ms, plan) == SubSeq(ms, 1, plan.turn - 1)
TurnPrefix(ms, plan) == SubSeq(ms, plan.turn, plan.kept - 1)
Splits(plan) == plan.turn < plan.kept

-----------------------------------------------------------------------------
(* The operations on files.  The planner also counts searches; what is        *)
(* accumulated from one automatic compaction to the next does not.             *)

OpsOf(ms, tools) == {ms[i].op : i \in DOMAIN ms} \cap (tools \X Files)
ExtractFileOps(ms, plan) == OpsOf(SubSeq(ms, 1, plan.kept - 1), {"read", "edit", "grep"})
CollectFileOps(ms, plan) == OpsOf(SubSeq(ms, 1, plan.kept - 1), {"read", "edit"})

\* Results kept for one run are cleared once the user has spoken again.
Reclaim(ms) ==
  [i \in DOMAIN ms |->
     IF ms[i].brief /\ \E j \in i + 1..Len(ms) : IsUser(ms[j])
     THEN [ms[i] EXCEPT !.size = 1] ELSE ms[i]]

-----------------------------------------------------------------------------
(* summarizer/serialize.rs.  Every message is a part; the abbreviated form     *)
(* leaves the thoughts out, a replacement's text with them.                   *)

PartsOf(ms, abbreviate) == {i \in DOMAIN ms : ~(abbreviate /\ IsReplacement(ms[i]))}

\* Too many parts: the first third and the last two thirds are shown.
Rank(parts, i) == Cardinality({j \in parts : j <= i})
Bounded(parts) ==
  LET all == Cardinality(parts)
      head == InputParts \div 3
  IN {i \in parts : \/ all <= InputParts \/ Rank(parts, i) <= head
                    \/ Rank(parts, i) > all - (InputParts - head)}

SerializeMessages(ms, abbreviate) == Bounded(PartsOf(ms, abbreviate))

UsersIn(m) == IF IsReplacement(m) THEN m.text.users ELSE UsersOf(<<m>>)
Shown(ms, abbreviate) == UNION {UsersIn(ms[i]) : i \in SerializeMessages(ms, abbreviate)}

ListedOps(ms, plan) == state.ops \cup CollectFileOps(ms, plan) \cup ExtractFileOps(ms, plan)

\* The model is asked to update the previous summary, unless nothing came
\* before the turn that is split: then it is asked about that turn alone.
NoPriorHistory(ms, plan, abbreviate) ==
  Splits(plan) /\ SerializeMessages(Evicted(ms, plan), abbreviate) = {}

LlmSummary(ms, plan, abbreviate) ==
  LET previous == IF NoPriorHistory(ms, plan, abbreviate) THEN NoSummary ELSE state.summary IN
  Summary(previous.users \cup Shown(Evicted(ms, plan), abbreviate)
                         \cup Shown(TurnPrefix(ms, plan), abbreviate),
          previous.ops \cup ListedOps(ms, plan))

\* The deterministic summary lists every request and repeats the previous one.
EmergencySummary(ms, plan) ==
  Summary(state.summary.users \cup UsersOf(Evicted(ms, plan))
                              \cup Shown(TurnPrefix(ms, plan), FALSE),
          state.summary.ops \cup ListedOps(ms, plan))

\* Mutant: the local summary was taken out of the context and is not put back.
RemoteInputWithoutSummary(ms) ==
  UsersOf(ms) \cup UNION {ms[i].native.users : i \in DOMAIN ms}

\* The provider is given the evicted messages as they are, the items of an
\* earlier compaction among them, and a local summary that is in no item yet.
RemoteInput(ms) ==
  (IF state.inContext THEN state.summary.users ELSE {})
    \cup UsersOf(ms) \cup UNION {ms[i].native.users : i \in DOMAIN ms}

RemoteItem(ms, plan) == Summary(RemoteInput(SubSeq(ms, 1, plan.kept - 1)), {})

-----------------------------------------------------------------------------
(* summary.rs: how the chain may end under a policy.                          *)

Summarize(policy) ==
  CASE policy = "required" -> {"remote", "llm", "abbreviated", "aborted", "cancelled"}
    [] policy = "prefer" -> {"remote", "llm", "abbreviated", "emergency", "cancelled"}
    [] policy = "skip" -> {"emergency", "cancelled"}

Text(ms, plan, method) ==
  CASE method = "llm" -> LlmSummary(ms, plan, FALSE)
    [] method = "abbreviated" -> LlmSummary(ms, plan, TRUE)
    [] OTHER -> EmergencySummary(ms, plan)

Replacement(ms, plan, method) ==
  IF method = "remote" THEN ReplacementMessage(Text(ms, plan, method), RemoteItem(ms, plan))
  ELSE SummaryMessage(Text(ms, plan, method))

\* What the state accumulates: an automatic compaction counts the reads and the
\* edits, a manual one what its plan counted.
StateAfter(ms, plan, method, ops) ==
  [ops |-> state.ops \cup ops, summary |-> Text(ms, plan, method),
   inContext |-> method # "remote", generation |-> state.generation + 1]

Unshown(ms, plan, text) == UsersOf(SubSeq(ms, 1, plan.kept - 1)) \ text.users

Apply(ms, plan, method, ops) ==
  /\ messages' = <<Replacement(ms, plan, method)>> \o SubSeq(ms, plan.kept, Len(ms))
  /\ state' = StateAfter(ms, plan, method, ops)
  /\ omitted' = omitted \cup Unshown(ms, plan, Text(ms, plan, method))
  /\ forgotten' = forgotten \cup (state.summary.users \ Text(ms, plan, method).users)

\* The copy of the previous summary in the context is taken out for the
\* planner, and put back when nothing comes of it.
Previous == {i \in DOMAIN messages : state.inContext /\ IsSummary(messages[i])}
WithoutPrevious ==
  IF Previous = {} THEN messages ELSE RemoveAt(messages, Min(Previous))
Restored(ms) ==
  IF Previous = {} THEN ms ELSE InsertAt(ms, Min(Previous), messages[Min(Previous)])

\* A chain that is aborted leaves the results it reclaimed cleared.
Skip(method) ==
  /\ method \in {"aborted", "cancelled"}
  /\ messages' = Restored(Reclaim(WithoutPrevious))
  /\ UNCHANGED <<state, omitted, forgotten>>

RunCompaction(policy, minimum) ==
  LET ms == Reclaim(WithoutPrevious) IN
  \E plan \in PlanMessages(WithoutPrevious, minimum), method \in Summarize(policy) :
    \/ Skip(method)
    \/ /\ method \notin {"aborted", "cancelled"}
       /\ Apply(ms, plan, method,
                IF policy = "prefer" THEN ExtractFileOps(ms, plan) ELSE CollectFileOps(ms, plan))

-----------------------------------------------------------------------------
CompactionInit ==
  /\ messages = <<>> /\ said = 0 /\ asked = {} /\ touched = {} /\ omitted = {} /\ forgotten = {}
  /\ state = [ops |-> {}, summary |-> NoSummary, inContext |-> FALSE, generation |-> 0]

Say(m) ==
  /\ said < MaxMessages /\ said' = said + 1
  /\ messages' = Append(messages, m)
  /\ asked' = asked \cup UsersOf(<<m>>)
  /\ touched' = touched \cup ({m.op} \ {NoOp})
  /\ UNCHANGED <<state, omitted, forgotten>>

Ask == Say(Message("user", said + 1, NoOp, 1))

Reply ==
  /\ messages # <<>> /\ (IsUser(Last(messages)) \/ IsResult(Last(messages)))
  /\ \E op \in {NoOp} \cup ({"read", "edit", "grep"} \X Files) :
       Say(Message("assistant", said + 1, op, 1))

Return ==
  /\ messages # <<>> /\ IsAssistant(Last(messages)) /\ Last(messages).op # NoOp
  /\ \E brief \in BOOLEAN :
       Say([Message("result", said + 1, NoOp, 2) EXCEPT !.brief = brief])

MayCompact == state.generation < MaxCompactions /\ UNCHANGED <<said, asked, touched>>

\* Before a prompt or at the end of a run, when the context nears its limit.
CompactOnThreshold == MayCompact /\ RunCompaction("required", 0)

\* A request was too large: whatever no model is needed for is tried next, and
\* last everything is evicted, when a tool's turn fills the request.
CompactOnOverflow ==
  /\ MayCompact /\ messages # <<>> /\ ~IsAssistant(Last(messages))
  /\ \/ RunCompaction("required", 0)
     \/ RunCompaction("skip", 0)
     \/ /\ PlanMessages(WithoutPrevious, 0) = {} /\ IsResult(Last(messages))
        /\ RunCompaction("skip", Len(messages) + 1)

\* The user's /compact.
CompactSession == MayCompact /\ RunCompaction("prefer", 0)

CompactionNext ==
  Ask \/ Reply \/ Return \/ CompactOnThreshold \/ CompactOnOverflow \/ CompactSession

CompactionSpec == CompactionInit /\ [][CompactionNext]_compaction

-----------------------------------------------------------------------------
Gone == asked \ UsersOf(messages)
Remembers(summary) == Gone \subseteq summary.users \cup omitted \cup forgotten
Worked == touched \cap ({"read", "edit"} \X Files)
Stands(m) == IsSummary(m) \/ IsReplacement(m)

\* However often a conversation is compacted, and by whom, one summary stands
\* at its head, and it accounts for all that is gone: whoever wrote it was shown
\* every request no longer there, itself or through the summary before, short of
\* those left out for their number, and never is the first of all left out; the
\* provider's own item covers them as its text does; and the files read and
\* edited since the beginning are listed.
NothingIsLost ==
  state.summary.written =>
    /\ Stands(messages[1]) /\ \A i \in 2..Len(messages) : ~Stands(messages[i])
    /\ Remembers(state.summary)
    /\ IsReplacement(messages[1]) => Remembers(messages[1].native)
    /\ 1 \notin omitted
    /\ Worked \subseteq state.summary.ops \cup {messages[i].op : i \in DOMAIN messages}

\* The summary before is always part of the next.
NothingIsForgotten == forgotten = {}
=============================================================================
