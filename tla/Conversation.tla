---------------------------- MODULE Conversation ----------------------------
(***************************************************************************)
(* Messages of a conversation, the normalisation of tool exchanges before  *)
(* every request (engine, context/sanitize.rs), and where a compaction may *)
(* cut (context/compaction/plan.rs).  A message's text is abstracted to    *)
(* who wrote it; an answer keeps its tool calls and how it stopped.        *)
(***************************************************************************)
EXTENDS Naturals, SequencesExt, FiniteSetsExt

User(who) == [role |-> "user", who |-> who]
Result(call, how) == [role |-> "result", call |-> call, how |-> how]
IsResult(m) == m.role = "result"
IsUser(m) == m.role = "user"
IsAssistant(m) == m.role = "assistant"
Failed(m) == IsAssistant(m) /\ m.stop \in {"error", "aborted"}

-----------------------------------------------------------------------------
(***************************************************************************)
(* sanitize_tool_pairs.                                                    *)
(***************************************************************************)

(* The elements of a sequence that are at some places, in their order.      *)
AtPlaces(s, places) ==
  LET taken[i \in 0 .. Len(s)] ==
        IF i = 0 THEN <<>>
        ELSE IF i \in places THEN Append(taken[i - 1], s[i]) ELSE taken[i - 1]
  IN taken[Len(s)]

(* Calls that no result has answered get one that says so.                 *)
CompleteExchange(s) ==
  LET missing == AtPlaces(s.pending, {i \in DOMAIN s.pending : s.pending[i] \in s.unanswered})
  IN [out |-> s.out \o [i \in DOMAIN missing |-> Result(missing[i], "missing")],
      pending |-> <<>>, unanswered |-> {}]

(* The first call of each id in an answer.                                 *)
DistinctCalls(calls) ==
  AtPlaces(calls, {i \in DOMAIN calls : \A j \in 1 .. i - 1 : calls[j] # calls[i]})

(* A failed answer is dropped, a result is kept if its call awaits one.     *)
SanitizeOne(s, m) ==
  IF IsResult(m)
  THEN IF m.call \in s.unanswered
       THEN [s EXCEPT !.out = Append(@, m), !.unanswered = @ \ {m.call}]
       ELSE s
  ELSE LET done == CompleteExchange(s) IN
       IF IsUser(m) THEN [done EXCEPT !.out = Append(@, m)]
       ELSE IF Failed(m) THEN done
       ELSE LET calls == DistinctCalls(m.calls)
            IN [out |-> Append(done.out, [m EXCEPT !.calls = calls]),
                pending |-> calls, unanswered |-> ToSet(calls)]

SanitizeToolPairs(messages) ==
  LET step[i \in 0 .. Len(messages)] ==
        IF i = 0 THEN [out |-> <<>>, pending |-> <<>>, unanswered |-> {}]
        ELSE SanitizeOne(step[i - 1], messages[i])
  IN CompleteExchange(step[Len(messages)]).out

(* What every provider demands of a request: an answer's calls are followed *)
(* by one result each and nothing else, and no result stands elsewhere.     *)
WellPaired(messages) ==
  \A i \in DOMAIN messages :
    LET Group == {j \in DOMAIN messages :
                    j > i /\ \A k \in (i + 1) .. j : IsResult(messages[k])}
        Leads == IF i = 1 THEN IsResult(messages[1])
                 ELSE IsUser(messages[i - 1]) /\ IsResult(messages[i])
    IN /\ ~Leads
       /\ ~Failed(messages[i])
       /\ IsAssistant(messages[i]) =>
            /\ Cardinality(Group) = Len(messages[i].calls)
            /\ {messages[j].call : j \in Group} = ToSet(messages[i].calls)

-----------------------------------------------------------------------------
(***************************************************************************)
(* plan_core: where the retained tail may begin.  Token counts are         *)
(* abstracted: any valid cut may be the one the budget reaches.  Nothing   *)
(* is evicted by a tail that begins at the first message.                  *)
(***************************************************************************)

(* Mutant: the retained tail may begin with any message.                   *)
ValidCuts_Any(messages) == DOMAIN messages

ValidCuts(messages) == {i \in DOMAIN messages : ~IsResult(messages[i])}
Plans(messages) == ValidCuts(messages) \ {1}
MayKeepAll(messages) == 1 \in ValidCuts(messages) \/ ValidCuts(messages) = {}

(* The summary stands for what is evicted.                                 *)
Compacted(messages, firstKept, summary) ==
  <<User(summary)>> \o SubSeq(messages, firstKept, Len(messages))

(* A previous summary is taken out first: the new one covers it.           *)
WithoutSummary(messages, summary) ==
  LET At == {i \in DOMAIN messages : messages[i] = User(summary)}
  IN IF At = {} THEN messages ELSE RemoveAt(messages, Min(At))
=============================================================================
