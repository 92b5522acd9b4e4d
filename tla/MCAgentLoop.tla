---------------------------- MODULE MCAgentLoop ----------------------------
(***************************************************************************)
(* AgentLoop in one scope per behaviour.                                   *)
(***************************************************************************)
EXTENDS AgentLoop

A(calls, stop, size, said) == [calls |-> calls, stop |-> stop, size |-> size, text |-> said]
Uses(s) == A(s, "tool_use", "fits", "text")
Text == A(<<>>, "stop", "fits", "text")

Plain == [answers |-> {Text}, replies |-> 2, batch |-> 0, maxTurns |-> 0, histories |-> {<<>>},
          runs |-> 1, prompts |-> {}, edits |-> FALSE, faults |-> FALSE]

(* Two prompts are queued, edited, moved and sent while the run works.     *)
Queueing == [Plain EXCEPT !.answers = {Text, Uses(<<"a">>)}, !.prompts = {"p", "q"},
                          !.edits = TRUE, !.faults = FALSE, !.replies = 2]

(* Batches are steered, truncated, aborted, or panic, over two runs.       *)
Interrupted(n, answers) ==
  [Plain EXCEPT !.answers = {Uses(<<"a", "b">>)} \cup answers, !.prompts = {"p"},
                !.faults = TRUE, !.batch = n, !.replies = 2, !.runs = 2]

(* The provider repeats itself, with the user asking in between.           *)
Repeating ==
  [Plain EXCEPT !.answers = {Text, Uses(<<"a">>), Uses(<<"b">>), A(<<"a">>, "length", "fits", "text"),
                             A(<<"b">>, "length", "fits", "text"), A(<<"c">>, "length", "fits", "text"),
                             A(<<>>, "stop", "fits", "thinking")},
                !.prompts = {"p"}, !.replies = 5, !.maxTurns = 6]

(* The context is too long, in every way it can be.                        *)
Overflowing ==
  [Plain EXCEPT !.answers = {A(<<>>, "error", "overflow", "none"), A(<<>>, "error", "none", "none"),
                             A(<<>>, "length", "full", "none"), A(<<>>, "stop", "full", "text"),
                             A(<<>>, "stop", "high", "text"), A(<<"a">>, "tool_use", "high", "none"),
                             A(<<>>, "stop", "none", "text")},
                !.prompts = {"p"}, !.replies = 4, !.runs = 2]

(* Any transcript, well formed or not.                                     *)
Past ==
  LET m(calls, stop) == [role |-> "assistant", calls |-> calls, stop |-> stop,
                         size |-> "fits", text |-> "text", at |-> 0]
  IN {User(<<"user", 0>>), m(<<>>, "stop"), m(<<"c", "d">>, "tool_use"), m(<<"c", "c">>, "tool_use"),
      m(<<"c">>, "aborted"), m(<<>>, "error"), Result("c", "ran"), Result("d", "ran")}
Remembering ==
  [Plain EXCEPT !.histories = UNION {[1 .. n -> Past] : n \in 0 .. 3} \cup
                              {h \in [1 .. 4 -> Past] : IsAssistant(h[1]) /\ Len(h[1].calls) = 2},
                !.replies = 1]

AllScopes ==
  [queueing |-> Queueing, together |-> Interrupted(0, {}),
   singly |-> Interrupted(1, {A(<<"a">>, "length", "fits", "none")}),
   repeating |-> Repeating, overflowing |-> Overflowing, remembering |-> Remembering]
=============================================================================
