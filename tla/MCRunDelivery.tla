---------------------------- MODULE MCRunDelivery ----------------------------
(***************************************************************************)
(* RunDelivery with one turn that has everything: adjacent deltas of two    *)
(* blocks, a progress report, a prompt, an answer and a compaction.         *)
(***************************************************************************)
EXTENDS RunDelivery

OneTurn ==
  << <<"turn_start", 1>>, <<"user", 2>>, <<"text", 3>>, <<"text", 4>>,
     <<"thinking", 5>>, <<"text", 6>>, <<"progress", 7>>, <<"message", 8>>,
     <<"compaction", 9>>, <<"turn_end", 10>>, <<"agent_end", 11>> >>

Sizes ==
  [k \in {"started", "error", "finished", "turn_start", "text", "thinking",
          "progress", "message", "compaction"} |-> IF k = "message" THEN 2 ELSE 1]
==============================================================================
