------------------------------ MODULE MCMessages ------------------------------
(***************************************************************************)
(* What is said between a user and a model, one path at a time: a request   *)
(* in a provider's format, the stream that answers it, the arguments and    *)
(* the results of its tool calls, the history compacted, and what of it all *)
(* a page in the browser shows.                                             *)
(***************************************************************************)
EXTENDS Compaction, Integers, TLC

CONSTANTS MaxItems, MaxPieces,
          MaxHistory, Caps,
          SpillKeys, MaxResult, MaxOutput, PreviewBytes, MaxTime,
          Window, MaxSpoken, MaxTurns, MaxSummaries, MaxTroubles

VARIABLES
  part,
  wire, read, open, ended, decoder, outcome, message,
  history, body, sent, limits,
  call, stage, args,
  spill, calls, at, content, disk, stale, now, began, idle, own,
  step, turn, results, context, counted, compacted, troubles, cancelled,
  buffer, entries, page, attached, current

decoding == <<wire, read, open, ended, decoder, outcome, message>>
request == <<history, body, sent, limits>>
calling == <<call, stage, args>>
returning == <<spill, calls, at, content, disk, stale, now, began, idle, own>>
viewing == <<step, turn, results, context, counted, compacted, troubles, cancelled,
             buffer, entries, page, attached, current>>

(* Text, thinking that the provider it came from can be shown again, thinking *)
(* that none can, and an answer without text.                                *)
Saying(v) == [kind |-> "text", v |-> v, replay |-> ""]
Thinking(v, protocol) == [kind |-> "thinking", v |-> v, replay |-> protocol]
Contents ==
  {<<>>, <<Saying(3)>>, <<Saying(0)>>, <<Thinking(0, "responses")>>}
    \cup {<<Thinking(0, "anthropic"), Saying(3)>>}
    \cup {<<Thinking(4, p), Saying(3)>> : p \in {"anthropic", "chat"}}

(* Calls of the edit tool, with entries, lists and a pair beside the list in  *)
(* every shape, and of the glob tool, with each parameter in every spelling.  *)
Bool(b) == <<"boolean", b>>
Integer(n) == <<"integer", n>>
Float(halves) == <<"float", halves>>
Str(spelled) == <<"string", spelled>>
Arr(items) == <<"array", items>>
Word(w) == Str(<<"words", w>>)
Null == <<"null">>
Absent == <<"absent">>
Obj(fields) == <<"object", [k \in {n \in DOMAIN fields : fields[n] # Absent} |-> fields[k]]>>

Pair == Obj([oldText |-> Word("a"), newText |-> Word("b")])
Entries ==
  {Pair, Obj([old_string |-> Word("c"), new_text |-> Word("d")]), Obj([oldText |-> Word("a")]),
   Obj([oldText |-> Word("a"), newText |-> Null]), Str(Pair), Word("a")}
Lists == {Arr(<<>>)} \cup {Arr(<<e>>) : e \in Entries} \cup {Arr(<<e, f>>) : e, f \in Entries}
EditCalls ==
  {Obj(path @@ [edits |-> list] @@ old @@ new) :
     path \in {"path" :> Word("p"), "file_path" :> Word("p"), "file" :> Integer(1),
               [path |-> Word("p"), file |-> Word("q")], "path" :> Absent},
     list \in Lists \cup {Str(l) : l \in Lists} \cup {Absent, Word("x"), Integer(1), Null},
     old \in {"oldText" :> Absent, "oldText" :> Word("c"), "old_string" :> Word("c"),
              "old_text" :> Integer(1), [oldText |-> Word("c"), old_text |-> Word("d")]},
     new \in {"newText" :> Absent, "newText" :> Word("d"), "new_text" :> Word("d")}}
Patterns ==
  {"pattern" :> Absent}
    \cup {n :> v : n \in {"pattern", "glob"},
                   v \in {Word("x"), Arr(<<Word("x")>>), Str(Arr(<<Word("x")>>)),
                          Arr(<<Integer(1)>>), Integer(2), Null}}
GlobCalls ==
  {Obj(pattern @@ [type |-> type, hidden |-> hidden, timeout |-> timeout, max_results |-> max]) :
     pattern \in Patterns,
     type \in {Absent, Null, Word("f"), Word("x")},
     hidden \in {Absent, Null, Bool(TRUE), Str(Bool(FALSE)), Str(<<"loud", TRUE>>), Word("x")},
     timeout \in {Absent, Integer(1), Float(3), Str(Float(3)), Bool(TRUE)},
     max \in {Absent, Null, Integer(0), Integer(3), Float(4), Float(5), Str(Integer(2)),
              Str(Float(4)), Word("x")}}
Given ==
  {[tool |-> "edit", args |-> v] : v \in EditCalls \cup {Word("x")}}
    \cup {[tool |-> "glob", args |-> v] : v \in GlobCalls \cup {Arr(<<>>)}}

(* Two calls whose outputs are short, long, of several blocks or with an      *)
(* image, and with the end of a window inside a character or not.            *)
Long == <<"a", "a", "nl", "a", "e", "a", "e">>
Odd == <<"a", "a", "a", "e", "a", "a">>
BatchCalls ==
  {<<"command", o>> : o \in {<< <<"e", "a">>, <<"a", "e">> >>, <<Long>>,
                            << <<"a", "a", "a", "a">>, <<"image">>, <<"a", "a", "e">> >>}}
    \cup {<<"search", <<o>> >> : o \in {<<>>, Long, Odd, <<"e", "e", "e", "a">>}}
    \cup {<<t, <<Long>> >> : t \in {"fails", "refused"}}
Batches ==
  {("c" :> [tool |-> t[1], output |-> t[2], key |-> "k"])
     @@ ("d" :> [tool |-> u[1], output |-> u[2], key |-> key]) :
     t, u \in BatchCalls, key \in SpillKeys}

(* A reply of text, and one that thinks and calls two tools.                 *)
Replies == {<<"text">>, <<"thinking", "call", "call">>}
Measures == {[input |-> 2, output |-> 1, took |-> 3, ttft |-> 1, streaming |-> 2]}

D == INSTANCE Decoders WITH said <- read
R == INSTANCE Requests WITH MaxMessages <- MaxHistory
A == INSTANCE ToolArguments
T == INSTANCE ToolResults WITH Calls <- {"c", "d"}, Keys <- SpillKeys, pc <- at, result <- content
V == INSTANCE ChatView WITH
  Answers <- Replies, MaxMessages <- MaxSpoken, MaxCompactions <- MaxSummaries,
  at <- step, messages <- context, said <- counted

Parts == {"decoding", "request", "compacting", "calling", "returning", "viewing"}

Init ==
  /\ part \in Parts
  /\ D!Init
  /\ part # "decoding" => wire = "chat"
  /\ R!Init /\ CompactionInit /\ V!Init
  /\ IF part = "calling" THEN A!Init ELSE call = <<>> /\ stage = "" /\ args = <<>>
  /\ IF part = "returning" THEN T!Init
     ELSE /\ spill = FALSE /\ calls = <<>> /\ at = <<>> /\ content = <<>> /\ disk = <<>>
          /\ stale = {} /\ now = 0 /\ began = <<>> /\ idle = 0 /\ own = 0

DecodingStep ==
  /\ part = "decoding" /\ D!Next
  /\ UNCHANGED <<part, request, compaction, calling, returning, viewing>>
RequestStep ==
  /\ part = "request" /\ R!Next
  /\ UNCHANGED <<part, decoding, compaction, calling, returning, viewing>>
CompactingStep ==
  /\ part = "compacting" /\ CompactionNext
  /\ UNCHANGED <<part, decoding, request, calling, returning, viewing>>
CallingStep ==
  /\ part = "calling" /\ A!Next
  /\ UNCHANGED <<part, decoding, request, compaction, returning, viewing>>
ReturningStep ==
  /\ part = "returning" /\ T!Next
  /\ UNCHANGED <<part, decoding, request, compaction, calling, viewing>>
ViewingStep ==
  /\ part = "viewing" /\ V!Next
  /\ UNCHANGED <<part, decoding, request, compaction, calling, returning>>

Next ==
  \/ DecodingStep \/ RequestStep \/ CompactingStep \/ CallingStep \/ ReturningStep
  \/ ViewingStep

Spec ==
  Init /\ [][Next]_<<part, decoding, request, compaction, calling, returning, viewing>>

(* The properties, as their modules state them.                              *)

\* A provider's stream is read as it was meant, and its requests are as it
\* wants them (provider/*/sse_decode.rs, request.rs).
WireIsFaithful ==
  /\ part = "decoding" => D!StreamIsFaithful
  /\ part = "request" => R!RequestIsAccepted
\* A tool gets what was meant, and its result is kept (tool_exec.rs).
ToolCallsAreFaithful ==
  /\ part = "calling" => A!ToolGetsWhatWasMeant
  /\ part = "returning" => T!ResultsAreKept
\* A page that saw a conversation and one opened later agree (projection.rs).
LiveAndResumedAgree == part = "viewing" => V!LiveAndResumedAgree
\* A reply cut short by the output limit has a notice that says so (projection.rs,
\* map_run_event).
LimitIsShown == V!LimitIsShown
=============================================================================
