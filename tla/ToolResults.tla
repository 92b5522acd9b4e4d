----------------------------- MODULE ToolResults -----------------------------
(***************************************************************************)
(* What becomes of the output of one batch of tool calls (engine,           *)
(* runner/tool_exec.rs, spill/fs.rs, tools/explore/walk.rs,                  *)
(* tools/validation.rs): a long one is stored in a file of the session, of   *)
(* which the model sees a preview, or cut in the middle; a search cuts its   *)
(* own output before.  The calls run at the same time, and the time they     *)
(* take is taken off the run's (context/limits.rs).                          *)
(*                                                                         *)
(* A text is a sequence of characters with a width in bytes.  What stands    *)
(* for a note in it, "cut" or "saved", has none.                             *)
(***************************************************************************)
EXTENDS Naturals, Sequences, SequencesExt, FiniteSets, FiniteSetsExt, Functions

CONSTANTS
  Calls,        (* The batch.                                                 *)
  Batches,      (* Each call's tool, its output, a sequence of texts and      *)
                (* "image" for other blocks, and the key its id makes.        *)
  Keys,         (* File names made of the calls' ids.                         *)
  MaxResult,    (* MAX_TOOL_RESULT_BYTES, the threshold of a spill too.       *)
  MaxOutput,    (* MAX_OUTPUT_BYTES of a search.                              *)
  PreviewBytes, (* preview_bytes.                                             *)
  MaxTime       (* Bounds the time a batch takes.                             *)

VARIABLES
  spill,     \* whether results can be stored (FsSpill)
  calls,     \* each call: its tool, its output, its key, whether it fails
  pc,        \* "asked", "runs", "returned", "done" or "panicked"
  result,    \* what the tool returns, then what the model gets
  disk,      \* the stored text of each key
  stale,     \* History: calls whose file another call wrote later
  now,       \* the time since the run began
  began,     \* when each call's pause began
  idle,      \* IdleClock
  own        \* History: the time in which no call ran

vars == <<spill, calls, pc, result, disk, stale, now, began, idle, own>>

-----------------------------------------------------------------------------
(* Texts.                                                                    *)
Width == [a |-> 1, e |-> 2, nl |-> 1, cut |-> 0, saved |-> 0]
Bytes(text) == FoldLeft(LAMBDA n, c : n + Width[c], 0, text)
Prefix(text, n) == SubSeq(text, 1, n)

(* floor_char_boundary, ceil_char_boundary: as counts of characters.         *)
Floor(text, bytes) == Max({n \in 0..Len(text) : Bytes(Prefix(text, n)) <= bytes})
Ceil(text, bytes) == Min({n \in 0..Len(text) : Bytes(Prefix(text, n)) >= bytes})

(* truncate_tool_text: the head and the tail, of half the size each.         *)
Truncated(text, max) ==
  LET half == max \div 2 IN
  IF Bytes(text) <= max THEN text
  ELSE Prefix(text, Floor(text, half)) \o <<"cut">>
         \o SubSeq(text, Ceil(text, Bytes(text) - half) + 1, Len(text))

IsText(block) == block # <<"image">>
Texts(content) == SelectSeq(content, IsText)

(* merge_text_blocks: with a line end between two blocks, but none after      *)
(* what is still empty.                                                      *)
Merged(content) ==
  FoldLeft(LAMBDA m, t : (IF m = <<>> THEN <<>> ELSE Append(m, "nl")) \o t, <<>>, Texts(content))

(* All text as one block, at the place of the first.                         *)
Replaced(content, text) ==
  LET first == SelectInSeq(content, IsText)
  IN FlattenSeq([i \in DOMAIN content |->
       IF i = first THEN <<text>> ELSE IF IsText(content[i]) THEN <<>> ELSE <<content[i]>>])

(* cap_tool_result_content: the sizes alone decide, the line ends come later. *)
Capped(content, max) ==
  IF Bytes(FlattenSeq(Texts(content))) <= max THEN content
  ELSE Replaced(content, Truncated(Merged(content), max))

(* rfind('\n'): up to the last line end, or all of it.                       *)
WholeLines(text) ==
  LET ends == {n \in DOMAIN text : text[n] = "nl"}
  IN IF ends = {} THEN text ELSE Prefix(text, Max(ends) - 1)

(* make_preview.                                                             *)
Preview(text) ==
  IF Bytes(text) <= PreviewBytes THEN text
  ELSE WholeLines(Prefix(text, Floor(text, PreviewBytes)))

(* cap_to_line_boundary: the window is taken by its bytes before anything     *)
(* looks for the end of a character, and a part of one makes the slice panic. *)
Splits(text) == Bytes(text) > MaxOutput /\ Bytes(Prefix(text, Floor(text, MaxOutput))) < MaxOutput
CapToLineBoundary(text) ==
  IF Bytes(text) <= MaxOutput THEN text ELSE WholeLines(Prefix(text, Floor(text, MaxOutput)))

-----------------------------------------------------------------------------
Init ==
  /\ spill \in BOOLEAN
  /\ calls \in Batches
  /\ pc = [c \in Calls |-> "asked"]
  /\ result = [c \in Calls |-> <<>>]
  /\ disk = [f \in BOOLEAN \X Keys |-> <<>>]
  /\ stale = {} /\ own = 0
  /\ now = 0 /\ began = [c \in Calls |-> 0] /\ idle = 0

At(c, stage) == pc[c] = stage
IsError(c) == calls[c].tool \in {"fails", "refused"}
IsSearch(c) == calls[c].tool = "search"

(* path_for_key: a search stores under a name of its own.                    *)
File(c, searching) == <<searching, calls[c].key>>

(* Mutant: what is stored is cut like what is shown.                         *)
StoreTheCut(c, searching, text) ==
  disk' = [disk EXCEPT ![File(c, searching)] = Truncated(text, MaxResult)]

(* spill_text: whoever has the file already finds this text in it now.       *)
Store(c, searching, text) == disk' = [disk EXCEPT ![File(c, searching)] = text]

Replaces(c, searching) ==
  stale' = stale \cup {d \in Calls \ {c} : calls[d].key = calls[c].key
                                           /\ IsSearch(d) = searching /\ result[d] # <<>>}

(* The pause is recorded when its guard is dropped.                          *)
Paused(ended) == idle' = idle + SumFunctionOnSet([c \in ended |-> now - began[c]], ended)

-----------------------------------------------------------------------------
(* execute_single_tool: unknown tools and refused arguments take no time.    *)
Refuse(c) ==
  /\ At(c, "asked") /\ calls[c].tool = "refused"
  /\ pc' = [pc EXCEPT ![c] = "returned"]
  /\ result' = [result EXCEPT ![c] = calls[c].output]
  /\ UNCHANGED <<spill, calls, disk, stale, now, began, idle, own>>

Execute(c) ==
  /\ At(c, "asked") /\ calls[c].tool # "refused"
  /\ pc' = [pc EXCEPT ![c] = "runs"]
  /\ began' = [began EXCEPT ![c] = now]
  /\ UNCHANGED <<spill, calls, result, disk, stale, now, idle, own>>

Returns(c, content) ==
  /\ At(c, "runs")
  /\ pc' = [pc EXCEPT ![c] = "returned"]
  /\ result' = [result EXCEPT ![c] = content]
  /\ Paused({c})
  /\ UNCHANGED <<spill, calls, now, began, own>>

Return(c) ==
  /\ ~IsSearch(c) \/ Bytes(calls[c].output[1]) <= MaxOutput
  /\ Returns(c, calls[c].output)
  /\ UNCHANGED <<disk, stale>>

(* finalize_output, with a place to store and without.                       *)
ReturnSaved(c) ==
  LET full == calls[c].output[1] IN
  /\ spill /\ IsSearch(c) /\ Bytes(full) > MaxOutput /\ ~Splits(full)
  /\ Returns(c, <<Append(CapToLineBoundary(full), "saved")>>)
  /\ Store(c, TRUE, full) /\ Replaces(c, TRUE)

ReturnCut(c) ==
  LET full == calls[c].output[1] IN
  /\ IsSearch(c) /\ Bytes(full) > MaxOutput /\ ~Splits(full)
  /\ Returns(c, <<Append(CapToLineBoundary(full), "cut")>>)
  /\ UNCHANGED <<disk, stale>>

(* A panic, after the text is stored, takes the whole batch with it.         *)
Panic(c) ==
  /\ At(c, "runs") /\ IsSearch(c) /\ Splits(calls[c].output[1])
  /\ pc' = [d \in Calls |-> "panicked"]
  /\ Paused({d \in Calls : At(d, "runs")})
  /\ IF spill THEN Store(c, TRUE, calls[c].output[1]) /\ Replaces(c, TRUE)
     ELSE UNCHANGED <<disk, stale>>
  /\ UNCHANGED <<spill, calls, result, now, began, own>>

-----------------------------------------------------------------------------
(* process_result.                                                           *)
Spilled(c) ==
  /\ spill /\ ~IsError(c)
  /\ Bytes(Merged(result[c])) > MaxResult

Finishes(c, content) ==
  /\ At(c, "returned")
  /\ pc' = [pc EXCEPT ![c] = "done"]
  /\ result' = [result EXCEPT ![c] = content]
  /\ UNCHANGED <<spill, calls, now, began, idle, own>>

Save(c) ==
  /\ Spilled(c)
  /\ LET text == Merged(result[c]) IN
     /\ Finishes(c, <<<<"saved">> \o Preview(text)>> \o SelectSeq(result[c], LAMBDA b : ~IsText(b)))
     /\ Store(c, FALSE, text) /\ Replaces(c, FALSE)

(* Also when storing fails.                                                  *)
Cap(c) ==
  /\ Finishes(c, Capped(result[c], MaxResult))
  /\ UNCHANGED <<disk, stale>>

Tick ==
  /\ now < MaxTime
  /\ now' = now + 1
  /\ own' = IF \E c \in Calls : At(c, "runs") THEN own ELSE own + 1
  /\ UNCHANGED <<spill, calls, pc, result, disk, stale, began, idle>>

Next ==
  \/ \E c \in Calls : \/ Refuse(c) \/ Execute(c) \/ Return(c) \/ ReturnSaved(c)
                        \/ ReturnCut(c) \/ Panic(c) \/ Save(c) \/ Cap(c)
  \/ Tick

Spec == Init /\ [][Next]_vars

-----------------------------------------------------------------------------
CutOut(given, whole) ==
  \E i \in 0..Len(whole), j \in 1..(Len(whole) + 1) :
    i < j /\ given = Prefix(whole, i) \o <<"cut">> \o SubSeq(whole, j, Len(whole))

(* A result that fits is given as it is. Of a longer one the model gets no    *)
(* more than fits: its head and its tail around a note of the cut, or its     *)
(* start with the name of a file that holds all of it, unless another call    *)
(* of that name was stored since. What is not text stays. And the time that   *)
(* tools take never counts against the run's (tool_exec.rs, spill/fs.rs,       *)
(* walk.rs, limits.rs).                                                       *)
ResultsAreKept ==
  /\ \A c \in Calls : At(c, "done") =>
       LET was == calls[c].output
           given == FlattenSeq(Texts(result[c]))
           NotText(content) == SelectSeq(content, LAMBDA b : ~IsText(b))
       IN /\ NotText(result[c]) = NotText(was)
          /\ Bytes(given) <= MaxResult
          /\ \/ result[c] = was
             \/ CutOut(given, Merged(was))
             \/ /\ "saved" \in ToSet(given)
                /\ IsPrefix(SelectSeq(given, LAMBDA x : x # "saved"), Merged(was))
                /\ c \notin stale => disk[File(c, IsSearch(c))] = Merged(was)
  /\ (\A c \in Calls : ~At(c, "runs")) => now <= own + idle

(* And all other time does count ("The limit bounds the agent's own work",    *)
(* tool_exec.rs:335): not so when calls run at the same time, each of which   *)
(* takes its own time off.                                                    *)
OwnWorkIsCounted == (\A c \in Calls : ~At(c, "runs")) => now = own + idle

(* No search panics ("Falls back to a char boundary", walk.rs:74): not so for *)
(* a character that is split at the limit.                                    *)
SearchesEnd == \A c \in Calls : ~At(c, "panicked")
=============================================================================
