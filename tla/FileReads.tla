------------------------------ MODULE FileReads ------------------------------
(***************************************************************************)
(* The read tool (engine, tools/file/read.rs) and a model that reads a file *)
(* page by page, going on where each page says, and reads it again when the *)
(* file may have changed.  A page that repeats an earlier answer word for   *)
(* word is answered with a note that the earlier one still holds.           *)
(*                                                                         *)
(* A line has a size and a text that others change.                         *)
(***************************************************************************)
EXTENDS Naturals, Sequences, FiniteSets, FiniteSetsExt, Functions, TLC

CONSTANTS
  Files,       (* Files, each the sizes of its lines.                         *)
  Limits,      (* Limits a reader gives, 0 for none.                          *)
  MaxLines,    (* MAX_READ_LINES.                                             *)
  MaxBytes,    (* MAX_READ_BYTES.                                             *)
  MaxResult,   (* MAX_TOOL_RESULT_BYTES.                                      *)
  MaxFile,     (* max_bytes: a larger file is read line by line.              *)
  MaxWalks     (* Times the file is read through: bounds the model.           *)

VARIABLES
  sizes,      \* the file's lines
  text,       \* what each line says now
  limit,      \* the reader's limit in this walk
  next,       \* the offset to go on from, 0 when the reader is done
  lastReads,  \* last_reads: the answer to each request, by offset and limit
  view,       \* what the reader believes each line says, "unread" if nothing
  walks,
  changed,    \* History: the file changed since this walk began
  spoilt      \* History: a page was too large, or the request was refused

vars == <<sizes, text, limit, next, lastReads, view, walks, changed, spoilt>>

Total == Len(sizes)
Bytes(from, to) == SumFunction([i \in from..to |-> sizes[i] + 1])
AtMost(a, b) == IF a < b THEN a ELSE b

-----------------------------------------------------------------------------
(* One answer: the lines from .. to, and where to go on, 0 for the end. *)

Start == AtMost(next - 1, Total)
End == IF limit = 0 THEN Total ELSE AtMost(Start + limit, Total)

\* truncate_selected: how many lines fit, and at least one.
Within(from, to) == Bytes(from, to) <= MaxBytes
Fitting(from, to) == {n \in 1..(to - from + 1) : Within(from, from + n - 1)}
\* More lines than MaxLines are cut there, whatever their size.
TruncatedEnd ==
  IF End - Start > MaxLines THEN Start + MaxLines
  ELSE Start + Max(Fitting(Start + 1, End) \cup {AtMost(1, End - Start)})

Truncated == End - Start > MaxLines \/ ~Within(Start + 1, End)

Page ==
  [from |-> Start + 1, to |-> TruncatedEnd,
   next |-> IF Truncated \/ (limit > 0 /\ TruncatedEnd < Total) THEN TruncatedEnd + 1 ELSE 0]

\* read_lines_streaming: the line after the last one is read to see that the
\* page is full, and is not counted among the lines that remain.
Remaining == IF Total > next - 1 + limit THEN Total - (next - 1 + limit) - 1 ELSE 0
StreamedPage ==
  [from |-> next, to |-> End, next |-> IF Remaining > 0 THEN End + 1 ELSE 0]

IsLarge == Bytes(1, Total) > MaxFile

Words(page) == [i \in page.from..page.to |-> text[i]]
Answer(page) == <<page, Words(page)>>

-----------------------------------------------------------------------------
Init ==
  /\ sizes \in Files
  /\ text = [i \in DOMAIN sizes |-> "old"]
  /\ limit \in Limits
  /\ next = 1
  /\ lastReads = <<>>
  /\ view = [i \in DOMAIN sizes |-> "unread"]
  /\ walks = 1
  /\ changed = FALSE /\ spoilt = FALSE

\* A result too large for the conversation is stored, and only its start shown
\* (tool_exec.rs, process_result).
Fits(page) == Bytes(page.from, page.to) <= MaxResult + 1

Learnt(words) == [i \in DOMAIN view |-> IF i \in DOMAIN words THEN words[i] ELSE view[i]]

Shows(page) ==
  /\ view' = IF Fits(page) THEN Learnt(Words(page)) ELSE view
  /\ spoilt' = (spoilt \/ ~Fits(page))
  /\ next' = page.next

Request == <<next, limit>>

\* Mutant: a request that was answered once is not answered again.
RepeatsByRequest(page) == Request \in DOMAIN lastReads

Repeats(page) == Request \in DOMAIN lastReads /\ lastReads[Request] = Answer(page)

\* The reader goes back to the earlier answer to this request.
Unchanged(page) ==
  /\ view' = IF Fits(page) THEN Learnt(lastReads[Request][2]) ELSE view
  /\ spoilt' = (spoilt \/ ~Fits(page))
  /\ next' = page.next
  /\ UNCHANGED lastReads

ReadWhole ==
  /\ next > 0 /\ ~IsLarge
  /\ IF Repeats(Page) THEN Unchanged(Page)
     ELSE /\ Shows(Page)
          /\ lastReads' = (Request :> Answer(Page)) @@ lastReads
  /\ UNCHANGED <<sizes, text, limit, walks, changed>>

\* Line by line; nothing is remembered of it.
ReadStreaming ==
  /\ next > 0 /\ IsLarge /\ limit > 0
  /\ Shows(StreamedPage)
  /\ UNCHANGED <<sizes, text, limit, lastReads, walks, changed>>

\* "File too large": a limit has to be given.
TooLarge ==
  /\ next > 0 /\ IsLarge /\ limit = 0
  /\ spoilt' = TRUE
  /\ next' = 0
  /\ UNCHANGED <<sizes, text, limit, lastReads, view, walks, changed>>

\* The user, a command or another tool call changes a line.
Rewrite(i) ==
  /\ text' = [text EXCEPT ![i] = IF @ = "old" THEN "new" ELSE "old"]
  /\ changed' = TRUE
  /\ UNCHANGED <<sizes, limit, next, lastReads, view, walks, spoilt>>

ReadAgain ==
  /\ next = 0 /\ walks < MaxWalks
  /\ limit' \in Limits
  /\ next' = 1
  /\ walks' = walks + 1
  /\ changed' = FALSE /\ spoilt' = FALSE
  /\ UNCHANGED <<sizes, text, lastReads, view>>

Next ==
  \/ ReadWhole \/ ReadStreaming \/ TooLarge \/ ReadAgain
  \/ \E i \in DOMAIN text : Rewrite(i)

Spec == Init /\ [][Next]_vars

-----------------------------------------------------------------------------

Knows(lines) == \A i \in lines : view[i] = text[i]

\* "Continue with offset until complete" (read.rs:111): when a page names no
\* offset to go on from, the reader has the whole file as it is, whatever it
\* had read before and however much of it was answered with the note that
\* nothing changed.  A large file may keep its last line: see PagesAreComplete.
ReaderKnowsTheFile ==
  next = 0 /\ ~changed /\ ~spoilt =>
    Knows(DOMAIN text \ (IF IsLarge THEN {Total} ELSE {}))

\* The same of every file.  It does not hold when a page of a large file ends
\* one line before the end: Remaining is then 0.
PagesAreComplete == next = 0 /\ ~changed /\ ~spoilt => Knows(DOMAIN text)

=============================================================================
