------------------------------- MODULE Explore -------------------------------
(***************************************************************************)
(* The glob and the grep tool (engine, tools/explore): a walk over the      *)
(* files by several threads, which a timer or the caller may end early, and *)
(* what is shown of its results: sorted, without repetitions, up to a cap,  *)
(* and for grep page by page, as often as the model asks for more.          *)
(*                                                                         *)
(* A file is a number in the order of its path; what grep reports of it is  *)
(* a sequence of line numbers, matches and context alike.                   *)
(***************************************************************************)
EXTENDS Integers, Sequences, SequencesExt, FiniteSets, FiniteSetsExt, Functions

CONSTANTS
  Requests,        (* Calls, and what there is to be found.                   *)
  MaxMatches,      (* MAX_MATCHES.                                            *)
  PerFileMatches   (* PER_FILE_MATCHES.                                       *)

VARIABLES
  request,     \* the call
  at,          \* "walks", "asks", "done" or "cancelled"
  found,       \* what the threads of the walk have collected
  timedOut,    \* glob: the walk's own token was cancelled by the timer
  cancelled,   \* the caller's token
  skip,        \* grep: the parameter
  pages        \* the answers so far: their lines, and what they say of the rest

vars == <<request, at, found, timedOut, cancelled, skip, pages>>

IsGlob == request.tool = "glob"

(* What the walk comes upon: for glob the entries of each root, which may be *)
(* the same, with the time each was changed; for grep the files.             *)
Entries ==
  IF IsGlob THEN UNION {{<<r, e>> : e \in request.roots[r]} : r \in DOMAIN request.roots}
  ELSE DOMAIN request.files

-----------------------------------------------------------------------------
(* format_hits.                                                              *)
Name(hit) == hit[2][1]
Changed(hit) == hit[2][2]
Before(h, k) == Changed(h) > Changed(k) \/ (Changed(h) = Changed(k) /\ Name(h) < Name(k))

(* Mutant: a path below two roots is listed for each.                        *)
Listed_Twice(hits) == [i \in 1..Cardinality(hits) |-> Name(SetToSortSeq(hits, Before)[i])]

Listed(hits) ==
  LET sorted == SetToSortSeq(hits, Before)
      isFirst(i) == \A j \in 1..(i - 1) : Name(sorted[j]) # Name(sorted[i])
      firsts == {i \in DOMAIN sorted : isFirst(i)}
  IN [n \in 1..Cardinality(firsts) |-> Name(sorted[SetToSortSeq(firsts, <)[n]])]

FormatHits(hits) ==
  [lines |-> SubSeq(Listed(hits), 1, Min({request.max, Len(Listed(hits))})),
   capped |-> Len(Listed(hits)) > request.max,
   timedOut |-> timedOut]

-----------------------------------------------------------------------------
(* The path below the root, which is empty when the root is the file.        *)
Rel(file) == IF request.single THEN 0 ELSE file
Included(file) == request.include => Rel(file) # 0
Gap == <<>>

(* GrepSink: lines up to the file's cap, and a gap where they do not adjoin. *)
Pushed(sink, file, line) ==
  IF sink.count >= PerFileMatches THEN sink
  ELSE [count |-> sink.count + 1, last |-> line,
        lines |-> sink.lines
          \o (IF request.context /\ sink.last > 0 /\ line > sink.last + 1 THEN <<Gap>> ELSE <<>>)
          \o <<<<Rel(file), line>>>>]

(* search_one_file; a list of files needs no more than one match.            *)
Hits(file) ==
  IF ~Included(file) THEN <<>>
  ELSE IF request.list THEN IF request.files[file] = <<>> THEN <<>> ELSE <<<<Rel(file)>>>>
  ELSE FoldLeft(LAMBDA sink, line : Pushed(sink, file, line),
                [count |-> 0, last |-> 0, lines |-> <<>>], request.files[file]).lines

(* All lines, of each the number of its file, and whether it is the first.   *)
AllHits(files) ==
  FlattenSeq([n \in 1..Cardinality(files) |->
    LET file == SetToSortSeq(files, <)[n]
    IN [i \in DOMAIN Hits(file) |-> <<n, Hits(file)[i]>>]])

(* render_matches, render_file_list: between two files of a page, a boundary *)
(* that does not count.                                                      *)
Boundary == <<-1>>
Render(files) ==
  LET rest == SubSeq(AllHits(files), skip + 1, Len(AllHits(files)))
      page == SubSeq(rest, 1, Min({MaxMatches, Len(rest)}))
      starts(i) == i > 1 /\ page[i][1] # page[i - 1][1] /\ request.context /\ ~request.list
  IN [lines |-> FlattenSeq([i \in DOMAIN page |->
                  (IF starts(i) THEN <<Boundary>> ELSE <<>>) \o <<page[i][2]>>]),
      capped |-> Len(rest) > MaxMatches]

-----------------------------------------------------------------------------
Init ==
  /\ request \in Requests
  /\ at = "walks"
  /\ found = {} /\ timedOut = FALSE /\ cancelled = FALSE
  /\ skip = 0 /\ pages = <<>>

(* parallel_collect: every thread looks at the token before each entry.      *)
Visit(entry) ==
  /\ at = "walks" /\ ~timedOut /\ ~cancelled
  /\ entry \in Entries \ found
  /\ found' = found \cup {entry}
  /\ UNCHANGED <<request, at, timedOut, cancelled, skip, pages>>

FireTimer ==
  /\ IsGlob /\ at = "walks" /\ ~timedOut
  /\ timedOut' = TRUE
  /\ UNCHANGED <<request, at, found, cancelled, skip, pages>>

Cancel ==
  /\ at = "walks" /\ ~cancelled
  /\ cancelled' = TRUE
  /\ UNCHANGED <<request, at, found, timedOut, skip, pages>>

Walked == at = "walks" /\ (found = Entries \/ timedOut \/ cancelled)

(* run_glob: a cancelled call is told apart from one that took too long.     *)
GlobEnds ==
  /\ IsGlob /\ Walked
  /\ IF cancelled THEN at' = "cancelled" /\ UNCHANGED pages
     ELSE at' = "done" /\ pages' = <<FormatHits(found)>>
  /\ UNCHANGED <<request, found, timedOut, cancelled, skip>>

(* search_tree does not look at the token again.                             *)
GrepEnds ==
  /\ ~IsGlob /\ Walked
  /\ pages' = Append(pages, Render(found))
  /\ at' = IF Render(found).capped THEN "asks" ELSE "done"
  /\ UNCHANGED <<request, found, timedOut, cancelled, skip>>

(* The model asks for what comes after the page it has.                      *)
Ask ==
  /\ at = "asks" /\ ~cancelled
  /\ skip' = skip + MaxMatches
  /\ found' = {} /\ at' = "walks"
  /\ UNCHANGED <<request, timedOut, cancelled, pages>>

Next ==
  \/ \E entry \in Entries : Visit(entry)
  \/ FireTimer \/ Cancel \/ GlobEnds \/ GrepEnds \/ Ask

Spec == Init /\ [][Next]_vars

-----------------------------------------------------------------------------
(* What grep finds in a file: its first lines, in their order.               *)
Shown(file) ==
  LET lines == request.files[file]
  IN SubSeq(lines, 1, Min({PerFileMatches, Len(lines)}))
NotGap(line) == line \notin {Gap, Boundary}

(* A list of paths that says neither that it is capped nor that the search   *)
(* took too long has every path, once, the newest first; one that is capped  *)
(* leaves out none that is newer (glob.rs:313).  Pages asked for one after   *)
(* the other have every line that is kept of every file, none twice and in   *)
(* the order of the files, and only the last one is not capped (grep.rs:380).*)
ListsAreComplete ==
  at = "done" =>
    IF IsGlob
    THEN LET page == pages[1]
             names == {Name(e) : e \in Entries}
             time(n) == Max({Changed(e) : e \in {x \in Entries : Name(x) = n}})
         IN /\ ToSet(page.lines) \subseteq names
            /\ Cardinality(ToSet(page.lines)) = Len(page.lines)
            /\ \A i, j \in DOMAIN page.lines : i < j => time(page.lines[i]) >= time(page.lines[j])
            /\ ~page.timedOut /\ ~page.capped => names = ToSet(page.lines)
            /\ page.capped => Len(page.lines) = request.max
            /\ page.capped /\ ~page.timedOut =>
                 \A n \in names \ ToSet(page.lines), i \in DOMAIN page.lines :
                   time(n) <= time(page.lines[i])
    ELSE ~cancelled /\ ~request.single =>
           LET given == SelectSeq(FlattenSeq([i \in DOMAIN pages |-> pages[i].lines]), NotGap)
           IN given = FlattenSeq([file \in DOMAIN request.files |->
                        IF request.list
                        THEN IF request.files[file] = <<>> THEN <<>> ELSE <<<<file>>>>
                        ELSE [i \in DOMAIN Shown(file) |-> <<file, Shown(file)[i]>>]])

(* "Single-file searches bypass this" (grep.rs:26), and a line says where it *)
(* is (grep.rs:1): not so of a search in one file.                           *)
SingleFileIsWhole ==
  at = "done" /\ ~IsGlob /\ ~cancelled /\ request.single /\ ~request.list =>
    SelectSeq(FlattenSeq([i \in DOMAIN pages |-> pages[i].lines]), NotGap)
      = [i \in DOMAIN request.files[1] |-> <<1, request.files[1][i]>>]
=============================================================================
