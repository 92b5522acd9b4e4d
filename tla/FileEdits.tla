------------------------------ MODULE FileEdits ------------------------------
(***************************************************************************)
(* The edit and write tools (engine, tools/file): the tool calls of one     *)
(* answer run together, each takes the file's lock, reads the file, works   *)
(* out the new content and writes it.  An edit names the text it replaces;  *)
(* where the file does not hold it literally, the text is looked for with   *)
(* quotes, spaces and line ends folded (edit.rs).                           *)
(*                                                                         *)
(* A file is a sequence of characters: "nl" and "cr", "bom", letters, a     *)
(* wide letter and a wide pair that fold to letters, quotes in both styles. *)
(* There is one file, under its own name and a link's.                      *)
(***************************************************************************)
EXTENDS Integers, Sequences, FiniteSets, SequencesExt

CONSTANT Scenes   (* What the file holds, or NoFile, and the calls that run.   *)

VARIABLES
  file,       \* what is on the disk
  calls,      \* the calls of the answer: tool, path, edits or content
  cancelled,  \* the run's token
  pc, key, mutex,
  registry,   \* FILE_MUTEXES
  made,       \* how many mutexes it has made
  owner,      \* the call that holds each mutex, 0 for none
  seen, out,  \* what a call read, and what it will write
  result

locks == <<key, mutex, registry, made, owner>>
vars == <<file, calls, cancelled, pc, locks, seen, out, result>>

NoFile == <<"no file">>

-----------------------------------------------------------------------------
(* Normalisation (edit.rs). *)

Blank == {" ", "nbsp", "wide space"}

EachBecomes(s, Char(_)) == FlattenSeq([i \in DOMAIN s |-> Char(s[i])])

\* normalize_to_lf: a CR goes before an LF and becomes one elsewhere.
NormalizeToLf(s) ==
  FlattenSeq([i \in DOMAIN s |->
    IF s[i] # "cr" THEN <<s[i]>>
    ELSE IF i < Len(s) /\ s[i + 1] = "nl" THEN <<>> ELSE <<"nl">>])

CrLfs(s) == {i \in 1..(Len(s) - 1) : s[i] = "cr" /\ s[i + 1] = "nl"}
LineFeeds(s) == {i \in DOMAIN s : s[i] = "nl"}

DetectLineEnding(s) ==
  IF 2 * Cardinality(CrLfs(s)) > Cardinality(LineFeeds(s)) THEN "CrLf" ELSE "Lf"

RestoreLineEndings(s, ending) ==
  IF ending = "Lf" THEN s
  ELSE EachBecomes(s, LAMBDA c : IF c = "nl" THEN <<"cr", "nl">> ELSE <<c>>)

HasBom(s) == s # <<>> /\ s[1] = "bom"
StripBom(s) == IF HasBom(s) THEN Tail(s) ELSE s
Bom(s) == IF HasBom(s) THEN <<"bom">> ELSE <<>>

Folded(c) ==
  CASE c \in {"lsq", "rsq"} -> "'"
    [] c \in {"ldq", "rdq"} -> "dq"
    [] c \in Blank -> " "
    [] OTHER -> c

NormalizeUnicode(s) == [i \in DOMAIN s |-> Folded(s[i])]

\* NFKC is not one to one.
Compatible(c) ==
  CASE c = "wide a" -> <<"a">>
    [] c = "wide ab" -> <<"a", "b">>
    [] OTHER -> <<Folded(c)>>

LastSolid(s) == {i \in DOMAIN s : s[i] \notin Blank}
TrimEnd(s) == SubSeq(s, 1, IF LastSolid(s) = {} THEN 0 ELSE Max(LastSolid(s)))

NormalizeNfkcLine(line) == TrimEnd(EachBecomes(line, Compatible))

-----------------------------------------------------------------------------
(* Looking for the text an edit names.  A region is a pair of positions, its  *)
(* first character and its last; an empty one ends before it starts.         *)

Region(text, r) == SubSeq(text, r[1], r[2])

Occurrences(text, old) ==
  {r \in {<<i, i + Len(old) - 1>> : i \in 1..(Len(text) - Len(old) + 1)} :
     Region(text, r) = old}

\* str::matches goes on after the end of a match.
InTurn(regions) ==
  LET First(left) == CHOOSE r \in left : \A s \in left : r[1] <= s[1]
      taken[left \in SUBSET regions] ==
        IF left = {} THEN {}
        ELSE {First(left)} \cup taken[{r \in left : r[1] > First(left)[2]}]
  IN taken[regions]

Exact(text, old) == InTurn(Occurrences(text, old))

UnicodeNormalized(text, old) ==
  IF NormalizeUnicode(text) = text /\ NormalizeUnicode(old) = old THEN {}
  ELSE Occurrences(NormalizeUnicode(text), NormalizeUnicode(old))

\* build_line_spans: the region of each line, without its line feed.
Ends(text) == SetToSortSeq(LineFeeds(text) \cup {Len(text) + 1}, <)
LineSpans(text) ==
  LET ends == Ends(text)
  IN [k \in DOMAIN ends |-> <<IF k = 1 THEN 1 ELSE ends[k - 1] + 1, ends[k] - 1>>]

SplitLines(text) == [k \in DOMAIN LineSpans(text) |-> Region(text, LineSpans(text)[k])]

EndsLine(s) == s # <<>> /\ Last(s) = "nl"

\* str::lines: the line feed at the end starts no line.
Lines(s) == IF EndsLine(s) THEN SplitLines(Front(s)) ELSE SplitLines(s)

\* Mutant: the last line's end is taken with the line feed.
LinesRegionWithFeed(text, spans, k, old) ==
  LET last == spans[k + Len(Lines(old)) - 1][2]
  IN <<spans[k][1], IF last < Len(text) THEN last + 1 ELSE last>>

\* line_match_byte_range: with its line feed, if the text named has one.
LinesRegion(text, spans, k, old) ==
  LET last == spans[k + Len(Lines(old)) - 1][2]
  IN <<spans[k][1], IF EndsLine(old) /\ last < Len(text) THEN last + 1 ELSE last>>

\* Where the lines the text has, as a tier reads them, are the lines named.
LineMatches(text, old, has, named) ==
  {LinesRegion(text, LineSpans(text), k, old) :
     k \in {k \in 1..(Len(has) - Len(named) + 1) :
              \A j \in DOMAIN named : has[k + j - 1] = named[j]}}

Trimmed(lines) == [k \in DOMAIN lines |-> TrimEnd(lines[k])]
Nfkc(lines) == [k \in DOMAIN lines |-> NormalizeNfkcLine(lines[k])]

WhitespaceInsensitive(text, old) ==
  LineMatches(text, old, Trimmed(SplitLines(text)), Trimmed(Lines(old)))
\* Normalizing maps no character to a line feed, nor one from it.
FullNormalized(text, old) ==
  LineMatches(text, old, Trimmed(SplitLines(NormalizeUnicode(text))),
                         Trimmed(Lines(NormalizeUnicode(old))))
NfkcNormalized(text, old) ==
  LineMatches(text, old, Nfkc(SplitLines(text)), Nfkc(Lines(old)))

Tiers == <<"exact", "unicode", "whitespace", "full", "nfkc">>

Matches(tier, text, old) ==
  CASE tier = "exact" -> Exact(text, old)
    [] tier = "unicode" -> UnicodeNormalized(text, old)
    [] tier = "whitespace" -> WhitespaceInsensitive(text, old)
    [] tier = "full" -> FullNormalized(text, old)
    [] tier = "nfkc" -> NfkcNormalized(text, old)

\* resolve_unique_match: the first tier that finds anything decides.
ResolvingTier(text, old) ==
  SelectInSeq(Tiers, LAMBDA tier : Matches(tier, text, old) # {})

Found(text, old) ==
  LET n == ResolvingTier(text, old)
  IN IF n = 0 THEN {} ELSE Matches(Tiers[n], text, old)

-----------------------------------------------------------------------------
(* The new text keeps the file's quotes. *)

OpensQuote(s, i) == i = 1 \/ s[i - 1] \in {" ", "nl", "("}

CurlyDouble(s) ==
  [i \in DOMAIN s |-> IF s[i] # "dq" THEN s[i]
                      ELSE IF OpensQuote(s, i) THEN "ldq" ELSE "rdq"]
\* An apostrophe follows a letter, which opens nothing.
CurlySingle(s) ==
  [i \in DOMAIN s |-> IF s[i] # "'" THEN s[i]
                      ELSE IF OpensQuote(s, i) THEN "lsq" ELSE "rsq"]

Holds(s, quotes) == \E i \in DOMAIN s : s[i] \in quotes
WithDoubles(actual, new) == IF Holds(actual, {"ldq", "rdq"}) THEN CurlyDouble(new) ELSE new
PreserveQuoteStyle(old, actual, new) ==
  IF old = actual THEN new
  ELSE IF Holds(actual, {"lsq", "rsq"}) THEN CurlySingle(WithDoubles(actual, new))
  ELSE WithDoubles(actual, new)

Restyles(tier) == tier \in {"unicode", "full", "nfkc"}

-----------------------------------------------------------------------------
(* The edits of one call (edit.rs, parse_edits and execute). *)

LfEdits(edits) ==
  [i \in DOMAIN edits |-> [old |-> NormalizeToLf(edits[i].old),
                           new |-> NormalizeToLf(edits[i].new)]]

ParsesEdits(edits) ==
  /\ edits # <<>>
  /\ \A i \in DOMAIN edits : edits[i].old # <<>> /\ edits[i].old # edits[i].new

\* All are matched against the file as it was.
AllResolve(text, edits) ==
  \A i \in DOMAIN edits : Cardinality(Found(text, edits[i].old)) = 1

NewText(tier, text, region, edit) ==
  IF Restyles(tier) THEN PreserveQuoteStyle(edit.old, Region(text, region), edit.new)
                    ELSE edit.new

ResolvedEdit(text, edit) ==
  LET region == CHOOSE r \in Found(text, edit.old) : TRUE
  IN [from |-> region[1], to |-> region[2],
      new |-> NewText(Tiers[ResolvingTier(text, edit.old)], text, region, edit)]

Resolved(text, edits) ==
  SortSeq([i \in DOMAIN edits |-> ResolvedEdit(text, edits[i])],
          LAMBDA a, b : a.from < b.from)

Overlap(resolved) ==
  \E i \in 1..(Len(resolved) - 1) : resolved[i].to >= resolved[i + 1].from

Replace(edit, text) ==
  SubSeq(text, 1, edit.from - 1) \o edit.new \o SubSeq(text, edit.to + 1, Len(text))

\* From the last one back, so that the earlier positions still hold.
Replaced(text, resolved) == FoldRight(Replace, resolved, text)

\* What the call makes of a text, or <<>> for an error.
AfterResolving(text, resolved) ==
  IF Overlap(resolved) \/ Replaced(text, resolved) = text THEN <<>>
  ELSE << Replaced(text, resolved) >>

Edited(text, edits) ==
  IF ParsesEdits(edits) /\ AllResolve(text, edits)
  THEN AfterResolving(text, Resolved(text, edits)) ELSE <<>>

InItsForm(raw, edited) ==
  [i \in DOMAIN edited |->
     Bom(raw) \o RestoreLineEndings(edited[i], DetectLineEnding(StripBom(raw)))]

EditFile(raw, edits) ==
  InItsForm(raw, Edited(NormalizeToLf(StripBom(raw)), LfEdits(edits)))

-----------------------------------------------------------------------------
(* The calls, side by side. *)

Call == DOMAIN calls

Init ==
  /\ \E scene \in Scenes : file = scene.file /\ calls = scene.calls
  /\ cancelled = FALSE
  /\ pc = [c \in Call |-> "start"]
  /\ key = [c \in Call |-> ""]
  /\ mutex = [c \in Call |-> 0]
  /\ registry = [name \in {"name", "link"} |-> 0]
  /\ made = 0
  /\ owner = [c \in Call |-> 0]
  /\ seen = [c \in Call |-> NoFile]
  /\ out = [c \in Call |-> <<>>]
  /\ result = [c \in Call |-> "none"]

Goes(c, step) == pc' = [pc EXCEPT ![c] = step]
Returns(c, what) == result' = [result EXCEPT ![c] = what]

Cancel ==
  /\ ~cancelled
  /\ cancelled' = TRUE
  /\ UNCHANGED <<file, calls, pc, locks, seen, out, result>>

Refused(c) ==
  /\ pc[c] = "start" /\ cancelled
  /\ Goes(c, "done") /\ Returns(c, "cancelled")
  /\ UNCHANGED <<file, calls, cancelled, locks, seen, out>>

\* resolve_mutex_key: a file that is not there yet goes by the name given.
ResolveKey(c) ==
  /\ pc[c] = "start" /\ ~cancelled
  /\ key' = [key EXCEPT ![c] = IF file = NoFile THEN calls[c].path ELSE "name"]
  /\ Goes(c, "keyed")
  /\ UNCHANGED <<file, calls, cancelled, mutex, registry, made, owner, seen, out, result>>

\* The registry's mutex for the key, or a new one.
Enter(c) ==
  /\ pc[c] = "keyed"
  /\ LET new == registry[key[c]] = 0
         m == IF new THEN made + 1 ELSE registry[key[c]]
     IN /\ mutex' = [mutex EXCEPT ![c] = m]
        /\ registry' = [registry EXCEPT ![key[c]] = m]
        /\ made' = IF new THEN m ELSE made
  /\ Goes(c, "waits")
  /\ UNCHANGED <<file, calls, cancelled, key, owner, seen, out, result>>

Lock(c) ==
  /\ pc[c] = "waits" /\ owner[mutex[c]] = 0
  /\ owner' = [owner EXCEPT ![mutex[c]] = c]
  /\ Goes(c, "locked")
  /\ UNCHANGED <<file, calls, cancelled, key, mutex, registry, made, seen, out, result>>

Content(c, raw) ==
  IF calls[c].tool = "write" THEN << calls[c].content >>
  ELSE IF raw = NoFile THEN <<>> ELSE EditFile(raw, calls[c].edits)

\* The token is looked at once more; then the file is read and the new content
\* worked out.  An error leaves the file alone.
ReadFile(c) ==
  /\ pc[c] = "locked"
  /\ \/ cancelled /\ Goes(c, "drop") /\ Returns(c, "cancelled") /\ UNCHANGED <<seen, out>>
     \/ /\ ~cancelled
        /\ seen' = [seen EXCEPT ![c] = file]
        /\ out' = [out EXCEPT ![c] = Content(c, file)]
        /\ \/ out'[c] = <<>> /\ Goes(c, "drop") /\ Returns(c, "error")
           \/ out'[c] # <<>> /\ Goes(c, "write") /\ UNCHANGED result
  /\ UNCHANGED <<file, calls, cancelled, locks>>

\* fs::write empties the file, and then fills it, or cannot.
Truncate(c) ==
  /\ pc[c] = "write"
  /\ file' = <<>>
  /\ Goes(c, "fill")
  /\ UNCHANGED <<calls, cancelled, locks, seen, out, result>>

Fill(c) ==
  /\ pc[c] = "fill"
  /\ \/ file' = out[c][1] /\ Returns(c, "ok")
     \/ UNCHANGED file /\ Returns(c, "error")
  /\ Goes(c, "drop")
  /\ UNCHANGED <<calls, cancelled, locks, seen, out>>

\* Dropping the guard: the entry goes unless another call has the mutex too.
Sharers(m) == {d \in Call : mutex[d] = m}

Evicted(c) ==
  IF Cardinality(Sharers(registry[key[c]])) <= 1
  THEN [registry EXCEPT ![key[c]] = 0] ELSE registry

DropGuard(c) ==
  /\ pc[c] = "drop"
  /\ registry' = Evicted(c)
  /\ Goes(c, "unlock")
  /\ UNCHANGED <<file, calls, cancelled, key, mutex, made, owner, seen, out, result>>

Unlock(c) ==
  /\ pc[c] = "unlock"
  /\ owner' = [owner EXCEPT ![mutex[c]] = 0]
  /\ mutex' = [mutex EXCEPT ![c] = 0]
  /\ Goes(c, "done")
  /\ UNCHANGED <<file, calls, cancelled, key, registry, made, seen, out, result>>

Next ==
  \/ Cancel
  \/ \E c \in Call : \/ Refused(c) \/ ResolveKey(c) \/ Enter(c) \/ Lock(c) \/ ReadFile(c)
                     \/ Truncate(c) \/ Fill(c) \/ DropGuard(c) \/ Unlock(c)

Spec == Init /\ [][Next]_vars

-----------------------------------------------------------------------------

Uniform(s) ==
  IF LineFeeds(s) # {} /\ Cardinality(CrLfs(s)) = Cardinality(LineFeeds(s)) THEN "CrLf" ELSE "Lf"
Mixed(s) == s # RestoreLineEndings(NormalizeToLf(s), Uniform(s))

\* A region reads as the text named: the text itself with quotes and spaces
\* folded, or whole lines that differ in compatible forms and in the blanks
\* they end with, the end of the file counting as an empty line.
SameWords(is, named) ==
  /\ Len(is) = Len(named)
  /\ \A k \in DOMAIN is : NormalizeNfkcLine(is[k]) = NormalizeNfkcLine(named[k])

WholeLines(text, r, old) ==
  /\ r[1] = 1 \/ text[r[1] - 1] = "nl"
  /\ r[2] < Len(text) => IF EndsLine(old) THEN EndsLine(Region(text, r))
                                          ELSE text[r[2] + 1] = "nl"
  /\ \/ SameWords(Lines(Region(text, r)), Lines(old))
     \/ r[2] = Len(text) /\ SameWords(SplitLines(Region(text, r)), Lines(old))

Reads(text, r, old) ==
  IF Occurrences(text, old) # {} THEN Region(text, r) = old
  ELSE \/ NormalizeUnicode(Region(text, r)) = NormalizeUnicode(old)
       \/ WholeLines(text, r, old)

Places(text, old) ==
  {r \in UNION {{<<i, j>> : j \in (i - 1)..Len(text)} : i \in 1..(Len(text) + 1)} :
     Reads(text, r, old)}

Apart(r, s) == r[2] < s[1] \/ s[2] < r[1]

Put(edits, where, styled) ==
  [i \in DOMAIN edits |->
     [from |-> where[i][1], to |-> where[i][2],
      new |-> IF styled[i] THEN CurlySingle(CurlyDouble(edits[i].new)) ELSE edits[i].new]]

IsEditOf(text, after, edits) ==
  \E where \in [DOMAIN edits -> UNION {Places(text, edits[i].old) : i \in DOMAIN edits}],
     styled \in [DOMAIN edits -> BOOLEAN] :
    /\ \A i \in DOMAIN edits : where[i] \in Places(text, edits[i].old)
    /\ \A i, j \in DOMAIN edits : i # j => Apart(where[i], where[j])
    /\ after = Replaced(text, SortSeq(Put(edits, where, styled),
                                      LAMBDA a, b : a.from < b.from))

\* What an edit writes is the file it read with each text it names replaced in
\* one place that reads as that text, literally if the file holds it so, the
\* places apart; every other character, the line endings and the byte order
\* mark stay, unless the file mixed its line endings (edit.rs:157).
EditsOnlyWhatIsNamed ==
  \A c \in Call : pc[c] = "write" /\ calls[c].tool = "edit" =>
    LET was == StripBom(seen[c])
        is == StripBom(out[c][1])
    IN /\ IsEditOf(NormalizeToLf(was), NormalizeToLf(is), LfEdits(calls[c].edits))
       /\ HasBom(out[c][1]) <=> HasBom(seen[c])
       /\ ~Mixed(was) => is = RestoreLineEndings(NormalizeToLf(is), Uniform(was))

\* An edit replaces the content it was worked out from, so that of two edits of
\* one answer both show: between its read and its write nothing else writes the
\* file, as long as the calls know it by one name (mutex.rs:1).
SameName(c) == \A d \in Call : key[d] \in {"", key[c]}
NoChangeIsLost ==
  \A c \in Call : pc[c] = "write" /\ calls[c].tool = "edit" /\ SameName(c) =>
    file = seen[c]

\* The same, whatever names the calls use: it does not hold while the file is
\* being created through a link.
OneLockPerFile ==
  \A c \in Call : pc[c] = "write" /\ calls[c].tool = "edit" => file = seen[c]

=============================================================================
