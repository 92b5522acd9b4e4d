----------------------------- MODULE SearchIndex -----------------------------
(***************************************************************************)
(* The index of the code search (engine, tools/explore/search): a search    *)
(* looks at the stamp of every file, reads again what has another one than  *)
(* the cached index knows, and stores the index it made.  Searches run at    *)
(* the same time as each other and as whoever writes the files.              *)
(*                                                                         *)
(* A stamp is a file's (mtime, size); no two texts of a file share one,     *)
(* and a later text may have the older one.  So a text goes by its stamp.   *)
(***************************************************************************)
EXTENDS Integers, Sequences, FiniteSets, FiniteSetsExt

CONSTANTS
  Searchers,     (* Calls of the tool that may overlap.                       *)
  Paths,         (* Source files below the root.                              *)
  Text,          (* The text of each stamp, as a parser sees it: the number of *)
                 (* its lines, its top level nodes, and whether there is a     *)
                 (* grammar.                                                  *)
  MaxSearches,   (* Bounds the searches.                                      *)
  MinChunkLines, MaxChunkLines, FallbackWindow

VARIABLES
  tree,        \* the stamp of each file, 0 when there is none
  stamps,      \* the stamps a file has not had
  cache,       \* the stored index: of each file the stamp and the text that
               \* was read, or <<>>; no files before the first
  search,      \* each search: where it is and what it knows
  begun,       \* how many searches have begun
  touched      \* History: the files written since a search began

vars == <<tree, stamps, cache, search, begun, touched>>

NoEntry == <<>>
NoIndex == [p \in {} |-> NoEntry]
Empty == [p \in Paths |-> NoEntry]
Unknown == [p \in Paths |-> -1]

-----------------------------------------------------------------------------
(* Chunks, as pairs of their first line and the line after their last one.  *)
Windows(start, end, size) ==
  {<<s, Min({s + size, end})>> : s \in {n \in start..(end - 1) : (n - start) % size = 0}}

ChunksFromTree(nodes) ==
  UNION {IF n.end - n.start > MaxChunkLines THEN Windows(n.start, n.end, MaxChunkLines)
         ELSE {<<n.start, n.end>>} :
           n \in {m \in nodes : m.defines /\ m.end - m.start >= MinChunkLines}}

(* chunk_file: what has no definitions is cut into windows, too.             *)
ChunkFile(text) ==
  LET found == IF text.grammar THEN ChunksFromTree(text.nodes) ELSE {}
  IN IF found # {} THEN found ELSE Windows(0, text.lines, FallbackWindow)

-----------------------------------------------------------------------------
Idle == [at |-> "idle", cached |-> NoIndex, seen |-> Unknown, stamp |-> Unknown,
         unread |-> {}, made |-> Empty, cancelled |-> FALSE]

Init ==
  /\ tree = [p \in Paths |-> 1]
  /\ stamps = [p \in Paths |-> DOMAIN Text \ {1}]
  /\ cache = NoIndex
  /\ search = [s \in Searchers |-> Idle]
  /\ begun = 0
  /\ touched = [s \in Searchers |-> {}]

At(s, step) == search[s].at = step
Becomes(s, new) == search' = [search EXCEPT ![s] = new]
Untouched == UNCHANGED <<tree, stamps, touched>>
Ends(s) ==
  /\ Becomes(s, Idle)
  /\ touched' = [touched EXCEPT ![s] = {}]
  /\ UNCHANGED <<tree, stamps, cache, begun>>

Known(s) == IF search[s].cached = NoIndex THEN Empty ELSE search[s].cached

(* execute: the cache is read under its lock, the rest runs without it.      *)
Begin(s) ==
  /\ At(s, "idle") /\ begun < MaxSearches
  /\ begun' = begun + 1
  /\ Becomes(s, [Idle EXCEPT !.at = "walk", !.cached = cache])
  /\ UNCHANGED <<tree, stamps, cache, touched>>

(* collect_files, file by file, in any order.                                *)
Stat(s, p) ==
  /\ At(s, "walk") /\ search[s].seen[p] = -1
  /\ Becomes(s, [search[s] EXCEPT !.seen[p] = tree[p]])
  /\ UNCHANGED <<cache, begun>> /\ Untouched

Walked(s) == At(s, "walk") /\ \A p \in Paths : search[s].seen[p] # -1
Present(s) == {p \in Paths : search[s].seen[p] > 0}

(* Mutant: only what is newer than the index is read again.                  *)
ChangedIfNewer(s) ==
  {p \in Present(s) : Known(s)[p] = NoEntry \/ search[s].seen[p] > Known(s)[p][1]}

Changed(s) ==
  {p \in Present(s) : Known(s)[p] = NoEntry \/ search[s].seen[p] # Known(s)[p][1]}
Removed(s) == {p \in Paths \ Present(s) : Known(s)[p] # NoEntry}

(* refreshed: nothing to do, or the changed files to read.                   *)
Unchanged(s) ==
  /\ Walked(s)
  /\ ~search[s].cancelled
  /\ Changed(s) = {} /\ Removed(s) = {}
  /\ Becomes(s, [Idle EXCEPT !.at = "found", !.made = Known(s)])
  /\ cache' = IF search[s].cached = NoIndex THEN Empty ELSE cache
  /\ UNCHANGED begun /\ Untouched

Compare(s) ==
  /\ Walked(s)
  /\ ~search[s].cancelled
  /\ Changed(s) # {} \/ Removed(s) # {}
  /\ Becomes(s, [Idle EXCEPT
       !.at = "read", !.unread = Changed(s),
       !.made = [p \in Paths |-> IF p \in Present(s) THEN Known(s)[p] ELSE NoEntry]])
  /\ UNCHANGED <<cache, begun>> /\ Untouched

(* In parallel, and each the stamp first.                                    *)
StatAgain(s, p) ==
  /\ At(s, "read") /\ p \in search[s].unread
  /\ search[s].stamp[p] = -1
  /\ Becomes(s, [search[s] EXCEPT !.stamp[p] = tree[p]])
  /\ UNCHANGED <<cache, begun>> /\ Untouched

Read(s, p) ==
  /\ At(s, "read") /\ p \in search[s].unread
  /\ search[s].stamp[p] # -1
  /\ Becomes(s, [search[s] EXCEPT !.unread = @ \ {p}, !.stamp[p] = -1,
                                  !.made[p] = <<search[s].stamp[p], tree[p]>>])
  /\ UNCHANGED <<cache, begun>> /\ Untouched

(* The last writer wins.                                                     *)
Store(s) ==
  /\ At(s, "read") /\ search[s].unread = {}
  /\ ~search[s].cancelled
  /\ cache' = search[s].made
  /\ Becomes(s, [Idle EXCEPT !.at = "found", !.made = search[s].made])
  /\ UNCHANGED begun /\ Untouched

(* A cancelled search stores nothing.                                        *)
GiveUp(s) ==
  /\ search[s].cancelled
  /\ \/ Walked(s)
     \/ At(s, "read") /\ search[s].unread = {}
  /\ Ends(s)

Cancel(s) ==
  /\ search[s].at \in {"walk", "read"} /\ ~search[s].cancelled
  /\ Becomes(s, [search[s] EXCEPT !.cancelled = TRUE])
  /\ UNCHANGED <<cache, begun>> /\ Untouched

Answer(s) ==
  /\ At(s, "found")
  /\ Ends(s)

(* Someone writes or removes a file.                                         *)
Touches(p) ==
  /\ touched' = [s \in Searchers |-> IF At(s, "idle") THEN touched[s] ELSE touched[s] \cup {p}]
  /\ UNCHANGED <<cache, search, begun>>

Write(p) ==
  \E stamp \in stamps[p] :
    /\ tree' = [tree EXCEPT ![p] = stamp]
    /\ stamps' = [stamps EXCEPT ![p] = @ \ {stamp}]
    /\ Touches(p)

Remove(p) ==
  /\ tree[p] # 0
  /\ tree' = [tree EXCEPT ![p] = 0]
  /\ Touches(p)
  /\ UNCHANGED stamps

Next ==
  \/ \E s \in Searchers :
       \/ Begin(s) \/ Unchanged(s) \/ Compare(s) \/ Store(s)
       \/ GiveUp(s) \/ Cancel(s) \/ Answer(s)
       \/ \E p \in Paths : Stat(s, p) \/ StatAgain(s, p) \/ Read(s, p)
  \/ \E p \in Paths : Write(p) \/ Remove(p)

Spec == Init /\ [][Next]_vars

-----------------------------------------------------------------------------
Lines(ranges) == UNION {r[1]..(r[2] - 1) : r \in ranges}
Large(text) == {n \in text.nodes : n.defines /\ n.end - n.start >= MinChunkLines}

(* What may be found of a text: all lines of its larger definitions, or all  *)
(* lines there are, in pieces that do not overlap.                           *)
IsChunked(text, chunks) ==
  /\ Lines(chunks) = IF text.grammar /\ Large(text) # {}
                     THEN Lines({<<n.start, n.end>> : n \in Large(text)})
                     ELSE 0..(text.lines - 1)
  /\ \A c, d \in chunks : c # d => c[1]..(c[2] - 1) \cap d[1]..(d[2] - 1) = {}

(* A search finds what the files say: of each one that nobody wrote since    *)
(* the search began it has the current text, and of one that is gone it has  *)
(* nothing (index.rs:74), whatever other searches stored or files were       *)
(* written before, or during theirs.                                         *)
FoundIsCurrent ==
  \A s \in Searchers : At(s, "found") =>
    \A p \in Paths \ touched[s] :
      IF tree[p] = 0 THEN search[s].made[p] = NoEntry
      ELSE search[s].made[p] # NoEntry /\ search[s].made[p][2] = tree[p]

(* And it finds all of the text, in pieces (tool.rs:121).                    *)
FoundInPieces ==
  \A s \in Searchers : At(s, "found") =>
    \A p \in Paths \ touched[s] :
      tree[p] # 0 => IsChunked(Text[tree[p]], ChunkFile(Text[tree[p]]))
=============================================================================
