----------------------------- MODULE SharedFiles -----------------------------
(***************************************************************************)
(* The small state files that several evot processes rewrite whole: the     *)
(* metadata of a session, the variables and the favourites.  An edit opens   *)
(* the file's lock, waits for it, reads the document, changes the part it    *)
(* owns and renames a complete new document over the old one.  The lock of   *)
(* the metadata lies in the session's directory and is deleted with it: who   *)
(* opened it before holds a lock nobody else sees (`generation').  The last   *)
(* part is the one-off rewrite of a transcript in the old format.             *)
(***************************************************************************)
EXTENDS Naturals, Sequences, FiniteSets

CONSTANTS
  Procs,       \* the processes
  Titles,      \* what a user may rename a session to
  Keys,        \* variables; also the ids that may be favourites
  MaxEdits,    \* bound: edits of all processes
  MaxDeletes,  \* bound: deletions of the session
  MaxTurns     \* bound: turns a session counts

VARIABLES
  disk,        \* file |-> its document
  wanted,      \* ghost: file |-> what the edits, one after another, make of it
  holder,      \* <<file, generation>> |-> who holds that lock
  generation,  \* file |-> which lock file an open finds
  proc,        \* process |-> its edit and where it is
  snapshot,    \* process |-> the record its open session holds
  count,       \* edits and deletions so far
  slipped,     \* ghost: an edit of the metadata ended under a deleted lock
  legacy       \* the old transcript: what path, backup and temporary file hold

vars == <<disk, wanted, holder, generation, proc, snapshot, count, slipped, legacy>>

Files == {"meta", "variables", "favorites"}
Nobody == "nobody"
Absent == [turns |-> 0, title |-> "absent"]
Untitled == "untitled"
Unset == 0
Idle == [at |-> "idle"]

(* What an edit may be: a save of a session's record, a rename, a variable   *)
(* set or removed, a favourite toggled or a set of them removed.              *)
Edits ==
       [file : {"meta"}, kind : {"save"}]
  \cup [file : {"meta"}, kind : {"rename"}, title : Titles]
  \cup [file : {"variables"}, kind : {"upsert", "remove"}, key : Keys]
  \cup [file : {"favorites"}, kind : {"toggle", "remove"}, key : Keys]

(* Only Rename owns the title, and only of a session that exists; a save     *)
(* writes everything else from the record the session holds.                 *)
MetaEditOfTheHolder(doc, e, held) ==    \* mutant: a save restores its old title
  IF e.kind = "save" THEN held
  ELSE IF doc = Absent THEN doc ELSE [doc EXCEPT !.title = e.title]

MetaEdit(doc, e, held) ==
  IF e.kind = "save"
  THEN [held EXCEPT !.title = IF doc = Absent THEN @ ELSE doc.title]
  ELSE IF doc = Absent THEN doc ELSE [doc EXCEPT !.title = e.title]

(* What the users mean by it: the title of the last rename, and the activity *)
(* of the last save.                                                         *)
MetaWanted(w, e, held) ==
  CASE e.kind = "save"              -> [turns |-> held.turns,
                                        title |-> IF w = Absent THEN held.title ELSE w.title]
    [] e.kind = "rename" /\ w = Absent -> Absent
    [] OTHER                        -> [turns |-> w.turns, title |-> e.title]

(* A variable is edited alone: the others keep what another process wrote.   *)
VariablesEdit(doc, e) ==
  [doc EXCEPT ![e.key] = IF e.kind = "upsert" THEN @ + 1 ELSE Unset]

FavoritesEdit(doc, e) ==
  IF e.kind = "toggle" /\ ~ \E i \in DOMAIN doc : doc[i] = e.key
  THEN Append(doc, e.key)
  ELSE SelectSeq(doc, LAMBDA id : id # e.key)

Apply(doc, e, held) ==
  CASE e.file = "meta"      -> MetaEdit(doc, e, held)
    [] e.file = "variables" -> VariablesEdit(doc, e)
    [] e.file = "favorites" -> FavoritesEdit(doc, e)

-----------------------------------------------------------------------------
(* A session that is opened holds the whole record from then on.             *)
OpenSession(p) ==
  /\ proc[p] = Idle
  /\ disk["meta"] # Absent
  /\ snapshot' = [snapshot EXCEPT ![p] = disk["meta"]]
  /\ UNCHANGED <<disk, wanted, holder, generation, proc, count, slipped, legacy>>

(* Its turns are counted in that record.                                     *)
Turn(p) ==
  /\ proc[p] = Idle
  /\ snapshot[p] # Absent /\ snapshot[p].turns < MaxTurns
  /\ snapshot' = [snapshot EXCEPT ![p].turns = @ + 1]
  /\ UNCHANGED <<disk, wanted, holder, generation, proc, count, slipped, legacy>>

(* The lock file is opened, and created when it is not there.                *)
OpenLock(p, e) ==
  /\ proc[p] = Idle
  /\ count.edits < MaxEdits
  /\ e.kind = "rename" => disk["meta"] # Absent
  /\ e.kind = "save" => snapshot[p] # Absent
  /\ proc' = [proc EXCEPT ![p] =
       [at |-> "waits", edit |-> e, lock |-> <<e.file, generation[e.file]>>]]
  /\ count' = [count EXCEPT !.edits = @ + 1]
  /\ UNCHANGED <<disk, wanted, holder, generation, snapshot, slipped, legacy>>

LockExclusive(p) ==
  /\ proc[p].at = "waits"
  /\ holder[proc[p].lock] = Nobody
  /\ holder' = [holder EXCEPT ![proc[p].lock] = p]
  /\ proc' = [proc EXCEPT ![p].at = "reads"]
  /\ UNCHANGED <<disk, wanted, generation, snapshot, count, slipped, legacy>>

ReadDocument(p) ==
  /\ proc[p].at = "reads"
  /\ proc' = [proc EXCEPT ![p] =
       [at |-> "writes", edit |-> @.edit, lock |-> @.lock,
        doc |-> disk[@.edit.file]]]
  /\ UNCHANGED <<disk, wanted, holder, generation, snapshot, count, slipped, legacy>>

(* The new document is renamed over the old one and the lock given back.     *)
WriteDocument(p) ==
  /\ proc[p].at = "writes"
  /\ LET e == proc[p].edit IN
       /\ disk' = [disk EXCEPT ![e.file] = Apply(proc[p].doc, e, snapshot[p])]
       /\ wanted' = [wanted EXCEPT ![e.file] =
            IF e.file = "meta" THEN MetaWanted(@, e, snapshot[p]) ELSE Apply(@, e, snapshot[p])]
       /\ slipped' = (slipped \/ proc[p].lock[2] # generation[e.file])
  /\ holder' = [holder EXCEPT ![proc[p].lock] = Nobody]
  /\ proc' = [proc EXCEPT ![p] = Idle]
  /\ UNCHANGED <<generation, snapshot, count, legacy>>

(* The process dies, and its session with it: the system takes its lock      *)
(* back, and the document is the old one, for the rename is the only write.  *)
Crash(p) ==
  /\ proc[p] # Idle
  /\ holder' = [l \in DOMAIN holder |-> IF holder[l] = p THEN Nobody ELSE holder[l]]
  /\ proc' = [proc EXCEPT ![p] = Idle]
  /\ legacy' = IF proc[p].at \in {"backs_up", "replaces"}
               THEN [legacy EXCEPT !.crashed = TRUE] ELSE legacy
  /\ snapshot' = [snapshot EXCEPT ![p] = Absent]
  /\ UNCHANGED <<disk, wanted, generation, count, slipped>>

(* The session's directory goes, with the metadata and the lock in it.       *)
DeleteSession ==
  /\ disk["meta"] # Absent
  /\ count.deletes < MaxDeletes
  /\ disk' = [disk EXCEPT !["meta"] = Absent]
  /\ wanted' = [wanted EXCEPT !["meta"] = Absent]
  /\ generation' = [generation EXCEPT !["meta"] = @ + 1]
  /\ count' = [count EXCEPT !.deletes = @ + 1]
  /\ UNCHANGED <<holder, proc, snapshot, slipped, legacy>>

-----------------------------------------------------------------------------
(* A transcript in the old format is rewritten by whoever opens it first     *)
(* (the transcript's lock keeps the others out): the original is copied to a *)
(* backup that must not exist yet, the new content is written to a temporary *)
(* file and renamed over the transcript.  The content an interrupted copy     *)
(* leaves is a part of the original, and nobody looks at it again.            *)
Migrating == {p \in Procs : proc[p].at \in {"backs_up", "replaces"}}

BeginMigration(p) ==
  /\ proc[p] = Idle
  /\ legacy.path = "original" /\ Migrating = {}
  /\ proc' = [proc EXCEPT ![p] =
       [at |-> IF legacy.backup = "none" THEN "backs_up" ELSE "replaces"]]
  /\ legacy' = [legacy EXCEPT !.backup = IF @ = "none" THEN "part" ELSE @]
  /\ UNCHANGED <<disk, wanted, holder, generation, snapshot, count, slipped>>

BackUp(p) ==
  /\ proc[p].at = "backs_up"
  /\ legacy' = [legacy EXCEPT !.backup = "whole"]
  /\ proc' = [proc EXCEPT ![p] = [at |-> "replaces"]]
  /\ UNCHANGED <<disk, wanted, holder, generation, snapshot, count, slipped>>

ReplaceTranscript(p) ==
  /\ proc[p].at = "replaces"
  /\ legacy' = [legacy EXCEPT !.path = "migrated"]
  /\ proc' = [proc EXCEPT ![p] = Idle]
  /\ UNCHANGED <<disk, wanted, holder, generation, snapshot, count, slipped>>

-----------------------------------------------------------------------------
Documents ==
  [f \in Files |->
     CASE f = "meta"      -> [turns |-> 0, title |-> Untitled]
       [] f = "variables" -> [k \in Keys |-> Unset]
       [] f = "favorites" -> <<>>]

Init ==
  /\ disk = Documents
  /\ wanted = Documents
  /\ holder = [l \in Files \X (0 .. MaxDeletes) |-> Nobody]
  /\ generation = [f \in Files |-> 0]
  /\ proc = [p \in Procs |-> Idle]
  /\ snapshot = [p \in Procs |-> Absent]
  /\ count = [edits |-> 0, deletes |-> 0]
  /\ slipped = FALSE
  /\ legacy = [path |-> "original", backup |-> "none", crashed |-> FALSE]

Next ==
  \/ \E p \in Procs :
       \/ OpenSession(p) \/ Turn(p) \/ LockExclusive(p) \/ ReadDocument(p) \/ WriteDocument(p)
       \/ Crash(p)
       \/ BeginMigration(p) \/ BackUp(p) \/ ReplaceTranscript(p)
       \/ \E e \in Edits : OpenLock(p, e)
  \/ DeleteSession

-----------------------------------------------------------------------------
(* No edit is lost or undone: each document is what its edits, in the order   *)
(* they ended, make of the first one, whatever the processes held in memory.  *)
(* The exception is the metadata of a session that was deleted while an edit   *)
(* waited: that edit's lock is one nobody else can see.  (session_meta.rs,     *)
(* favorites.rs, mutate_variables)                                             *)
EditsAreKept ==
  /\ disk["variables"] = wanted["variables"]
  /\ disk["favorites"] = wanted["favorites"]
  /\ disk["meta"] = wanted["meta"] \/ slipped

(* The old transcript is replaced only when a copy of it was made; the copy   *)
(* is cut short only if a process died while it made it.  (migrate.rs)         *)
MigrationBacksUp ==
  legacy.path = "migrated" =>
    /\ legacy.backup # "none"
    /\ legacy.backup = "part" => legacy.crashed

(* What migrate.rs promises, "preserving the original as a backup": not so    *)
(* after a crash in the middle of the copy.                                    *)
OriginalIsKept == legacy.path = "original" \/ legacy.backup = "whole"
=============================================================================
