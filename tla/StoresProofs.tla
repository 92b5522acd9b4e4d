----------------------------- MODULE StoresProofs -----------------------------
(***************************************************************************)
(* The stores of MCStores, for any number of processes, requests, tool      *)
(* calls, searches, files and edits: no edit of a shared file is lost       *)
(* (SharedFiles), the cached key is that of the login (Credentials), tool    *)
(* calls of an answer do not overwrite each other (FileEdits), a reader who  *)
(* follows the pages knows the file (FileReads), and a search finds what the *)
(* files say (SearchIndex).  One inductive invariant each, and at the end     *)
(* all of them together as one of MCStores, where one part moves at a time.  *)
(***************************************************************************)
EXTENDS MCStores, FiniteSetTheorems, WellFoundedInduction, TLAPS

-----------------------------------------------------------------------------
(* Files that several processes rewrite whole. *)

Meta == [turns : Nat, title : Titles \cup {F!Untitled, F!Absent.title}]
Lock == F!Files \X (0 .. MaxDeletes)

FileTypes ==
  /\ disk \in [F!Files -> {disk[f] : f \in F!Files}] /\ disk["meta"] \in Meta
  /\ wanted \in [F!Files -> {wanted[f] : f \in F!Files}]
  /\ holder \in [Lock -> Procs \cup {F!Nobody}]
  /\ generation \in [F!Files -> 0 .. MaxDeletes]
  /\ snapshot \in [Procs -> Meta]
  /\ count \in [edits : Nat, deletes : 0 .. MaxDeletes]
  /\ legacy \in [path : {"original", "migrated"}, backup : {"none", "part", "whole"},
                 crashed : BOOLEAN]

\* An edit goes by the lock its file had when it was opened.
EditTypes ==
  /\ proc \in [Procs -> {proc[p] : p \in Procs}]
  /\ \A p \in Procs :
       /\ proc[p].at \in {"waits", "reads", "writes"} =>
            /\ proc[p].edit \in F!Edits
            /\ proc[p].lock \in {proc[p].edit.file} \X (0 .. generation[proc[p].edit.file])
       /\ proc[p].at \in {"waits", "reads"} =>
            proc[p] = [at |-> proc[p].at, edit |-> proc[p].edit, lock |-> proc[p].lock]
       /\ proc[p].at = "writes" /\ proc[p].edit.file = "meta" => proc[p].doc \in Meta

\* Only the lock of the metadata can be deleted, once per deletion.
LocksAreKnown ==
  /\ generation["variables"] = 0 /\ generation["favorites"] = 0
  /\ generation["meta"] = count.deletes

HoldersHold ==
  \A p \in Procs : proc[p].at \in {"reads", "writes"} => holder[proc[p].lock] = p

\* What an edit has read is what it replaces, unless its lock was deleted.
ReadIsCurrent ==
  \A p \in Procs : proc[p].at = "writes" =>
    LET f == proc[p].edit.file
    IN \/ proc[p].doc = disk[f]
       \/ f = "meta" /\ (slipped \/ proc[p].lock[2] # generation[f])

CopyState ==
  /\ \A p \in Procs : proc[p].at = "replaces" =>
       legacy.backup # "none" /\ (legacy.backup = "part" => legacy.crashed)
  /\ legacy.backup = "part" =>
       legacy.crashed \/ \E p \in Procs : proc[p].at = "backs_up"

FilesInv ==
  /\ FileTypes /\ EditTypes /\ LocksAreKnown /\ HoldersHold /\ ReadIsCurrent /\ CopyState
  /\ F!EditsAreKept /\ F!MigrationBacksUp

\* What an edit makes of the metadata is what was asked of it.
LEMMA MetaEditIsWanted ==
  ASSUME NEW doc \in Meta, NEW held \in Meta, NEW e \in F!Edits, e.file = "meta"
  PROVE  /\ F!MetaEdit(doc, e, held) = F!MetaWanted(doc, e, held)
         /\ F!MetaEdit(doc, e, held) \in Meta
  <1>1. CASE e.kind = "save"
    BY <1>1 DEF F!MetaEdit, F!MetaWanted, Meta
  <1>2. CASE e.kind = "rename"
    <2>1. e.title \in Titles
      BY <1>2 DEF F!Edits
    <2> QED BY <1>2, <2>1 DEF F!MetaEdit, F!MetaWanted, Meta
  <1>3. e.kind \in {"save", "rename"}
    BY DEF F!Edits
  <1> QED BY <1>1, <1>2, <1>3

LEMMA FilesInit ==
  ASSUME MaxDeletes \in Nat, F!Init
  PROVE  FilesInv
  <1> USE DEF F!Init, F!Documents, F!Files, F!Idle
  <1>1. FileTypes
    BY DEF FileTypes, Meta, Lock, F!Untitled, F!Absent
  <1>2. EditTypes
    BY DEF EditTypes
  <1>3. LocksAreKnown /\ HoldersHold /\ ReadIsCurrent /\ CopyState
    BY DEF LocksAreKnown, HoldersHold, ReadIsCurrent, CopyState
  <1>4. F!EditsAreKept /\ F!MigrationBacksUp
    BY DEF F!EditsAreKept, F!MigrationBacksUp
  <1> QED BY <1>1, <1>2, <1>3, <1>4 DEF FilesInv
-----------------------------------------------------------------------------
(* Each step. *)

\* The lock of an edit is one of its file.
LEMMA LockIsKnown ==
  ASSUME MaxDeletes \in Nat, FilesInv, NEW p \in Procs, proc[p].at \in {"waits", "reads", "writes"}
  PROVE  /\ proc[p].edit \in F!Edits /\ proc[p].edit.file \in F!Files
         /\ proc[p].lock \in Lock /\ proc[p].lock[1] = proc[p].edit.file
  <1>1. /\ proc[p].edit \in F!Edits
        /\ proc[p].lock \in {proc[p].edit.file} \X (0 .. generation[proc[p].edit.file])
    BY DEF FilesInv, EditTypes
  <1>2. proc[p].edit.file \in F!Files
    BY <1>1 DEF F!Edits, F!Files
  <1>3. generation[proc[p].edit.file] \in 0 .. MaxDeletes
    BY <1>2 DEF FilesInv, FileTypes
  <1>4. proc[p].lock[2] \in 0 .. MaxDeletes /\ proc[p].lock[1] \in F!Files
    BY <1>1, <1>2, <1>3
  <1> QED BY <1>1, <1>2, <1>4 DEF Lock

LEMMA OpenSessionStep ==
  ASSUME FilesInv, NEW p \in Procs, F!OpenSession(p) PROVE FilesInv'
  BY DEF FilesInv, F!OpenSession, FileTypes, EditTypes, LocksAreKnown, HoldersHold,
         ReadIsCurrent, CopyState, F!EditsAreKept, F!MigrationBacksUp

LEMMA TurnStep ==
  ASSUME FilesInv, NEW p \in Procs, F!Turn(p) PROVE FilesInv'
  <1>1. [snapshot[p] EXCEPT !.turns = @ + 1] \in Meta
    BY DEF FilesInv, FileTypes, Meta
  <1>2. FileTypes'
    BY <1>1 DEF F!Turn, FilesInv, FileTypes
  <1> QED BY <1>2 DEF FilesInv, F!Turn, EditTypes, LocksAreKnown, HoldersHold,
         ReadIsCurrent, CopyState, F!EditsAreKept, F!MigrationBacksUp

LEMMA OpenLockStep ==
  ASSUME FilesInv, NEW p \in Procs, NEW e \in F!Edits, F!OpenLock(p, e) PROVE FilesInv'
  <1> USE DEF FilesInv, F!OpenLock
  <1>1. e.file \in F!Files
    BY DEF F!Edits, F!Files
  <1>2. FileTypes'
    BY DEF FileTypes
  <1>3. EditTypes'
    BY <1>1 DEF EditTypes, FileTypes
  <1>4. LocksAreKnown' /\ HoldersHold' /\ ReadIsCurrent' /\ CopyState'
    BY DEF LocksAreKnown, HoldersHold, ReadIsCurrent, CopyState, EditTypes, F!Idle, FileTypes
  <1> QED BY <1>2, <1>3, <1>4 DEF F!EditsAreKept, F!MigrationBacksUp

LEMMA LockExclusiveStep ==
  ASSUME FilesInv, NEW p \in Procs, F!LockExclusive(p), MaxDeletes \in Nat, F!Nobody \notin Procs
  PROVE  FilesInv'
  <1> USE DEF FilesInv, F!LockExclusive
  <1>1. proc[p].lock \in Lock
    BY LockIsKnown
  <1>2. FileTypes'
    BY <1>1 DEF FileTypes
  <1>3. EditTypes'
    BY DEF EditTypes
  <1>4. HoldersHold'
    BY <1>1 DEF HoldersHold, FileTypes, EditTypes
  <1>5. LocksAreKnown' /\ ReadIsCurrent' /\ CopyState'
    BY DEF LocksAreKnown, ReadIsCurrent, CopyState, EditTypes
  <1> QED BY <1>2, <1>3, <1>4, <1>5 DEF F!EditsAreKept, F!MigrationBacksUp

LEMMA ReadDocumentStep ==
  ASSUME FilesInv, NEW p \in Procs, F!ReadDocument(p) PROVE FilesInv'
  <1> USE DEF FilesInv, F!ReadDocument
  <1>1. FileTypes'
    BY DEF FileTypes
  <1>2. EditTypes'
    BY DEF EditTypes, FileTypes
  <1>3. LocksAreKnown' /\ HoldersHold' /\ ReadIsCurrent' /\ CopyState'
    BY DEF LocksAreKnown, HoldersHold, ReadIsCurrent, CopyState, EditTypes
  <1> QED BY <1>1, <1>2, <1>3 DEF F!EditsAreKept, F!MigrationBacksUp

LEMMA WriteDocumentStep ==
  ASSUME FilesInv, NEW p \in Procs, F!WriteDocument(p), MaxDeletes \in Nat, F!Nobody \notin Procs
  PROVE  FilesInv'
  <1> USE DEF FilesInv
  <1> DEFINE e == proc[p].edit
             f == proc[p].edit.file
             new == F!Apply(proc[p].doc, e, snapshot[p])
             meant == IF f = "meta" THEN F!MetaWanted(wanted[f], e, snapshot[p])
                      ELSE F!Apply(wanted[f], e, snapshot[p])
  <1>1. /\ f \in F!Files /\ e \in F!Edits /\ proc[p].lock \in Lock
        /\ proc[p].lock[1] = f /\ proc[p].at = "writes"
    BY LockIsKnown DEF F!WriteDocument
  <1>2. /\ disk' = [disk EXCEPT ![f] = new]
        /\ wanted' = [wanted EXCEPT ![f] = meant]
        /\ slipped' = (slipped \/ proc[p].lock[2] # generation[f])
        /\ holder' = [holder EXCEPT ![proc[p].lock] = F!Nobody]
        /\ proc' = [proc EXCEPT ![p] = F!Idle]
        /\ UNCHANGED <<generation, snapshot, count, legacy>>
    BY DEF F!WriteDocument
  <1>3. snapshot[p] \in Meta
    BY DEF FileTypes
  <1>4. f = "meta" => new \in Meta
    BY <1>1, <1>3, MetaEditIsWanted DEF F!Apply, EditTypes
  <1> HIDE DEF e, f, new, meant
  <1>5. FileTypes'
    BY <1>1, <1>2, <1>4 DEF FileTypes, F!Files
  <1>6. EditTypes'
    BY <1>2 DEF EditTypes, F!Idle
  <1>7. LocksAreKnown' /\ CopyState'
    BY <1>1, <1>2 DEF LocksAreKnown, CopyState, F!Idle, FileTypes, EditTypes
  <1>8. HoldersHold'
    <2> SUFFICES ASSUME NEW q \in Procs, proc'[q].at \in {"reads", "writes"}
                 PROVE  holder'[proc'[q].lock] = q
      BY DEF HoldersHold
    <2>1. q # p /\ proc'[q] = proc[q]
      BY <1>2 DEF F!Idle, EditTypes
    <2> QED BY <1>1, <1>2, <2>1 DEF HoldersHold, FileTypes
  <1>9. ReadIsCurrent'
    <2> SUFFICES ASSUME NEW q \in Procs, proc'[q].at = "writes"
                 PROVE  \/ proc'[q].doc = disk'[proc'[q].edit.file]
                        \/ /\ proc'[q].edit.file = "meta"
                           /\ \/ slipped'
                              \/ proc'[q].lock[2] # generation'[proc'[q].edit.file]
      BY DEF ReadIsCurrent
    <2>1. q # p /\ proc'[q] = proc[q] /\ proc[q].at = "writes"
      BY <1>2 DEF F!Idle, EditTypes
    <2>2. proc[q].edit.file # f \/ proc[q].lock # proc[p].lock
      BY <1>1, <2>1 DEF HoldersHold
    <2>3. proc[q].edit.file \in F!Files /\ proc[q].lock[1] = proc[q].edit.file
          /\ proc[q].lock = <<proc[q].lock[1], proc[q].lock[2]>>
          /\ proc[p].lock = <<proc[p].lock[1], proc[p].lock[2]>>
          /\ proc[q].lock[2] \in 0 .. generation[proc[q].edit.file]
          /\ proc[p].lock[2] \in 0 .. generation[f]
      BY <1>1, <2>1 DEF EditTypes, F!Edits, F!Files, f
    <2>4. CASE proc[q].edit.file # f
      BY <1>1, <1>2, <2>1, <2>3, <2>4 DEF ReadIsCurrent, FileTypes
    <2>5. CASE proc[q].edit.file = f
      <3>1. proc[q].lock[2] # proc[p].lock[2]
        BY <1>1, <2>2, <2>3, <2>5
      <3>2. f = "meta"
        BY <1>1, <2>3, <2>5, <3>1 DEF LocksAreKnown, F!Files
      <3> QED BY <1>2, <2>1, <2>5, <3>1, <3>2
    <2> QED BY <2>4, <2>5
  <1>10. F!EditsAreKept'
    <2>1. proc[p].doc = disk[f] \/ (f = "meta" /\ slipped')
      BY <1>1, <1>2 DEF ReadIsCurrent, f
    <2>2. CASE f = "meta"
      <3>1. slipped' \/ new = meant
        <4> SUFFICES ASSUME ~slipped' PROVE new = meant
          OBVIOUS
        <4>1. proc[p].doc = wanted["meta"] /\ wanted["meta"] \in Meta
          BY <1>2, <2>1, <2>2 DEF F!EditsAreKept, FileTypes
        <4>2. e.file = "meta"
          BY <2>2 DEF e, f
        <4> QED BY <1>1, <1>3, <2>2, <4>1, <4>2, MetaEditIsWanted DEF new, meant, F!Apply
      <3> QED BY <1>2, <2>2, <3>1 DEF F!EditsAreKept, FileTypes, F!Files
    <2>3. CASE f # "meta"
      <3>1. proc[p].doc = wanted[f]
        BY <1>1, <2>1, <2>3 DEF F!EditsAreKept, F!Files
      <3>2. new = meant
        BY <2>3, <3>1 DEF new, meant
      <3> QED BY <1>1, <1>2, <2>3, <3>2 DEF F!EditsAreKept, FileTypes, F!Files
    <2> QED BY <2>2, <2>3
  <1> QED BY <1>2, <1>5, <1>6, <1>7, <1>8, <1>9, <1>10 DEF F!MigrationBacksUp

LEMMA CrashStep ==
  ASSUME FilesInv, NEW p \in Procs, F!Crash(p), MaxDeletes \in Nat PROVE  FilesInv'
  <1> USE DEF FilesInv, F!Crash
  <1>1. F!Absent \in Meta
    BY DEF F!Absent, Meta
  <1>2. FileTypes'
    BY <1>1 DEF FileTypes
  <1>3. EditTypes'
    BY DEF EditTypes, F!Idle
  <1>4. HoldersHold'
    <2> SUFFICES ASSUME NEW q \in Procs, proc'[q].at \in {"reads", "writes"}
                 PROVE  holder'[proc'[q].lock] = q
      BY DEF HoldersHold
    <2>1. q # p /\ proc'[q] = proc[q]
      BY DEF F!Idle, EditTypes
    <2>2. proc[q].lock \in Lock
      BY <2>1, LockIsKnown
    <2> QED BY <2>1, <2>2 DEF HoldersHold, FileTypes
  <1>5. LocksAreKnown' /\ ReadIsCurrent'
    BY DEF LocksAreKnown, ReadIsCurrent, EditTypes, F!Idle
  <1>6. CopyState'
    BY DEF CopyState, EditTypes, F!Idle, FileTypes
  <1>7. F!MigrationBacksUp'
    BY DEF F!MigrationBacksUp, FileTypes
  <1> QED BY <1>2, <1>3, <1>4, <1>5, <1>6, <1>7 DEF F!EditsAreKept

LEMMA DeleteSessionStep ==
  ASSUME FilesInv, MaxDeletes \in Nat, F!DeleteSession PROVE FilesInv'
  <1> USE DEF FilesInv, F!DeleteSession
  <1>1. F!Absent \in Meta
    BY DEF F!Absent, Meta
  <1>2. FileTypes'
    BY <1>1 DEF FileTypes, F!Files, LocksAreKnown
  <1>3. EditTypes'
    BY DEF EditTypes, FileTypes, F!Edits, F!Files
  <1>4. LocksAreKnown'
    BY DEF LocksAreKnown, FileTypes, F!Files
  <1>5. ReadIsCurrent'
    BY DEF ReadIsCurrent, EditTypes, FileTypes, F!Edits, F!Files
  <1>6. F!EditsAreKept'
    BY DEF F!EditsAreKept, FileTypes, F!Files
  <1> QED BY <1>2, <1>3, <1>4, <1>5, <1>6 DEF HoldersHold, CopyState, F!MigrationBacksUp

LEMMA MigrationSteps ==
  ASSUME FilesInv, NEW p \in Procs,
         F!BeginMigration(p) \/ F!BackUp(p) \/ F!ReplaceTranscript(p)
  PROVE  FilesInv'
  <1> USE DEF FilesInv, F!BeginMigration, F!BackUp, F!ReplaceTranscript
  <1>1. FileTypes'
    BY DEF FileTypes
  <1>2. EditTypes'
    BY DEF EditTypes, F!Idle
  <1>3. LocksAreKnown' /\ HoldersHold' /\ ReadIsCurrent'
    BY DEF LocksAreKnown, HoldersHold, ReadIsCurrent, EditTypes, F!Idle
  <1>4. CopyState'
    <2>1. CASE F!BeginMigration(p)
      BY <2>1 DEF CopyState, EditTypes, F!Idle, FileTypes, F!Migrating
    <2>2. CASE F!BackUp(p)
      BY <2>2 DEF CopyState, EditTypes, F!Idle, FileTypes
    <2>3. CASE F!ReplaceTranscript(p)
      BY <2>3 DEF CopyState, EditTypes, F!Idle, FileTypes
    <2> QED BY <2>1, <2>2, <2>3
  <1>5. F!MigrationBacksUp'
    BY DEF F!MigrationBacksUp, CopyState, FileTypes
  <1> QED BY <1>1, <1>2, <1>3, <1>4, <1>5 DEF F!EditsAreKept

LEMMA FilesInvIsKept ==
  ASSUME FilesInv, MaxDeletes \in Nat, F!Nobody \notin Procs, [F!Next]_F!vars
  PROVE  FilesInv'
  <1>1. CASE UNCHANGED F!vars
    BY <1>1 DEF F!vars, FilesInv, FileTypes, EditTypes, LocksAreKnown, HoldersHold,
                ReadIsCurrent, CopyState, F!EditsAreKept, F!MigrationBacksUp
  <1>2. CASE F!Next
    BY <1>2, OpenSessionStep, TurnStep, OpenLockStep, LockExclusiveStep, ReadDocumentStep,
       WriteDocumentStep, CrashStep, DeleteSessionStep, MigrationSteps DEF F!Next
  <1> QED BY <1>1, <1>2

-----------------------------------------------------------------------------
(* The scoped keys of the cloud models. *)

Asking ==
  [at : {"streams", "locks_mutex", "locks_file", "looks", "loads", "fetches"},
   key : Nat, again : BOOLEAN, login : Logins \cup {C!NoLogin}]
Minting ==
  [at : {"checks", "saves"}, key : Nat, again : BOOLEAN, login : Logins, old : Nat,
   seen : Logins \cup {C!NoLogin}]

AccountState ==
  {C!Idle} \cup [at : {"syncs"}, login : Logins]
           \cup [at : {"caches"}, login : Logins, key : Nat]
           \cup [at : {"forgets"}]

KeyTypes ==
  /\ auth \in Logins \cup {C!NoLogin}
  /\ cache \in {C!NoCache} \cup [owner : Logins, key : Nat]
  /\ worker \in [Workers -> {C!Idle, C!Done} \cup Asking \cup Minting]
  /\ account \in AccountState
  /\ minted \in Nat /\ replaced \in SUBSET Nat

\* The one request that may look at the cache and replace it.
OneRefreshes ==
  \A w \in Workers :
    worker[w].at \in {"looks", "loads", "fetches", "checks", "saves"} => fileLock = w

\* A request has a key until it is done; what it mints, it has not seen yet.
HasKey(w) == worker[w] \in Asking \cup Minting
Mints(w) == worker[w].at \in {"checks", "saves"}

KeysAreMinted ==
  /\ cache # C!NoCache => cache.key <= minted
  /\ \A w \in Workers : /\ HasKey(w) => worker[w].key <= minted
                        /\ Mints(w) => worker[w].old < worker[w].key
  /\ account.at = "caches" => account.key <= minted
  /\ \A k \in replaced : k <= minted

\* The key in the cache has not been replaced, nor the one a refresh replaces,
\* nor one that was just minted.
ReplacedAreGone ==
  /\ IF cache = C!NoCache THEN replaced = {} ELSE cache.key \notin replaced
  /\ \A w \in Workers :
       /\ worker[w].at \in {"loads", "fetches"} => worker[w].key \notin replaced
       /\ Mints(w) => worker[w].old \notin replaced /\ worker[w].key \notin replaced

\* The key of a login under way is nobody else's.
LoginKeyIsNew ==
  account.at = "caches" =>
    /\ account.key \notin replaced
    /\ cache # C!NoCache => cache.key # account.key
    /\ \A w \in Workers : /\ HasKey(w) => worker[w].key # account.key
                          /\ Mints(w) => worker[w].old # account.key

LoginsAreCurrent ==
  /\ account.at \in {"syncs", "caches"} => auth = account.login
  /\ \A w \in Workers :
       /\ worker[w].at = "fetches" => worker[w].login \in Logins
       /\ worker[w].at = "saves" => worker[w].seen = worker[w].login

KeysInv ==
  /\ KeyTypes /\ OneRefreshes /\ KeysAreMinted /\ ReplacedAreGone /\ LoginKeyIsNew
  /\ LoginsAreCurrent /\ C!KeysMatchLogin

\* A request that leaves the cache and the server alone goes on with its key,
\* takes the cached one, sees that its login is still there, or ends.
Locked == {"looks", "loads", "fetches", "checks", "saves"}

GoesOn(w) ==
  \/ worker'[w] = C!Done
  \/ /\ worker'[w] \in Asking
     /\ HasKey(w) /\ worker'[w].key = worker[w].key
     /\ worker'[w].at \in {"loads", "fetches"} => worker[w].key \notin replaced
     /\ worker'[w].at = "fetches" => worker'[w].login \in Logins
  \/ /\ worker'[w] \in Asking
     /\ cache # C!NoCache /\ worker'[w].key = cache.key /\ worker'[w].at = "streams"
  \/ /\ Mints(w) /\ worker'[w] \in Minting
     /\ worker'[w].key = worker[w].key /\ worker'[w].old = worker[w].old
     /\ worker'[w].seen = worker'[w].login

RequestGoesOn(w) ==
  /\ UNCHANGED <<auth, cache, account, minted, replaced, twice, overtaken>>
  /\ worker' = [worker EXCEPT ![w] = worker'[w]]
  /\ GoesOn(w)
  /\ fileLock' # fileLock => fileLock \in {w, C!Nobody}
  /\ worker'[w].at \in Locked => fileLock' = w

\* A step that leaves the cache and the server alone.
LEMMA RequestGoesOnStep ==
  ASSUME KeysInv, NEW w \in Workers, C!NoLogin \notin Logins, C!Nobody \notin Workers,
         RequestGoesOn(w)
  PROVE  KeysInv'
  <1> USE DEF KeysInv
  <1>1. /\ UNCHANGED <<auth, cache, account, minted, replaced, twice, overtaken>>
        /\ \A v \in Workers : v # w => worker'[v] = worker[v]
        /\ worker'[w] \in {C!Done} \cup Asking \cup Minting
        /\ worker' \in [Workers -> {C!Idle, C!Done} \cup Asking \cup Minting]
    BY DEF RequestGoesOn, GoesOn, KeyTypes
  <1>2. KeyTypes'
    BY <1>1 DEF KeyTypes
  <1>3. OneRefreshes'
    BY <1>1 DEF OneRefreshes, RequestGoesOn, Locked
  <1>4. /\ C!Done.at = "done" /\ ~(C!Done \in Asking \cup Minting)
        /\ \A r \in Asking : r.at \notin {"checks", "saves"}
        /\ \A r \in Minting : r.at \in {"checks", "saves"}
    BY DEF C!Done, Asking, Minting
  <1>a. /\ HasKey(w)' => \/ HasKey(w) /\ worker'[w].key = worker[w].key
                         \/ cache # C!NoCache /\ worker'[w].key = cache.key
        /\ Mints(w)' => /\ Mints(w) /\ worker'[w].key = worker[w].key
                        /\ worker'[w].old = worker[w].old
    <2>1. Mints(w) => HasKey(w)
      BY <1>4 DEF KeyTypes, C!Idle, HasKey, Mints
    <2> QED BY <1>4, <2>1 DEF RequestGoesOn, GoesOn, HasKey, Mints
  <1>b. \A v \in Workers : v # w => /\ worker'[v] = worker[v]
                                    /\ HasKey(v)' <=> HasKey(v)
                                    /\ Mints(v)' <=> Mints(v)
    BY <1>1 DEF HasKey, Mints
  <1>5. KeysAreMinted'
    <2>1. \A v \in Workers : /\ HasKey(v)' => worker'[v].key <= minted
                             /\ Mints(v)' => worker'[v].old < worker'[v].key
      BY <1>a, <1>b DEF KeysAreMinted
    <2> QED BY <1>1, <2>1 DEF KeysAreMinted
  <1>6. ReplacedAreGone'
    BY <1>1, <1>4 DEF ReplacedAreGone, RequestGoesOn, GoesOn, HasKey, Mints
  <1>7. LoginKeyIsNew'
    <2>1. account.at = "caches" =>
            \A v \in Workers : /\ HasKey(v)' => worker'[v].key # account.key
                               /\ Mints(v)' => worker'[v].old # account.key
      BY <1>a, <1>b DEF LoginKeyIsNew
    <2> QED BY <1>1, <2>1 DEF LoginKeyIsNew
  <1>8. LoginsAreCurrent'
    BY <1>1, <1>4 DEF LoginsAreCurrent, RequestGoesOn, GoesOn, Mints
  <1>9. C!KeysMatchLogin'
    BY <1>1 DEF C!KeysMatchLogin
  <1> QED BY <1>2, <1>3, <1>5, <1>6, <1>7, <1>8, <1>9

\* A request gives up only its own locks.
LEMMA ReleaseKeepsOthers ==
  ASSUME NEW w \in Workers, C!Release(w)
  PROVE  fileLock' # fileLock => fileLock = w
  BY DEF C!Release

LEMMA StepsOfARequest ==
  ASSUME KeysInv, NEW w \in Workers, C!NoLogin \notin Logins,
         \/ C!Request(w) \/ C!Stream(w) \/ C!LockMutex(w) \/ C!LockFile(w)
         \/ C!LookAtCache(w) \/ C!LoadAuth(w) \/ C!FetchFails(w) \/ C!CheckLogin(w)
         \/ C!GiveUp(w)
  PROVE  RequestGoesOn(w)
  <1> USE DEF KeysInv, KeyTypes, C!At, C!Goto, C!Idle, C!Done, C!disk, C!server, C!ghosts,
              C!locks
  <1>0. /\ worker[w] \in {C!Idle, C!Done} \cup Asking \cup Minting
        /\ worker[w].at \in Locked => fileLock = w
    BY DEF OneRefreshes, Locked
  <1> USE DEF Asking, Minting, HasKey, Mints, RequestGoesOn, GoesOn, Locked
  <1>1. CASE C!Request(w)
    BY <1>0, <1>1 DEF C!Request
  <1>2. CASE C!Stream(w)
    BY <1>0, <1>2 DEF C!Stream
  <1>3. CASE C!LockMutex(w)
    BY <1>0, <1>3 DEF C!LockMutex
  <1>4. CASE C!LockFile(w)
    BY <1>0, <1>4 DEF C!LockFile
  <1>5. CASE C!LookAtCache(w)
    BY <1>0, <1>5, ReleaseKeepsOthers DEF C!LookAtCache, C!AlreadyRefreshed, ReplacedAreGone
  <1>6. CASE C!LoadAuth(w)
    BY <1>0, <1>6, ReleaseKeepsOthers DEF C!LoadAuth, ReplacedAreGone
  <1>7. CASE C!FetchFails(w)
    BY <1>0, <1>7, ReleaseKeepsOthers DEF C!FetchFails
  <1>8. CASE C!CheckLogin(w)
    BY <1>0, <1>8, ReleaseKeepsOthers DEF C!CheckLogin, C!SameLogin
  <1>9. CASE C!GiveUp(w)
    BY <1>0, <1>9, ReleaseKeepsOthers DEF C!GiveUp
  <1> QED BY <1>1, <1>2, <1>3, <1>4, <1>5, <1>6, <1>7, <1>8, <1>9

LEMMA FetchReadyStep ==
  ASSUME KeysInv, NEW w \in Workers, C!NoLogin \notin Logins, C!FetchReady(w)
  PROVE  KeysInv'
  <1> USE DEF KeysInv
  <1>1. /\ UNCHANGED <<auth, cache, account, replaced, twice, overtaken, fileLock>>
        /\ minted' = minted + 1 /\ worker[w].at = "fetches"
        /\ worker' = [worker EXCEPT ![w] =
             [at |-> "checks", key |-> minted + 1, again |-> FALSE, login |-> worker[w].login,
              old |-> worker[w].key, seen |-> C!NoLogin]]
    BY DEF C!FetchReady, C!At, C!disk, C!locks, C!ghosts, KeyTypes
  <1>2. /\ worker[w] \in Asking /\ HasKey(w) /\ worker[w].login \in Logins
        /\ worker'[w] \in Minting
        /\ worker' \in [Workers -> {C!Idle, C!Done} \cup Asking \cup Minting]
    BY <1>1 DEF KeyTypes, Asking, Minting, C!Idle, C!Done, HasKey, LoginsAreCurrent
  <1>3. KeyTypes'
    BY <1>1, <1>2 DEF KeyTypes
  <1>4. OneRefreshes'
    BY <1>1, <1>2 DEF OneRefreshes, KeyTypes
  <1>5. \A v \in Workers : v # w => /\ worker'[v] = worker[v]
                                    /\ HasKey(v)' <=> HasKey(v)
                                    /\ Mints(v)' <=> Mints(v)
    BY <1>1, <1>2 DEF HasKey, Mints, KeyTypes
  <1>6. worker'[w].key = minted + 1 /\ worker'[w].old = worker[w].key /\ worker'[w].at = "checks"
    BY <1>1, <1>2 DEF KeyTypes
  <1>7. KeysAreMinted'
    <2>1. \A v \in Workers : /\ HasKey(v)' => worker'[v].key <= minted + 1
                             /\ Mints(v)' => worker'[v].old < worker'[v].key
      <3> SUFFICES ASSUME NEW v \in Workers
                   PROVE  /\ HasKey(v)' => worker'[v].key <= minted + 1
                          /\ Mints(v)' => worker'[v].old < worker'[v].key
        OBVIOUS
      <3>1. CASE v = w
        BY <1>2, <1>6, <3>1 DEF KeysAreMinted, KeyTypes, Asking
      <3>2. CASE v # w
        <4>1. HasKey(v) => worker[v].key \in Nat
          BY DEF HasKey, Asking, Minting
        <4> QED BY <1>5, <3>2, <4>1 DEF KeysAreMinted, KeyTypes
      <3> QED BY <3>1, <3>2
    <2>2. \A k \in replaced : k <= minted + 1
      BY DEF KeysAreMinted, KeyTypes
    <2>3. cache # C!NoCache => cache.key <= minted + 1
      BY DEF KeysAreMinted, KeyTypes
    <2>4. account.at = "caches" => account.key <= minted + 1
      BY DEF KeysAreMinted, KeyTypes, AccountState, C!Idle
    <2> QED BY <1>1, <2>1, <2>2, <2>3, <2>4 DEF KeysAreMinted
  <1>8. ReplacedAreGone'
    <2>1. minted + 1 \notin replaced
      BY DEF KeysAreMinted, KeyTypes
    <2> QED BY <1>1, <1>2, <1>5, <1>6, <2>1 DEF ReplacedAreGone, Mints
  <1>9. LoginKeyIsNew'
    <2>1. account.at = "caches" => minted + 1 # account.key
      BY DEF KeysAreMinted, KeyTypes, AccountState, C!Idle
    <2> QED BY <1>1, <1>2, <1>5, <1>6, <2>1 DEF LoginKeyIsNew
  <1>10. LoginsAreCurrent'
    BY <1>1, <1>5, <1>6 DEF LoginsAreCurrent
  <1>11. C!KeysMatchLogin'
    BY <1>1 DEF C!KeysMatchLogin
  <1> QED BY <1>3, <1>4, <1>7, <1>8, <1>9, <1>10, <1>11

LEMMA SaveCacheStep ==
  ASSUME KeysInv, NEW w \in Workers, C!NoLogin \notin Logins, C!Nobody \notin Workers,
         C!SaveCache(w)
  PROVE  KeysInv'
  <1> USE DEF KeysInv
  <1>1. /\ UNCHANGED <<auth, account, minted>> /\ worker[w].at = "saves"
        /\ cache' = [owner |-> worker[w].login, key |-> worker[w].key]
        /\ worker' = [worker EXCEPT ![w] =
             [at |-> "streams", key |-> worker[w].key, again |-> TRUE, login |-> worker[w].login]]
        /\ twice' = (twice \/ worker[w].old \in replaced)
        /\ replaced' = replaced \cup {worker[w].old}
        /\ overtaken' = (overtaken \/ auth # worker[w].seen)
        /\ fileLock' # fileLock => fileLock = w
    BY ReleaseKeepsOthers DEF C!SaveCache, C!At, C!server, KeyTypes
  <1>2. /\ worker[w] \in Minting /\ HasKey(w) /\ Mints(w)
        /\ worker'[w] \in Asking
        /\ worker' \in [Workers -> {C!Idle, C!Done} \cup Asking \cup Minting]
    BY <1>1 DEF KeyTypes, Asking, Minting, C!Idle, C!Done, HasKey, Mints
  <1>3. /\ worker[w].key \in Nat /\ worker[w].old \in Nat /\ worker[w].login \in Logins
        /\ worker[w].old < worker[w].key /\ worker[w].key <= minted
        /\ worker[w].old \notin replaced /\ worker[w].key \notin replaced
    BY <1>2 DEF Minting, KeysAreMinted, ReplacedAreGone
  <1>4. cache' # C!NoCache /\ cache'.key = worker[w].key /\ cache'.owner = worker[w].login
    BY <1>1, <1>3 DEF C!NoCache
  <1>5. KeyTypes'
    BY <1>1, <1>2, <1>3 DEF KeyTypes
  <1>6. \A v \in Workers : v # w => /\ worker'[v] = worker[v]
                                    /\ HasKey(v)' <=> HasKey(v)
                                    /\ Mints(v)' <=> Mints(v)
                                    /\ worker[v].at \notin Locked
    BY <1>1, <1>2 DEF HasKey, Mints, KeyTypes, OneRefreshes, Locked
  <1>7. worker'[w].key = worker[w].key /\ worker'[w].at = "streams" /\ ~Mints(w)'
    BY <1>1, <1>2 DEF KeyTypes, Mints
  <1>8. OneRefreshes'
    BY <1>6, <1>7 DEF OneRefreshes, Locked
  <1>9. KeysAreMinted'
    <2>1. \A k \in replaced' : k <= minted
      BY <1>1, <1>3 DEF KeysAreMinted, KeyTypes
    <2> QED BY <1>1, <1>3, <1>4, <1>6, <1>7, <2>1 DEF KeysAreMinted
  <1>10. ReplacedAreGone'
    BY <1>1, <1>3, <1>4, <1>6, <1>7 DEF ReplacedAreGone, Mints, Locked
  <1>11. LoginKeyIsNew'
    BY <1>1, <1>2, <1>4, <1>6, <1>7 DEF LoginKeyIsNew
  <1>12. LoginsAreCurrent'
    BY <1>1, <1>6, <1>7 DEF LoginsAreCurrent
  <1>13. C!KeysMatchLogin'
    BY <1>1, <1>3, <1>4 DEF C!KeysMatchLogin, LoginsAreCurrent
  <1> QED BY <1>5, <1>8, <1>9, <1>10, <1>11, <1>12, <1>13

LEMMA SyncedStep ==
  ASSUME KeysInv, C!Synced PROVE KeysInv'
  <1> USE DEF KeysInv
  <1>1. /\ UNCHANGED <<auth, cache, worker, replaced, twice, overtaken, fileLock>>
        /\ minted' = minted + 1 /\ account.at = "syncs" /\ account.login \in Logins
        /\ account' = [at |-> "caches", login |-> account.login, key |-> minted + 1]
    BY DEF C!Synced, C!disk, C!locks, C!ghosts, KeyTypes, AccountState, C!Idle
  <1>2. KeyTypes'
    BY <1>1 DEF KeyTypes, AccountState
  <1>3. \A v \in Workers : /\ HasKey(v) => worker[v].key \in Nat /\ worker[v].key <= minted
                           /\ Mints(v) => /\ worker[v] \in Minting /\ HasKey(v)
                                          /\ worker[v].old \in Nat
                                          /\ worker[v].old < worker[v].key
    BY DEF KeysAreMinted, HasKey, Asking, Minting, Mints, KeyTypes, C!Idle, C!Done
  <1>4. KeysAreMinted'
    BY <1>1, <1>3 DEF KeysAreMinted, KeyTypes, HasKey, Mints
  <1>5. LoginKeyIsNew'
    BY <1>1, <1>3 DEF LoginKeyIsNew, KeysAreMinted, KeyTypes, HasKey, Mints
  <1> QED BY <1>1, <1>2, <1>4, <1>5 DEF OneRefreshes, ReplacedAreGone, Mints, LoginsAreCurrent,
             C!KeysMatchLogin, C!Idle

LEMMA AccountSteps ==
  ASSUME KeysInv, C!NoLogin \notin Logins,
         \/ \E t \in Logins : C!Login(t)
         \/ C!SyncFails \/ C!Cached \/ C!Logout \/ C!Forget
  PROVE  KeysInv'
  <1> USE DEF KeysInv, C!disk, C!locks, C!server, C!ghosts
  <1>1. ASSUME NEW t \in Logins, C!Login(t) PROVE KeysInv'
    BY <1>1 DEF C!Login, KeyTypes, AccountState, OneRefreshes, KeysAreMinted, ReplacedAreGone,
                LoginKeyIsNew, LoginsAreCurrent, C!KeysMatchLogin, C!Idle, HasKey, Mints
  <1>2. CASE C!SyncFails
    BY <1>2 DEF C!SyncFails, KeyTypes, AccountState, OneRefreshes, KeysAreMinted,
                ReplacedAreGone, LoginKeyIsNew, LoginsAreCurrent, C!KeysMatchLogin, C!Idle,
                C!NoCache, HasKey, Mints
  <1>3. CASE C!Cached
    <2>1. /\ UNCHANGED <<auth, worker, fileLock, minted, replaced, twice, overtaken>>
          /\ account.at = "caches" /\ account.login \in Logins /\ account.key \in Nat
          /\ cache' = [owner |-> account.login, key |-> account.key]
          /\ account' = C!Idle
      BY <1>3 DEF C!Cached, KeyTypes, AccountState, C!Idle
    <2>2. cache' # C!NoCache
      BY <2>1 DEF C!NoCache
    <2> QED BY <2>1, <2>2 DEF KeyTypes, AccountState, OneRefreshes, KeysAreMinted,
                ReplacedAreGone, LoginKeyIsNew, LoginsAreCurrent, C!KeysMatchLogin, C!Idle,
                HasKey, Mints
  <1>4. CASE C!Logout
    BY <1>4 DEF C!Logout, KeyTypes, AccountState, OneRefreshes, KeysAreMinted, ReplacedAreGone,
                LoginKeyIsNew, LoginsAreCurrent, C!KeysMatchLogin, C!Idle, HasKey, Mints
  <1>5. CASE C!Forget
    BY <1>5 DEF C!Forget, KeyTypes, AccountState, OneRefreshes, KeysAreMinted, ReplacedAreGone,
                LoginKeyIsNew, LoginsAreCurrent, C!KeysMatchLogin, C!Idle, HasKey, Mints
  <1> QED BY <1>1, <1>2, <1>3, <1>4, <1>5

LEMMA KeysInit ==
  ASSUME C!NoLogin \notin Logins, C!Init
  PROVE  KeysInv
  BY DEF C!Init, KeysInv, KeyTypes, AccountState, OneRefreshes, KeysAreMinted, ReplacedAreGone,
         LoginKeyIsNew, LoginsAreCurrent, C!KeysMatchLogin, C!Idle, C!NoCache, HasKey, Mints,
         Asking, Minting

LEMMA KeysStep ==
  ASSUME KeysInv, C!NoLogin \notin Logins, C!Nobody \notin Workers, [C!Next]_C!vars
  PROVE  KeysInv'
  <1> USE DEF KeysInv
  <1>1. CASE UNCHANGED C!vars
    BY <1>1 DEF C!vars, C!disk, C!locks, C!server, C!ghosts, KeyTypes, OneRefreshes,
       KeysAreMinted, ReplacedAreGone, LoginKeyIsNew, LoginsAreCurrent, C!KeysMatchLogin,
       HasKey, Mints
  <1>2. ASSUME NEW k \in 1 .. minted, C!Revoke(k) PROVE KeysInv'
    BY <1>2 DEF C!Revoke, C!disk, C!locks, C!server, C!ghosts, KeyTypes, OneRefreshes,
       KeysAreMinted, ReplacedAreGone, LoginKeyIsNew, LoginsAreCurrent, C!KeysMatchLogin,
       HasKey, Mints
  <1>3. ASSUME NEW w \in Workers,
               \/ C!Request(w) \/ C!Stream(w)
               \/ C!LockMutex(w) \/ C!LockFile(w) \/ C!LookAtCache(w) \/ C!LoadAuth(w)
               \/ C!FetchReady(w) \/ C!FetchFails(w) \/ C!CheckLogin(w) \/ C!SaveCache(w)
               \/ C!GiveUp(w)
        PROVE  KeysInv'
    BY <1>3, StepsOfARequest, RequestGoesOnStep, FetchReadyStep, SaveCacheStep
  <1> QED BY <1>1, <1>2, <1>3, SyncedStep, AccountSteps DEF C!Next

-----------------------------------------------------------------------------
(* Edits of one answer. *)

Name == {"name", "link"}
Shares == {"waits", "locked", "write", "fill", "drop"}
Holds == {"locked", "write", "fill", "drop", "unlock"}
Entered == {c \in E!Call : pc[c] \notin {"start", "keyed"}}

CallTypes ==
  /\ Len(calls) \in Nat /\ E!Call = 1 .. Len(calls)
  /\ \A c \in E!Call : calls[c].path \in Name
  /\ pc \in [E!Call -> {"start", "keyed", "done"} \cup Shares \cup Holds]
  /\ names \in [E!Call -> {""} \cup Name]
  /\ mutexes \in [E!Call -> Nat]
  /\ registry \in [Name -> Nat]
  /\ made \in Nat
  /\ owner \in [E!Call -> Nat]
  /\ seen \in [E!Call -> {seen[c] : c \in E!Call}]

\* There are no more mutexes than calls that asked for one.
MutexesAreMade ==
  /\ made <= Cardinality(Entered)
  /\ \A n \in Name : registry[n] <= made
  /\ \A c \in E!Call : /\ mutexes[c] <= made
                       /\ pc[c] = "start" => names[c] = ""
                       /\ pc[c] \notin {"start", "done"} => names[c] \in Name
                       /\ pc[c] \in Shares \cup Holds => mutexes[c] > 0

\* Calls that know the file by one name have one mutex while they need it.
NamesShare ==
  \A c \in E!Call : pc[c] \in Shares => mutexes[c] = registry[names[c]]

OwnersHold ==
  \A c \in E!Call : pc[c] \in Holds => owner[mutexes[c]] = c

SeenIsThere ==
  \A c \in E!Call : pc[c] = "write" /\ E!SameName(c) => file = seen[c]

CallsInv ==
  CallTypes /\ MutexesAreMade /\ NamesShare /\ OwnersHold /\ SeenIsThere

\* The mutexes are numbered as they were made.
LEMMA Numbers ==
  ASSUME CallsInv
  PROVE  /\ made \in Nat /\ made <= Cardinality(Entered)
         /\ \A n \in Name : registry[n] \in Nat /\ registry[n] <= made
         /\ \A c \in E!Call : /\ mutexes[c] \in Nat /\ mutexes[c] <= made
                              /\ pc[c] \in Shares \cup Holds => mutexes[c] > 0
                              /\ pc[c] \notin {"start", "done"} => names[c] \in Name
  BY DEF CallsInv, CallTypes, MutexesAreMade

\* An answer has finitely many calls, so that a mutex has a number of users.
LEMMA CallsAreFinite ==
  ASSUME CallsInv
  PROVE  /\ IsFiniteSet(E!Call) /\ Cardinality(E!Call) = Len(calls) /\ Len(calls) \in Nat
         /\ E!Call = 1 .. Len(calls)
         /\ \A any \in SUBSET E!Call : /\ IsFiniteSet(any) /\ Cardinality(any) \in Nat
                                     /\ Cardinality(any) <= Len(calls)
  <1>1. Len(calls) \in Nat /\ E!Call = 1 .. Len(calls)
    BY DEF CallsInv, CallTypes
  <1>2. IsFiniteSet(1 .. Len(calls)) /\ Cardinality(1 .. Len(calls)) = Len(calls)
    <2>1. Len(calls) \in Int /\ 1 \in Int
      BY <1>1
    <2>2. /\ IsFiniteSet(1 .. Len(calls))
          /\ Cardinality(1 .. Len(calls)) =
               IF 1 > Len(calls) THEN 0 ELSE Len(calls) - 1 + 1
      BY <2>1, FS_Interval
    <2> QED BY <1>1, <2>2
  <1>3. ASSUME NEW any \in SUBSET E!Call
        PROVE  IsFiniteSet(any) /\ Cardinality(any) \in Nat /\ Cardinality(any) <= Len(calls)
    <2>1. any \in SUBSET (1 .. Len(calls))
      BY <1>1
    <2>2. IsFiniteSet(any) /\ Cardinality(any) <= Cardinality(1 .. Len(calls))
      BY <1>2, <2>1, FS_Subset
    <2> QED BY <1>2, <2>2, FS_CardinalityType
  <1> QED BY <1>1, <1>2, <1>3

\* A mutex that a call has is one of as many as there are calls.
LEMMA MutexIsOne ==
  ASSUME CallsInv, NEW c \in E!Call, pc[c] \in Shares \cup Holds
  PROVE  mutexes[c] \in E!Call
  <1>1. Entered \in SUBSET E!Call
    BY DEF Entered
  <1>2. Cardinality(Entered) <= Len(calls) /\ Cardinality(Entered) \in Nat
    BY <1>1, CallsAreFinite
  <1>3. /\ mutexes[c] > 0 /\ mutexes[c] <= made /\ made <= Cardinality(Entered)
        /\ mutexes[c] \in Nat /\ made \in Nat
    BY DEF CallsInv, CallTypes, MutexesAreMade
  <1> QED BY <1>2, <1>3, CallsAreFinite

\* Two calls that hold the lock of one name are one.
LEMMA OneHolder ==
  ASSUME CallsInv, NEW c \in E!Call, NEW d \in E!Call, names[c] = names[d],
         pc[c] \in Shares \cap Holds, pc[d] \in Shares \cap Holds
  PROVE  c = d
  BY DEF CallsInv, NamesShare, OwnersHold

\* A call that enters is counted once more.
LEMMA EnteredGrows ==
  ASSUME CallsInv, NEW c \in E!Call, UNCHANGED calls,
         \A d \in E!Call : pc'[d] \in {"start", "keyed"} => pc[d] \in {"start", "keyed"}
  PROVE  /\ Cardinality(Entered) <= Cardinality(Entered')
         /\ Cardinality(Entered) \in Nat /\ Cardinality(Entered') \in Nat
         /\ pc[c] \in {"start", "keyed"} /\ pc'[c] \notin {"start", "keyed"} =>
              Cardinality(Entered) + 1 <= Cardinality(Entered')
  <1>1. IsFiniteSet(E!Call) /\ E!Call' = E!Call
    BY CallsAreFinite DEF E!Call
  <1>2. IsFiniteSet(Entered) /\ IsFiniteSet(Entered') /\ Entered \subseteq Entered'
    BY <1>1, FS_Subset DEF Entered
  <1>3. CASE pc[c] \in {"start", "keyed"} /\ pc'[c] \notin {"start", "keyed"}
    <2>1. c \notin Entered /\ Entered \cup {c} \subseteq Entered'
      BY <1>1, <1>2, <1>3 DEF Entered
    <2>2. Cardinality(Entered \cup {c}) = Cardinality(Entered) + 1
      BY <1>2, <2>1, FS_AddElement
    <2> QED BY <1>2, <2>1, <2>2, FS_Subset, FS_CardinalityType
  <1> QED BY <1>2, <1>3, FS_Subset, FS_CardinalityType

LEMMA StartSteps ==
  ASSUME CallsInv, NEW c \in E!Call, E!Refused(c) \/ E!ResolveKey(c) PROVE CallsInv'
  <1> USE DEF CallsInv
  <1>1. /\ UNCHANGED <<file, calls, mutexes, registry, made, owner, seen>> /\ pc[c] = "start"
        /\ \/ pc' = [pc EXCEPT ![c] = "done"] /\ names' = names
           \/ /\ pc' = [pc EXCEPT ![c] = "keyed"]
              /\ \E n \in Name : names' = [names EXCEPT ![c] = n]
    BY DEF E!Refused, E!ResolveKey, E!Goes, E!locks, CallTypes, Name
  <1>2. E!Call' = E!Call
    BY <1>1 DEF E!Call
  <1>3. CallTypes'
    BY <1>1, <1>2 DEF CallTypes
  <1>4. /\ pc'[c] \in {"done", "keyed"} /\ (pc'[c] = "keyed" => names'[c] \in Name)
        /\ \A d \in E!Call : d # c => pc'[d] = pc[d] /\ names'[d] = names[d]
        /\ names' \in [E!Call -> {""} \cup Name]
    BY <1>1 DEF CallTypes, Name
  <1>5. MutexesAreMade'
    <2>1. made <= Cardinality(Entered')
      <3>1. \A d \in E!Call : pc'[d] \in {"start", "keyed"} => pc[d] \in {"start", "keyed"}
        BY <1>1, <1>4
      <3>2. calls' = calls /\ made' = made
        BY <1>1
      <3>3. /\ Cardinality(Entered) <= Cardinality(Entered')
            /\ Cardinality(Entered) \in Nat /\ Cardinality(Entered') \in Nat
        BY <3>1, <3>2, EnteredGrows
      <3> HIDE DEF CallsInv
      <3>4. made \in Nat /\ made <= Cardinality(Entered)
        BY Numbers
      <3> QED BY <3>3, <3>4
    <2> QED BY <1>1, <1>2, <1>4, <2>1 DEF MutexesAreMade, Shares, Holds
  <1>6. NamesShare' /\ OwnersHold'
    BY <1>1, <1>2, <1>4 DEF NamesShare, OwnersHold, Shares, Holds
  <1>7. SeenIsThere'
    <2> SUFFICES ASSUME NEW d \in E!Call, pc'[d] = "write", E!SameName(d)'
                 PROVE  file = seen[d]
      BY <1>1, <1>2 DEF SeenIsThere
    <2>1. d # c /\ pc[d] = "write" /\ names'[d] = names[d]
      BY <1>4
    <2>2. names[c] \in {"", names[d]}
      BY <1>1, <1>2, <1>4, <2>1 DEF E!SameName, MutexesAreMade
    <2> QED BY <1>2, <1>4, <2>1, <2>2 DEF SeenIsThere, E!SameName
  <1> QED BY <1>3, <1>5, <1>6, <1>7

\* The calls' set and who has come how far, after a step of one call.
LEMMA OneCallMoves ==
  ASSUME CallsInv, NEW c \in E!Call, calls' = calls,
         NEW step \in Shares \cup Holds \cup {"done"}, pc' = [pc EXCEPT ![c] = step],
         pc[c] \notin {"start", "done"}
  PROVE  /\ E!Call' = E!Call /\ pc'[c] = step
         /\ \A d \in E!Call : d # c => pc'[d] = pc[d]
         /\ pc' \in [E!Call -> {"start", "keyed", "done"} \cup Shares \cup Holds]
         /\ Cardinality(Entered) <= Cardinality(Entered')
         /\ Cardinality(Entered) \in Nat /\ Cardinality(Entered') \in Nat
         /\ pc[c] = "keyed" => Cardinality(Entered) + 1 <= Cardinality(Entered')
         /\ names[c] \in Name
  <1>1. E!Call' = E!Call
    BY DEF E!Call
  <1>2. /\ pc'[c] = step /\ \A d \in E!Call : d # c => pc'[d] = pc[d]
        /\ pc' \in [E!Call -> {"start", "keyed", "done"} \cup Shares \cup Holds]
    BY DEF CallsInv, CallTypes
  <1>3. step \notin {"start", "keyed"}
    BY DEF Shares, Holds
  <1>4. \A d \in E!Call : pc'[d] \in {"start", "keyed"} => pc[d] \in {"start", "keyed"}
    BY <1>2, <1>3
  <1>5. names[c] \in Name
    BY DEF CallsInv, MutexesAreMade
  <1> QED BY <1>1, <1>2, <1>3, <1>4, <1>5, EnteredGrows

LEMMA EnterStep ==
  ASSUME CallsInv, NEW c \in E!Call, E!Enter(c) PROVE CallsInv'
  <1> USE DEF CallsInv
  <1> DEFINE n == names[c]
             new == registry[n] = 0
             m == IF new THEN made + 1 ELSE registry[n]
  <1>1. /\ UNCHANGED <<file, calls, names, owner, seen>> /\ pc[c] = "keyed"
        /\ mutexes' = [mutexes EXCEPT ![c] = m]
        /\ registry' = [registry EXCEPT ![n] = m]
        /\ made' = IF new THEN m ELSE made
        /\ pc' = [pc EXCEPT ![c] = "waits"]
    BY DEF E!Enter, E!Goes
  <1>2. /\ E!Call' = E!Call /\ pc'[c] = "waits"
        /\ \A d \in E!Call : d # c => pc'[d] = pc[d]
        /\ pc' \in [E!Call -> {"start", "keyed", "done"} \cup Shares \cup Holds]
        /\ Cardinality(Entered) + 1 <= Cardinality(Entered')
        /\ Cardinality(Entered) \in Nat /\ Cardinality(Entered') \in Nat
        /\ n \in Name
    BY <1>1, OneCallMoves DEF Shares
  <1>3. /\ m \in Nat /\ m > 0 /\ m <= made' /\ made <= made' /\ made' \in Nat
        /\ made' <= made + 1
    <2>1. registry[n] \in Nat /\ registry[n] <= made /\ made \in Nat
      BY <1>2, Numbers
    <2> QED BY <1>1, <2>1
  <1>4. new => \A d \in E!Call : names[d] = n => pc[d] \notin Shares
    <2> SUFFICES ASSUME new, NEW d \in E!Call, names[d] = n, pc[d] \in Shares PROVE FALSE
      OBVIOUS
    <2>1. mutexes[d] = 0
      BY DEF NamesShare
    <2>2. mutexes[d] > 0
      BY Numbers
    <2> QED BY <2>1, <2>2
  <1> HIDE DEF m
  <1>5. CallTypes'
    BY <1>1, <1>2, <1>3 DEF CallTypes
  <1>6. /\ mutexes'[c] = m /\ \A d \in E!Call : d # c => mutexes'[d] = mutexes[d]
        /\ registry'[n] = m /\ \A k \in Name : k # n => registry'[k] = registry[k]
    BY <1>1, <1>2 DEF CallTypes
  <1>7. MutexesAreMade'
    <2>1. made' <= Cardinality(Entered')
      <3> HIDE DEF CallsInv
      <3>1. made \in Nat /\ made <= Cardinality(Entered)
        BY Numbers
      <3> QED BY <1>2, <1>3, <3>1
    <2>2. \A k \in Name : registry'[k] <= made'
      <3> SUFFICES ASSUME NEW k \in Name PROVE registry'[k] <= made'
        OBVIOUS
      <3>1. registry[k] \in Nat /\ registry[k] <= made /\ made \in Nat
        BY Numbers
      <3> QED BY <1>3, <1>6, <3>1
    <2>3. \A d \in E!Call :
            mutexes'[d] <= made' /\ (pc'[d] \in Shares \cup Holds => mutexes'[d] > 0)
      <3> SUFFICES ASSUME NEW d \in E!Call
                   PROVE  /\ mutexes'[d] <= made'
                          /\ pc'[d] \in Shares \cup Holds => mutexes'[d] > 0
        OBVIOUS
      <3>1. /\ mutexes[d] \in Nat /\ mutexes[d] <= made /\ made \in Nat
            /\ pc[d] \in Shares \cup Holds => mutexes[d] > 0
        BY Numbers
      <3> QED BY <1>2, <1>3, <1>6, <3>1
    <2> QED BY <1>1, <1>2, <2>1, <2>2, <2>3 DEF MutexesAreMade
  <1>8. NamesShare'
    <2> SUFFICES ASSUME NEW d \in E!Call, pc'[d] \in Shares
                 PROVE  mutexes'[d] = registry'[names[d]]
      BY <1>1, <1>2 DEF NamesShare
    <2>1. CASE d = c
      BY <1>6, <2>1
    <2>2. CASE d # c
      <3>1. pc[d] \in Shares /\ mutexes[d] = registry[names[d]] /\ names[d] \in Name
        BY <1>2, <2>2 DEF NamesShare, MutexesAreMade, Shares
      <3>2. names[d] = n => m = registry[n]
        BY <1>4, <3>1 DEF m
      <3> QED BY <1>6, <2>2, <3>1, <3>2
    <2> QED BY <2>1, <2>2
  <1>9. OwnersHold'
    BY <1>1, <1>2, <1>6 DEF OwnersHold, Holds
  <1>10. SeenIsThere'
    BY <1>1, <1>2 DEF SeenIsThere, E!SameName
  <1> QED BY <1>5, <1>7, <1>8, <1>9, <1>10

LEMMA LockStep ==
  ASSUME CallsInv, NEW c \in E!Call, E!Lock(c) PROVE CallsInv'
  <1> USE DEF CallsInv
  <1>1. /\ UNCHANGED <<file, calls, names, mutexes, registry, made, seen>>
        /\ pc[c] = "waits" /\ owner[mutexes[c]] = 0
        /\ owner' = [owner EXCEPT ![mutexes[c]] = c]
        /\ pc' = [pc EXCEPT ![c] = "locked"]
    BY DEF E!Lock, E!Goes
  <1>2. /\ E!Call' = E!Call /\ pc'[c] = "locked"
        /\ \A d \in E!Call : d # c => pc'[d] = pc[d]
        /\ pc' \in [E!Call -> {"start", "keyed", "done"} \cup Shares \cup Holds]
        /\ Cardinality(Entered) <= Cardinality(Entered')
        /\ Cardinality(Entered) \in Nat /\ Cardinality(Entered') \in Nat
    BY <1>1, OneCallMoves DEF Shares
  <1>3. mutexes[c] \in E!Call /\ c \in Nat /\ c # 0
    BY <1>1, MutexIsOne, CallsAreFinite DEF Shares
  <1>4. CallTypes'
    BY <1>1, <1>2, <1>3 DEF CallTypes
  <1>5. MutexesAreMade' /\ NamesShare'
    <2>1. made <= Cardinality(Entered')
      <3> HIDE DEF CallsInv
      <3>1. made \in Nat /\ made <= Cardinality(Entered)
        BY Numbers
      <3> QED BY <1>2, <3>1
    <2> QED BY <1>1, <1>2, <2>1 DEF MutexesAreMade, NamesShare, Shares, Holds
  <1>6. OwnersHold'
    <2> SUFFICES ASSUME NEW d \in E!Call, pc'[d] \in Holds PROVE owner'[mutexes[d]] = d
      BY <1>1, <1>2 DEF OwnersHold
    <2>1. CASE d = c
      BY <1>1, <1>3, <2>1 DEF CallTypes
    <2>2. CASE d # c
      <3>1. owner[mutexes[d]] = d /\ d # 0
        BY <1>2, <2>2, CallsAreFinite DEF OwnersHold
      <3>2. mutexes[d] # mutexes[c]
        BY <1>1, <3>1
      <3>3. mutexes[d] \in E!Call
        BY <1>2, <2>2, MutexIsOne
      <3> QED BY <1>1, <1>3, <3>1, <3>2, <3>3 DEF CallTypes
    <2> QED BY <2>1, <2>2
  <1>7. SeenIsThere'
    BY <1>1, <1>2 DEF SeenIsThere, E!SameName
  <1> QED BY <1>4, <1>5, <1>6, <1>7

\* A call that holds the lock goes on; what it reads and writes is told apart below.
LEMMA HolderGoesOn ==
  ASSUME CallsInv, NEW c \in E!Call, NEW step \in Shares \cap Holds,
         UNCHANGED <<calls, names, mutexes, registry, made, owner>>,
         pc' = [pc EXCEPT ![c] = step], pc[c] \in Shares \cap Holds,
         seen' \in [E!Call -> {seen'[d] : d \in E!Call}]
  PROVE  /\ CallTypes' /\ MutexesAreMade' /\ NamesShare' /\ OwnersHold'
         /\ E!Call' = E!Call /\ pc'[c] = step
         /\ \A d \in E!Call : d # c => pc'[d] = pc[d]
         /\ \A d \in E!Call : E!SameName(d)' <=> E!SameName(d)
  <1>1. /\ E!Call' = E!Call /\ pc'[c] = step
        /\ \A d \in E!Call : d # c => pc'[d] = pc[d]
        /\ pc' \in [E!Call -> {"start", "keyed", "done"} \cup Shares \cup Holds]
        /\ Cardinality(Entered) <= Cardinality(Entered')
        /\ Cardinality(Entered) \in Nat /\ Cardinality(Entered') \in Nat
    BY OneCallMoves DEF Shares, Holds
  <1>2. CallTypes'
    BY <1>1 DEF CallsInv, CallTypes
  <1>3. made <= Cardinality(Entered')
    <2>1. made \in Nat /\ made <= Cardinality(Entered)
      BY Numbers
    <2> QED BY <1>1, <2>1
  <1>4. MutexesAreMade' /\ NamesShare' /\ OwnersHold'
    BY <1>1, <1>3 DEF CallsInv, MutexesAreMade, NamesShare, OwnersHold, Shares, Holds
  <1> QED BY <1>1, <1>2, <1>4 DEF E!SameName

LEMMA ReadFileStep ==
  ASSUME CallsInv, NEW c \in E!Call, E!ReadFile(c) PROVE CallsInv'
  <1>1. /\ UNCHANGED <<file, calls, names, mutexes, registry, made, owner>> /\ pc[c] = "locked"
        /\ \/ pc' = [pc EXCEPT ![c] = "drop"]
           \/ pc' = [pc EXCEPT ![c] = "write"]
        /\ seen' = seen \/ seen' = [seen EXCEPT ![c] = file]
        /\ pc' = [pc EXCEPT ![c] = "write"] => seen' = [seen EXCEPT ![c] = file]
    <2> USE DEF E!ReadFile, E!Goes, E!locks
    <2>1. CASE cancelled /\ E!Goes(c, "drop") /\ UNCHANGED <<seen, out>>
      <3>1. pc' # [pc EXCEPT ![c] = "write"]
        BY <2>1 DEF CallsInv, CallTypes
      <3> QED BY <2>1, <3>1
    <2>2. CASE seen' = [seen EXCEPT ![c] = file]
      BY <2>2
    <2> QED BY <2>1, <2>2
  <1>2. seen' \in [E!Call -> {seen'[d] : d \in E!Call}]
    BY <1>1 DEF CallsInv, CallTypes
  <1>3. PICK step \in {"drop", "write"} : pc' = [pc EXCEPT ![c] = step]
    BY <1>1
  <1>4. /\ CallTypes' /\ MutexesAreMade' /\ NamesShare' /\ OwnersHold'
        /\ E!Call' = E!Call /\ pc'[c] = step
        /\ \A d \in E!Call : d # c => pc'[d] = pc[d]
        /\ \A d \in E!Call : E!SameName(d)' <=> E!SameName(d)
    BY <1>1, <1>2, <1>3, HolderGoesOn DEF Shares, Holds
  <1>5. /\ step = "write" => seen'[c] = file
        /\ \A d \in E!Call : d # c => seen'[d] = seen[d]
    BY <1>1, <1>3 DEF CallsInv, CallTypes
  <1>6. SeenIsThere'
    <2> SUFFICES ASSUME NEW d \in E!Call, pc'[d] = "write", E!SameName(d)
                 PROVE  file = seen'[d]
      BY <1>1, <1>4 DEF SeenIsThere
    <2> QED BY <1>4, <1>5 DEF CallsInv, SeenIsThere
  <1> QED BY <1>4, <1>6 DEF CallsInv

\* Who writes the file is the only one of its name to have read it.
LEMMA WriteSteps ==
  ASSUME CallsInv, NEW c \in E!Call, E!Truncate(c) \/ E!Fill(c) PROVE CallsInv'
  <1>1. /\ UNCHANGED <<calls, names, mutexes, registry, made, owner, seen>>
        /\ pc[c] \in {"write", "fill"}
        /\ \E step \in {"fill", "drop"} : pc' = [pc EXCEPT ![c] = step]
    BY DEF E!Truncate, E!Fill, E!Goes, E!locks
  <1>2. PICK step \in {"fill", "drop"} : pc' = [pc EXCEPT ![c] = step]
    BY <1>1
  <1>3. seen' \in [E!Call -> {seen'[d] : d \in E!Call}]
    BY <1>1 DEF CallsInv, CallTypes
  <1>4. /\ CallTypes' /\ MutexesAreMade' /\ NamesShare' /\ OwnersHold'
        /\ E!Call' = E!Call /\ pc'[c] = step
        /\ \A d \in E!Call : d # c => pc'[d] = pc[d]
        /\ \A d \in E!Call : E!SameName(d)' <=> E!SameName(d)
    BY <1>1, <1>2, <1>3, HolderGoesOn DEF Shares, Holds
  <1>5. SeenIsThere'
    <2> SUFFICES ASSUME NEW d \in E!Call, pc'[d] = "write", E!SameName(d) PROVE FALSE
      BY <1>4 DEF SeenIsThere
    <2>1. d # c /\ pc[d] = "write"
      BY <1>4
    <2>2. names[c] = names[d]
      <3>1. names[c] \in Name
        BY <1>1, Numbers
      <3> QED BY <3>1 DEF E!SameName, Name
    <2> QED BY <1>1, <2>1, <2>2, OneHolder DEF Shares, Holds
  <1> QED BY <1>4, <1>5 DEF CallsInv

\* The last user of a mutex is the only one.
LEMMA CardinalityIsOne ==
  ASSUME NEW any
  PROVE  E!Cardinality(any) = Cardinality(any)
  BY DEF E!Cardinality, Cardinality, E!IsFiniteSet, IsFiniteSet

LEMMA DropGuardStep ==
  ASSUME CallsInv, NEW c \in E!Call, E!DropGuard(c) PROVE CallsInv'
  <1> USE DEF CallsInv
  <1>1. /\ UNCHANGED <<file, calls, names, mutexes, made, owner, seen>> /\ pc[c] = "drop"
        /\ pc' = [pc EXCEPT ![c] = "unlock"]
        /\ registry' = E!Evicted(c)
    BY DEF E!DropGuard, E!Goes
  <1>2. /\ E!Call' = E!Call /\ pc'[c] = "unlock"
        /\ \A d \in E!Call : d # c => pc'[d] = pc[d]
        /\ pc' \in [E!Call -> {"start", "keyed", "done"} \cup Shares \cup Holds]
        /\ Cardinality(Entered) <= Cardinality(Entered')
        /\ Cardinality(Entered) \in Nat /\ Cardinality(Entered') \in Nat
        /\ names[c] \in Name
    BY <1>1, OneCallMoves DEF Holds
  <1>3. /\ registry' \in [Name -> Nat]
        /\ \A n \in Name : /\ registry'[n] \in {0, registry[n]}
                           /\ n # names[c] => registry'[n] = registry[n]
    BY <1>1, <1>2 DEF E!Evicted, CallTypes
  <1>4. CallTypes'
    BY <1>1, <1>2, <1>3 DEF CallTypes
  <1>5. MutexesAreMade'
    <2>1. made <= Cardinality(Entered')
      <3> HIDE DEF CallsInv
      <3>1. made \in Nat /\ made <= Cardinality(Entered)
        BY Numbers
      <3> QED BY <1>2, <3>1
    <2>2. \A n \in Name : registry'[n] <= made
      <3> SUFFICES ASSUME NEW n \in Name PROVE registry'[n] <= made
        OBVIOUS
      <3>1. registry[n] \in Nat /\ registry[n] <= made /\ made \in Nat
        BY Numbers
      <3> QED BY <1>3, <3>1
    <2> QED BY <1>1, <1>2, <2>1, <2>2 DEF MutexesAreMade, Shares, Holds
  <1>6. NamesShare'
    <2> SUFFICES ASSUME NEW d \in E!Call, pc'[d] \in Shares
                 PROVE  mutexes[d] = registry'[names[d]]
      BY <1>1, <1>2 DEF NamesShare
    <2>1. d # c /\ pc[d] \in Shares /\ mutexes[d] = registry[names[d]] /\ names[d] \in Name
      BY <1>2, Numbers DEF NamesShare, Shares
    <2>2. CASE names[d] # names[c]
      BY <1>3, <2>1, <2>2
    <2>3. CASE names[d] = names[c]
      <3> DEFINE sharers == E!Sharers(registry[names[c]])
      <3>1. sharers \in SUBSET E!Call /\ c \in sharers /\ d \in sharers
        BY <1>1, <2>1, <2>3 DEF E!Sharers, NamesShare, Shares
      <3>2. IsFiniteSet(sharers) /\ Cardinality(sharers) \in Nat
        BY <3>1, CallsAreFinite
      <3>3. Cardinality(sharers) # 0 /\ Cardinality(sharers) # 1
        BY <2>1, <3>1, <3>2, FS_EmptySet, FS_Singleton
      <3>4. ~(Cardinality(sharers) <= 1)
        <4> HIDE DEF sharers
        <4> QED BY <3>2, <3>3
      <3>5. registry' = registry
        <4>1. E!Evicted(c) = registry
          BY <3>4, CardinalityIsOne DEF E!Evicted
        <4> QED BY <1>1, <4>1
      <3> QED BY <2>1, <3>5
    <2> QED BY <2>2, <2>3
  <1>7. OwnersHold'
    BY <1>1, <1>2 DEF OwnersHold, Holds
  <1>8. SeenIsThere'
    BY <1>1, <1>2 DEF SeenIsThere, E!SameName
  <1> QED BY <1>4, <1>5, <1>6, <1>7, <1>8

LEMMA UnlockStep ==
  ASSUME CallsInv, NEW c \in E!Call, E!Unlock(c) PROVE CallsInv'
  <1> USE DEF CallsInv
  <1>1. /\ UNCHANGED <<file, calls, names, registry, made, seen>> /\ pc[c] = "unlock"
        /\ owner' = [owner EXCEPT ![mutexes[c]] = 0]
        /\ mutexes' = [mutexes EXCEPT ![c] = 0]
        /\ pc' = [pc EXCEPT ![c] = "done"]
    BY DEF E!Unlock, E!Goes
  <1>2. /\ E!Call' = E!Call /\ pc'[c] = "done"
        /\ \A d \in E!Call : d # c => pc'[d] = pc[d]
        /\ pc' \in [E!Call -> {"start", "keyed", "done"} \cup Shares \cup Holds]
        /\ Cardinality(Entered) <= Cardinality(Entered')
        /\ Cardinality(Entered) \in Nat /\ Cardinality(Entered') \in Nat
        /\ names[c] \in Name
    BY <1>1, OneCallMoves
  <1>3. mutexes'[c] = 0 /\ \A d \in E!Call : d # c => mutexes'[d] = mutexes[d]
    BY <1>1 DEF CallTypes
  <1>4. CallTypes'
    BY <1>1, <1>2 DEF CallTypes
  <1>5. MutexesAreMade'
    <2>1. made <= Cardinality(Entered') /\ made \in Nat
      <3> HIDE DEF CallsInv
      <3>1. made \in Nat /\ made <= Cardinality(Entered)
        BY Numbers
      <3> QED BY <1>2, <3>1
    <2>2. \A d \in E!Call : /\ mutexes'[d] <= made
                            /\ pc'[d] \in Shares \cup Holds => mutexes'[d] > 0
      BY <1>2, <1>3, <2>1, Numbers DEF Shares, Holds
    <2> QED BY <1>1, <1>2, <2>1, <2>2 DEF MutexesAreMade
  <1>6. NamesShare'
    BY <1>1, <1>2, <1>3 DEF NamesShare, Shares
  <1>7. OwnersHold'
    <2> SUFFICES ASSUME NEW d \in E!Call, pc'[d] \in Holds PROVE owner'[mutexes'[d]] = d
      BY <1>1, <1>2 DEF OwnersHold
    <2>1. d # c /\ pc[d] \in Holds /\ mutexes'[d] = mutexes[d]
      BY <1>2, <1>3 DEF Holds
    <2>2. owner[mutexes[d]] = d /\ mutexes[d] # mutexes[c]
      BY <1>1, <2>1 DEF OwnersHold, Holds
    <2>3. mutexes[d] \in E!Call
      BY <2>1, MutexIsOne
    <2> QED BY <1>1, <2>1, <2>2, <2>3 DEF CallTypes
  <1>8. SeenIsThere'
    BY <1>1, <1>2 DEF SeenIsThere, E!SameName
  <1> QED BY <1>4, <1>5, <1>6, <1>7, <1>8

\* Before the first call there is no mutex to share.
LEMMA NoMutexYet ==
  ASSUME made = 0, Cardinality(Entered) = 0,
         \A n \in Name : registry[n] = 0, \A c \in E!Call : mutexes[c] = 0
  PROVE  /\ made <= Cardinality(Entered)
         /\ \A n \in Name : registry[n] <= made
         /\ \A c \in E!Call : mutexes[c] <= made
  OBVIOUS

LEMMA CallsInit ==
  ASSUME \A scene \in Scenes :
           /\ Len(scene.calls) \in Nat /\ DOMAIN scene.calls = 1 .. Len(scene.calls)
           /\ \A c \in DOMAIN scene.calls : scene.calls[c].path \in Name,
         E!Init
  PROVE  CallsInv
  <1>1. Len(calls) \in Nat /\ E!Call = 1 .. Len(calls) /\ \A c \in E!Call : calls[c].path \in Name
    BY DEF E!Init, E!Call
  <1>2. /\ pc = [c \in E!Call |-> "start"] /\ names = [c \in E!Call |-> ""]
        /\ mutexes = [c \in E!Call |-> 0] /\ registry = [n \in Name |-> 0]
        /\ made = 0 /\ owner = [c \in E!Call |-> 0] /\ seen = [c \in E!Call |-> E!NoFile]
    BY DEF E!Init, Name
  <1>3. CallTypes
    BY <1>1, <1>2 DEF CallTypes
  <1>4. Cardinality(Entered) = 0
    <2>1. Entered = {}
      BY <1>2 DEF Entered
    <2> QED BY <2>1, FS_EmptySet
  <1>5. MutexesAreMade
    <2>1. /\ made <= Cardinality(Entered)
          /\ \A n \in Name : registry[n] <= made
          /\ \A c \in E!Call : mutexes[c] <= made
      BY <1>2, <1>4, NoMutexYet
    <2> QED BY <1>2, <2>1 DEF MutexesAreMade, Shares, Holds
  <1>6. NamesShare /\ OwnersHold /\ SeenIsThere
    BY <1>2 DEF NamesShare, OwnersHold, SeenIsThere, Shares, Holds
  <1> QED BY <1>3, <1>5, <1>6 DEF CallsInv

LEMMA CallsStep ==
  ASSUME CallsInv, [E!Next]_E!vars
  PROVE  CallsInv'
  <1>1. CASE E!Cancel \/ UNCHANGED E!vars
    <2>1. UNCHANGED <<file, calls, pc, names, mutexes, registry, made, owner, seen>>
      BY <1>1 DEF E!Cancel, E!vars, E!locks
    <2>2. E!Call' = E!Call
      BY <2>1 DEF E!Call
    <2>3. Entered' = Entered
      BY <2>1, <2>2 DEF Entered
    <2> QED BY <2>1, <2>2, <2>3 DEF CallsInv, CallTypes, MutexesAreMade, NamesShare, OwnersHold,
            SeenIsThere, E!SameName
  <1>2. CASE \E c \in E!Call : \/ E!Refused(c) \/ E!ResolveKey(c) \/ E!Enter(c) \/ E!Lock(c)
                               \/ E!ReadFile(c) \/ E!Truncate(c) \/ E!Fill(c)
                               \/ E!DropGuard(c) \/ E!Unlock(c)
    BY <1>2, StartSteps, EnterStep, LockStep, ReadFileStep, WriteSteps, DropGuardStep, UnlockStep
  <1> QED BY <1>1, <1>2 DEF E!Next

-----------------------------------------------------------------------------
(* The index of the code search. *)

Stamped == Nat \X Nat
Entries == [Paths -> {X!NoEntry} \cup Stamped]
Glance == [Paths -> Nat \cup {-1}]

SearchState ==
  [at : {"idle", "walk", "read", "found"}, cached : {X!NoIndex} \cup Entries, seen : Glance,
   stamp : Glance, unread : SUBSET Paths, made : Entries, cancelled : BOOLEAN]

IndexTypes ==
  /\ tree \in [Paths -> Nat]
  /\ stamps \in [Paths -> SUBSET (Nat \ {0})]
  /\ index \in {X!NoIndex} \cup Entries
  /\ search \in [Searchers -> SearchState]
  /\ touched \in [Searchers -> SUBSET Paths]

\* What an index says of a file: the stamp is one the file has had and will not
\* get again, and if the file has it now, then with the text that was read.
Had(p, stamp) == stamp \notin stamps[p]
Sound(p, e) ==
  e # X!NoEntry => Had(p, e[1]) /\ (e[1] = tree[p] /\ tree[p] # 0 => e[2] = tree[p])
SoundIndex(i) == i # X!NoIndex => \A p \in Paths : Sound(p, i[p])

StampsAreSpent ==
  /\ \A p \in Paths : Had(p, tree[p])
  /\ \A s \in Searchers, p \in Paths : Had(p, search[s].stamp[p])

IndexesAreSound ==
  /\ SoundIndex(index)
  /\ \A s \in Searchers : /\ SoundIndex(search[s].cached)
                          /\ \A p \in Paths : Sound(p, search[s].made[p])

\* What a search knows of a file nobody wrote since it began.
SeenIsCurrent ==
  \A s \in Searchers : search[s].at = "walk" =>
    \A p \in Paths \ touched[s] : search[s].seen[p] \in {-1, tree[p]}

ReadSoFar(s, p) ==
  IF tree[p] = 0 THEN search[s].made[p] = X!NoEntry /\ p \notin search[s].unread
  ELSE IF p \in search[s].unread THEN search[s].stamp[p] \in {-1, tree[p]}
  ELSE search[s].made[p] # X!NoEntry /\ search[s].made[p][2] = tree[p]

ReadIsSound ==
  \A s \in Searchers : search[s].at = "read" =>
    \A p \in Paths \ touched[s] : ReadSoFar(s, p)

IndexInv ==
  /\ IndexTypes /\ StampsAreSpent /\ IndexesAreSound /\ SeenIsCurrent /\ ReadIsSound
  /\ X!FoundIsCurrent

\* An index of nothing says nothing wrong.
LEMMA EmptyIsSound ==
  /\ X!Empty \in Entries /\ X!Unknown \in Glance
  /\ \A p \in Paths : Sound(p, X!Empty[p]) /\ X!Unknown[p] = -1
  /\ SoundIndex(X!NoIndex)
  BY DEF X!Empty, X!Unknown, Entries, Glance, Sound, SoundIndex

\* A search that changes only itself keeps what the others know.
LEMMA OneSearch ==
  ASSUME IndexInv, NEW s \in Searchers, NEW new \in SearchState,
         search' = [search EXCEPT ![s] = new],
         tree' = tree, stamps' = stamps,
         touched' \in [Searchers -> SUBSET Paths],
         \A t \in Searchers : t # s => touched'[t] = touched[t],
         index' \in {X!NoIndex} \cup Entries, SoundIndex(index'),
         \A p \in Paths : Had(p, new.stamp[p]) /\ Sound(p, new.made[p]),
         SoundIndex(new.cached),
         new.at = "walk" => \A p \in Paths \ touched'[s] : new.seen[p] \in {-1, tree[p]},
         new.at = "read" => \A p \in Paths \ touched'[s] : ReadSoFar(s, p)',
         new.at = "found" => \A p \in Paths \ touched'[s] :
            IF tree[p] = 0 THEN new.made[p] = X!NoEntry
            ELSE new.made[p] # X!NoEntry /\ new.made[p][2] = tree[p]
  PROVE  IndexInv'
  <1> USE DEF IndexInv
  <1>1. /\ search'[s] = new
        /\ \A t \in Searchers : t # s => search'[t] = search[t]
        /\ search' \in [Searchers -> SearchState]
    BY DEF IndexTypes
  <1>3. IndexTypes'
    BY <1>1 DEF IndexTypes
  <1>4. StampsAreSpent'
    BY <1>1 DEF StampsAreSpent, Had
  <1>5. IndexesAreSound'
    BY <1>1 DEF IndexesAreSound, SoundIndex, Sound, Had
  <1>6. SeenIsCurrent'
    BY <1>1 DEF SeenIsCurrent
  <1>7. ReadIsSound'
    BY <1>1 DEF ReadIsSound, ReadSoFar
  <1>8. X!FoundIsCurrent'
    BY <1>1 DEF X!FoundIsCurrent, X!At
  <1> QED BY <1>3, <1>4, <1>5, <1>6, <1>7, <1>8

\* What is known of a search in its state.
LEMMA SearchFacts ==
  ASSUME IndexInv, NEW s \in Searchers
  PROVE  /\ search[s] \in SearchState /\ touched[s] \in SUBSET Paths
         /\ \A p \in Paths : Had(p, search[s].stamp[p]) /\ Sound(p, search[s].made[p])
         /\ SoundIndex(search[s].cached) /\ SoundIndex(index)
         /\ index \in {X!NoIndex} \cup Entries
  BY DEF IndexInv, IndexTypes, StampsAreSpent, IndexesAreSound

\* Nor does what a search takes from the cache,
LEMMA KnownIsSound ==
  ASSUME IndexInv, NEW s \in Searchers
  PROVE  X!Known(s) \in Entries /\ \A p \in Paths : Sound(p, X!Known(s)[p])
  <1>1. CASE search[s].cached = X!NoIndex
    BY <1>1, EmptyIsSound DEF X!Known
  <1>2. CASE search[s].cached # X!NoIndex
    BY <1>2, SearchFacts DEF X!Known, SoundIndex, SearchState
  <1> QED BY <1>1, <1>2

\* or a search that has not begun.
LEMMA IdleIsSound ==
  ASSUME IndexInv
  PROVE  /\ X!Idle \in SearchState
         /\ X!Idle.stamp = X!Unknown /\ X!Idle.seen = X!Unknown
         /\ X!Idle.made = X!Empty /\ X!Idle.cached = X!NoIndex
         /\ \A p \in Paths : Had(p, -1)
  BY EmptyIsSound DEF X!Idle, SearchState, IndexInv, IndexTypes, Had

LEMMA BeginStep ==
  ASSUME IndexInv, NEW s \in Searchers, X!Begin(s) PROVE IndexInv'
  <1> DEFINE new == [X!Idle EXCEPT !.at = "walk", !.cached = index]
  <1>1. search' = [search EXCEPT ![s] = new] /\ UNCHANGED <<tree, stamps, index, touched>>
    BY DEF X!Begin, X!Becomes
  <1>2. /\ new \in SearchState /\ new.at = "walk" /\ new.cached = index
        /\ new.stamp = X!Unknown /\ new.seen = X!Unknown /\ new.made = X!Empty
    BY IdleIsSound, SearchFacts DEF SearchState
  <1> HIDE DEF new
  <1>3. \A p \in Paths : /\ Had(p, new.stamp[p]) /\ Sound(p, new.made[p])
                         /\ new.seen[p] = -1
    BY <1>2, IdleIsSound, EmptyIsSound
  <1> QED BY <1>1, <1>2, <1>3, OneSearch, SearchFacts DEF IndexInv, IndexTypes

LEMMA StatStep ==
  ASSUME IndexInv, NEW s \in Searchers, NEW p \in Paths, X!Stat(s, p) PROVE IndexInv'
  <1> DEFINE new == [search[s] EXCEPT !.seen[p] = tree[p]]
  <1>1. /\ search' = [search EXCEPT ![s] = new] /\ UNCHANGED <<tree, stamps, index, touched>>
        /\ search[s].at = "walk"
    BY DEF X!Stat, X!Becomes, X!Untouched, X!At
  <1>2. /\ new \in SearchState /\ new.at = "walk" /\ new.cached = search[s].cached
        /\ new.stamp = search[s].stamp /\ new.made = search[s].made
        /\ new.seen = [search[s].seen EXCEPT ![p] = tree[p]]
    BY <1>1, SearchFacts DEF SearchState, Glance, IndexInv, IndexTypes
  <1> HIDE DEF new
  <1>3. \A q \in Paths \ touched[s] : new.seen[q] \in {-1, tree[q]}
    BY <1>1, <1>2, SearchFacts DEF IndexInv, SeenIsCurrent, SearchState, Glance
  <1> QED BY <1>1, <1>2, <1>3, OneSearch, SearchFacts DEF IndexInv, IndexTypes

\* A walk has seen every file, and of what is untouched what is there.
LEMMA WalkedIsCurrent ==
  ASSUME IndexInv, NEW s \in Searchers, X!Walked(s), NEW p \in Paths \ touched[s]
  PROVE  search[s].seen[p] = tree[p] /\ tree[p] \in Nat
         /\ (p \in X!Present(s) <=> tree[p] # 0)
  BY DEF X!Walked, X!At, IndexInv, SeenIsCurrent, X!Present, IndexTypes

LEMMA UnchangedStep ==
  ASSUME IndexInv, NEW s \in Searchers, X!Unchanged(s) PROVE IndexInv'
  <1> DEFINE new == [X!Idle EXCEPT !.at = "found", !.made = X!Known(s)]
  <1>1. /\ search' = [search EXCEPT ![s] = new] /\ UNCHANGED <<tree, stamps, touched>>
        /\ X!Walked(s) /\ X!Changed(s) = {} /\ X!Removed(s) = {}
        /\ index' \in {X!Empty, index}
    BY DEF X!Unchanged, X!Becomes, X!Untouched
  <1>2. /\ new \in SearchState /\ new.at = "found" /\ new.cached = X!NoIndex
        /\ new.stamp = X!Unknown /\ new.made = X!Known(s)
    BY IdleIsSound, KnownIsSound DEF SearchState
  <1> HIDE DEF new
  <1>3. \A p \in Paths : Had(p, new.stamp[p]) /\ Sound(p, new.made[p])
    BY <1>2, IdleIsSound, EmptyIsSound, KnownIsSound
  <1>4. ASSUME NEW p \in Paths \ touched[s]
        PROVE  IF tree[p] = 0 THEN new.made[p] = X!NoEntry
               ELSE new.made[p] # X!NoEntry /\ new.made[p][2] = tree[p]
    <2>1. Sound(p, X!Known(s)[p])
      BY KnownIsSound
    <2> QED BY <1>1, <1>2, <2>1, WalkedIsCurrent DEF X!Changed, X!Removed, Sound
  <1>5. index' \in {X!NoIndex} \cup Entries /\ SoundIndex(index')
    BY <1>1, SearchFacts, EmptyIsSound DEF SoundIndex
  <1> QED BY <1>1, <1>2, <1>3, <1>4, <1>5, OneSearch, EmptyIsSound DEF IndexInv, IndexTypes

LEMMA CompareStep ==
  ASSUME IndexInv, NEW s \in Searchers, X!Compare(s) PROVE IndexInv'
  <1> DEFINE kept == [p \in Paths |-> IF p \in X!Present(s) THEN X!Known(s)[p] ELSE X!NoEntry]
             new == [X!Idle EXCEPT !.at = "read", !.unread = X!Changed(s), !.made = kept]
  <1>1. /\ search' = [search EXCEPT ![s] = new] /\ UNCHANGED <<tree, stamps, index, touched>>
        /\ X!Walked(s)
    BY DEF X!Compare, X!Becomes, X!Untouched
  <1>2. kept \in Entries /\ \A p \in Paths : Sound(p, kept[p])
    <2>1. X!NoEntry \in {X!NoEntry} \cup Stamped
      OBVIOUS
    <2> QED BY <2>1, KnownIsSound DEF Entries, Sound
  <1>3. /\ new \in SearchState /\ new.at = "read" /\ new.cached = X!NoIndex
        /\ new.stamp = X!Unknown /\ new.made = kept /\ new.unread = X!Changed(s)
    <2>1. X!Changed(s) \in SUBSET Paths
      BY DEF X!Changed, X!Present
    <2> HIDE DEF kept
    <2> QED BY <1>2, <2>1, IdleIsSound DEF SearchState
  <1> HIDE DEF new
  <1>4. ASSUME NEW p \in Paths \ touched[s] PROVE ReadSoFar(s, p)'
    <2>1. search'[s] = new
      BY <1>1 DEF IndexInv, IndexTypes
    <2>2. Sound(p, X!Known(s)[p])
      BY KnownIsSound
    <2> QED BY <1>1, <1>3, <2>1, <2>2, WalkedIsCurrent, EmptyIsSound
            DEF ReadSoFar, X!Changed, Sound
  <1>5. \A p \in Paths : Had(p, new.stamp[p]) /\ Sound(p, new.made[p])
    BY <1>2, <1>3, IdleIsSound, EmptyIsSound
  <1> HIDE DEF kept
  <1> QED BY <1>1, <1>3, <1>4, <1>5, OneSearch, SearchFacts, EmptyIsSound DEF IndexInv, IndexTypes

LEMMA StatAgainStep ==
  ASSUME IndexInv, NEW s \in Searchers, NEW p \in Paths, X!StatAgain(s, p) PROVE IndexInv'
  <1> DEFINE new == [search[s] EXCEPT !.stamp[p] = tree[p]]
  <1>1. /\ search' = [search EXCEPT ![s] = new] /\ UNCHANGED <<tree, stamps, index, touched>>
        /\ search[s].at = "read"
    BY DEF X!StatAgain, X!Becomes, X!Untouched, X!At
  <1>2. /\ new \in SearchState /\ new.at = "read" /\ new.cached = search[s].cached
        /\ new.unread = search[s].unread /\ new.made = search[s].made
        /\ new.stamp = [search[s].stamp EXCEPT ![p] = tree[p]]
    BY <1>1, SearchFacts DEF SearchState, Glance, IndexInv, IndexTypes
  <1> HIDE DEF new
  <1>3. \A q \in Paths : new.stamp[q] = IF q = p THEN tree[p] ELSE search[s].stamp[q]
    BY <1>2, SearchFacts DEF SearchState, Glance
  <1>4. \A q \in Paths : Had(q, new.stamp[q]) /\ Sound(q, new.made[q])
    BY <1>2, <1>3, SearchFacts DEF IndexInv, StampsAreSpent
  <1>5. ASSUME NEW q \in Paths \ touched[s] PROVE ReadSoFar(s, q)'
    <2>1. search'[s] = new
      BY <1>1 DEF IndexInv, IndexTypes
    <2>2. ReadSoFar(s, q)
      BY <1>1 DEF IndexInv, ReadIsSound
    <2> QED BY <1>1, <1>2, <1>3, <2>1, <2>2 DEF ReadSoFar
  <1> QED BY <1>1, <1>2, <1>4, <1>5, OneSearch, SearchFacts DEF IndexInv, IndexTypes

LEMMA ReadStep ==
  ASSUME IndexInv, NEW s \in Searchers, NEW p \in Paths, X!Read(s, p) PROVE IndexInv'
  <1> DEFINE old == search[s]
             new == [search[s] EXCEPT !.unread = @ \ {p}, !.stamp[p] = -1,
                                      !.made[p] = <<search[s].stamp[p], tree[p]>>]
  <1>1. /\ search' = [search EXCEPT ![s] = new] /\ UNCHANGED <<tree, stamps, index, touched>>
        /\ old.at = "read" /\ p \in old.unread /\ old.stamp[p] # -1
    BY DEF X!Read, X!Becomes, X!Untouched, X!At
  <1>2. <<old.stamp[p], tree[p]>> \in Stamped
    BY <1>1, SearchFacts DEF SearchState, Glance, IndexInv, IndexTypes, Stamped
  <1>3. /\ new \in SearchState /\ new.at = "read" /\ new.cached = old.cached
        /\ new.unread = old.unread \ {p}
        /\ new.stamp = [old.stamp EXCEPT ![p] = -1]
        /\ new.made = [old.made EXCEPT ![p] = <<old.stamp[p], tree[p]>>]
    BY <1>1, <1>2, SearchFacts DEF SearchState, Glance, Entries
  <1> HIDE DEF new
  <1>4. \A q \in Paths : /\ new.stamp[q] = IF q = p THEN -1 ELSE old.stamp[q]
                         /\ new.made[q] = IF q = p THEN <<old.stamp[p], tree[p]>> ELSE old.made[q]
    BY <1>3, SearchFacts DEF SearchState, Glance, Entries
  <1>5. Sound(p, <<old.stamp[p], tree[p]>>)
    BY SearchFacts DEF Sound
  <1>6. \A q \in Paths : Had(q, new.stamp[q]) /\ Sound(q, new.made[q])
    BY <1>4, <1>5, SearchFacts, IdleIsSound
  <1>7. ASSUME NEW q \in Paths \ touched[s] PROVE ReadSoFar(s, q)'
    <2>1. search'[s] = new
      BY <1>1 DEF IndexInv, IndexTypes
    <2>2. ReadSoFar(s, q)
      BY <1>1 DEF IndexInv, ReadIsSound
    <2>3. CASE q = p
      <3>1. tree[p] # 0 /\ old.stamp[p] = tree[p]
        BY <1>1, <2>2, <2>3 DEF ReadSoFar
      <3>2. new.made[p][2] = tree[p] /\ new.made[p] # X!NoEntry
        BY <1>4, <3>1 DEF X!NoEntry
      <3>3. p \notin new.unread
        BY <1>3
      <3>4. tree' = tree
        BY <1>1
      <3> QED BY <2>1, <2>3, <3>1, <3>2, <3>3, <3>4 DEF ReadSoFar
    <2>4. CASE q # p
      BY <1>1, <1>3, <1>4, <2>1, <2>2, <2>4 DEF ReadSoFar
    <2> QED BY <2>3, <2>4
  <1> HIDE DEF old
  <1> QED BY <1>1, <1>3, <1>6, <1>7, OneSearch, SearchFacts DEF IndexInv, IndexTypes, old

LEMMA StoreStep ==
  ASSUME IndexInv, NEW s \in Searchers, X!Store(s) PROVE IndexInv'
  <1> DEFINE new == [X!Idle EXCEPT !.at = "found", !.made = search[s].made]
  <1>1. /\ search' = [search EXCEPT ![s] = new] /\ UNCHANGED <<tree, stamps, touched>>
        /\ search[s].at = "read" /\ search[s].unread = {} /\ index' = search[s].made
    BY DEF X!Store, X!Becomes, X!Untouched, X!At
  <1>2. /\ new \in SearchState /\ new.at = "found" /\ new.cached = X!NoIndex
        /\ new.stamp = X!Unknown /\ new.made = search[s].made
    BY IdleIsSound, SearchFacts DEF SearchState
  <1> HIDE DEF new
  <1>3. \A p \in Paths : Had(p, new.stamp[p]) /\ Sound(p, new.made[p])
    BY <1>2, IdleIsSound, EmptyIsSound, SearchFacts
  <1>4. index' \in Entries /\ SoundIndex(index')
    BY <1>1, SearchFacts DEF SoundIndex, SearchState
  <1>5. \A p \in Paths \ touched[s] :
          IF tree[p] = 0 THEN new.made[p] = X!NoEntry
          ELSE new.made[p] # X!NoEntry /\ new.made[p][2] = tree[p]
    BY <1>1, <1>2 DEF IndexInv, ReadIsSound, ReadSoFar
  <1> QED BY <1>1, <1>2, <1>3, <1>4, <1>5, OneSearch, EmptyIsSound DEF IndexInv, IndexTypes

LEMMA EndStep ==
  ASSUME IndexInv, NEW s \in Searchers, X!GiveUp(s) \/ X!Answer(s) PROVE IndexInv'
  <1>1. /\ search' = [search EXCEPT ![s] = X!Idle] /\ UNCHANGED <<tree, stamps, index>>
        /\ touched' = [touched EXCEPT ![s] = {}]
    BY DEF X!GiveUp, X!Answer, X!Ends, X!Becomes
  <1>2. X!Idle \in SearchState /\ X!Idle.at = "idle"
    BY IdleIsSound DEF X!Idle
  <1>3. \A p \in Paths : Had(p, X!Idle.stamp[p]) /\ Sound(p, X!Idle.made[p])
    BY IdleIsSound, EmptyIsSound
  <1>4. /\ touched' \in [Searchers -> SUBSET Paths]
        /\ \A t \in Searchers : t # s => touched'[t] = touched[t]
    BY <1>1 DEF IndexInv, IndexTypes
  <1> QED BY <1>1, <1>2, <1>3, <1>4, OneSearch, SearchFacts, IdleIsSound, EmptyIsSound

LEMMA CancelStep ==
  ASSUME IndexInv, NEW s \in Searchers, X!Cancel(s) PROVE IndexInv'
  <1> DEFINE new == [search[s] EXCEPT !.cancelled = TRUE]
  <1>1. /\ search' = [search EXCEPT ![s] = new] /\ UNCHANGED <<tree, stamps, index, touched>>
        /\ search[s].at \in {"walk", "read"}
    BY DEF X!Cancel, X!Becomes, X!Untouched
  <1>2. /\ new \in SearchState /\ new.at = search[s].at /\ new.cached = search[s].cached
        /\ new.seen = search[s].seen /\ new.unread = search[s].unread
        /\ new.stamp = search[s].stamp /\ new.made = search[s].made
    BY SearchFacts DEF SearchState
  <1> HIDE DEF new
  <1>3. new.at = "read" => \A p \in Paths \ touched[s] : ReadSoFar(s, p)'
    <2>1. search'[s] = new
      BY <1>1 DEF IndexInv, IndexTypes
    <2> SUFFICES ASSUME new.at = "read", NEW p \in Paths \ touched[s] PROVE ReadSoFar(s, p)'
      OBVIOUS
    <2>2. ReadSoFar(s, p)
      BY <1>2 DEF IndexInv, ReadIsSound
    <2>3. tree' = tree
      BY <1>1
    <2> QED BY <1>2, <2>1, <2>2, <2>3 DEF ReadSoFar
  <1>4. new.at = "walk" => \A p \in Paths \ touched[s] : new.seen[p] \in {-1, tree[p]}
    BY <1>2 DEF IndexInv, SeenIsCurrent
  <1> QED BY <1>1, <1>2, <1>3, <1>4, OneSearch, SearchFacts DEF IndexInv, IndexTypes

\* A file that is written gets a stamp it has not had, so what is known of its
\* old text stays sound, and whoever searches is not held to it.
LEMMA TouchStep ==
  ASSUME IndexInv, NEW p \in Paths, X!Write(p) \/ X!Remove(p) PROVE IndexInv'
  <1> USE DEF IndexInv
  <1>1. /\ UNCHANGED <<index, search>>
        /\ touched' = [s \in Searchers |->
                         IF search[s].at = "idle" THEN touched[s] ELSE touched[s] \cup {p}]
        /\ \E new \in {0} \cup stamps[p] :
             /\ tree' = [tree EXCEPT ![p] = new]
             /\ stamps' = [stamps EXCEPT ![p] = @ \ {new}]
    <2>1. stamps = [stamps EXCEPT ![p] = @ \ {0}]
      BY DEF IndexTypes
    <2> QED BY <2>1 DEF X!Write, X!Remove, X!Touches, X!At
  <1>2. PICK new \in {0} \cup stamps[p] : /\ tree' = [tree EXCEPT ![p] = new]
                                          /\ stamps' = [stamps EXCEPT ![p] = @ \ {new}]
    BY <1>1
  <1>3. /\ \A q \in Paths : q # p => tree'[q] = tree[q] /\ stamps'[q] = stamps[q]
        /\ tree'[p] = new /\ stamps'[p] = stamps[p] \ {new} /\ new \in Nat
    BY <1>2 DEF IndexTypes
  <1>4. IndexTypes'
    BY <1>1, <1>2, <1>3 DEF IndexTypes
  <1>5. StampsAreSpent'
    BY <1>1, <1>3 DEF StampsAreSpent, Had
  <1>6. ASSUME NEW q \in Paths, NEW e, Sound(q, e) PROVE Sound(q, e)'
    BY <1>2, <1>3, <1>6 DEF Sound, Had
  <1>7. IndexesAreSound'
    BY <1>1, <1>6 DEF IndexesAreSound, SoundIndex
  <1>8. \A s \in Searchers : search[s].at # "idle" =>
          \A q \in Paths \ touched'[s] : q # p /\ q \in Paths \ touched[s] /\ tree'[q] = tree[q]
    BY <1>1, <1>3
  <1>9. SeenIsCurrent'
    BY <1>1, <1>8 DEF SeenIsCurrent
  <1>10. ReadIsSound'
    BY <1>1, <1>8 DEF ReadIsSound, ReadSoFar
  <1>11. X!FoundIsCurrent'
    BY <1>1, <1>8 DEF X!FoundIsCurrent, X!At
  <1> QED BY <1>4, <1>5, <1>7, <1>9, <1>10, <1>11

LEMMA IndexInit ==
  ASSUME DOMAIN Text \subseteq Nat \ {0}, X!Init
  PROVE  IndexInv
  <1> USE DEF X!Init
  <1>1. X!Idle \in SearchState /\ X!Idle.at = "idle" /\ X!Idle.stamp = X!Unknown
        /\ X!Idle.made = X!Empty /\ X!Idle.cached = X!NoIndex
    BY EmptyIsSound DEF X!Idle, SearchState
  <1>2. IndexTypes
    BY <1>1 DEF IndexTypes
  <1>3. StampsAreSpent
    BY <1>1, EmptyIsSound DEF StampsAreSpent, Had
  <1>4. IndexesAreSound
    BY <1>1, EmptyIsSound DEF IndexesAreSound
  <1>5. SeenIsCurrent /\ ReadIsSound /\ X!FoundIsCurrent
    BY <1>1 DEF SeenIsCurrent, ReadIsSound, X!FoundIsCurrent, X!At
  <1> QED BY <1>2, <1>3, <1>4, <1>5 DEF IndexInv

LEMMA IndexStep ==
  ASSUME IndexInv, [X!Next]_X!vars
  PROVE  IndexInv'
  <1>1. CASE UNCHANGED X!vars
    BY <1>1 DEF X!vars, IndexInv, IndexTypes, StampsAreSpent, IndexesAreSound, SeenIsCurrent,
                ReadIsSound, ReadSoFar, X!FoundIsCurrent, X!At, SoundIndex, Sound, Had
  <1>2. CASE X!Next
    BY <1>2, BeginStep, StatStep, UnchangedStep, CompareStep, StatAgainStep, ReadStep, StoreStep,
       EndStep, CancelStep, TouchStep DEF X!Next
  <1> QED BY <1>1, <1>2

-----------------------------------------------------------------------------
(* Reading a file page by page. *)

LineCount == R!Total \in Nat /\ DOMAIN sizes = 1 .. R!Total

ReadTypes ==
  /\ LineCount
  /\ text \in [1 .. R!Total -> {"old", "new"}]
  /\ view \in [1 .. R!Total -> {view[i] : i \in 1 .. R!Total}]
  /\ limit \in Nat
  /\ next \in Nat /\ next <= R!Total + 1

\* What the reader has of the file: everything before the line it goes on from.
ReadSoFarIsKnown ==
  ~changed /\ ~spoilt /\ next > 0 => R!Knows(1 .. (next - 1))

PagesInv == ReadTypes /\ ReadSoFarIsKnown /\ R!ReaderKnowsTheFile

Below == {p \in Nat \X Nat : p[1] < p[2]}

\* The order of the naturals is well founded.
LEMMA BelowIsWellFounded == IsWellFoundedOn(Below, Nat)
  <1>1. Below = OpToRel(<, Nat)
    BY DEF Below, OpToRel
  <1> QED BY <1>1, NatLessThanWellFounded

\* A non-empty set of naturals below a bound has a greatest element.
LEMMA MaxIsIn ==
  ASSUME NEW k \in Nat, NEW set, set \subseteq 0 .. k, set # {}
  PROVE  R!Max(set) \in set /\ \A n \in set : n <= R!Max(set)
  <1> DEFINE gaps == {k - n : n \in set}
  <1>0. \A n \in set : n \in Nat /\ n <= k
    OBVIOUS
  <1>1. gaps \subseteq Nat /\ gaps # {}
    <2>1. PICK n \in set : TRUE
      OBVIOUS
    <2>2. k - n \in gaps
      OBVIOUS
    <2>3. \A n1 \in set : k - n1 \in Nat
      BY <1>0
    <2> QED BY <2>2, <2>3
  <1>2. PICK x \in gaps : \A y \in gaps : <<y, x>> \notin Below
    <2> HIDE DEF gaps
    <2> QED BY <1>1, BelowIsWellFounded, WFMin
  <1>3. PICK m \in set : x = k - m
    BY <1>2
  <1>4. ASSUME NEW n \in set PROVE m >= n
    <2>1. k - n \in gaps /\ k - n \in Nat /\ x \in Nat
      BY <1>1, <1>2
    <2>2. ~(k - n < x)
      BY <1>2, <2>1 DEF Below
    <2>3. n \in Nat /\ m \in Nat
      BY <1>0
    <2> QED BY <1>3, <2>1, <2>2, <2>3
  <1>5. \E z \in set : \A n \in set : z >= n
    BY <1>4
  <1>6. R!Max(set) \in set /\ \A n \in set : R!Max(set) >= n
    BY <1>5 DEF R!Max
  <1>7. \A n \in set : n \in Nat /\ R!Max(set) \in Nat
    BY <1>0, <1>6
  <1> QED BY <1>6, <1>7

\* A page ends within the file, and at its end when nothing is cut.
LEMMA PageEnds ==
  ASSUME LineCount, limit \in Nat, next \in Nat \ {0}, next <= R!Total + 1, MaxLines \in Nat
  PROVE  /\ R!Start = next - 1
         /\ R!End \in R!Start .. R!Total
         /\ R!TruncatedEnd \in R!Start .. R!End
         /\ ~R!Truncated => R!TruncatedEnd = R!End
         /\ limit = 0 => R!End = R!Total
  <1> USE DEF LineCount
  <1>1. R!Start = next - 1 /\ R!Start \in Nat /\ R!Start <= R!Total
    BY DEF R!Start, R!AtMost
  <1>2. R!End \in R!Start .. R!Total /\ (limit = 0 => R!End = R!Total)
    BY <1>1 DEF R!End, R!AtMost
  <1> DEFINE k == R!End - R!Start
             fits == R!Fitting(R!Start + 1, R!End)
             least == R!AtMost(1, k)
             set == fits \cup {least}
  <1>3. k \in Nat
    BY <1>1, <1>2
  <1>4. fits \subseteq 1 .. k /\ least \in 0 .. k
    BY <1>1, <1>2 DEF R!Fitting, R!AtMost
  <1>5. R!Max(set) \in 0 .. k /\ \A n \in set : n <= R!Max(set)
    <2>1. set \subseteq 0 .. k /\ set # {}
      BY <1>3, <1>4
    <2> HIDE DEF set
    <2> QED BY <1>3, <2>1, MaxIsIn
  <1>6. R!TruncatedEnd = IF k > MaxLines THEN R!Start + MaxLines ELSE R!Start + R!Max(set)
    BY DEF R!TruncatedEnd
  <1>7. R!TruncatedEnd \in R!Start .. R!End
    <2> HIDE DEF set
    <2> QED BY <1>1, <1>2, <1>3, <1>5, <1>6
  <1>8. ASSUME ~R!Truncated PROVE R!TruncatedEnd = R!End
    <2>1. ~(k > MaxLines) /\ R!Within(R!Start + 1, R!End)
      BY <1>8 DEF R!Truncated
    <2>2. k \in set
      <3>1. CASE k = 0
        BY <1>4, <3>1
      <3>2. CASE k # 0
        <4>1. R!Start + 1 + k - 1 = R!End /\ k \in 1 .. (R!End - (R!Start + 1) + 1)
          BY <1>1, <1>2, <1>3, <3>2
        <4> QED BY <2>1, <4>1 DEF R!Fitting
      <3> QED BY <3>1, <3>2
    <2>3. R!Max(set) = k
      <3> HIDE DEF set
      <3>1. k <= R!Max(set)
        BY <1>5, <2>2
      <3> QED BY <1>3, <1>5, <3>1
    <2> QED BY <1>1, <1>2, <1>6, <2>1, <2>3
  <1> QED BY <1>1, <1>2, <1>7, <1>8

\* A page that fits leaves the reader with its lines as they are.
LEMMA PageIsLearnt ==
  ASSUME ReadTypes, NEW page, page.from \in Nat \ {0}, page.to \in Nat, page.to <= R!Total,
         view' = R!Learnt(R!Words(page))
  PROVE  /\ view' \in [1 .. R!Total -> {view'[i] : i \in 1 .. R!Total}]
         /\ \A i \in 1 .. R!Total : i \in page.from .. page.to => view'[i] = text[i]
         /\ \A i \in 1 .. R!Total : i \notin page.from .. page.to => view'[i] = view[i]
  BY DEF ReadTypes, LineCount, R!Learnt, R!Words

LEMMA PagesInit ==
  ASSUME Limits \subseteq Nat,
         \A lines \in Files : Len(lines) \in Nat /\ DOMAIN lines = 1 .. Len(lines),
         R!Init
  PROVE  PagesInv
  <1>1. /\ sizes \in Files /\ limit \in Nat /\ next = 1 /\ ~changed /\ ~spoilt
        /\ text = [i \in DOMAIN sizes |-> "old"] /\ view = [i \in DOMAIN sizes |-> "unread"]
    BY DEF R!Init
  <1>2. R!Total \in Nat /\ DOMAIN sizes = 1 .. R!Total
    BY <1>1 DEF R!Total
  <1>3. text \in [1 .. R!Total -> {"old", "new"}]
    BY <1>1, <1>2
  <1>4. view \in [1 .. R!Total -> {view[i] : i \in 1 .. R!Total}]
    BY <1>1, <1>2
  <1>5. limit \in Nat /\ next \in Nat /\ next <= R!Total + 1
    BY <1>1, <1>2
  <1>6. ReadSoFarIsKnown
    <2>1. 1 .. (next - 1) = {}
      BY <1>1
    <2> QED BY <2>1 DEF ReadSoFarIsKnown, R!Knows
  <1>7. R!ReaderKnowsTheFile
    BY <1>1 DEF R!ReaderKnowsTheFile
  <1> QED BY <1>2, <1>3, <1>4, <1>5, <1>6, <1>7 DEF PagesInv, ReadTypes, LineCount

\* A page is shown, or the answer that showed it before is still true.
LEMMA PageGoesOn ==
  ASSUME PagesInv, NEW page, page.from = next, next > 0,
         page.to \in (next - 1) .. R!Total,
         page.next = 0 \/ page.next = page.to + 1,
         page.next = 0 => page.to >= IF R!IsLarge THEN R!Total - 1 ELSE R!Total,
         view' = IF R!Fits(page) THEN R!Learnt(R!Words(page)) ELSE view,
         spoilt' = (spoilt \/ ~R!Fits(page)), next' = page.next,
         UNCHANGED <<sizes, text, limit, changed>>
  PROVE  PagesInv'
  <1> USE DEF PagesInv
  <1>1. R!Total' = R!Total /\ R!IsLarge' = R!IsLarge /\ LineCount'
    BY DEF R!Total, R!IsLarge, R!Bytes, ReadTypes, LineCount
  <1>2. page.from \in Nat \ {0} /\ page.to \in Nat /\ page.to <= R!Total /\ R!Total \in Nat
    BY DEF ReadTypes, LineCount
  <1>3. ReadTypes'
    <2>1. view' \in [1 .. R!Total -> {view'[i] : i \in 1 .. R!Total}]
      BY <1>2, PageIsLearnt DEF ReadTypes
    <2>2. next' \in Nat /\ next' <= R!Total + 1
      BY <1>2
    <2> QED BY <1>1, <2>1, <2>2 DEF ReadTypes
  <1>4. ASSUME ~changed', ~spoilt'
        PROVE  \A i \in 1 .. page.to : view'[i] = text[i]
    <2>1. R!Fits(page) /\ R!Knows(1 .. (next - 1))
      BY <1>4 DEF ReadSoFarIsKnown
    <2>2. ASSUME NEW i \in 1 .. page.to PROVE view'[i] = text[i]
      <3>1. i \in 1 .. R!Total
        BY <1>2
      <3>2. CASE i \in 1 .. (next - 1)
        <4>1. view[i] = text[i]
          BY <2>1, <3>2 DEF R!Knows
        <4>2. i \notin page.from .. page.to
          BY <1>2, <3>2
        <4> QED BY <1>2, <2>1, <3>1, <4>1, <4>2, PageIsLearnt
      <3>3. CASE i \notin 1 .. (next - 1)
        <4>1. i \in page.from .. page.to
          BY <1>2, <3>3
        <4> QED BY <1>2, <2>1, <3>1, <4>1, PageIsLearnt
      <3> QED BY <3>2, <3>3
    <2> QED BY <2>2
  <1>5. ReadSoFarIsKnown'
    <2> SUFFICES ASSUME ~changed', ~spoilt', next' > 0
                 PROVE  \A i \in 1 .. (next' - 1) : view'[i] = text[i]
      BY DEF ReadSoFarIsKnown, R!Knows
    <2>1. next' - 1 = page.to
      BY <1>2
    <2> QED BY <1>4, <2>1
  <1>6. R!ReaderKnowsTheFile'
    <2> SUFFICES ASSUME ~changed', ~spoilt', next' = 0,
                        NEW i \in DOMAIN text \ (IF R!IsLarge THEN {R!Total} ELSE {})
                 PROVE  view'[i] = text[i]
      BY <1>1 DEF R!ReaderKnowsTheFile, R!Knows
    <2>1. i \in 1 .. R!Total
      BY DEF ReadTypes
    <2>2. i \in 1 .. page.to
      BY <1>2, <2>1
    <2> QED BY <1>4, <2>2
  <1> QED BY <1>3, <1>5, <1>6

LEMMA ReadWholeStep ==
  ASSUME PagesInv, MaxLines \in Nat, R!ReadWhole PROVE PagesInv'
  <1> DEFINE page == R!Page
  <1>1. /\ next > 0 /\ ~R!IsLarge /\ UNCHANGED <<sizes, text, limit, changed>>
        /\ view' = IF R!Fits(page) THEN R!Learnt(R!Words(page)) ELSE view
        /\ spoilt' = (spoilt \/ ~R!Fits(page)) /\ next' = page.next
    BY DEF R!ReadWhole, R!Unchanged, R!Shows, R!Repeats, R!Answer
  <1>2. LineCount /\ limit \in Nat /\ next \in Nat \ {0} /\ next <= R!Total + 1 /\ R!Total \in Nat
    BY <1>1 DEF PagesInv, ReadTypes, LineCount
  <1>3. /\ R!Start = next - 1 /\ R!End \in R!Start .. R!Total
        /\ R!TruncatedEnd \in R!Start .. R!End
        /\ ~R!Truncated => R!TruncatedEnd = R!End
        /\ limit = 0 => R!End = R!Total
    BY <1>2, PageEnds
  <1>4. /\ page.from = R!Start + 1 /\ page.to = R!TruncatedEnd
        /\ page.next = IF R!Truncated \/ (limit > 0 /\ R!TruncatedEnd < R!Total)
                       THEN R!TruncatedEnd + 1 ELSE 0
    BY DEF R!Page
  <1> HIDE DEF page
  <1>5. page.from = next /\ page.to \in (next - 1) .. R!Total
    BY <1>2, <1>3, <1>4
  <1>6. /\ page.next = 0 \/ page.next = page.to + 1
        /\ page.next = 0 => page.to >= R!Total
    BY <1>2, <1>3, <1>4
  <1> QED BY <1>1, <1>5, <1>6, PageGoesOn

LEMMA ReadStreamingStep ==
  ASSUME PagesInv, R!ReadStreaming PROVE PagesInv'
  <1> DEFINE page == R!StreamedPage
  <1>1. /\ next > 0 /\ R!IsLarge /\ limit > 0 /\ UNCHANGED <<sizes, text, limit, changed>>
        /\ view' = IF R!Fits(page) THEN R!Learnt(R!Words(page)) ELSE view
        /\ spoilt' = (spoilt \/ ~R!Fits(page)) /\ next' = page.next
    BY DEF R!ReadStreaming, R!Shows
  <1>2. limit \in Nat \ {0} /\ next \in Nat \ {0} /\ next <= R!Total + 1 /\ R!Total \in Nat
    BY <1>1 DEF PagesInv, ReadTypes, LineCount
  <1>3. R!End = IF next - 1 + limit < R!Total THEN next - 1 + limit ELSE R!Total
    BY <1>2 DEF R!End, R!Start, R!AtMost
  <1>4. /\ page.from = next /\ page.to = R!End
        /\ page.next = IF R!Remaining > 0 THEN R!End + 1 ELSE 0
    BY DEF R!StreamedPage
  <1> HIDE DEF page
  <1>5. page.from = next /\ page.to \in (next - 1) .. R!Total
    BY <1>2, <1>3, <1>4
  <1>6. /\ page.next = 0 \/ page.next = page.to + 1
        /\ page.next = 0 => page.to >= R!Total - 1
    BY <1>2, <1>3, <1>4 DEF R!Remaining
  <1> QED BY <1>1, <1>5, <1>6, PageGoesOn

LEMMA OtherReadSteps ==
  ASSUME PagesInv, Limits \subseteq Nat,
         R!TooLarge \/ R!ReadAgain \/ \E i \in DOMAIN text : R!Rewrite(i)
  PROVE  PagesInv'
  <1> USE DEF PagesInv, ReadTypes, LineCount, ReadSoFarIsKnown, R!ReaderKnowsTheFile, R!Knows
  <1>0. sizes' = sizes /\ R!Total' = R!Total
    BY DEF R!TooLarge, R!ReadAgain, R!Rewrite, R!Total
  <1>1. CASE R!TooLarge
    BY <1>0, <1>1 DEF R!TooLarge
  <1>2. CASE R!ReadAgain
    BY <1>0, <1>2 DEF R!ReadAgain
  <1>3. ASSUME NEW i \in DOMAIN text, R!Rewrite(i) PROVE PagesInv'
    BY <1>0, <1>3 DEF R!Rewrite
  <1> QED BY <1>1, <1>2, <1>3

LEMMA PagesStep ==
  ASSUME PagesInv, Limits \subseteq Nat, MaxLines \in Nat, [R!Next]_R!vars
  PROVE  PagesInv'
  <1>1. CASE UNCHANGED R!vars
    <2>1. R!Total' = R!Total /\ R!IsLarge' = R!IsLarge
      BY <1>1 DEF R!vars, R!Total, R!IsLarge, R!Bytes
    <2> QED BY <1>1, <2>1 DEF R!vars, PagesInv, ReadTypes, LineCount, ReadSoFarIsKnown,
            R!ReaderKnowsTheFile, R!Knows
  <1>2. CASE R!Next
    BY <1>2, ReadWholeStep, ReadStreamingStep, OtherReadSteps DEF R!Next
  <1> QED BY <1>1, <1>2

-----------------------------------------------------------------------------
(* The stores of one machine, as MCStores puts them side by side.            *)

StoresConstants ==
  /\ MaxDeletes \in Nat /\ F!Nobody \notin Procs
  /\ C!NoLogin \notin Logins /\ C!Nobody \notin Workers
  /\ Limits \subseteq Nat /\ MaxLines \in Nat

StoresInv ==
  /\ part \in Parts
  /\ FilesInv /\ KeysInv /\ CallsInv /\ PagesInv
  /\ part = "searches" => IndexInv

\* Each list of calls names the file by one of its names.
LEMMA ScenesAreCalls ==
  ASSUME NEW scene \in Scenes
  PROVE  /\ Len(scene.calls) \in Nat /\ DOMAIN scene.calls = 1 .. Len(scene.calls)
         /\ \A c \in DOMAIN scene.calls : scene.calls[c].path \in Name
  <1>1. \A path, list : EditCall(path, list).path = path
    BY DEF EditCall
  <1>2. \A path, content : WriteCall(path, content).path = path
    BY DEF WriteCall
  <1>3. \A content, list : Scene(content, list).calls = list
    BY DEF Scene
  <1>4. scene \in OneEdit \/ scene \in TwoEdits \/ scene \in ThreeCalls
    BY DEF Scenes
  <1>5. CASE scene \in OneEdit
    <2>1. PICK t \in ShortTexts, o \in Named, n \in {<<>>, <<"b", "'">>, <<"b", "nl">>} :
            scene = Scene(t, << EditCall("name", <<Edit(o, n)>>) >>)
      BY <1>5, SMT DEF OneEdit
    <2> QED BY <1>1, <1>3, <2>1 DEF Name
  <1>6. CASE scene \in TwoEdits
    <2>1. PICK t \in Forms, o \in Named, p \in AlsoNamed, n \in {<<>>, <<"c">>} :
            scene = Scene(t, << EditCall("name", <<Edit(o, <<"c", "'">>), Edit(p, n)>>) >>)
      BY <1>6, SMT DEF TwoEdits
    <2> QED BY <1>1, <1>3, <2>1 DEF Name
  <1>7. CASE scene \in ThreeCalls
    <2>1. \A first \in FirstCalls : first.path = "name"
      BY <1>1, <1>2 DEF FirstCalls
    <2>2. \A third \in ThirdCalls : third.path = "link"
      BY <1>1, <1>2 DEF ThirdCalls
    <2>3. PICK t \in Starts, p \in {"name", "link"}, first \in FirstCalls, third \in ThirdCalls :
            scene = Scene(t, <<first, EditCall(p, <<Edit(<<"b">>, <<"b", "b">>)>>), third>>)
      BY <1>7, SMT DEF ThreeCalls
    <2> QED BY <1>1, <1>3, <2>1, <2>2, <2>3 DEF Name
  <1> QED BY <1>4, <1>5, <1>6, <1>7

\* A file is a sequence of lines.
LEMMA FilesHaveLines ==
  ASSUME NEW lines \in Files
  PROVE  Len(lines) \in Nat /\ DOMAIN lines = 1 .. Len(lines)
  <1>1. PICK n \in 0 .. MaxLineCount : lines \in [1 .. n -> {1, 5}]
    BY DEF Files
  <1>2. lines \in Seq({1, 5})
    BY <1>1
  <1> QED BY <1>2

\* Each part starts in its own invariant,
LEMMA StoresInit ==
  ASSUME StoresConstants, Init
  PROVE  StoresInv
  <1>1. F!Init /\ C!Init /\ E!Init /\ R!Init /\ part \in Parts /\ (part = "searches" => X!Init)
    BY DEF Init
  <1>2. FilesInv /\ KeysInv
    BY <1>1, FilesInit, KeysInit DEF StoresConstants
  <1>3. CallsInv
    BY <1>1, ScenesAreCalls, CallsInit
  <1>4. PagesInv
    BY <1>1, FilesHaveLines, PagesInit DEF StoresConstants
  <1>5. DOMAIN Text \subseteq Nat \ {0}
    BY DEF Text
  <1> QED BY <1>1, <1>2, <1>3, <1>4, <1>5, IndexInit DEF StoresInv

\* One part moves, and the others do not.
LEMMA StoresStep ==
  ASSUME StoresInv, StoresConstants,
         [Next]_<<part, files, credentials, settings, edits, reads, searches, lists>>
  PROVE  StoresInv'
  <1> USE DEF files, credentials, edits, reads, searches
  <1>1. part' = part
    BY DEF Next
  <1>2. FilesInv'
    <2>1. [F!Next]_F!vars
      BY DEF Next, FilesStep, CredentialsStep, SettingsStep, EditsStep, ReadsStep, SearchesStep,
             ListsStep, F!vars
    <2> QED BY <2>1, FilesInvIsKept DEF StoresInv, StoresConstants
  <1>3. KeysInv'
    <2>1. [C!Next]_C!vars
      BY DEF Next, FilesStep, CredentialsStep, SettingsStep, EditsStep, ReadsStep, SearchesStep,
             ListsStep, C!vars, C!disk, C!locks, C!server, C!ghosts
    <2> QED BY <2>1, KeysStep DEF StoresInv, StoresConstants
  <1>4. CallsInv'
    <2>1. [E!Next]_E!vars
      BY DEF Next, FilesStep, CredentialsStep, SettingsStep, EditsStep, ReadsStep, SearchesStep,
             ListsStep, E!vars, E!locks
    <2> QED BY <2>1, CallsStep DEF StoresInv
  <1>5. PagesInv'
    <2>1. [R!Next]_R!vars
      BY DEF Next, FilesStep, CredentialsStep, SettingsStep, EditsStep, ReadsStep, SearchesStep,
             ListsStep, R!vars
    <2> QED BY <2>1, PagesStep DEF StoresInv, StoresConstants
  <1>6. part = "searches" => IndexInv'
    <2>1. [X!Next]_X!vars
      BY DEF Next, FilesStep, CredentialsStep, SettingsStep, EditsStep, ReadsStep, SearchesStep,
             ListsStep, X!vars
    <2> QED BY <2>1, IndexStep DEF StoresInv
  <1> QED BY <1>1, <1>2, <1>3, <1>4, <1>5, <1>6 DEF StoresInv

\* and so all of them hold always.
LEMMA StoresAlways ==
  ASSUME StoresConstants
  PROVE  Spec => []StoresInv
  BY StoresInit, StoresStep, PTL DEF Spec

\* A model that goes on where each page says has the file as it is, whatever
\* the limit, the cuts and the repetitions (tools/file/read.rs).
THEOREM ReaderAlwaysKnowsTheFile ==
  ASSUME StoresConstants
  PROVE  Spec => []ReaderKnowsTheFile
  <1>1. StoresInv => ReaderKnowsTheFile
    BY DEF StoresInv, PagesInv, ReaderKnowsTheFile
  <1> QED BY <1>1, StoresAlways, PTL

\* What a search finds of a file nobody wrote since it began is what the file
\* says, whichever searches refresh the index at the same time (search index).
THEOREM FoundIsAlwaysCurrent ==
  ASSUME StoresConstants
  PROVE  Spec => []FoundIsCurrent
  <1>1. StoresInv => FoundIsCurrent
    BY DEF StoresInv, IndexInv, FoundIsCurrent
  <1> QED BY <1>1, StoresAlways, PTL

\* No edit of a shared file is lost while the sessions of several processes
\* change it under its lock, a replaced transcript has its backup whole unless a
\* process died while it made it, no tool call overwrites a change it has not
\* read, and who reads or searches the files misses none (session metadata and
\* variables storage, migration, tools/file/mutex.rs, read.rs, search/index.rs).
THEOREM EditsAreAlwaysKept ==
  ASSUME StoresConstants
  PROVE  Spec => []EditsAreKept
  <1>1. StoresInv => EditsAreKept
    BY DEF StoresInv, FilesInv, CallsInv, SeenIsThere, PagesInv, IndexInv, EditsAreKept,
           E!NoChangeIsLost, ReaderKnowsTheFile, FoundIsCurrent
  <1> QED BY <1>1, StoresAlways, PTL

\* A refused key is replaced by one refresh, and the cached key is that of the
\* login, whoever asks, logs in or out at the same time (auth.rs, cloud keys).
THEOREM KeysAlwaysMatchLogin ==
  ASSUME StoresConstants
  PROVE  Spec => []KeysMatchLogin
  <1>1. StoresInv => KeysMatchLogin
    BY DEF StoresInv, KeysInv, KeysMatchLogin
  <1> QED BY <1>1, StoresAlways, PTL
=============================================================================
