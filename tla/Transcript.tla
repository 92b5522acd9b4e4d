----------------------------- MODULE Transcript -----------------------------
(***************************************************************************)
(* The transcript of one session: the append-only file of entry batches    *)
(* (app, storage/fs/storage.rs), the Session objects that several          *)
(* processes and requests hold on it at once (sessions/session.rs), and    *)
(* the three kinds of writer: a run that flushes its turns and compacts    *)
(* automatically (agent/run/runtime.rs), a manual compaction               *)
(* (compact/orchestrator.rs), and `/clear` and the statistics that are     *)
(* written outside a turn.                                                 *)
(*                                                                         *)
(* The file is read and written under an exclusive file lock, and a        *)
(* Session is locked from the start of a commit to its end: one action is  *)
(* one section under the file lock.  An item stands for a message; the     *)
(* context of a conversation is the set of items it holds or summarises,   *)
(* so a compaction is told by what it covers.                              *)
(***************************************************************************)
EXTENDS Naturals, Sequences, FiniteSetsExt

CONSTANTS
  Handle,       (* Session objects on this session.                          *)
  Payload,      (* Request payloads: system prompt and tool schemas.         *)
  NoCall,       (* A batch without an LlmCallStarted record ...              *)
  Same,         (* ... and one whose payload was stripped as a repeat.       *)
  MaxRetries,   (* MAX_CONFLICT_RETRIES, 8 in the code.                      *)
  MaxItems,     (* Messages produced in all: bounds the model.               *)
  MaxBatches    (* Commits begin only below this length: bounds the model.   *)

ASSUME RetriesAreNatural == MaxRetries \in Nat

ASSUME PayloadsAreDistinct == NoCall \notin Payload /\ Same \notin Payload /\ NoCall # Same

VARIABLES
  log,     (* The complete batches of transcript.jsonl.                     *)
  tail,    (* What follows them: nothing, or part of a batch.               *)
  mem,     (* SessionState of each handle.                                  *)
  op,      (* The commit in progress on each handle.                        *)
  run,     (* drive_one_turn, or the compaction plan, on each handle.       *)
  made     (* How many messages the runs have produced.                     *)

vars == <<log, tail, mem, op, run, made>>

Item == Nat

Batch ==
  [by : Handle, first : Nat, size : Nat, kind : {"turn", "stats", "compact", "clear"},
   items : SUBSET Item, covers : SUBSET Item, call : Payload \cup {NoCall, Same},
   sent : Payload \cup {NoCall}]

SessionState ==
  [open : BOOLEAN, next : Nat, view : SUBSET Item, seed : Nat,
   hash : Payload \cup {NoCall}]

Commit ==
  [stage : {"idle", "append", "reload"}, kind : {"turn", "stats", "compact", "clear"},
   items : SUBSET Item, covers : SUBSET Item, call : Payload \cup {NoCall, Same},
   sent : Payload \cup {NoCall}, expected : Nat, tries : Nat]

Run ==
  [phase : {"none", "planned", "running", "flushing", "precompact", "compacting",
            "final", "done", "failed"},
   known : SUBSET Item, expected : Nat, rebased : BOOLEAN,
   pending : SUBSET Item]

Closed == [open |-> FALSE, next |-> 0, view |-> {}, seed |-> 0, hash |-> NoCall]
NoCommit == [stage |-> "idle", kind |-> "stats", items |-> {}, covers |-> {},
             call |-> NoCall, sent |-> NoCall, expected |-> 0, tries |-> 0]
NoRun == [phase |-> "none", known |-> {}, expected |-> 0, rebased |-> FALSE,
          pending |-> {}]

Init ==
  /\ log = <<>>
  /\ tail = "whole"
  /\ mem = [h \in Handle |-> Closed]
  /\ op = [h \in Handle |-> NoCommit]
  /\ run = [h \in Handle |-> NoRun]
  /\ made = 0

-----------------------------------------------------------------------------
(***************************************************************************)
(* Reading the file.                                                       *)
(***************************************************************************)

\* read_current_tail_seq.
LastSeq == IF log = <<>> THEN 0 ELSE log[Len(log)].first + log[Len(log)].size - 1

Upto(n)     == {i \in DOMAIN log : log[i].first <= n}
Controls(n) == {i \in Upto(n) : log[i].kind \in {"compact", "clear"}}

\* The index of the latest control point among the batches up to n.
Base(n) == IF Controls(n) = {} THEN 0 ELSE Max(Controls(n))

\* resolve_context_items: what the latest control point keeps, and the context
\* items after it.  Statistics are not context items.
Context(n) ==
  (IF Base(n) = 0 THEN {} ELSE log[Base(n)].covers)
    \cup UNION {log[i].items : i \in {j \in Upto(n) : j > Base(n)}}

\* The compaction state comes from the latest control point, if it is a compact.
SeedAt(n) ==
  IF Base(n) # 0 /\ log[Base(n)].kind = "compact" THEN log[Base(n)].first ELSE 0

-----------------------------------------------------------------------------
(***************************************************************************)
(* commit_items.                                                           *)
(***************************************************************************)

\* dedupe_llm_request_payload, against this session's own last call.
Stripped(h, payload) == payload # NoCall /\ mem[h].hash = payload

Begin(h, kind, items, covers, expected, payload) ==
  /\ mem[h].open
  /\ op[h].stage = "idle"
  /\ op' = [op EXCEPT ![h] =
              [stage |-> "append", kind |-> kind, items |-> items, covers |-> covers,
               call |-> IF Stripped(h, payload) THEN Same ELSE payload, sent |-> payload,
               expected |-> expected, tries |-> 0]]

NewBatch(h) ==
  LET o == op[h]
  IN  [by |-> h, first |-> mem[h].next + 1,
       size |-> IF o.kind = "turn" THEN Cardinality(o.items) ELSE 1,
       kind |-> o.kind, items |-> o.items, covers |-> o.covers, call |-> o.call,
       sent |-> o.sent]

\* A compaction whose plan is older than the session's own state.
Stale(h) == op[h].kind = "compact" /\ mem[h].next # op[h].expected

Accepted(h) == LastSeq = mem[h].next

\* The in-memory context, seed and payload hash after an accepted batch.
Published(h) ==
  LET b == NewBatch(h)
  IN  [mem[h] EXCEPT !.next = @ + b.size,
                     !.view = IF b.kind \in {"compact", "clear"} THEN b.covers
                                                                 ELSE @ \cup b.items,
                     !.seed = IF b.kind = "compact" THEN b.first
                              ELSE IF b.kind = "clear" THEN 0 ELSE @,
                     !.hash = IF b.sent = NoCall THEN @ ELSE b.sent]

\* Mutant: the flag only remembers the latest flush.
Rebased_Latest(h, next, size) == next # run[h].expected + size

\* transcript_rebased: another writer's batch preceded one of this run's.
Rebased(h, next, size) == run[h].rebased \/ next # run[h].expected + size

StillPending(h) == run[h].pending \ op[h].items

\* What the caller does with the accepted commit.
Accept(h) ==
  LET b == NewBatch(h)
      r == run[h]
      next == mem[h].next + b.size
  IN  run' = [run EXCEPT ![h] =
        CASE b.kind = "turn" ->
               [r EXCEPT !.rebased = Rebased(h, next, b.size), !.expected = next,
                         !.pending = StillPending(h),
                         !.phase = CASE r.phase = "precompact" -> "compacting"
                                     [] r.phase = "final" -> "done"
                                     [] OTHER -> "running"]
          [] b.kind = "compact" /\ r.phase = "compacting" ->
               [r EXCEPT !.expected = r.expected + 1, !.phase = "running"]
          [] b.kind = "stats" /\ r.phase = "planned" -> r
          [] OTHER -> NoRun]

\* The error reaches the caller: a run is aborted and flushes nothing more.
Refuse(h) ==
  /\ op' = [op EXCEPT ![h] = NoCommit]
  /\ run' = [run EXCEPT ![h] =
               CASE @.phase \in {"flushing", "precompact", "compacting", "final"} ->
                      [NoRun EXCEPT !.phase = "failed"]
                 [] op[h].kind = "stats" /\ @.phase = "planned" -> @
                 [] OTHER -> NoRun]

\* Mutant: a partial batch is not cut off before the next one is written.
Repaired_Not == tail

\* truncate_incomplete_tail runs under the lock before every read and append.
Repaired == IF tail = "torn" THEN "whole" ELSE tail

CommitAppends(h) ==
  /\ op[h].stage = "append"
  /\ ~Stale(h)
  /\ Accepted(h)
  /\ tail' = IF Repaired = "torn" THEN "buried" ELSE Repaired
  /\ log' = Append(log, NewBatch(h))
  /\ mem' = [mem EXCEPT ![h] = Published(h)]
  /\ op' = [op EXCEPT ![h] = NoCommit]
  /\ Accept(h)
  /\ UNCHANGED made

CommitConflicts(h) ==
  /\ op[h].stage = "append"
  /\ ~Stale(h)
  /\ ~Accepted(h)
  /\ tail' = Repaired
  /\ op' = [op EXCEPT ![h].stage = "reload"]
  /\ UNCHANGED <<log, mem, run, made>>

\* The plan was stale before the storage was asked.
CommitIsStale(h) ==
  /\ op[h].stage = "append"
  /\ Stale(h)
  /\ Refuse(h)
  /\ UNCHANGED <<log, tail, mem, made>>

\* The write failed half-way: the batch is not there, its first bytes may be.
CommitFails(h) ==
  /\ op[h].stage = "append"
  /\ ~Stale(h)
  /\ Accepted(h)
  /\ tail' \in {Repaired, "torn"}
  /\ Refuse(h)
  /\ UNCHANGED <<log, mem, made>>

\* Mutant: the rebase forgets the compaction state of the other writer.
Reloaded_KeepsSeed(h) ==
  [mem[h] EXCEPT !.next = LastSeq, !.view = Context(LastSeq)]

\* The session's state read again from the file; the payload hash is kept.
Reloaded(h) ==
  [mem[h] EXCEPT !.next = LastSeq, !.view = Context(LastSeq), !.seed = SeedAt(LastSeq)]

\* After a conflict everything but a compaction is rebased and tried again.
CommitRebases(h) ==
  /\ op[h].stage = "reload"
  /\ op[h].kind # "compact"
  /\ op[h].tries < MaxRetries
  /\ tail' = Repaired
  /\ mem' = [mem EXCEPT ![h] = Reloaded(h)]
  /\ op' = [op EXCEPT ![h].stage = "append", ![h].tries = @ + 1]
  /\ UNCHANGED <<log, run, made>>

CommitGivesUp(h) ==
  /\ op[h].stage = "reload"
  /\ op[h].kind = "compact" \/ op[h].tries = MaxRetries
  /\ tail' = Repaired
  /\ Refuse(h)
  /\ UNCHANGED <<log, mem, made>>

-----------------------------------------------------------------------------
(***************************************************************************)
(* The writers.                                                            *)
(***************************************************************************)

Room == Len(log) < MaxBatches

Open(h) ==
  /\ ~mem[h].open
  /\ tail' = Repaired
  /\ mem' = [mem EXCEPT ![h] = [open |-> TRUE, next |-> LastSeq, view |-> Context(LastSeq),
                                seed |-> SeedAt(LastSeq), hash |-> NoCall]]
  /\ UNCHANGED <<log, op, run, made>>

\* The process that holds the handle dies, perhaps in the middle of a write.
Crash(h) ==
  /\ mem[h].open
  /\ mem' = [mem EXCEPT ![h] = Closed]
  /\ op' = [op EXCEPT ![h] = NoCommit]
  /\ run' = [run EXCEPT ![h] = NoRun]
  /\ \/ tail' = tail
     \/ op[h].stage = "append" /\ ~Stale(h) /\ Accepted(h) /\ tail' = "torn"
  /\ UNCHANGED <<log, made>>

\* RunFinished, a model change, a shared link: a Session is shared, so this may
\* happen on the handle a compaction is being planned from.
WriteStats(h) ==
  /\ Room
  /\ run[h].phase \in {"none", "planned", "done", "failed"}
  /\ Begin(h, "stats", {}, {}, 0, NoCall)
  /\ UNCHANGED <<log, tail, mem, run, made>>

WriteClear(h) ==
  /\ Room
  /\ run[h].phase = "none"
  /\ Begin(h, "clear", {}, {}, 0, NoCall)
  /\ UNCHANGED <<log, tail, mem, run, made>>

\* compaction_snapshot: the plan is built from here while others may write.
PlanCompaction(h) ==
  /\ Room
  /\ mem[h].open
  /\ op[h].stage = "idle"
  /\ run[h].phase = "none"
  /\ mem[h].view # {}
  /\ run' = [run EXCEPT ![h] = [NoRun EXCEPT !.phase = "planned", !.known = mem[h].view,
                                             !.expected = mem[h].next]]
  /\ UNCHANGED <<log, tail, mem, op, made>>

WriteCompaction(h) ==
  /\ run[h].phase = "planned"
  /\ Begin(h, "compact", {}, run[h].known, run[h].expected, NoCall)
  /\ UNCHANGED <<log, tail, mem, run, made>>

PlanDropped(h) ==
  /\ run[h].phase = "planned"
  /\ op[h].stage = "idle"
  /\ run' = [run EXCEPT ![h] = NoRun]
  /\ UNCHANGED <<log, tail, mem, op, made>>

\* context_snapshot: the run's history and the generation it was read at.
RunStarts(h) ==
  /\ Room
  /\ mem[h].open
  /\ op[h].stage = "idle"
  /\ run[h].phase = "none"
  /\ run' = [run EXCEPT ![h] =
               [phase |-> "running", known |-> mem[h].view, expected |-> mem[h].next,
                rebased |-> FALSE, pending |-> {}]]
  /\ UNCHANGED <<log, tail, mem, op, made>>

RunProduces(h) ==
  /\ run[h].phase = "running"
  /\ made < MaxItems
  /\ made' = made + 1
  /\ run' = [run EXCEPT ![h].known = @ \cup {made'}, ![h].pending = @ \cup {made'}]
  /\ UNCHANGED <<log, tail, mem, op>>

\* `flush`, and what follows it.
Flush(h, phase, otherwise) ==
  /\ run[h].phase = "running"
  /\ IF run[h].pending = {}
       THEN /\ run' = [run EXCEPT ![h].phase = otherwise]
            /\ UNCHANGED op
       ELSE /\ \E payload \in Payload \cup {NoCall} :
                 Begin(h, "turn", run[h].pending, {}, 0, payload)
            /\ run' = [run EXCEPT ![h].phase = phase]
  /\ UNCHANGED <<log, tail, mem, made>>

RunEndsTurn(h) == run[h].pending # {} /\ Flush(h, "flushing", "running")

\* CompactionCompleted: what the engine compacted is flushed before the marker.
RunCompacts(h) == Room /\ run[h].known # {} /\ Flush(h, "precompact", "compacting")

RunWritesCompaction(h) ==
  /\ run[h].phase = "compacting"
  /\ ~run[h].rebased
  /\ Begin(h, "compact", {}, run[h].known, run[h].expected, NoCall)
  /\ UNCHANGED <<log, tail, mem, run, made>>

RunSkipsCompaction(h) ==
  /\ run[h].phase = "compacting"
  /\ run[h].rebased
  /\ run' = [run EXCEPT ![h].phase = "running"]
  /\ UNCHANGED <<log, tail, mem, op, made>>

RunEnds(h) == Flush(h, "final", "done")

CommitStep(h) ==
  \/ CommitAppends(h)
  \/ CommitConflicts(h)
  \/ CommitIsStale(h)
  \/ CommitFails(h)
  \/ CommitRebases(h)
  \/ CommitGivesUp(h)

Writer(h) ==
  \/ WriteStats(h)
  \/ WriteClear(h)
  \/ PlanCompaction(h)
  \/ WriteCompaction(h)
  \/ PlanDropped(h)

RunStep(h) ==
  \/ RunStarts(h)
  \/ RunProduces(h)
  \/ RunEndsTurn(h)
  \/ RunCompacts(h)
  \/ RunWritesCompaction(h)
  \/ RunSkipsCompaction(h)
  \/ RunEnds(h)

Next == \E h \in Handle : Open(h) \/ Crash(h) \/ CommitStep(h) \/ Writer(h) \/ RunStep(h)

Spec == Init /\ [][Next]_vars

-----------------------------------------------------------------------------

TypeOK ==
  /\ log \in Seq(Batch)
  /\ tail \in {"whole", "torn", "buried"}
  /\ mem \in [Handle -> SessionState]
  /\ op \in [Handle -> Commit]
  /\ run \in [Handle -> Run]
  /\ made \in Nat

\* Whatever crashes, fails or races, the file stays one that parse and
\* validate_stored_sequence accept: no line holds half a batch and sequence
\* numbers are contiguous from 1.
Readable ==
  /\ tail # "buried"
  /\ \A i \in DOMAIN log :
       /\ log[i].size > 0
       /\ log[i].first = IF i = 1 THEN 1 ELSE log[i - 1].first + log[i - 1].size

\* A live session holds exactly what reopening the file at its generation gives,
\* context and compaction state both, through rebases, compactions and clears.
MemoryMatchesFile ==
  \A h \in Handle : mem[h].open =>
    /\ mem[h].next <= LastSeq
    /\ mem[h].view = Context(mem[h].next)
    /\ mem[h].seed = SeedAt(mem[h].next)

\* A compact marker replaces exactly the context that precedes it: it drops no
\* message another writer added and resurrects none that was cleared.
CompactionIsExact ==
  \A i \in DOMAIN log :
    log[i].kind = "compact" => log[i].covers = Context(log[i].first - 1)

\* No flush is repeated, and a run that ended well has saved all its messages.
SavedOnce ==
  /\ \A i, j \in DOMAIN log : i # j => log[i].items \cap log[j].items = {}
  /\ \A h \in Handle : run[h].phase = "done" =>
       run[h].known \subseteq UNION {log[i].items : i \in DOMAIN log}

\* The file of a session can be read again after whatever happened, and holds
\* every message that was to be saved once.
FileIsSound == Readable /\ SavedOnce

\* "Readers resolve a span's payload from the nearest non-empty record": every
\* stripped record resolves to the payload that was sent.
PayloadResolves ==
  \A i \in DOMAIN log : log[i].call = Same =>
    LET stored == {j \in 1 .. i : log[j].call \in Payload}
    IN  stored # {} /\ log[Max(stored)].call = log[i].sent
=============================================================================
