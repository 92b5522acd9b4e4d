----------------------------- MODULE AgentLoop -----------------------------
(***************************************************************************)
(* One agent over its runs: the response loop (engine, runner/driver.rs),  *)
(* the execution of tool calls (tool_exec.rs), the doom-loop and           *)
(* thinking-only guards, the compaction check after a response             *)
(* (compaction_check.rs, context/compaction/controller.rs) and the panic   *)
(* containment and cancellation around it (agent/run.rs and the app's      *)
(* RunControl), together with the clients that steer the run through       *)
(* PromptQueue.                                                            *)
(*                                                                         *)
(* A step of the loop is what it does from one access to shared state (a   *)
(* lane, the cancellation token) or one wait to the next.  saved is what   *)
(* the transcript makes of the run's events: every finished message is     *)
(* appended, a compaction replaces what there is.  Every run starts from   *)
(* saved, as build_turn does in the app.  A provider's answer is any of    *)
(* the scope's, so the model, not the loop, decides how a turn goes; the   *)
(* run's own list of new messages, which no step of the loop reads, is     *)
(* left out, and so is provider-native (remote) compaction.                *)
(***************************************************************************)
EXTENDS PromptQueue, Conversation

CONSTANTS
  Scopes        (* The situations that are explored, by name.               *)

(* A scope bounds the model and fixes what the code leaves configurable:   *)
(*   answers      what the provider may answer,                            *)
(*   replies      how many of them before it stops calling tools,          *)
(*   batch        ToolExecutionStrategy: 1 sequential, 0 all in parallel,  *)
(*   maxTurns     ExecutionLimits; 0: none,                                *)
(*   histories    what the transcript may hold at first,                   *)
(*   runs         how many runs,                                           *)
(*   prompts      what clients may queue,                                  *)
(*   faults       whether runs are aborted, providers and tools panic.     *)

(* A message as a transcript holds it: a result that says that there is    *)
(* none is in requests only.                                               *)
IsMessage(m) ==
  \/ IsUser(m)
  \/ IsResult(m) /\ m.how # "missing"
  \/ /\ IsAssistant(m)
     /\ m.calls \in Seq(ToSet(m.calls))
     /\ m = [role |-> "assistant", calls |-> m.calls, stop |-> m.stop, size |-> m.size,
             text |-> m.text, at |-> m.at]

(* What the proofs take from a scope: its answers make sequences of calls, *)
(* its histories are sequences of messages, and what the loop itself says   *)
(* has no prompt's id.                                                     *)
ASSUME ScopesAssumption ==
  /\ \A s \in DOMAIN Scopes :
       /\ Scopes[s].batch \in Nat /\ Scopes[s].prompts \subseteq Prompt
       /\ \A a \in Scopes[s].answers : a.calls \in Seq(ToSet(a.calls))
       /\ \A h \in Scopes[s].histories :
            h \in Seq(ToSet(h)) /\ \A m \in ToSet(h) : IsMessage(m)
  /\ {"doom", "nudge"} \cap Prompt = {}

VARIABLES
  scope,
  pc,           (* Where run_loop is.                                       *)
  context,      (* AgentContext.messages.                                   *)
  saved,        (* The transcript, as the next turn will read it.           *)
  pending,      (* Messages drained and not yet in the context.             *)
  todo,         (* Tool calls of the last answer not yet executed ...       *)
  results,      (* ... and the results of the others.                       *)
  recent,       (* DoomLoopDetector: the last batches.                      *)
  nudges,       (* ThinkingOnlyGuard: retries.                              *)
  controller,   (* CompactionController.                                    *)
  turns,        (* ExecutionTracker: turns.                                 *)
  aborting,     (* RunControl::abort: how far it is.                        *)
  cancelled,    (* The engine's cancellation token.                         *)
  clock,        (* Timestamps: one more at every answer.                    *)
  runs,         (* Runs so far.                                             *)
  delivered,    (* Drained messages as they entered the context.            *)
  lost,         (* Prompts that were drained and never delivered.           *)
  executed,     (* The batches that this run executed last; <<>>: truncated. *)
  retried,      (* Overflow retries since a message or an answer.           *)
  whole         (* Whether this run began with complete exchanges.          *)

loopVars == <<scope, pc, context, saved, pending, todo, results, recent, nudges,
              controller, turns, aborting, cancelled, clock, runs, delivered,
              lost, executed, retried, whole>>
vars == <<queueVars, loopVars>>

Scope == Scopes[scope]

Threshold == 3      (* DoomLoopDetector::new(3) *)
MaxNudges == 2      (* ThinkingOnlyGuard: MAX_RETRIES *)

Fresh == [attempted |-> FALSE, suppressed |-> FALSE, summary |-> <<"none", 0>>, at |-> 0]

Init ==
  /\ QueueInit
  /\ scope \in DOMAIN Scopes
  /\ pc = "idle"
  /\ saved \in Scope.histories
  /\ context = saved
  /\ pending = <<>> /\ todo = <<>> /\ results = <<>>
  /\ recent = <<>> /\ nudges = 0 /\ controller = Fresh /\ turns = 0
  /\ aborting = "no" /\ cancelled = FALSE
  /\ clock = 1 /\ runs = 0
  /\ delivered = <<>> /\ lost = {} /\ executed = <<>> /\ retried = 0 /\ whole = TRUE

UNCHANGED_ghosts == UNCHANGED <<delivered, lost, executed, retried, whole>>

LastOf(s, n) == SubSeq(s, IF Len(s) > n THEN Len(s) - n + 1 ELSE 1, Len(s))

(* An answer without failed parts: what remains of the history to send.    *)
Kept(messages) ==
  AtPlaces(messages, {i \in DOMAIN messages : ~Failed(messages[i])})
IsWhole(messages) == SanitizeToolPairs(messages) = Kept(messages)

-----------------------------------------------------------------------------
(***************************************************************************)
(* The compaction check: what after_response does with the last answer m,  *)
(* as the set of its possible outcomes.                                    *)
(***************************************************************************)
Outcome(messages, ctl, retry, replaced) ==
  [messages |-> messages, ctl |-> ctl, retry |-> retry, replaced |-> replaced]

Skipped(messages, ctl) == Outcome(messages, ctl, FALSE, FALSE)

(* Mutant: a compaction forgets that the request was retried.               *)
Compact_Forgets(messages, firstKept, ctl, retry) ==
  LET summary == <<"summary", clock>>
  IN Outcome(Compacted(messages, firstKept, summary),
             [ctl EXCEPT !.summary = summary, !.at = clock, !.attempted = FALSE], retry, TRUE)

(* run_compaction from one cut on; the summary is recorded to be replaced.  *)
Compact(messages, firstKept, ctl, retry) ==
  LET summary == <<"summary", clock>>
  IN Outcome(Compacted(messages, firstKept, summary),
             [ctl EXCEPT !.summary = summary, !.at = clock], retry, TRUE)

Base(messages, ctl) == WithoutSummary(messages, ctl.summary)

(* A required summary may fail, and then nothing changes.                  *)
MayCompact(messages, ctl, stop) ==
  {Skipped(messages, ctl)} \cup
  (IF stop THEN {}
   ELSE {Compact(Base(messages, ctl), k, ctl, FALSE) : k \in Plans(Base(messages, ctl))})

ThresholdCompact(messages, ctl, stop) ==
  IF ctl.suppressed
  THEN {Skipped(messages, ctl)}
  ELSE {[o EXCEPT !.ctl.suppressed = o.replaced] : o \in MayCompact(messages, ctl, stop)}

(* The provider refused the request: compact and send it again, with a      *)
(* deterministic summary if need be, and of a whole tool turn if no cut is  *)
(* valid.                                                                  *)
OverflowRetry(messages, ctl, stop) ==
  LET popped == IF messages # <<>> /\ IsAssistant(Last(messages))
                THEN Front(messages) ELSE messages
      base == Base(popped, ctl)
      armed == [ctl EXCEPT !.attempted = TRUE]
  IN IF stop THEN {Skipped(popped, ctl)}
     ELSE {Compact(base, k, armed, TRUE) : k \in Plans(base)} \cup
          (IF ~MayKeepAll(base) THEN {}
           ELSE IF popped # <<>> /\ IsResult(Last(popped))
           THEN {Compact(base, Len(base) + 1, armed, TRUE)}
           ELSE {Skipped(popped, ctl)})

(* The provider says so, or answers with nothing at all: no output has     *)
(* neither text nor calls.                                                 *)
Overflows(m) ==
  \/ m.stop = "error" /\ m.size = "overflow"
  \/ m.stop = "length" /\ m.text = "none" /\ m.calls = <<>> /\ m.size = "full"

(* Without usage of its own an answer is judged by an estimate, if any.     *)
NoUsage(m) == m.size \in {"none", "overflow"}

Estimated(messages, ctl, stop) ==
  {Skipped(messages, ctl), Skipped(messages, [ctl EXCEPT !.suppressed = FALSE])}
    \cup ThresholdCompact(messages, ctl, stop)

AfterResponse(m, messages, stop) ==
  LET stale == m.at > 0 /\ controller.at > 0 /\ m.at <= controller.at
      ctl == [controller EXCEPT !.suppressed = @ /\ (stale \/ m.size \in {"high", "full"})]
  IN CASE ~stale /\ Overflows(m) /\ ctl.attempted -> {Skipped(messages, ctl)}
       [] ~stale /\ Overflows(m) /\ ~ctl.attempted -> OverflowRetry(messages, ctl, stop)
       [] NoUsage(m) /\ (stale \/ ~Overflows(m)) -> Estimated(messages, ctl, stop)
       [] ~stale /\ m.stop = "stop" /\ m.size = "full" -> MayCompact(messages, ctl, stop)
       [] OTHER -> IF ~stale /\ m.size \in {"high", "full"}
                   THEN ThresholdCompact(messages, ctl, stop)
                   ELSE {Skipped(messages, ctl)}


-----------------------------------------------------------------------------
(***************************************************************************)
(* A run begins and ends.                                                  *)
(***************************************************************************)
Starts ==
  /\ pc = "idle" /\ runs < Scope.runs
  /\ runs' = runs + 1
  /\ context' = saved
  /\ whole' = IsWhole(saved)
  /\ controller' = [controller EXCEPT !.attempted = FALSE, !.suppressed = FALSE]
  /\ recent' = <<>> /\ nudges' = 0 /\ turns' = 0
  /\ aborting' = "no" /\ cancelled' = FALSE
  /\ executed' = <<>> /\ retried' = 0
  /\ pc' = "building"
  /\ UNCHANGED <<queueVars, scope, saved, pending, todo, results, clock, delivered, lost>>

(* Mutant: the engine is installed without a look at the run's token.      *)
InstallEngine_Fresh ==
  /\ pc = "building"
  /\ cancelled' = FALSE
  /\ pc' = "prompt"
  /\ UNCHANGED <<queueVars, scope, context, saved, pending, todo, results, recent, nudges,
                 controller, turns, aborting, clock, runs>>
  /\ UNCHANGED_ghosts

(* install_engine: a run aborted while it was built starts cancelled.      *)
InstallEngine ==
  /\ pc = "building"
  /\ cancelled' = (aborting # "no")
  /\ pc' = "prompt"
  /\ UNCHANGED <<queueVars, scope, context, saved, pending, todo, results, recent, nudges,
                 controller, turns, aborting, clock, runs>>
  /\ UNCHANGED_ghosts

Says(messages) ==
  /\ context' = context \o messages
  /\ saved' = saved \o messages

(* agent_loop: the previous answer is checked before the prompt enters.    *)
Prompts ==
  LET Said == {i \in DOMAIN context : IsAssistant(context[i])}
      prompt == User(<<"run", runs>>)
  IN /\ pc = "prompt"
     /\ \E o \in IF Said = {} THEN {Skipped(context, controller)}
                ELSE AfterResponse(context[Max(Said)], context, cancelled) :
          /\ context' = Append(o.messages, prompt)
          /\ saved' = Append(IF o.replaced THEN o.messages ELSE saved, prompt)
          /\ controller' = [o.ctl EXCEPT !.attempted = FALSE]
     /\ pc' = "drain"
     /\ UNCHANGED <<queueVars, scope, pending, todo, results, recent, nudges, turns,
                    aborting, cancelled, clock, runs>>
     /\ UNCHANGED_ghosts

(* agent_loop_continue refuses a context that an answer ends.              *)
Continues ==
  /\ pc = "prompt" /\ context # <<>>
  /\ ~IsAssistant(Last(context))
  /\ pc' = "drain"
  /\ UNCHANGED <<queueVars, scope, context, saved, pending, todo, results, recent, nudges,
                 controller, turns, aborting, cancelled, clock, runs>>
  /\ UNCHANGED_ghosts

Drains(l, then) ==
  /\ pending' = [i \in DOMAIN Drained(l) |-> <<Drained(l)[i].id, Drained(l)[i].text>>]
  /\ DrainFrom(l)
  /\ pc' = IF Drained(l) = <<>> THEN then ELSE "top"
  /\ UNCHANGED <<moving, view, text, removed>>

DrainsAtStart ==
  /\ pc = "drain"
  /\ Drains("steering", "top")
  /\ UNCHANGED <<scope, context, saved, todo, results, recent, nudges, controller, turns,
                 aborting, cancelled, clock, runs>>
  /\ UNCHANGED_ghosts

Ends ==
  /\ pc' = "idle"
  /\ UNCHANGED <<queueVars, scope, todo, results, recent, nudges, turns, aborting, cancelled,
                 clock, runs>>

-----------------------------------------------------------------------------
(***************************************************************************)
(* One turn.                                                               *)
(***************************************************************************)

(* What was drained and not yet delivered is dropped by a cancellation.    *)
StopsCancelled ==
  /\ pc = "top" /\ cancelled
  /\ lost' = lost \cup ({pending[i][1] : i \in DOMAIN pending} \cap Prompt)
  /\ pending' = <<>>
  /\ Ends
  /\ UNCHANGED <<context, saved, controller, delivered, executed, retried, whole>>

Injects ==
  LET said == [i \in DOMAIN pending |-> User(pending[i])] IN
  /\ pc = "top" /\ ~cancelled
  /\ pending' = <<>>
  /\ delivered' = delivered \o pending
  /\ controller' = IF pending = <<>> THEN controller ELSE [controller EXCEPT !.attempted = FALSE]
  /\ retried' = IF pending = <<>> THEN retried ELSE 0
  /\ IF Scope.maxTurns > 0 /\ turns >= Scope.maxTurns
     THEN /\ Says(Append(said, User(<<"limit", runs>>)))
          /\ Ends
     ELSE /\ Says(said)
          /\ pc' = "call"
          /\ UNCHANGED <<queueVars, scope, todo, results, recent, nudges, turns, aborting,
                         cancelled, clock, runs>>
  /\ UNCHANGED <<lost, executed, whole>>

Final == [calls |-> <<>>, stop |-> "stop", size |-> "fits", text |-> "text"]
Abort == [calls |-> <<>>, stop |-> "aborted", size |-> "none", text |-> "none"]

(* A cancelled call ends with an aborted answer, unless it was answered.   *)
Answers == (IF clock > Scope.replies THEN {Final} ELSE Scope.answers)
             \cup (IF cancelled THEN {Abort} ELSE {})

Answer(a) ==
  [role |-> "assistant", stop |-> a.stop, size |-> a.size, text |-> a.text, at |-> clock + 1,
   calls |-> [i \in DOMAIN a.calls |-> <<a.calls[i], clock, i>>]]

(* Every call gets a result, by the tool, by a failed lookup or validation, *)
(* or in the place of an execution.                                        *)
Results(calls, how) == [i \in DOMAIN calls |-> Result(calls[i], how)]
Ran(calls) == Results(calls, "ran")
Truncated(calls) == Results(calls, "truncated")
Spared(calls) == Results(calls, "skipped")
Doomed(calls) == Results(calls, "doom")

(* DoomLoopDetector::check: the batch that would be the third in a row is   *)
(* not recorded.                                                           *)
Loops(tools) ==
  /\ Len(recent) >= Threshold - 1
  /\ \A i \in 1 .. Threshold - 1 : recent[Len(recent) + 1 - i] = tools

Recorded(tools) == LastOf(Append(recent, tools), Threshold)

Responds ==
  /\ pc = "call"
  /\ clock' = clock + 1
  /\ \E a \in Answers :
       LET m == Answer(a)
           truncated == a.stop = "length"
           looping == Loops(a.calls)
       IN /\ controller' = [controller EXCEPT !.attempted = @ /\ a.stop = "error"]
          /\ retried' = IF a.stop = "error" THEN retried ELSE 0
          /\ IF a.stop \in {"error", "aborted"}
             THEN /\ Says(<<m>>)
                  /\ pc' = "check"
                  /\ UNCHANGED <<pending, todo, recent, turns>>
             ELSE IF a.calls = <<>>
             THEN /\ Says(<<m>>)
                  /\ pc' = "settle"
                  /\ turns' = turns + 1
                  /\ UNCHANGED <<pending, todo, recent>>
             ELSE IF looping
             THEN /\ Says(<<m>> \o Doomed(m.calls))
                  /\ pending' = <<<<"doom", clock>>>>
                  /\ turns' = turns + 1
                  /\ pc' = "top"
                  /\ UNCHANGED <<todo, recent>>
             ELSE /\ recent' = Recorded(a.calls)
                  /\ Says(<<m>> \o (IF truncated THEN Truncated(m.calls) ELSE <<>>))
                  /\ todo' = IF truncated THEN <<>> ELSE m.calls
                  /\ turns' = IF truncated THEN turns + 1 ELSE turns
                  /\ pc' = IF truncated THEN "settle" ELSE "exec"
                  /\ UNCHANGED pending
          /\ executed' = IF truncated /\ a.calls # <<>> /\ ~looping
                         THEN LastOf(Append(executed, <<>>), Threshold) ELSE executed
  /\ UNCHANGED <<queueVars, scope, results, nudges, aborting, cancelled, runs, delivered, lost,
                 whole>>

LastAnswer == context[Max({i \in DOMAIN context : IsAssistant(context[i])})]

(* execute_tool_calls.  The calls of a batch run together: each result is   *)
(* said when its call ends, in any order, while the context takes them in   *)
(* the order of the calls.  A steering message spares the calls that are    *)
(* left.                                                                   *)
BatchLength == IF Scope.batch = 0 \/ Len(todo) < Scope.batch THEN Len(todo) ELSE Scope.batch
Batch == SubSeq(todo, 1, BatchLength)
AsTheyEnd(messages) ==
  {[i \in DOMAIN messages |-> messages[order[i]]] :
     order \in {f \in [DOMAIN messages -> DOMAIN messages] :
                 \A i, j \in DOMAIN messages : f[i] = f[j] => i = j}}

ExecutesBatch ==
  LET ran == Ran(Batch)
      rest == SubSeq(todo, BatchLength + 1, Len(todo))
      steered == lanes["steering"] # <<>>
      spared == IF steered THEN Spared(rest) ELSE <<>>
      begins == Len(todo) = Len(LastAnswer.calls)
  IN /\ pc = "exec"
     /\ \E said \in AsTheyEnd(ran) : saved' = saved \o said \o spared
     /\ executed' = IF begins
                    THEN LastOf(Append(executed, [i \in DOMAIN todo |-> todo[i][1]]), Threshold)
                    ELSE executed
     /\ IF steered \/ rest = <<>>
        THEN /\ context' = context \o results \o ran \o spared
             /\ results' = <<>> /\ todo' = <<>>
             /\ turns' = turns + 1
             /\ Drains("steering", "settle")
        ELSE /\ results' = results \o ran
             /\ todo' = rest
             /\ UNCHANGED <<queueVars, context, pending, turns, pc>>
     /\ UNCHANGED <<scope, recent, nudges, controller, aborting, cancelled, clock, runs,
                    delivered, lost, retried, whole>>

(* The turn is over: steering goes first, tool results need an answer, an   *)
(* answer that says nothing is nudged.                                     *)
Settles ==
  LET calls == LastAnswer.calls # <<>>
      silent == LastAnswer.text = "thinking"
      nudged == silent /\ nudges < MaxNudges
      asks == lanes["steering"] = <<>> /\ ~calls
  IN /\ pc = "settle"
     /\ nudges' = IF ~asks THEN nudges
                  ELSE IF ~silent THEN 0
                  ELSE IF nudged THEN nudges + 1 ELSE nudges
     /\ IF asks /\ nudged
        THEN /\ pending' = <<<<"nudge", clock>>>>
             /\ pc' = "top"
             /\ UNCHANGED queueVars
        ELSE Drains("steering", IF calls THEN "top" ELSE "follow_up")
     /\ UNCHANGED <<scope, context, saved, todo, results, recent, controller, turns, aborting,
                    cancelled, clock, runs>>
     /\ UNCHANGED_ghosts

FollowsUp ==
  /\ pc = "follow_up"
  /\ Drains("follow_up", "check")
  /\ UNCHANGED <<scope, context, saved, todo, results, recent, nudges, controller, turns,
                 aborting, cancelled, clock, runs>>
  /\ UNCHANGED_ghosts

(* Mutant: a retry does not tell the transcript of its compaction.         *)
Checks_Silent ==
  LET m == LastAnswer IN
  /\ pc = "check"
  /\ \E o \in IF m.stop = "aborted" THEN {Skipped(context, controller)}
             ELSE AfterResponse(m, context, cancelled) :
       /\ context' = o.messages
       /\ controller' = o.ctl
       /\ saved' = IF o.replaced /\ ~o.retry THEN o.messages ELSE saved
       /\ pc' = IF o.retry THEN "top" ELSE "idle"
       /\ retried' = IF o.retry /\ m.stop = "error" THEN retried + 1 ELSE retried
  /\ UNCHANGED <<queueVars, scope, pending, todo, results, recent, nudges, turns, aborting,
                 cancelled, clock, runs, delivered, lost, executed, whole>>

(* check_compaction ends the run, or has it answer again.                  *)
Checks ==
  LET m == LastAnswer IN
  /\ pc = "check"
  /\ \E o \in IF m.stop = "aborted" THEN {Skipped(context, controller)}
             ELSE AfterResponse(m, context, cancelled) :
       /\ context' = o.messages
       /\ controller' = o.ctl
       /\ saved' = IF o.replaced THEN o.messages ELSE saved
       /\ pc' = IF o.retry THEN "top" ELSE "idle"
       /\ retried' = IF o.retry /\ m.stop = "error" THEN retried + 1 ELSE retried
  /\ UNCHANGED <<queueVars, scope, pending, todo, results, recent, nudges, turns, aborting,
                 cancelled, clock, runs, delivered, lost, executed, whole>>

-----------------------------------------------------------------------------
(***************************************************************************)
(* Faults.                                                                 *)
(***************************************************************************)

(* A panic of the provider or of a tool is caught by the run; the results   *)
(* of calls that had ended are said, and none is in the context.           *)
Panics ==
  /\ Scope.faults /\ pc \in {"call", "exec"}
  /\ \E ended \in SUBSET (1 .. BatchLength) :
       \E said \in AsTheyEnd(Ran([i \in 1 .. Cardinality(ended) |->
                                   todo[SetToSortSeq(ended, <)[i]]])) :
         saved' = saved \o said
  /\ todo' = <<>> /\ results' = <<>>
  /\ pc' = "idle"
  /\ UNCHANGED <<queueVars, scope, context, pending, recent, nudges, controller, turns, aborting,
                 cancelled, clock, runs>>
  /\ UNCHANGED_ghosts

(* RunControl::abort: the run's token, then the engine it finds installed.  *)
AbortBegins ==
  /\ Scope.faults /\ pc # "idle" /\ aborting = "no"
  /\ aborting' = "begun"
  /\ UNCHANGED <<queueVars, scope, pc, context, saved, pending, todo, results, recent, nudges,
                 controller, turns, cancelled, clock, runs>>
  /\ UNCHANGED_ghosts

AbortReachesEngine ==
  /\ aborting = "begun"
  /\ aborting' = "done"
  /\ cancelled' = (cancelled \/ pc \notin {"idle", "building"})
  /\ UNCHANGED <<queueVars, scope, pc, context, saved, pending, todo, results, recent, nudges,
                 controller, turns, clock, runs>>
  /\ UNCHANGED_ghosts

Clients ==
  /\ \/ \E l \in Lane, p \in Scope.prompts : Enqueue(l, p)
     \/ Scope.edits /\ Edits
  /\ UNCHANGED loopVars

-----------------------------------------------------------------------------
Loop ==
  \/ InstallEngine \/ Prompts \/ DrainsAtStart \/ StopsCancelled \/ Injects \/ Responds
  \/ ExecutesBatch \/ Settles \/ FollowsUp \/ Checks

Next == Loop \/ Starts \/ Continues \/ Panics \/ AbortBegins \/ AbortReachesEngine \/ Clients

Spec == Init /\ [][Next]_vars

-----------------------------------------------------------------------------
(***************************************************************************)
(* Properties.                                                             *)
(***************************************************************************)

(* Every variable has its type.                                            *)
TypeOK ==
  /\ scope \in DOMAIN Scopes
  /\ \A l \in Lane : lanes[l] \in Seq(Entry)
  /\ moving \subseteq Entry /\ Cardinality(moving) <= 1
  /\ text \in [Prompt -> Nat] /\ removed \subseteq Prompt /\ lost \subseteq Prompt
  /\ pc \in {"idle", "building", "prompt", "drain", "top", "call", "exec", "settle",
             "follow_up", "check"}
  /\ aborting \in {"no", "begun", "done"} /\ cancelled \in BOOLEAN
  /\ nudges \in 0 .. MaxNudges /\ Len(recent) <= Threshold
  /\ controller.attempted \in BOOLEAN /\ controller.suppressed \in BOOLEAN
  /\ {clock, turns, runs, controller.at} \subseteq Nat

(* The places a prompt is at.                                              *)
Whereabouts(p) ==
  (UNION {{l} \X Found(l, p) : l \in Lane})
  \cup ({"pending"} \X {i \in DOMAIN pending : pending[i][1] = p})
  \cup ({"delivered"} \X {i \in DOMAIN delivered : delivered[i][1] = p})
  \cup ({"moving"} \X {e \in moving : e.id = p})
  \cup ({"removed"} \X (removed \cap {p}))
  \cup ({"lost"} \X (lost \cap {p}))

(* A prompt that was accepted is in one place only, in a lane, on its way  *)
(* from one lane to the other, drained, delivered, taken back, or dropped  *)
(* with a cancelled run, and wherever it is it has the text of its last    *)
(* accepted edit (queue.rs:156, driver.rs:249).                            *)
PromptsConserved ==
  \A p \in Prompt :
    /\ text[p] = 0 <=> Whereabouts(p) = {}
    /\ \A x, y \in Whereabouts(p) : x = y
    /\ \A l \in Lane : \A i \in Found(l, p) : lanes[l][i].text = text[p]
    /\ \A e \in moving : e.id = p => e.text = text[p]
    /\ \A i \in DOMAIN pending : pending[i][1] = p => pending[i][2] = text[p]
    /\ \A i \in DOMAIN delivered : delivered[i][1] = p => delivered[i][2] = text[p]

(* Whatever the transcript held, and whatever was cancelled, truncated,    *)
(* interrupted, compacted or lost in a panic, the request the provider     *)
(* gets pairs every call with one result (sanitize.rs). And the loop       *)
(* itself leaves no exchange incomplete: a run that began with complete    *)
(* exchanges never relies on that repair (driver.rs:502, tool_exec.rs:104, *)
(* plan.rs).                                                               *)
ExchangesStayWhole ==
  pc = "call" => /\ WellPaired(SanitizeToolPairs(context))
                 /\ whole => IsWhole(context)

(* The transcript, read back, makes the same request as the context the    *)
(* run goes on with, up to the order of the results of one batch: events   *)
(* are emitted as things end, the context grows in the order of the calls. *)
(* An answer without content says nothing.                                 *)
Empty(m) == IsAssistant(m) /\ m.calls = <<>> /\ m.text = "none"
Spoken(ms) == AtPlaces(ms, {i \in DOMAIN ms : ~IsResult(ms[i]) /\ ~Empty(ms[i])})
ResultsIn(ms) == {m \in ToSet(ms) : IsResult(m)}
Speech(messages) == Spoken(SanitizeToolPairs(messages))
Outcomes(messages) == ResultsIn(SanitizeToolPairs(messages))
TranscriptAgrees ==
  pc = "call" => /\ Speech(saved) = Speech(context)
                 /\ Outcomes(saved) = Outcomes(context)

(* A run never executes the same batch three times in a row, whatever was   *)
(* truncated, steered or skipped in between (doom_loop.rs): a truncated     *)
(* batch is answered and not executed. And a request                        *)
(* that the provider refuses as too long is compacted and sent again once,  *)
(* until a message or an answer gives reason for another try                *)
(* (controller.rs:220).                                                    *)
RepetitionEnds ==
  /\ Len(executed) = Threshold /\ executed[1] # <<>>
       => \E i \in 2 .. Threshold : executed[i] # executed[1]
  /\ retried <= 1

(* When abort has returned, no engine of the run goes on uncancelled, also *)
(* one that was being built (control.rs:35).                               *)
AbortReachesTheEngine ==
  aborting = "done" /\ pc \notin {"idle", "building"} => cancelled
=============================================================================
