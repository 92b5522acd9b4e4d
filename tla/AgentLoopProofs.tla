-------------------------- MODULE AgentLoopProofs --------------------------
(***************************************************************************)
(* Theorems about AgentLoop, for every set of scopes and of prompts.       *)
(***************************************************************************)
EXTENDS AgentLoop, FiniteSetTheorems, SequenceTheorems, WellFoundedInduction, TLAPS

(***************************************************************************)
(* An abort that has returned.                                             *)
(***************************************************************************)

(* The property is inductive: an engine is installed cancelled when the     *)
(* run was aborted, and nothing takes a cancellation back within a run.    *)
LEMMA AbortInit == Init => AbortReachesTheEngine
  BY DEF Init, AbortReachesTheEngine

(* Every step keeps it.                                                    *)
LEMMA AbortStep == AbortReachesTheEngine /\ [Next]_vars => AbortReachesTheEngine'
<1> SUFFICES ASSUME AbortReachesTheEngine, [Next]_vars
             PROVE  AbortReachesTheEngine'
    OBVIOUS
<1> USE DEF AbortReachesTheEngine, UNCHANGED_ghosts
<1>1. CASE Starts
  BY <1>1 DEF Starts
<1>2. CASE InstallEngine
  BY <1>2 DEF InstallEngine
<1>3. CASE Prompts \/ Continues
  BY <1>3 DEF Prompts, Continues
<1>4. CASE DrainsAtStart \/ FollowsUp
  BY <1>4 DEF DrainsAtStart, FollowsUp, Drains
<1>5. CASE StopsCancelled \/ Injects
  BY <1>5 DEF StopsCancelled, Injects, Ends, Says
<1>6. CASE Responds
  BY <1>6 DEF Responds
<1>7. CASE ExecutesBatch
  BY <1>7 DEF ExecutesBatch, Drains
<1>8. CASE Settles
  BY <1>8 DEF Settles, Drains
<1>9. CASE Checks
  BY <1>9 DEF Checks
<1>10. CASE Panics
  BY <1>10 DEF Panics
<1>11. CASE AbortBegins
  BY <1>11 DEF AbortBegins
<1>12. CASE AbortReachesEngine
  BY <1>12 DEF AbortReachesEngine
<1>13. CASE Clients
  BY <1>13 DEF Clients, loopVars
<1>14. CASE UNCHANGED vars
  BY <1>14 DEF vars, loopVars
<1> QED
  BY <1>1, <1>2, <1>3, <1>4, <1>5, <1>6, <1>7, <1>8, <1>9, <1>10, <1>11, <1>12, <1>13, <1>14
     DEF Next, Loop

(* When abort has returned, no engine of the run goes on uncancelled, one  *)
(* that was being built included (control.rs:35).                          *)
THEOREM AbortReachesTheEngineAlways == Spec => []AbortReachesTheEngine
  BY AbortInit, AbortStep, PTL DEF Spec

(***************************************************************************)
(* Sequences.                                                              *)
(***************************************************************************)
IsSeq(s) == s \in Seq(ToSet(s))

(* A sequence over any set is one over the set of its elements.             *)
LEMMA SeqIsSeq == ASSUME NEW S, NEW s \in Seq(S) PROVE IsSeq(s) /\ ToSet(s) \subseteq S
<1>1. Len(s) \in Nat /\ DOMAIN s = 1 .. Len(s) /\ s = [i \in 1 .. Len(s) |-> s[i]]
  OBVIOUS
<1>2. \A i \in 1 .. Len(s) : s[i] \in ToSet(s)
  BY <1>1 DEF ToSet
<1>3. [i \in 1 .. Len(s) |-> s[i]] \in Seq(ToSet(s))
  BY <1>1, <1>2
<1>4. ToSet(s) \subseteq S
  BY <1>1 DEF ToSet
<1> QED
  BY <1>1, <1>3, <1>4 DEF IsSeq

(* A function on an initial segment of the naturals is a sequence.         *)
LEMMA MapIsSeq ==
  ASSUME NEW f, NEW n \in Nat, DOMAIN f = 1 .. n, f = [i \in 1 .. n |-> f[i]]
  PROVE  IsSeq(f) /\ Len(f) = n
<1>1. \A i \in 1 .. n : f[i] \in ToSet(f)
  BY DEF ToSet
<1>2. [i \in 1 .. n |-> f[i]] \in Seq(ToSet(f))
  BY <1>1
<1> QED
  BY <1>2 DEF IsSeq

(* One element is a sequence.                                              *)
LEMMA OneIsSeq == ASSUME NEW e PROVE IsSeq(<<e>>) /\ Len(<<e>>) = 1 /\ <<e>>[1] = e
<1>1. <<e>> \in Seq({e})
  OBVIOUS
<1> QED
  BY <1>1, SeqIsSeq

(* What a concatenation is.                                                *)
LEMMA ConcatIsSeq ==
  ASSUME NEW s, NEW t, IsSeq(s), IsSeq(t)
  PROVE  /\ IsSeq(s \o t) /\ Len(s \o t) = Len(s) + Len(t)
         /\ \A i \in 1 .. Len(s) : (s \o t)[i] = s[i]
         /\ \A i \in 1 .. Len(t) : (s \o t)[Len(s) + i] = t[i]
<1> DEFINE S == ToSet(s) \cup ToSet(t)
<1>1. s \in Seq(S) /\ t \in Seq(S)
  BY DEF IsSeq
<1> HIDE DEF S
<1>2. s \o t \in Seq(S) /\ Len(s) \in Nat /\ Len(t) \in Nat
  BY <1>1
<1>3. IsSeq(s \o t)
  BY <1>2, SeqIsSeq
<1> QED
  BY <1>1, <1>2, <1>3

(* What an appended sequence is.                                           *)
LEMMA AppendIsSeq ==
  ASSUME NEW s, NEW e, IsSeq(s)
  PROVE  /\ IsSeq(Append(s, e)) /\ Len(Append(s, e)) = Len(s) + 1
         /\ \A i \in 1 .. Len(s) : Append(s, e)[i] = s[i]
         /\ Append(s, e)[Len(s) + 1] = e
<1> DEFINE S == ToSet(s) \cup {e}
<1>1. s \in Seq(S) /\ e \in S
  BY DEF IsSeq
<1> HIDE DEF S
<1>2. Append(s, e) \in Seq(S)
  BY <1>1
<1>3. IsSeq(Append(s, e))
  BY <1>2, SeqIsSeq
<1> QED
  BY <1>1, <1>2, <1>3

(* What a part of a sequence is.                                           *)
LEMMA SubSeqIsSeq ==
  ASSUME NEW s, IsSeq(s), NEW m \in Nat, NEW n \in Nat, m >= 1, n <= Len(s), m <= n + 1
  PROVE  /\ IsSeq(SubSeq(s, m, n)) /\ Len(SubSeq(s, m, n)) = n + 1 - m
         /\ \A i \in 1 .. (n + 1 - m) : SubSeq(s, m, n)[i] = s[i + m - 1]
<1> DEFINE f == SubSeq(s, m, n)
<1>1. f = [i \in 1 .. (1 + n - m) |-> s[i + m - 1]]
  BY DEF IsSeq
<1>2. DOMAIN f = 1 .. (n + 1 - m) /\ f = [i \in 1 .. (n + 1 - m) |-> f[i]]
  BY <1>1
<1>3. n + 1 - m \in Nat
  OBVIOUS
<1> HIDE DEF f
<1>4. IsSeq(f) /\ Len(f) = n + 1 - m
  BY <1>2, <1>3, MapIsSeq
<1> QED
  BY <1>1, <1>4 DEF f

(***************************************************************************)
(* Compaction.                                                             *)
(***************************************************************************)
Controllers == [attempted : BOOLEAN, suppressed : BOOLEAN,
                summary : {"none", "summary"} \X Nat, at : Nat]

Below == {p \in Nat \X Nat : p[1] < p[2]}

(* The order of the naturals is well founded.                               *)
LEMMA BelowIsWellFounded == IsWellFoundedOn(Below, Nat)
<1>1. Below = OpToRel(<, Nat)
  BY DEF Below, OpToRel
<1> QED
  BY <1>1, NatLessThanWellFounded

(* A non-empty set of naturals has a least element.                        *)
LEMMA MinIsIn == ASSUME NEW S, S \subseteq Nat, S # {} PROVE Min(S) \in S
<1>1. PICK x \in S : \A y \in S : <<y, x>> \notin Below
  BY BelowIsWellFounded, WFMin
<1>2. ASSUME NEW y \in S PROVE x <= y
  <2>1. x \in Nat /\ y \in Nat /\ <<y, x>> \notin Below
    BY <1>1
  <2>2. ~(y < x)
    BY <2>1 DEF Below
  <2> QED
    BY <2>1, <2>2
<1>3. \E z \in S : \A y \in S : z =< y
  BY <1>2
<1> QED
  BY <1>3 DEF Min

(* A sequence stays one without its summary.                               *)
LEMMA BaseIsSeq ==
  ASSUME NEW messages, NEW ctl, IsSeq(messages) PROVE IsSeq(Base(messages, ctl))
<1> DEFINE At == {i \in DOMAIN messages : messages[i] = User(ctl.summary)}
<1>1. CASE At = {}
  BY <1>1 DEF Base, WithoutSummary
<1>2. CASE At # {}
  <2>1. DOMAIN messages = 1 .. Len(messages) /\ Len(messages) \in Nat
    BY DEF IsSeq
  <2>2. Min(At) \in At
    <3>1. At \subseteq Nat
      BY <2>1
    <3> HIDE DEF At
    <3> QED
      BY <1>2, <3>1, MinIsIn
  <2>3. PICK i \in 1 .. Len(messages) : i = Min(At)
    BY <2>1, <2>2
  <2>4. IsSeq(SubSeq(messages, 1, i - 1)) /\ IsSeq(SubSeq(messages, i + 1, Len(messages)))
    BY <2>1, <2>3, SubSeqIsSeq
  <2>5. Base(messages, ctl) = SubSeq(messages, 1, i - 1) \o SubSeq(messages, i + 1, Len(messages))
    BY <1>2, <2>3 DEF Base, WithoutSummary, RemoveAt
  <2> QED
    BY <2>4, <2>5, ConcatIsSeq
<1> QED
  BY <1>1, <1>2

(* What an outcome that does not arm a retry leaves.                       *)
Keeps(o, ctl) ==
  /\ IsSeq(o.messages) /\ o.ctl \in Controllers
  /\ o.retry = FALSE /\ o.ctl.attempted = ctl.attempted

(* What an outcome of the check leaves: a retry is armed at most once.      *)
Answered(o, ctl) ==
  /\ IsSeq(o.messages) /\ o.ctl \in Controllers
  /\ o.retry => ~ctl.attempted /\ o.ctl.attempted
  /\ ctl.attempted => o.ctl.attempted

(* A compaction makes a sequence and keeps what the controller knows.      *)
LEMMA CompactKeeps ==
  ASSUME NEW messages, IsSeq(messages), NEW k \in 1 .. Len(messages) + 1,
         NEW ctl \in Controllers, clock \in Nat,
         NEW new, new = Compacted(messages, k, <<"summary", clock>>),
         NEW next, next = [ctl EXCEPT !.summary = <<"summary", clock>>, !.at = clock]
  PROVE  IsSeq(new) /\ next \in Controllers /\ next.attempted = ctl.attempted
<1> DEFINE summary == <<"summary", clock>>
<1>1. Len(messages) \in Nat /\ k \in Nat /\ k >= 1
  BY DEF IsSeq
<1>2. IsSeq(SubSeq(messages, k, Len(messages)))
  BY <1>1, SubSeqIsSeq
<1>3. IsSeq(<<User(summary)>>)
  BY OneIsSeq
<1>4. IsSeq(Compacted(messages, k, summary))
  BY <1>2, <1>3, ConcatIsSeq DEF Compacted
<1>5. [ctl EXCEPT !.summary = summary, !.at = clock] \in Controllers
  <2>1. summary \in {"none", "summary"} \X Nat
    OBVIOUS
  <2> HIDE DEF summary
  <2> QED
    BY <2>1 DEF Controllers
<1>6. [ctl EXCEPT !.summary = summary, !.at = clock].attempted = ctl.attempted
  BY DEF Controllers
<1> QED
  BY <1>4, <1>5, <1>6

(* A required summary that may fail.                                       *)
LEMMA MayCompactKeeps ==
  ASSUME NEW messages, IsSeq(messages), NEW ctl \in Controllers, clock \in Nat, NEW stop,
         NEW o \in MayCompact(messages, ctl, stop)
  PROVE  Keeps(o, ctl)
<1>1. CASE o = Skipped(messages, ctl)
  BY <1>1 DEF Skipped, Outcome, Keeps
<1>2. CASE o # Skipped(messages, ctl)
  <2>1. PICK k \in Plans(Base(messages, ctl)) :
               /\ o.messages = Compacted(Base(messages, ctl), k, <<"summary", clock>>)
               /\ o.ctl = [ctl EXCEPT !.summary = <<"summary", clock>>, !.at = clock]
               /\ o.retry = FALSE
    BY <1>2 DEF MayCompact, Compact, Outcome
  <2>2. IsSeq(Base(messages, ctl))
    BY BaseIsSeq
  <2>3. k \in 1 .. Len(Base(messages, ctl)) + 1
    BY <2>2 DEF Plans, ValidCuts, IsSeq
  <2>4. /\ IsSeq(o.messages) /\ o.ctl \in Controllers
        /\ o.ctl.attempted = ctl.attempted
    BY <2>1, <2>2, <2>3, CompactKeeps, ZenonT(60)
  <2> QED
    BY <2>1, <2>4 DEF Keeps
<1> QED
  BY <1>1, <1>2

(* A compaction at the threshold.                                          *)
LEMMA ThresholdKeeps ==
  ASSUME NEW messages, IsSeq(messages), NEW ctl \in Controllers, clock \in Nat, NEW stop,
         NEW o \in ThresholdCompact(messages, ctl, stop)
  PROVE  Keeps(o, ctl)
<1>1. CASE ctl.suppressed
  BY <1>1 DEF ThresholdCompact, Skipped, Outcome, Keeps
<1>2. CASE ~ctl.suppressed
  <2>1. PICK p \in MayCompact(messages, ctl, stop) : o = [p EXCEPT !.ctl.suppressed = p.replaced]
    BY <1>2 DEF ThresholdCompact
  <2>2. Keeps(p, ctl)
    BY <2>1, MayCompactKeeps
  <2>3. \E a, b, c, d : p = Outcome(a, b, c, d) /\ d \in BOOLEAN
    BY <2>1 DEF MayCompact, Skipped, Compact
  <2>4. PICK a, b, c, d : p = Outcome(a, b, c, d) /\ d \in BOOLEAN
    BY <2>3
  <2>5. /\ o.messages = a /\ o.ctl = [b EXCEPT !.suppressed = d] /\ o.retry = c
        /\ p.messages = a /\ p.ctl = b /\ p.retry = c
    BY <2>1, <2>4 DEF Outcome
  <2>6. b \in Controllers
    BY <2>2, <2>5 DEF Keeps
  <2>7. o.ctl \in Controllers /\ o.ctl.attempted = b.attempted
    BY <2>4, <2>5, <2>6 DEF Controllers
  <2> QED
    BY <2>2, <2>5, <2>7 DEF Keeps
<1> QED
  BY <1>1, <1>2

(* A request that was refused.                                             *)
LEMMA OverflowRetries ==
  ASSUME NEW messages, IsSeq(messages), NEW ctl \in Controllers, ~ctl.attempted, clock \in Nat,
         NEW stop, NEW o \in OverflowRetry(messages, ctl, stop)
  PROVE  Answered(o, ctl)
<1> DEFINE popped == IF messages # <<>> /\ IsAssistant(Last(messages))
                     THEN Front(messages) ELSE messages
           base == Base(popped, ctl)
           armed == [ctl EXCEPT !.attempted = TRUE]
<1>1. IsSeq(popped)
  <2>1. CASE messages # <<>>
    <3>1. Len(messages) \in Nat /\ Len(messages) # 0
      BY <2>1 DEF IsSeq
    <3> QED
      BY <3>1, SubSeqIsSeq DEF Front
  <2> QED
    BY <2>1
<1>2. IsSeq(base) /\ Len(base) \in Nat
  <2>1. IsSeq(base)
    BY <1>1, BaseIsSeq
  <2> QED
    BY <2>1 DEF IsSeq
<1>3. armed \in Controllers /\ armed.attempted = TRUE
  BY DEF Controllers
<1>4. CASE o = Skipped(popped, ctl)
  BY <1>1, <1>4 DEF Skipped, Outcome, Answered
<1>5. CASE o # Skipped(popped, ctl)
  <2>1. \E k \in Plans(base) \cup {Len(base) + 1} :
           /\ o.messages = Compacted(base, k, <<"summary", clock>>)
           /\ o.ctl = [armed EXCEPT !.summary = <<"summary", clock>>, !.at = clock]
           /\ o.retry = TRUE
    BY <1>5 DEF OverflowRetry, Compact, Outcome
  <2> HIDE DEF base, armed, popped
  <2>2. PICK k \in 1 .. Len(base) + 1 :
           /\ o.messages = Compacted(base, k, <<"summary", clock>>)
           /\ o.ctl = [armed EXCEPT !.summary = <<"summary", clock>>, !.at = clock]
           /\ o.retry = TRUE
    <3>1. DOMAIN base = 1 .. Len(base)
      BY <1>2 DEF IsSeq
    <3>2. Plans(base) \subseteq 1 .. Len(base)
      BY <3>1 DEF Plans, ValidCuts
    <3> QED
      BY <1>2, <2>1, <3>2
  <2>3. /\ IsSeq(o.messages) /\ o.ctl \in Controllers
        /\ o.ctl.attempted = armed.attempted
    BY <1>2, <1>3, <2>2, CompactKeeps
  <2> QED
    BY <1>3, <2>2, <2>3 DEF Answered
<1> QED
  BY <1>4, <1>5

(* The check of a response.                                                *)
LEMMA AfterResponseAnswers ==
  ASSUME NEW messages, IsSeq(messages), controller \in Controllers, clock \in Nat,
         NEW m, NEW stop, NEW o \in AfterResponse(m, messages, stop)
  PROVE  Answered(o, controller)
<1> DEFINE stale == m.at > 0 /\ controller.at > 0 /\ m.at <= controller.at
           ctl == [controller EXCEPT !.suppressed = @ /\ (stale \/ m.size \in {"high", "full"})]
<1>1. ctl \in Controllers /\ ctl.attempted = controller.attempted
  BY DEF Controllers
<1>2. [ctl EXCEPT !.suppressed = FALSE] \in Controllers
      /\ [ctl EXCEPT !.suppressed = FALSE].attempted = ctl.attempted
  BY <1>1 DEF Controllers
<1>3. \/ o \in {Skipped(messages, ctl), Skipped(messages, [ctl EXCEPT !.suppressed = FALSE])}
      \/ o \in MayCompact(messages, ctl, stop)
      \/ o \in ThresholdCompact(messages, ctl, stop)
      \/ ~ctl.attempted /\ o \in OverflowRetry(messages, ctl, stop)
  BY DEF AfterResponse, Estimated
<1> HIDE DEF ctl
<1>4. CASE o \in {Skipped(messages, ctl), Skipped(messages, [ctl EXCEPT !.suppressed = FALSE])}
  <2>1. PICK c \in Controllers : o = Skipped(messages, c) /\ c.attempted = ctl.attempted
    BY <1>1, <1>2, <1>4
  <2>2. o.messages = messages /\ o.ctl = c /\ o.retry = FALSE
    BY <2>1 DEF Skipped, Outcome
  <2> QED
    BY <1>1, <2>1, <2>2 DEF Answered
<1>5. CASE o \in MayCompact(messages, ctl, stop)
  BY <1>1, <1>5, MayCompactKeeps DEF Keeps, Answered
<1>6. CASE o \in ThresholdCompact(messages, ctl, stop)
  BY <1>1, <1>6, ThresholdKeeps DEF Keeps, Answered
<1>7. CASE ~ctl.attempted /\ o \in OverflowRetry(messages, ctl, stop)
  BY <1>1, <1>7, OverflowRetries DEF Answered
<1> QED
  BY <1>3, <1>4, <1>5, <1>6, <1>7

(***************************************************************************)
(* Types.                                                                  *)
(***************************************************************************)

(* What the proofs need of the variables' types.                           *)
Typed ==
  /\ scope \in DOMAIN Scopes /\ clock \in Nat /\ controller \in Controllers
  /\ IsSeq(context) /\ IsSeq(saved)
  /\ IsSeq(todo) /\ IsSeq(results) /\ IsSeq(pending) /\ Len(pending) <= 1

(* The messages of an empty list.                                          *)
LEMMA NoneIsSeq == IsSeq(<<>>) /\ Len(<<>>) = 0
  BY DEF IsSeq

(* The results that are said for a list of calls, in any order.            *)
LEMMA ResultsAreSeq ==
  ASSUME NEW calls, IsSeq(calls), NEW how
  PROVE  /\ IsSeq(Results(calls, how))
         /\ \A said \in AsTheyEnd(Results(calls, how)) : IsSeq(said)
<1>1. Len(calls) \in Nat /\ DOMAIN calls = 1 .. Len(calls)
  BY DEF IsSeq
<1>2. DOMAIN Results(calls, how) = 1 .. Len(calls)
  BY <1>1 DEF Results
<1>3. IsSeq(Results(calls, how))
  <2>1. Results(calls, how) = [i \in 1 .. Len(calls) |-> Results(calls, how)[i]]
    BY <1>1 DEF Results
  <2> QED
    BY <1>1, <1>2, <2>1, MapIsSeq
<1>4. ASSUME NEW said \in AsTheyEnd(Results(calls, how)) PROVE IsSeq(said)
  <2>1. PICK order : said = [i \in 1 .. Len(calls) |-> Results(calls, how)[order[i]]]
    BY <1>2 DEF AsTheyEnd
  <2>2. DOMAIN said = 1 .. Len(calls) /\ said = [i \in 1 .. Len(calls) |-> said[i]]
    BY <2>1
  <2> QED
    BY <1>1, <2>2, MapIsSeq
<1> QED
  BY <1>3, <1>4

(* What a lane hands out is one message at most.                           *)
LEMMA DrainsOne ==
  ASSUME NEW l, NEW then, Drains(l, then)
  PROVE  /\ IsSeq(pending') /\ Len(pending') <= 1
         /\ pc' \in {then, "top"}
         /\ pending' # <<>> => pc' = "top"
<1>1. CASE lanes[l] = <<>>
  <2>1. Drained(l) = <<>>
    BY <1>1 DEF Drained
  <2>2. pending' = <<>> /\ pc' = then
    BY <2>1 DEF Drains
  <2> QED
    BY <2>2, NoneIsSeq
<1>2. CASE lanes[l] # <<>>
  <2>1. Drained(l) # <<>> /\ DOMAIN Drained(l) = 1 .. 1
    BY <1>2 DEF Drained
  <2>2. DOMAIN pending' = 1 .. 1 /\ pending' = [i \in 1 .. 1 |-> pending'[i]] /\ pc' = "top"
    BY <2>1 DEF Drains
  <2>3. IsSeq(pending') /\ Len(pending') = 1
    BY <2>2, MapIsSeq, 1 \in Nat
  <2> QED
    BY <2>2, <2>3
<1> QED
  BY <1>1, <1>2

(* The types hold at first.                                                *)
LEMMA TypedInit == Init => Typed
<1> SUFFICES ASSUME Init PROVE Typed
  OBVIOUS
<1>1. IsSeq(saved)
  BY ScopesAssumption DEF Init, Scope, IsSeq
<1>2. controller \in Controllers
  BY DEF Init, Fresh, Controllers
<1> QED
  BY <1>1, <1>2, NoneIsSeq DEF Init, Typed

(* A batch is a prefix of what is to do.                                   *)
LEMMA BatchIsSeq ==
  ASSUME Typed
  PROVE  /\ BatchLength \in 0 .. Len(todo) /\ IsSeq(Batch)
         /\ LET rest == SubSeq(todo, BatchLength + 1, Len(todo)) IN
              IsSeq(rest) /\ Len(rest) = Len(todo) - BatchLength
         /\ todo # <<>> => BatchLength # 0
<1>1. Scope.batch \in Nat /\ Len(todo) \in Nat /\ (todo # <<>> => Len(todo) # 0)
  BY ScopesAssumption DEF Typed, Scope, IsSeq
<1>2. BatchLength \in 0 .. Len(todo) /\ (todo # <<>> => BatchLength # 0)
  BY <1>1 DEF BatchLength
<1> QED
  BY <1>1, <1>2, SubSeqIsSeq DEF Typed, Batch

(* A list of calls that an answer makes.                                   *)
LEMMA AnswerIsSeq ==
  ASSUME Typed, NEW a \in Answers
  PROVE  /\ IsSeq(a.calls) /\ IsSeq(Answer(a).calls) /\ Len(Answer(a).calls) = Len(a.calls)
         /\ a.calls = [i \in DOMAIN Answer(a).calls |-> Answer(a).calls[i][1]]
<1>1. IsSeq(a.calls)
  <2>1. CASE a \in {Final, Abort}
    BY <2>1, NoneIsSeq DEF Final, Abort
  <2>2. CASE a \in Scope.answers
    BY <2>2, ScopesAssumption DEF Typed, Scope, IsSeq
  <2> QED
    BY <2>1, <2>2 DEF Answers
<1>2. /\ Len(a.calls) \in Nat /\ DOMAIN a.calls = 1 .. Len(a.calls)
      /\ a.calls = [i \in 1 .. Len(a.calls) |-> a.calls[i]]
  BY <1>1 DEF IsSeq
<1> DEFINE f == Answer(a).calls
<1>3. f = [i \in 1 .. Len(a.calls) |-> <<a.calls[i], clock, i>>]
  BY <1>2 DEF Answer
<1>4. DOMAIN f = 1 .. Len(a.calls) /\ f = [i \in 1 .. Len(a.calls) |-> f[i]]
  BY <1>3
<1>5. \A i \in 1 .. Len(a.calls) : f[i][1] = a.calls[i]
  BY <1>3
<1> HIDE DEF f
<1>6. IsSeq(f) /\ Len(f) = Len(a.calls)
  BY <1>2, <1>4, MapIsSeq
<1>7. a.calls = [i \in DOMAIN f |-> f[i][1]]
  BY <1>2, <1>4, <1>5
<1> QED
  BY <1>1, <1>6, <1>7 DEF f

(* The results that were said before a panic.                              *)
LEMMA EndedIsSeq ==
  ASSUME Typed, NEW ended \in SUBSET (1 .. BatchLength), NEW order,
         NEW said \in AsTheyEnd(Ran([i \in 1 .. Cardinality(ended) |-> todo[order[i]]]))
  PROVE  IsSeq(said)
<1> DEFINE calls == [i \in 1 .. Cardinality(ended) |-> todo[order[i]]]
<1>1. Cardinality(ended) \in Nat
  <2>1. BatchLength \in 0 .. Len(todo) /\ Len(todo) \in Nat
    BY BatchIsSeq DEF Typed, IsSeq
  <2>2. BatchLength \in Int
    BY <2>1
  <2>3. IsFiniteSet(1 .. BatchLength)
    BY <2>2, FS_Interval
  <2> QED
    BY <2>3, FS_Subset, FS_CardinalityType
<1>2. IsSeq(calls)
  <2>1. /\ DOMAIN calls = 1 .. Cardinality(ended)
        /\ calls = [i \in 1 .. Cardinality(ended) |-> calls[i]]
    OBVIOUS
  <2> HIDE DEF calls
  <2> QED
    BY <1>1, <2>1, MapIsSeq
<1>3. said \in AsTheyEnd(Results(calls, "ran"))
  BY DEF Ran
<1> HIDE DEF calls
<1> QED
  BY <1>2, <1>3, ResultsAreSeq

(* Every step keeps the types.                                             *)
LEMMA TypedStep == Typed /\ [Next]_vars => Typed'
<1> SUFFICES ASSUME Typed, [Next]_vars
             PROVE  Typed'
  OBVIOUS
<1> USE DEF Typed
<1>1. CASE Starts
  <2>1. controller' \in Controllers
    BY <1>1 DEF Starts, Controllers
  <2> QED
    BY <1>1, <2>1 DEF Starts
<1>2. CASE InstallEngine \/ Continues
  BY <1>2 DEF InstallEngine, Continues, UNCHANGED_ghosts
<1>3. CASE Prompts
  <2>1. PICK o : /\ o = Skipped(context, controller)
                    \/ \E m : o \in AfterResponse(m, context, cancelled)
                 /\ context' = Append(o.messages, User(<<"run", runs>>))
                 /\ saved' = Append(IF o.replaced THEN o.messages ELSE saved,
                                    User(<<"run", runs>>))
                 /\ controller' = [o.ctl EXCEPT !.attempted = FALSE]
    BY <1>3 DEF Prompts
  <2>2. IsSeq(o.messages) /\ o.ctl \in Controllers
    <3>1. CASE o = Skipped(context, controller)
      BY <3>1 DEF Skipped, Outcome
    <3>2. CASE o # Skipped(context, controller)
      BY <2>1, <3>2, AfterResponseAnswers DEF Answered
    <3> QED
      BY <3>1, <3>2
  <2>3. controller' \in Controllers
    BY <2>1, <2>2 DEF Controllers
  <2>4. IsSeq(context') /\ IsSeq(saved')
    BY <2>1, <2>2, AppendIsSeq
  <2> QED
    BY <1>3, <2>3, <2>4 DEF Prompts
<1>4. CASE DrainsAtStart \/ FollowsUp
  BY <1>4, DrainsOne DEF DrainsAtStart, FollowsUp, UNCHANGED_ghosts
<1>5. CASE StopsCancelled
  BY <1>5, NoneIsSeq DEF StopsCancelled, Ends
<1>6. CASE Injects
  <2> DEFINE said == [i \in DOMAIN pending |-> User(pending[i])]
  <2>1. IsSeq(said)
    <3>1. Len(pending) \in Nat /\ DOMAIN pending = 1 .. Len(pending)
      BY DEF IsSeq
    <3>2. DOMAIN said = 1 .. Len(pending) /\ said = [i \in 1 .. Len(pending) |-> said[i]]
      BY <3>1
    <3> HIDE DEF said
    <3> QED
      BY <3>1, <3>2, MapIsSeq
  <2>2. controller' \in Controllers
    BY <1>6 DEF Injects, Controllers
  <2>3. \E more : IsSeq(more) /\ context' = context \o more /\ saved' = saved \o more
    <3> HIDE DEF said
    <3>1. IsSeq(Append(said, User(<<"limit", runs>>)))
      BY <2>1, AppendIsSeq
    <3> QED
      BY <1>6, <2>1, <3>1 DEF Injects, Says, said
  <2>4. IsSeq(context') /\ IsSeq(saved')
    BY <2>3, ConcatIsSeq
  <2> QED
    BY <1>6, <2>2, <2>4, NoneIsSeq DEF Injects, Ends
<1>7. CASE Responds
  <2>1. PICK a \in Answers :
          /\ controller' = [controller EXCEPT !.attempted = @ /\ a.stop = "error"]
          /\ \E more : /\ more \in {<<Answer(a)>>, <<Answer(a)>> \o Doomed(Answer(a).calls),
                                   <<Answer(a)>> \o Truncated(Answer(a).calls),
                                   <<Answer(a)>> \o <<>>}
                       /\ Says(more)
          /\ pending' \in {pending, <<<<"doom", clock>>>>}
          /\ todo' \in {todo, <<>>, Answer(a).calls}
    BY <1>7 DEF Responds
  <2>2. controller' \in Controllers
    BY <2>1 DEF Controllers
  <2>3. PICK more : /\ more \in {<<Answer(a)>>, <<Answer(a)>> \o Doomed(Answer(a).calls),
                                <<Answer(a)>> \o Truncated(Answer(a).calls),
                                <<Answer(a)>> \o <<>>}
                    /\ Says(more)
    BY <2>1
  <2>4. IsSeq(more)
    <3>1. IsSeq(Answer(a).calls)
      BY AnswerIsSeq
    <3>2. IsSeq(Doomed(Answer(a).calls)) /\ IsSeq(Truncated(Answer(a).calls))
      BY <3>1, ResultsAreSeq DEF Doomed, Truncated
    <3> QED
      BY <2>3, <3>2, OneIsSeq, NoneIsSeq, ConcatIsSeq
  <2>5. IsSeq(context') /\ IsSeq(saved')
    BY <2>3, <2>4, ConcatIsSeq DEF Says
  <2>6. IsSeq(todo')
    BY <2>1, AnswerIsSeq, NoneIsSeq
  <2>7. IsSeq(pending') /\ Len(pending') <= 1
    <3>1. IsSeq(<<<<"doom", clock>>>>) /\ Len(<<<<"doom", clock>>>>) = 1
      BY OneIsSeq
    <3>2. CASE pending' = <<<<"doom", clock>>>>
      BY <3>1, <3>2
    <3>3. CASE pending' = pending
      BY <3>3
    <3> QED
      BY <2>1, <3>2, <3>3
  <2>8. clock' \in Nat /\ UNCHANGED <<scope, results>>
    BY <1>7 DEF Responds
  <2> QED
    BY <2>2, <2>5, <2>6, <2>7, <2>8
<1>8. CASE ExecutesBatch
  <2> DEFINE ran == Ran(Batch)
             rest == SubSeq(todo, BatchLength + 1, Len(todo))
             spared == IF lanes["steering"] # <<>> THEN Spared(rest) ELSE <<>>
  <2>1. IsSeq(Batch) /\ IsSeq(rest)
    BY BatchIsSeq
  <2>2. IsSeq(ran) /\ IsSeq(spared) /\ (\A said \in AsTheyEnd(ran) : IsSeq(said))
    <3> HIDE DEF rest
    <3> QED
      BY <2>1, ResultsAreSeq, NoneIsSeq DEF Ran, Spared
  <2>3. PICK said \in AsTheyEnd(ran) : saved' = saved \o said \o spared
    BY <1>8 DEF ExecutesBatch
  <2>4. IsSeq(saved')
    <3> HIDE DEF ran, spared
    <3>1. IsSeq(saved \o said)
      BY <2>2, ConcatIsSeq
    <3> QED
      BY <2>2, <2>3, <3>1, ConcatIsSeq
  <2>5. UNCHANGED <<scope, controller, clock>>
    BY <1>8 DEF ExecutesBatch
  <2>6. CASE /\ context' = context \o results \o ran \o spared
             /\ results' = <<>> /\ todo' = <<>>
             /\ Drains("steering", "settle")
    <3>1. IsSeq(context')
      <4> HIDE DEF ran, spared
      <4>1. IsSeq(context \o results)
        BY ConcatIsSeq
      <4>2. IsSeq(context \o results \o ran)
        BY <2>2, <4>1, ConcatIsSeq
      <4> QED
        BY <2>2, <2>6, <4>2, ConcatIsSeq
    <3> QED
      BY <2>4, <2>5, <2>6, <3>1, DrainsOne, NoneIsSeq
  <2>7. CASE /\ results' = results \o ran
             /\ todo' = rest
             /\ UNCHANGED <<context, pending>>
    <3>1. IsSeq(results')
      <4> HIDE DEF ran
      <4> QED
        BY <2>2, <2>7, ConcatIsSeq
    <3> QED
      BY <2>1, <2>4, <2>5, <2>7, <3>1
  <2> QED
    BY <1>8, <2>6, <2>7 DEF ExecutesBatch
<1>9. CASE Settles
  <2>1. IsSeq(pending') /\ Len(pending') <= 1
    <3>1. CASE pending' = <<<<"nudge", clock>>>>
      BY <3>1, OneIsSeq
    <3>2. CASE pending' # <<<<"nudge", clock>>>>
      BY <1>9, <3>2, DrainsOne DEF Settles
    <3> QED
      BY <3>1, <3>2
  <2> QED
    BY <1>9, <2>1 DEF Settles
<1>10. CASE Checks
  <2>1. PICK o : /\ o = Skipped(context, controller)
                    \/ \E m : o \in AfterResponse(m, context, cancelled)
                 /\ context' = o.messages
                 /\ saved' = IF o.replaced THEN o.messages ELSE saved
                 /\ controller' = o.ctl
    BY <1>10 DEF Checks
  <2>2. IsSeq(o.messages) /\ o.ctl \in Controllers
    <3>1. CASE o = Skipped(context, controller)
      BY <3>1 DEF Skipped, Outcome
    <3>2. CASE o # Skipped(context, controller)
      BY <2>1, <3>2, AfterResponseAnswers DEF Answered
    <3> QED
      BY <3>1, <3>2
  <2> QED
    BY <1>10, <2>1, <2>2 DEF Checks
<1>11. CASE Panics
  <2>1. PICK ended \in SUBSET (1 .. BatchLength) :
               \E order : \E said \in AsTheyEnd(Ran([i \in 1 .. Cardinality(ended) |->
                                                    todo[order[i]]])) :
                 saved' = saved \o said
    BY <1>11, Zenon DEF Panics
  <2>2. PICK order :
               \E said \in AsTheyEnd(Ran([i \in 1 .. Cardinality(ended) |-> todo[order[i]]])) :
                 saved' = saved \o said
    BY <2>1
  <2>3. PICK said \in AsTheyEnd(Ran([i \in 1 .. Cardinality(ended) |-> todo[order[i]]])) :
               saved' = saved \o said
    BY <2>2
  <2>4. IsSeq(said)
    BY <2>1, <2>3, EndedIsSeq
  <2>5. IsSeq(saved')
    BY <2>3, <2>4, ConcatIsSeq
  <2> QED
    BY <1>11, <2>5, NoneIsSeq DEF Panics
<1>12. CASE AbortBegins \/ AbortReachesEngine
  BY <1>12 DEF AbortBegins, AbortReachesEngine
<1>13. CASE Clients
  BY <1>13 DEF Clients, loopVars
<1>14. CASE UNCHANGED vars
  BY <1>14 DEF vars, loopVars
<1> QED
  BY <1>1, <1>2, <1>3, <1>4, <1>5, <1>6, <1>7, <1>8, <1>9, <1>10, <1>11, <1>12, <1>13, <1>14
     DEF Next, Loop

(***************************************************************************)
(* Repetition.                                                             *)
(***************************************************************************)

(* A second retry is ruled out by what the controller remembers.           *)
OneRetry ==
  /\ retried \in {0, 1} /\ (retried = 1 => controller.attempted)
  /\ pc \in {"building", "prompt"} => retried = 0

(* What was executed and what the detector remembers, side by side.        *)
Alike(e, r) ==
  /\ IsSeq(e) /\ IsSeq(r) /\ Len(e) = Len(r) /\ Len(r) <= Threshold
  /\ \A i \in 1 .. Len(r) : e[i] = <<>> \/ e[i] = r[i]

Broken(r) == Len(r) = Threshold => \E i \in 2 .. Threshold : r[i] # r[1]

(* Two batches like this one are the last of those remembered.             *)
Twice(r, tools) ==
  Len(r) >= Threshold - 1 /\ \A i \in 1 .. Threshold - 1 : r[Len(r) + 1 - i] = tools

ToolNames(calls) == [i \in DOMAIN calls |-> calls[i][1]]

(* A batch that was let through and has not begun.                         *)
Admitted ==
  \E r : /\ Alike(executed, r) /\ Broken(r) /\ ~Twice(r, ToolNames(todo))
         /\ recent = LastOf(Append(r, ToolNames(todo)), Threshold)

Executing ==
  /\ todo # <<>> /\ context # <<>> /\ IsAssistant(context[Len(context)])
  /\ Len(todo) <= Len(context[Len(context)].calls)
  /\ IF Len(todo) = Len(context[Len(context)].calls)
     THEN Admitted ELSE Alike(executed, recent) /\ Broken(recent)

Unrepeated(e) ==
  Len(e) = Threshold /\ e[1] # <<>> => \E i \in 2 .. Threshold : e[i] # e[1]

NoThreeAlike ==
  /\ Unrepeated(executed)
  /\ pc = "exec" => Executing
  /\ pc \notin {"exec", "idle"} => Alike(executed, recent) /\ Broken(recent)

(* The detector's memory speaks for what was executed.                     *)
LEMMA AlikeUnrepeated ==
  ASSUME NEW e, NEW r, Alike(e, r), Broken(r) PROVE Unrepeated(e)
  BY DEF Alike, Broken, Unrepeated, Threshold, IsSeq

(* The last three of a list with one more.                                 *)
Shifted(new, s, e) ==
  /\ IsSeq(new)
  /\ Len(s) < 3 => /\ Len(new) = Len(s) + 1 /\ new[Len(s) + 1] = e
                   /\ \A i \in 1 .. Len(s) : new[i] = s[i]
  /\ Len(s) = 3 => Len(new) = 3 /\ new[3] = e /\ new[1] = s[2] /\ new[2] = s[3]

(* The last messages of a longer list.                                     *)
LEMMA LastOfIs ==
  ASSUME NEW s, IsSeq(s), NEW e, Len(s) <= 3, NEW new, new = LastOf(Append(s, e), 3)
  PROVE  Shifted(new, s, e)
<1> DEFINE all == Append(s, e)
           first == IF Len(all) > 3 THEN Len(all) - 3 + 1 ELSE 1
<1>1. /\ IsSeq(all) /\ Len(all) = Len(s) + 1
      /\ \A i \in 1 .. Len(s) : all[i] = s[i]
      /\ all[Len(s) + 1] = e
  BY AppendIsSeq
<1>2. Len(s) \in Nat
  BY DEF IsSeq
<1>4. new = SubSeq(all, first, Len(all))
  BY DEF LastOf
<1> HIDE DEF all
<1>3. /\ IsSeq(new) /\ Len(new) = Len(all) + 1 - first
      /\ \A i \in 1 .. (Len(all) + 1 - first) : new[i] = all[i + first - 1]
  <2>1. Len(all) \in Nat /\ first \in Nat /\ first >= 1 /\ first <= Len(all) + 1
    BY <1>1, <1>2
  <2> HIDE DEF first
  <2>2. IsSeq(all)
    BY <1>1
  <2>3. /\ IsSeq(SubSeq(all, first, Len(all)))
        /\ Len(SubSeq(all, first, Len(all))) = Len(all) + 1 - first
        /\ \A i \in 1 .. (Len(all) + 1 - first) :
             SubSeq(all, first, Len(all))[i] = all[i + first - 1]
    BY <2>1, <2>2, SubSeqIsSeq
  <2> QED
    BY <1>4, <2>3
<1>5. CASE Len(s) < 3
  <2>1. first = 1
    BY <1>1, <1>2, <1>5
  <2> HIDE DEF first
  <2>2. \A i \in 1 .. (Len(s) + 1) : new[i] = all[i]
    BY <1>1, <1>2, <1>3, <2>1
  <2> QED
    BY <1>1, <1>2, <1>3, <1>5, <2>1, <2>2 DEF Shifted
<1>6. CASE Len(s) = 3
  <2>1. first = 2 /\ Len(all) = 4
    BY <1>1, <1>6
  <2> HIDE DEF first
  <2>2. \A i \in 1 .. 3 : new[i] = all[i + 1]
    BY <1>3, <2>1
  <2>3. new[1] = all[2] /\ new[2] = all[3] /\ new[3] = all[4]
    BY <2>2
  <2> QED
    BY <1>1, <1>3, <1>6, <2>1, <2>3 DEF Shifted
<1>7. Len(s) < 3 \/ Len(s) = 3
  <2>1. \A n \in Nat : n <= 3 => n < 3 \/ n = 3
    OBVIOUS
  <2> QED
    BY <1>2, <2>1
<1> QED
  BY <1>5, <1>6, <1>7

(* A batch that would not be the third alike is recorded.                  *)
LEMMA RecordKeepsAlike ==
  ASSUME NEW e, NEW r, Alike(e, r), Broken(r), NEW tools, ~Twice(r, tools),
         NEW x \in {tools, <<>>}
  PROVE  /\ Alike(LastOf(Append(e, x), Threshold), LastOf(Append(r, tools), Threshold))
         /\ Broken(LastOf(Append(r, tools), Threshold))
<1> DEFINE ee == LastOf(Append(e, x), 3)
           rr == LastOf(Append(r, tools), 3)
<1>0. IsSeq(e) /\ IsSeq(r) /\ Len(e) = Len(r) /\ Len(r) \in 0 .. 3
  BY DEF Alike, Threshold, IsSeq
<1>a. ee = LastOf(Append(e, x), 3) /\ Len(e) <= 3
  BY <1>0
<1>b. rr = LastOf(Append(r, tools), 3) /\ Len(r) <= 3
  BY <1>0
<1> HIDE DEF ee, rr
<1>c. Shifted(ee, e, x) /\ Shifted(rr, r, tools)
  BY <1>0, <1>a, <1>b, LastOfIs
<1>1. /\ IsSeq(ee)
      /\ Len(e) < 3 => /\ Len(ee) = Len(e) + 1 /\ ee[Len(e) + 1] = x
                       /\ \A i \in 1 .. Len(e) : ee[i] = e[i]
      /\ Len(e) = 3 => Len(ee) = 3 /\ ee[3] = x /\ ee[1] = e[2] /\ ee[2] = e[3]
  BY <1>c DEF Shifted
<1>2. /\ IsSeq(rr)
      /\ Len(r) < 3 => /\ Len(rr) = Len(r) + 1 /\ rr[Len(r) + 1] = tools
                       /\ \A i \in 1 .. Len(r) : rr[i] = r[i]
      /\ Len(r) = 3 => Len(rr) = 3 /\ rr[3] = tools /\ rr[1] = r[2] /\ rr[2] = r[3]
  BY <1>c DEF Shifted
<1>3. \A i \in 1 .. Len(r) : e[i] = <<>> \/ e[i] = r[i]
  BY DEF Alike
<1>4. Len(r) >= 2 => r[Len(r)] # tools \/ r[Len(r) - 1] # tools
  <2>1. Len(r) >= 2 /\ r[Len(r)] = tools /\ r[Len(r) - 1] = tools => Twice(r, tools)
    BY <1>0 DEF Twice, Threshold
  <2> QED
    BY <2>1
<1>5. Alike(ee, rr)
  <2>1. CASE Len(r) < 3
    BY <1>0, <1>1, <1>2, <1>3, <2>1 DEF Alike, Threshold
  <2>2. CASE Len(r) = 3
    <3>1. \A i \in 1 .. 3 : ee[i] = <<>> \/ ee[i] = rr[i]
      BY <1>0, <1>1, <1>2, <1>3, <2>2
    <3> QED
      BY <1>0, <1>1, <1>2, <2>2, <3>1 DEF Alike, Threshold
  <2> QED
    BY <1>0, <2>1, <2>2
<1>6. Broken(rr)
  <2> SUFFICES ASSUME Len(rr) = 3, rr[2] = rr[1], rr[3] = rr[1] PROVE FALSE
    BY DEF Broken, Threshold
  <2>1. CASE Len(r) = 3
    BY <1>2, <1>4, <2>1
  <2>2. CASE Len(r) < 3
    <3>1. Len(r) = 2
      BY <1>0, <1>2, <2>2
    <3> QED
      BY <1>2, <1>4, <3>1
  <2> QED
    BY <1>0, <2>1, <2>2
<1> QED
  BY <1>5, <1>6 DEF ee, rr, Threshold

(* The last answer of a context that ends with one.                        *)
LEMMA LastIsLastAnswer ==
  ASSUME NEW c, IsSeq(c), c # <<>>, IsAssistant(c[Len(c)])
  PROVE  Max({i \in DOMAIN c : IsAssistant(c[i])}) = Len(c)
<1> DEFINE S == {i \in DOMAIN c : IsAssistant(c[i])}
<1>1. Len(c) \in Nat /\ DOMAIN c = 1 .. Len(c) /\ Len(c) # 0
  BY DEF IsSeq
<1>2. Len(c) \in S /\ (\A y \in S : y \in Nat /\ Len(c) >= y)
  BY <1>1
<1> HIDE DEF S
<1>3. \A x \in S : (\A y \in S : x >= y) => x = Len(c)
  BY <1>1, <1>2
<1> QED
  BY <1>2, <1>3 DEF Max, S

(* Every step keeps the retries bounded.                                   *)
LEMMA OneRetryStep == Typed /\ OneRetry /\ [Next]_vars => OneRetry'
<1> SUFFICES ASSUME Typed, OneRetry, [Next]_vars
             PROVE  OneRetry'
  OBVIOUS
<1> USE DEF OneRetry, UNCHANGED_ghosts
<1>1. CASE Starts
  BY <1>1 DEF Starts
<1>2. CASE InstallEngine \/ Continues
  BY <1>2 DEF InstallEngine, Continues
<1>3. CASE Prompts
  BY <1>3 DEF Prompts
<1>4. CASE DrainsAtStart \/ FollowsUp
  BY <1>4, DrainsOne DEF DrainsAtStart, FollowsUp
<1>5. CASE StopsCancelled
  BY <1>5 DEF StopsCancelled, Ends
<1>6. CASE Injects
  <2>1. pc' \in {"idle", "call"}
    BY <1>6 DEF Injects, Ends
  <2>2. \/ UNCHANGED <<retried, controller>>
        \/ retried' = 0
    BY <1>6 DEF Injects
  <2> QED
    BY <2>1, <2>2
<1>7. CASE Responds
  <2>1. PICK a \in Answers :
          /\ controller' = [controller EXCEPT !.attempted = @ /\ a.stop = "error"]
          /\ retried' = IF a.stop = "error" THEN retried ELSE 0
          /\ pc' \in {"check", "settle", "top", "exec"}
    BY <1>7 DEF Responds
  <2>2. controller'.attempted = (controller.attempted /\ a.stop = "error")
    BY <2>1 DEF Typed, Controllers
  <2> QED
    <3>1. CASE a.stop = "error"
      <4>1. controller.attempted => controller'.attempted
        BY <2>2, <3>1
      <4> QED
        BY <2>1, <3>1, <4>1
    <3>2. CASE a.stop # "error"
      BY <2>1, <3>2
    <3> QED
      BY <3>1, <3>2
<1>8. CASE ExecutesBatch
  <2>1. pc' = pc \/ pc' \in {"settle", "top"}
    BY <1>8, DrainsOne DEF ExecutesBatch
  <2>2. UNCHANGED <<retried, controller>>
    BY <1>8 DEF ExecutesBatch
  <2> QED
    BY <2>1, <2>2
<1>9. CASE Settles
  <2>1. pc' \in {"top", "follow_up"}
    BY <1>9, DrainsOne DEF Settles
  <2>2. UNCHANGED <<retried, controller>>
    BY <1>9 DEF Settles
  <2> QED
    BY <2>1, <2>2
<1>10. CASE Checks
  <2>1. PICK o : /\ o = Skipped(context, controller)
                    \/ \E m : o \in AfterResponse(m, context, cancelled)
                 /\ controller' = o.ctl
                 /\ retried' \in {retried, retried + 1}
                 /\ ~o.retry => retried' = retried
                 /\ pc' \in {"top", "idle"}
    BY <1>10 DEF Checks
  <2>2. /\ o.retry => ~controller.attempted /\ o.ctl.attempted
        /\ controller.attempted => o.ctl.attempted
    <3>1. CASE o = Skipped(context, controller)
      BY <3>1 DEF Skipped, Outcome
    <3>2. CASE o # Skipped(context, controller)
      BY <2>1, <3>2, AfterResponseAnswers DEF Answered, Typed
    <3> QED
      BY <3>1, <3>2
  <2>3. controller.attempted => controller'.attempted
    BY <2>1, <2>2
  <2>4. CASE o.retry
    <3>1. retried = 0 /\ controller'.attempted
      BY <2>1, <2>2, <2>4
    <3> QED
      BY <2>1, <3>1
  <2>5. CASE ~o.retry
    <3>1. retried' = retried
      BY <2>1, <2>5
    <3> QED
      BY <2>1, <2>3, <3>1
  <2> QED
    BY <2>4, <2>5
<1>11. CASE Panics
  BY <1>11, Zenon DEF Panics
<1>12. CASE AbortBegins \/ AbortReachesEngine
  BY <1>12 DEF AbortBegins, AbortReachesEngine
<1>13. CASE Clients
  BY <1>13 DEF Clients, loopVars
<1>14. CASE UNCHANGED vars
  BY <1>14 DEF vars, loopVars
<1> QED
  BY <1>1, <1>2, <1>3, <1>4, <1>5, <1>6, <1>7, <1>8, <1>9, <1>10, <1>11, <1>12, <1>13, <1>14
     DEF Next, Loop

(* A step that leaves the detector, what was executed and the loop's place *)
(* as they are, or takes it elsewhere than to an execution.                *)
LEMMA DetectorIdle ==
  ASSUME NoThreeAlike, UNCHANGED <<recent, executed>>, pc \notin {"exec", "idle"}, pc' # "exec"
  PROVE  NoThreeAlike'
  BY DEF NoThreeAlike, Unrepeated, Alike, Broken, IsSeq

(* A step that leaves what the detector's memory is about.                 *)
LEMMA DetectorSame ==
  ASSUME NoThreeAlike, UNCHANGED <<recent, executed, pc, todo, context>> PROVE NoThreeAlike'
  BY DEF NoThreeAlike, Executing, Admitted, Unrepeated, Alike, Broken, IsSeq

(* An answer that is let through.                                          *)
LEMMA RespondKeeps ==
  ASSUME Typed, NoThreeAlike, Responds
  PROVE  NoThreeAlike'
<1>1. pc = "call" /\ Alike(executed, recent) /\ Broken(recent)
  BY DEF Responds, NoThreeAlike
<1>2. PICK a \in Answers :
        \/ UNCHANGED <<recent, executed>> /\ pc' # "exec"
        \/ /\ a.stop = "length" /\ ~Loops(a.calls) /\ recent' = Recorded(a.calls)
           /\ pc' = "settle" /\ executed' = LastOf(Append(executed, <<>>), Threshold)
        \/ /\ a.stop # "length" /\ ~Loops(a.calls) /\ recent' = Recorded(a.calls)
           /\ a.calls # <<>> /\ executed' = executed
           /\ context' = context \o (<<Answer(a)>> \o <<>>)
           /\ todo' = Answer(a).calls /\ pc' = "exec"
  BY DEF Responds, Says
<1>3. Loops(a.calls) <=> Twice(recent, a.calls)
  BY DEF Loops, Twice
<1>4. CASE UNCHANGED <<recent, executed>> /\ pc' # "exec"
  BY <1>1, <1>4, DetectorIdle
<1>5. CASE /\ a.stop = "length" /\ ~Loops(a.calls) /\ recent' = Recorded(a.calls)
           /\ pc' = "settle" /\ executed' = LastOf(Append(executed, <<>>), Threshold)
  <2>1. Alike(executed', recent') /\ Broken(recent')
    BY <1>1, <1>3, <1>5, RecordKeepsAlike DEF Recorded
  <2>2. Unrepeated(executed')
    BY <2>1, AlikeUnrepeated
  <2> QED
    BY <1>5, <2>1, <2>2 DEF NoThreeAlike
<1>6. CASE /\ a.stop # "length" /\ ~Loops(a.calls) /\ recent' = Recorded(a.calls)
           /\ a.calls # <<>> /\ executed' = executed
           /\ context' = context \o (<<Answer(a)>> \o <<>>)
           /\ todo' = Answer(a).calls /\ pc' = "exec"
  <2>1. /\ IsSeq(a.calls) /\ IsSeq(todo') /\ Len(todo') = Len(a.calls)
        /\ a.calls = ToolNames(todo')
    BY <1>6, AnswerIsSeq DEF ToolNames
  <2>2. todo' # <<>> /\ Len(todo') \in Nat
    BY <1>6, <2>1 DEF IsSeq
  <2>3. /\ context' # <<>> /\ context'[Len(context')] = Answer(a)
    <3>1. /\ IsSeq(<<Answer(a)>> \o <<>>) /\ Len(<<Answer(a)>> \o <<>>) = 1
          /\ (<<Answer(a)>> \o <<>>)[1] = Answer(a)
      <4>1. /\ IsSeq(<<Answer(a)>>) /\ Len(<<Answer(a)>>) = 1
            /\ <<Answer(a)>>[1] = Answer(a)
        BY OneIsSeq
      <4>2. <<Answer(a)>> \o <<>> = <<Answer(a)>>
        BY <4>1 DEF IsSeq
      <4> QED
        BY <4>1, <4>2
    <3>2. IsSeq(context) /\ Len(context) \in Nat
      BY DEF Typed, IsSeq
    <3>3. /\ IsSeq(context') /\ Len(context') = Len(context) + 1
          /\ context'[Len(context) + 1] = Answer(a)
      BY <1>6, <3>1, <3>2, ConcatIsSeq
    <3> QED
      BY <3>2, <3>3
  <2>4. IsAssistant(Answer(a))
    BY DEF IsAssistant, Answer
  <2>5. Admitted'
    <3>1. /\ Alike(executed, recent) /\ Broken(recent) /\ ~Twice(recent, ToolNames(todo'))
          /\ recent' = LastOf(Append(recent, ToolNames(todo')), Threshold)
      BY <1>1, <1>3, <1>6, <2>1 DEF Recorded
    <3> QED
      BY <1>6, <3>1 DEF Admitted
  <2>6. Executing'
    BY <1>6, <2>2, <2>3, <2>4, <2>5 DEF Executing
  <2>7. Unrepeated(executed')
    BY <1>6 DEF NoThreeAlike, Unrepeated
  <2> QED
    BY <1>6, <2>6, <2>7 DEF NoThreeAlike
<1> QED
  BY <1>2, <1>4, <1>5, <1>6

(* A batch that runs.                                                      *)
LEMMA ExecuteKeeps ==
  ASSUME Typed, NoThreeAlike, ExecutesBatch
  PROVE  NoThreeAlike'
<1> DEFINE last == context[Len(context)]
           rest == SubSeq(todo, BatchLength + 1, Len(todo))
<1>1. pc = "exec" /\ Executing
  BY DEF ExecutesBatch, NoThreeAlike
<1>2. LastAnswer = last
  BY <1>1, LastIsLastAnswer DEF Executing, LastAnswer, Typed
<1>3. Alike(executed', recent') /\ Broken(recent')
  <2>1. recent' = recent
    BY DEF ExecutesBatch
  <2>2. CASE Len(todo) = Len(last.calls)
    <3>1. PICK r : /\ Alike(executed, r) /\ Broken(r) /\ ~Twice(r, ToolNames(todo))
                   /\ recent = LastOf(Append(r, ToolNames(todo)), Threshold)
      BY <1>1, <2>2 DEF Executing, Admitted
    <3>2. executed' = LastOf(Append(executed, ToolNames(todo)), Threshold)
      BY <1>2, <2>2 DEF ExecutesBatch, ToolNames
    <3> QED
      BY <2>1, <3>1, <3>2, RecordKeepsAlike
  <2>3. CASE Len(todo) # Len(last.calls)
    <3>1. executed' = executed
      BY <1>2, <2>3 DEF ExecutesBatch
    <3> QED
      BY <1>1, <2>1, <2>3, <3>1 DEF Executing
  <2> QED
    BY <2>2, <2>3
<1>4. Unrepeated(executed')
  BY <1>3, AlikeUnrepeated
<1>5. CASE pc' \in {"settle", "top"}
  BY <1>3, <1>4, <1>5 DEF NoThreeAlike
<1>6. CASE pc' \notin {"settle", "top"}
  <2>1. todo' = rest /\ rest # <<>> /\ UNCHANGED <<context, pc>>
    BY <1>6, DrainsOne DEF ExecutesBatch
  <2>2. /\ IsSeq(rest) /\ Len(rest) = Len(todo) - BatchLength
        /\ BatchLength \in 0 .. Len(todo) /\ BatchLength # 0 /\ Len(todo) \in Nat
    <3>1. Len(todo) \in Nat /\ todo # <<>>
      BY <1>1 DEF Typed, IsSeq, Executing
    <3> QED
      BY <3>1, BatchIsSeq
  <2> HIDE DEF rest
  <2>3. Len(todo') < Len(todo)
    BY <2>1, <2>2
  <2>4. Len(todo') < Len(last.calls) \/ Len(todo') # Len(last.calls)
    BY <1>1, <2>3 DEF Executing
  <2> QED
    BY <1>1, <1>3, <1>4, <2>1, <2>3, <2>4 DEF NoThreeAlike, Executing
<1> QED
  BY <1>5, <1>6

(* Every step keeps the detector's memory true.                            *)
LEMMA NoThreeAlikeStep == Typed /\ NoThreeAlike /\ [Next]_vars => NoThreeAlike'
<1> SUFFICES ASSUME Typed, NoThreeAlike, [Next]_vars
             PROVE  NoThreeAlike'
  OBVIOUS
<1> USE DEF UNCHANGED_ghosts
<1>1. CASE Starts
  <2>1. recent' = <<>> /\ executed' = <<>> /\ pc' = "building"
    BY <1>1 DEF Starts
  <2>2. Alike(<<>>, <<>>) /\ Broken(<<>>) /\ Unrepeated(<<>>)
    BY NoneIsSeq DEF Alike, Broken, Unrepeated, Threshold
  <2> QED
    BY <2>1, <2>2 DEF NoThreeAlike
<1>2. CASE InstallEngine \/ Continues
  <2>1. /\ UNCHANGED <<recent, executed>>
        /\ pc \in {"building", "prompt"} /\ pc' \in {"prompt", "drain"}
    BY <1>2 DEF InstallEngine, Continues
  <2> QED
    BY <2>1, DetectorIdle
<1>3. CASE Prompts
  <2>1. UNCHANGED <<recent, executed>> /\ pc = "prompt" /\ pc' = "drain"
    BY <1>3 DEF Prompts
  <2> QED
    BY <2>1, DetectorIdle
<1>4. CASE DrainsAtStart \/ FollowsUp
  <2>1. UNCHANGED <<recent, executed>> /\ pc \in {"drain", "follow_up"} /\ pc' \in {"top", "check"}
    BY <1>4, DrainsOne DEF DrainsAtStart, FollowsUp
  <2> QED
    BY <2>1, DetectorIdle
<1>5. CASE StopsCancelled \/ Injects
  <2>1. UNCHANGED <<recent, executed>> /\ pc = "top" /\ pc' \in {"idle", "call"}
    BY <1>5 DEF StopsCancelled, Injects, Ends
  <2> QED
    BY <2>1, DetectorIdle
<1>6. CASE Responds
  BY <1>6, RespondKeeps
<1>7. CASE ExecutesBatch
  BY <1>7, ExecuteKeeps
<1>8. CASE Settles
  <2>1. UNCHANGED <<recent, executed>> /\ pc = "settle" /\ pc' \in {"top", "follow_up"}
    BY <1>8, DrainsOne DEF Settles
  <2> QED
    BY <2>1, DetectorIdle
<1>9. CASE Checks
  <2>1. UNCHANGED <<recent, executed>> /\ pc = "check" /\ pc' \in {"top", "idle"}
    BY <1>9 DEF Checks
  <2> QED
    BY <2>1, DetectorIdle
<1>10. CASE Panics
  <2>1. UNCHANGED <<recent, executed>> /\ pc' = "idle"
    BY <1>10, Zenon DEF Panics
  <2> QED
    BY <2>1 DEF NoThreeAlike
<1>11. CASE AbortBegins \/ AbortReachesEngine
  <2>1. UNCHANGED <<recent, executed, pc, todo, context>>
    BY <1>11 DEF AbortBegins, AbortReachesEngine
  <2> QED
    BY <2>1, DetectorSame
<1>12. CASE Clients \/ UNCHANGED vars
  <2>1. UNCHANGED <<recent, executed, pc, todo, context>>
    BY <1>12 DEF Clients, vars, loopVars
  <2> QED
    BY <2>1, DetectorSame
<1> QED
  BY <1>1, <1>2, <1>3, <1>4, <1>5, <1>6, <1>7, <1>8, <1>9, <1>10, <1>11, <1>12 DEF Next, Loop

(* A run never executes the same batch three times in a row, and a refused *)
(* request is sent again once, until a message or an answer gives reason   *)
(* for another try (doom_loop.rs, controller.rs:220).                      *)
THEOREM RepetitionEndsAlways == Spec => []RepetitionEnds
<1> DEFINE Inv == Typed /\ OneRetry /\ NoThreeAlike
<1>1. Init => Inv
  <2>1. Init => OneRetry
    BY DEF Init, OneRetry
  <2>2. Init => NoThreeAlike
    BY NoneIsSeq DEF Init, NoThreeAlike, Unrepeated, Threshold
  <2> QED
    BY <2>1, <2>2, TypedInit
<1>2. Inv /\ [Next]_vars => Inv'
  BY TypedStep, OneRetryStep, NoThreeAlikeStep
<1>3. Inv => RepetitionEnds
  BY DEF OneRetry, NoThreeAlike, Unrepeated, RepetitionEnds
<1> QED
  BY <1>1, <1>2, <1>3, PTL DEF Spec

(***************************************************************************)
(* Prompts.                                                                *)
(***************************************************************************)
Ids(s) == {s[i].id : i \in DOMAIN s}

(* A lane whose entries are distinct and have the texts t.                 *)
Lined(s, t) ==
  /\ s \in Seq(Entry)
  /\ \A i, j \in DOMAIN s : s[i].id = s[j].id => i = j
  /\ \A i \in DOMAIN s : s[i].text = t[s[i].id]

(* An entry at the end of a lane.                                          *)
LEMMA LinedAppend ==
  ASSUME NEW t, NEW s, Lined(s, t), NEW e \in Entry, e.id \notin Ids(s), e.text = t[e.id]
  PROVE  Lined(Append(s, e), t) /\ Ids(Append(s, e)) = Ids(s) \cup {e.id}
<1> DEFINE new == Append(s, e)
<1>1. Len(s) \in Nat /\ DOMAIN s = 1 .. Len(s)
  BY DEF Lined
<1>2. /\ new \in Seq(Entry) /\ DOMAIN new = 1 .. (Len(s) + 1)
      /\ \A i \in 1 .. Len(s) : new[i] = s[i]
      /\ new[Len(s) + 1] = e
  BY <1>1 DEF Lined
<1> HIDE DEF new
<1>3. \A i \in 1 .. Len(s) : s[i].id # e.id
  BY <1>1 DEF Ids
<1>4. \A i \in DOMAIN new : \/ i \in 1 .. Len(s) /\ new[i] = s[i]
                            \/ i = Len(s) + 1 /\ new[i] = e
  <2>1. \A i \in 1 .. (Len(s) + 1) : i \in 1 .. Len(s) \/ i = Len(s) + 1
    BY <1>1
  <2> QED
    BY <1>2, <2>1
<1>5. \A i, j \in DOMAIN new : new[i].id = new[j].id => i = j
  BY <1>1, <1>3, <1>4 DEF Lined
<1>6. \A i \in DOMAIN new : new[i].text = t[new[i].id]
  BY <1>1, <1>4 DEF Lined
<1>7. Ids(new) = Ids(s) \cup {e.id}
  <2>1. Ids(new) \subseteq Ids(s) \cup {e.id}
    BY <1>1, <1>4 DEF Ids
  <2>2. Ids(s) \subseteq Ids(new)
    <3>1. \A i \in 1 .. Len(s) : i \in DOMAIN new /\ new[i].id = s[i].id
      BY <1>1, <1>2
    <3> QED
      BY <1>1, <3>1 DEF Ids
  <2>3. e.id \in Ids(new)
    <3>1. Len(s) + 1 \in DOMAIN new
      BY <1>1, <1>2
    <3> QED
      BY <1>2, <3>1 DEF Ids
  <2> QED
    BY <2>1, <2>2, <2>3
<1> QED
  BY <1>2, <1>5, <1>6, <1>7 DEF Lined, new

(* A lane without one of its entries.                                      *)
LEMMA LinedRemoveAt ==
  ASSUME NEW t, NEW s, Lined(s, t), NEW i \in DOMAIN s
  PROVE  Lined(RemoveAt(s, i), t) /\ Ids(RemoveAt(s, i)) = Ids(s) \ {s[i].id}
<1> DEFINE new == RemoveAt(s, i)
           n == Len(s)
<1>1. n \in Nat /\ DOMAIN s = 1 .. n /\ i \in 1 .. n /\ IsSeq(s)
  BY SeqIsSeq DEF Lined
<1>2. /\ SubSeq(s, 1, i - 1) \in Seq(Entry) /\ Len(SubSeq(s, 1, i - 1)) = i - 1
      /\ \A k \in 1 .. (i - 1) : SubSeq(s, 1, i - 1)[k] = s[k]
  <2>1. \A k \in 1 .. (i - 1) : s[k] \in Entry
    BY <1>1 DEF Lined
  <2>2. SubSeq(s, 1, i - 1) = [k \in 1 .. (i - 1) |-> s[k]]
    BY <1>1
  <2> QED
    BY <1>1, <2>1, <2>2
<1>3. /\ SubSeq(s, i + 1, n) \in Seq(Entry) /\ Len(SubSeq(s, i + 1, n)) = n - i
      /\ \A k \in 1 .. (n - i) : SubSeq(s, i + 1, n)[k] = s[k + i]
  <2>1. \A k \in 1 .. (n - i) : s[k + i] \in Entry
    BY <1>1 DEF Lined
  <2>2. SubSeq(s, i + 1, n) = [k \in 1 .. (n - i) |-> s[k + i]]
    BY <1>1
  <2>3. n - i \in Nat
    BY <1>1
  <2> DEFINE m == n - i
             g == [k \in 1 .. m |-> s[k + i]]
  <2> HIDE DEF m, n
  <2>4. g \in Seq(Entry) /\ Len(g) = m
    <3>1. m \in Nat /\ \A k \in 1 .. m : s[k + i] \in Entry
      BY <2>1, <2>3 DEF m
    <3> QED
      BY <3>1
  <2> QED
    BY <2>2, <2>4 DEF m
<1>4. /\ new \in Seq(Entry) /\ DOMAIN new = 1 .. (n - 1)
      /\ \A k \in 1 .. (n - 1) : new[k] = IF k < i THEN s[k] ELSE s[k + 1]
  <2> DEFINE a == SubSeq(s, 1, i - 1)
             b == SubSeq(s, i + 1, n)
  <2>1. new = a \o b
    BY DEF RemoveAt
  <2> HIDE DEF a, b, n, new
  <2>2. a \in Seq(Entry) /\ b \in Seq(Entry) /\ Len(a) = i - 1 /\ Len(b) = n - i
    BY <1>2, <1>3 DEF a, b, n
  <2>3. new \in Seq(Entry) /\ Len(new) = n - 1 /\ DOMAIN new = 1 .. (n - 1)
    <3>1. n \in Nat /\ i \in 1 .. n
      BY <1>1 DEF n
    <3>2. new \in Seq(Entry) /\ Len(new) = Len(a) + Len(b)
      <4>1. a \in Seq(Entry) /\ b \in Seq(Entry)
        BY <2>2
      <4>2. a \o b \in Seq(Entry) /\ Len(a \o b) = Len(a) + Len(b)
        BY <4>1, ConcatProperties
      <4> QED
        BY <2>1, <4>2
    <3>4. Len(new) = (i - 1) + (n - i)
      BY <2>2, <3>2
    <3>3. (i - 1) + (n - i) = n - 1
      BY <3>1
    <3> QED
      BY <3>1, <3>2, <3>3, <3>4
  <2>4. ASSUME NEW k \in 1 .. (n - 1) PROVE new[k] = IF k < i THEN s[k] ELSE s[k + 1]
    <3>1. CASE k < i
      <4>1. k \in 1 .. (i - 1) /\ new[k] = a[k]
        BY <1>1, <2>1, <2>2, <2>4, <3>1
      <4> QED
        BY <1>2, <3>1, <4>1 DEF a
    <3>2. CASE ~(k < i)
      <4>1. k - (i - 1) \in 1 .. (n - i) /\ new[k] = b[k - (i - 1)]
        BY <1>1, <2>1, <2>2, <2>4, <3>2
      <4>2. b[k - (i - 1)] = s[k - (i - 1) + i]
        BY <1>3, <4>1 DEF b, n
      <4>3. k - (i - 1) + i = k + 1
        BY <1>1, <2>4
      <4> QED
        BY <3>2, <4>1, <4>2, <4>3
    <3> QED
      BY <3>1, <3>2
  <2> QED
    BY <2>3, <2>4
<1> HIDE DEF new
<1>5. \A k \in DOMAIN new : \E m \in DOMAIN s \ {i} :
        new[k] = s[m] /\ m = IF k < i THEN k ELSE k + 1
  BY <1>1, <1>4
<1>6. \A j, k \in DOMAIN new : new[j].id = new[k].id => j = k
  <2> SUFFICES ASSUME NEW j \in DOMAIN new, NEW k \in DOMAIN new, new[j].id = new[k].id
               PROVE  j = k
    OBVIOUS
  <2>1. PICK m \in DOMAIN s \ {i} : new[j] = s[m] /\ m = IF j < i THEN j ELSE j + 1
    BY <1>5
  <2>2. PICK l \in DOMAIN s \ {i} : new[k] = s[l] /\ l = IF k < i THEN k ELSE k + 1
    BY <1>5
  <2>3. m = l
    BY <2>1, <2>2 DEF Lined
  <2> QED
    BY <1>1, <1>4, <2>1, <2>2, <2>3
<1>7. \A k \in DOMAIN new : new[k].text = t[new[k].id]
  BY <1>5 DEF Lined
<1>8. Ids(new) = Ids(s) \ {s[i].id}
  <2>1. Ids(new) \subseteq Ids(s) \ {s[i].id}
    BY <1>5 DEF Ids, Lined
  <2>2. ASSUME NEW m \in DOMAIN s \ {i} PROVE s[m].id \in Ids(new)
    <3>1. CASE m < i
      <4>1. m \in DOMAIN new /\ new[m] = s[m]
        BY <1>1, <1>4, <3>1
      <4> QED
        BY <4>1 DEF Ids
    <3>2. CASE m > i
      <4>1. m - 1 \in DOMAIN new /\ new[m - 1] = s[m]
        BY <1>1, <1>4, <3>2
      <4> QED
        BY <4>1 DEF Ids
    <3> QED
      BY <1>1, <3>1, <3>2
  <2>3. Ids(s) \ {s[i].id} \subseteq Ids(new)
    BY <2>2 DEF Ids
  <2> QED
    BY <2>1, <2>3
<1> QED
  BY <1>4, <1>6, <1>7, <1>8 DEF Lined, new

(* A lane without its first entry.                                         *)
LEMMA LinedTail ==
  ASSUME NEW t, NEW s, Lined(s, t), s # <<>>
  PROVE  /\ 1 \in DOMAIN s /\ Head(s) = s[1]
         /\ Lined(Tail(s), t) /\ Ids(Tail(s)) = Ids(s) \ {s[1].id}
<1>1. s \in Seq(Entry) /\ Len(s) \in Nat /\ Len(s) # 0 /\ DOMAIN s = 1 .. Len(s)
  BY DEF Lined
<1>2. 1 \in DOMAIN s /\ Head(s) = s[1]
  BY <1>1
<1>3. Tail(s) = RemoveAt(s, 1)
  <2>1. SubSeq(s, 1, 0) = <<>> /\ SubSeq(s, 2, Len(s)) = Tail(s)
    BY <1>1
  <2>2. <<>> \o Tail(s) = Tail(s)
    BY <1>1
  <2> QED
    BY <2>1, <2>2 DEF RemoveAt
<1> QED
  <2>1. Lined(RemoveAt(s, 1), t) /\ Ids(RemoveAt(s, 1)) = Ids(s) \ {s[1].id}
    BY <1>2, LinedRemoveAt
  <2> QED
    BY <1>2, <1>3, <2>1

(* The entries of a lane in a new order.                                   *)
Reordered(new, s, f) ==
  /\ new \in Seq(Entry) /\ Len(new) = Len(s)
  /\ f \in [DOMAIN s -> DOMAIN s] /\ (\A i, j \in DOMAIN s : f[i] = f[j] => i = j)
  /\ \A j \in DOMAIN s : \E i \in DOMAIN s : f[i] = j
  /\ \A i \in DOMAIN s : new[i].id = s[f[i]].id /\ new[i].text = s[f[i]].text

(* They are what they were.                                                *)
LEMMA LinedReordered ==
  ASSUME NEW t, NEW s, Lined(s, t), NEW new, NEW f, Reordered(new, s, f)
  PROVE  Lined(new, t) /\ Ids(new) = Ids(s)
<1>1. DOMAIN new = DOMAIN s
  BY DEF Lined, Reordered
<1>2. \A i, j \in DOMAIN s : new[i].id = new[j].id => i = j
  BY DEF Lined, Reordered
<1>3. Ids(new) = Ids(s)
  <2>1. Ids(new) \subseteq Ids(s)
    BY <1>1 DEF Ids, Reordered
  <2>2. ASSUME NEW j \in DOMAIN s PROVE s[j].id \in Ids(new)
    <3>1. PICK i \in DOMAIN s : f[i] = j
      BY DEF Reordered
    <3> QED
      BY <1>1, <3>1 DEF Ids, Reordered
  <2>3. ASSUME NEW x \in Ids(s) PROVE x \in Ids(new)
    <3>1. PICK j \in DOMAIN s : x = s[j].id
      BY DEF Ids
    <3> QED
      BY <2>2, <3>1
  <2> QED
    BY <2>1, <2>3
<1>4. ASSUME NEW i \in DOMAIN s PROVE new[i].text = t[new[i].id]
  <2>1. f[i] \in DOMAIN s
    BY DEF Reordered
  <2>2. s[f[i]].text = t[s[f[i]].id]
    BY <2>1 DEF Lined
  <2> QED
    BY <2>2 DEF Reordered
<1> QED
  BY <1>1, <1>2, <1>3, <1>4 DEF Lined, Reordered

(* The ids of listed messages, and a list whose prompts are distinct and   *)
(* have the texts t.                                                       *)
Heads(s) == {s[i][1] : i \in DOMAIN s}

Told(s, t) ==
  /\ IsSeq(s)
  /\ \A i, j \in DOMAIN s : s[i][1] \in Prompt /\ s[i][1] = s[j][1] => i = j
  /\ \A i \in DOMAIN s : s[i][1] \in Prompt => s[i][2] = t[s[i][1]]

(* Where every prompt is.                                                  *)
Homes == {"none", "steering", "follow_up", "moving", "pending", "delivered", "removed", "lost"}

Where ==
  [none |-> {p \in Prompt : text[p] = 0},
   steering |-> Ids(lanes["steering"]), follow_up |-> Ids(lanes["follow_up"]),
   moving |-> {e.id : e \in moving}, pending |-> Heads(pending),
   delivered |-> Heads(delivered), removed |-> removed, lost |-> lost]

Partition(W) ==
  \A p \in Prompt : /\ \E x \in Homes : p \in W[x]
                    /\ \A x, y \in Homes : p \in W[x] /\ p \in W[y] => x = y

Conserved ==
  /\ lanes \in [Lane -> Seq(Entry)] /\ text \in [Prompt -> Nat]
  /\ \A l \in Lane : Lined(lanes[l], text)
  /\ moving \subseteq Entry /\ (\A e, f \in moving : e = f)
  /\ \A e \in moving : e.text = text[e.id]
  /\ removed \subseteq Prompt /\ lost \subseteq Prompt
  /\ Told(pending, text) /\ Told(delivered, text)
  /\ pending # <<>> => pc = "top" /\ Len(pending) = 1
  /\ Partition(Where)

(* Prompts that are together go to another home.                           *)
LEMMA Moved ==
  ASSUME Partition(Where), NEW a \in Homes, NEW b \in Homes, NEW C, C \subseteq Where[a],
         \A x \in Homes : \A q \in Prompt :
           q \in Where'[x] <=> IF q \in C THEN x = b ELSE q \in Where[x]
  PROVE  Partition(Where')
<1> SUFFICES ASSUME NEW p \in Prompt
             PROVE  /\ \E x \in Homes : p \in Where'[x]
                    /\ \A x, y \in Homes : p \in Where'[x] /\ p \in Where'[y] => x = y
  BY DEF Partition
<1>1. CASE p \in C
  BY <1>1
<1>2. CASE p \notin C
  BY <1>2 DEF Partition
<1> QED
  BY <1>1, <1>2

(* A new text of a prompt that is elsewhere.                               *)
LEMMA OtherText ==
  ASSUME NEW t \in [Prompt -> Nat], NEW p \in Prompt, NEW n \in Nat, NEW s
  PROVE  /\ Lined(s, t) /\ p \notin Ids(s) => Lined(s, [t EXCEPT ![p] = n])
         /\ Told(s, t) /\ p \notin Heads(s) => Told(s, [t EXCEPT ![p] = n])
<1> DEFINE u == [t EXCEPT ![p] = n]
<1>1. \A q \in Prompt : q # p => u[q] = t[q]
  OBVIOUS
<1> HIDE DEF u
<1>2. ASSUME Lined(s, t), p \notin Ids(s) PROVE Lined(s, u)
  <2>1. ASSUME NEW i \in DOMAIN s PROVE s[i].id \in Prompt /\ s[i].id # p
    <3>1. s[i] \in Entry
      BY <1>2 DEF Lined
    <3> QED
      BY <1>2, <3>1 DEF Ids, Entry
  <2> QED
    BY <1>1, <1>2, <2>1 DEF Lined
<1>3. ASSUME Told(s, t), p \notin Heads(s) PROVE Told(s, u)
  <2>1. \A i \in DOMAIN s : s[i][1] # p
    BY <1>3 DEF Heads
  <2> QED
    BY <1>1, <1>3, <2>1 DEF Told
<1> QED
  BY <1>2, <1>3 DEF u

(* Where the prompts are, home by home.                                    *)
Placed ==
  /\ Where["none"] = {p \in Prompt : text[p] = 0}
  /\ \A l \in Lane : Where[l] = Ids(lanes[l])
  /\ Where["moving"] = {e.id : e \in moving} /\ Where["pending"] = Heads(pending)
  /\ Where["delivered"] = Heads(delivered)
  /\ Where["removed"] = removed /\ Where["lost"] = lost
  /\ Homes = {"none", "moving", "pending", "delivered", "removed", "lost"} \cup Lane

(* The homes are those, before a step and after it.                        *)
LEMMA WhereIs == Placed /\ Placed'
  BY DEF Placed, Where, Homes, Lane

(* What only the lanes, the prompts' texts and those on their way change.  *)
LEMMA EnqueueConserves ==
  ASSUME Conserved, NEW l \in Lane, NEW p \in Prompt, Enqueue(l, p),
         UNCHANGED <<pending, delivered, lost, pc>>
  PROVE  Conserved'
<1> DEFINE e == [id |-> p, version |-> 0, text |-> 1]
<1>1. /\ text[p] = 0 /\ text' = [text EXCEPT ![p] = 1]
      /\ lanes' = [lanes EXCEPT ![l] = Append(@, e)]
      /\ UNCHANGED <<moving, view, removed>>
  BY DEF Enqueue
<1>2. text' \in [Prompt -> Nat] /\ text'[p] = 1
      /\ (\A q \in Prompt : q # p => text'[q] = text[q])
  BY <1>1 DEF Conserved
<1>3. \A x \in Homes : p \in Where[x] <=> x = "none"
  <2>1. p \in Where["none"] /\ "none" \in Homes
    BY <1>1, WhereIs DEF Placed
  <2> QED
    BY <2>1 DEF Conserved, Partition
<1>4. \A m \in Lane : p \notin Ids(lanes[m]) /\ Lined(lanes[m], text')
  <2>1. \A m \in Lane : p \notin Ids(lanes[m])
    BY <1>3, WhereIs DEF Placed, Lane
  <2> QED
    BY <1>1, <2>1, OtherText DEF Conserved
<1>5. /\ Lined(lanes'[l], text') /\ Ids(lanes'[l]) = Ids(lanes[l]) \cup {p}
      /\ \A m \in Lane : m # l => lanes'[m] = lanes[m]
  <2>1. e \in Entry /\ e.id = p /\ e.text = 1
    BY DEF Entry
  <2>2. lanes'[l] = Append(lanes[l], e) /\ (\A m \in Lane : m # l => lanes'[m] = lanes[m])
    BY <1>1 DEF Conserved
  <2> HIDE DEF e
  <2> QED
    BY <1>2, <1>4, <2>1, <2>2, LinedAppend
<1>6. lanes' \in [Lane -> Seq(Entry)] /\ (\A m \in Lane : Lined(lanes'[m], text'))
  <2>1. \A m \in Lane : Lined(lanes'[m], text')
    BY <1>4, <1>5
  <2>2. DOMAIN lanes' = Lane /\ lanes' = [m \in Lane |-> lanes'[m]]
    BY <1>1 DEF Conserved
  <2> QED
    BY <2>1, <2>2 DEF Lined
<1>7. Told(pending', text') /\ Told(delivered', text')
  <2>1. p \notin Heads(pending) /\ p \notin Heads(delivered)
    BY <1>3, WhereIs DEF Placed
  <2> QED
    BY <1>1, <2>1, OtherText DEF Conserved
<1>8. \A f \in moving' : f.text = text'[f.id]
  <2>1. ASSUME NEW f \in moving PROVE f.id \in Prompt /\ f.id # p
    <3>1. f \in Entry
      BY DEF Conserved
    <3>2. p \notin {g.id : g \in moving}
      BY <1>3, WhereIs DEF Placed
    <3> QED
      BY <3>1, <3>2 DEF Entry
  <2> QED
    BY <1>1, <1>2, <2>1 DEF Conserved
<1>9. Partition(Where')
  <2>1. \A x \in Homes : \A q \in Prompt :
          q \in Where'[x] <=> IF q \in {p} THEN x = l ELSE q \in Where[x]
    <3>1. ASSUME NEW x \in Homes \ Lane, NEW q \in Prompt
          PROVE  q \in Where'[x] <=> IF q \in {p} THEN x = l ELSE q \in Where[x]
      <4>1. x \notin {"none"} => Where'[x] = Where[x]
        BY <1>1, WhereIs DEF Placed
      <4>2. x = "none" => (q \in Where'[x] <=> q # p /\ q \in Where[x])
        BY <1>2, WhereIs DEF Placed
      <4> QED
        BY <1>3, <4>1, <4>2
    <3>2. ASSUME NEW x \in Lane, NEW q \in Prompt
          PROVE  q \in Where'[x] <=> IF q \in {p} THEN x = l ELSE q \in Where[x]
      BY <1>4, <1>5, WhereIs DEF Placed
    <3> QED
      BY <3>1, <3>2
  <2>2. {p} \subseteq Where["none"] /\ "none" \in Homes /\ l \in Homes
    BY <1>1, WhereIs DEF Placed
  <2>3. Partition(Where)
    BY DEF Conserved
  <2> DEFINE C == {p}
  <2> HIDE DEF C
  <2>4. /\ C \subseteq Where["none"]
        /\ \A x \in Homes : \A q \in Prompt :
             q \in Where'[x] <=> IF q \in C THEN x = l ELSE q \in Where[x]
    BY <2>1, <2>2 DEF C
  <2> QED
    BY <2>2, <2>3, <2>4, Moved
<1> QED
  BY <1>1, <1>2, <1>6, <1>7, <1>8, <1>9 DEF Conserved

(* The lanes as they stand when one of them has changed.                   *)
LEMMA OneLane ==
  ASSUME Conserved, NEW l \in Lane, NEW s, lanes' = [lanes EXCEPT ![l] = s],
         NEW t, Lined(s, t), \A m \in Lane \ {l} : Lined(lanes[m], t)
  PROVE  /\ lanes' \in [Lane -> Seq(Entry)] /\ (\A m \in Lane : Lined(lanes'[m], t))
         /\ lanes'[l] = s /\ (\A m \in Lane : m # l => lanes'[m] = lanes[m])
<1>1. lanes'[l] = s /\ (\A m \in Lane : m # l => lanes'[m] = lanes[m])
  BY DEF Conserved
<1>2. \A m \in Lane : Lined(lanes'[m], t)
  BY <1>1
<1>3. DOMAIN lanes' = Lane /\ lanes' = [m \in Lane |-> lanes'[m]]
  BY DEF Conserved
<1>4. lanes' \in [Lane -> Seq(Entry)]
  BY <1>2, <1>3 DEF Lined
<1> QED
  BY <1>1, <1>2, <1>4

(* An entry that is taken out of a lane is in no other place.              *)
LEMMA TakenOut ==
  ASSUME Conserved, NEW l \in Lane, NEW i \in DOMAIN lanes[l],
         lanes' = [lanes EXCEPT ![l] = RemoveAt(@, i)]
  PROVE  /\ lanes' \in [Lane -> Seq(Entry)] /\ (\A m \in Lane : Lined(lanes'[m], text))
         /\ lanes[l][i] \in Entry /\ lanes[l][i].id \in Ids(lanes[l])
         /\ lanes[l][i].text = text[lanes[l][i].id]
         /\ Ids(lanes'[l]) = Ids(lanes[l]) \ {lanes[l][i].id}
         /\ \A m \in Lane : m # l => lanes'[m] = lanes[m]
<1>1. Lined(lanes[l], text)
  BY DEF Conserved
<1>2. /\ lanes[l][i] \in Entry /\ lanes[l][i].id \in Ids(lanes[l])
      /\ lanes[l][i].text = text[lanes[l][i].id]
  BY <1>1 DEF Lined, Ids
<1> DEFINE s == RemoveAt(lanes[l], i)
<1>3. Lined(s, text) /\ Ids(s) = Ids(lanes[l]) \ {lanes[l][i].id}
  BY <1>1, LinedRemoveAt
<1>4. lanes' = [lanes EXCEPT ![l] = s]
  OBVIOUS
<1> HIDE DEF s
<1>5. /\ lanes' \in [Lane -> Seq(Entry)] /\ (\A m \in Lane : Lined(lanes'[m], text))
      /\ lanes'[l] = s /\ (\A m \in Lane : m # l => lanes'[m] = lanes[m])
  <2>1. \A m \in Lane \ {l} : Lined(lanes[m], text)
    BY DEF Conserved
  <2> QED
    BY <1>3, <1>4, <2>1, OneLane
<1> QED
  BY <1>2, <1>3, <1>5

(* A client takes a prompt back.                                           *)
LEMMA RemoveConserves ==
  ASSUME Conserved, NEW l \in Lane, RemoveEntry(l), UNCHANGED <<pending, delivered, lost, pc>>
  PROVE  Conserved'
<1>1. PICK i \in DOMAIN lanes[l] : /\ lanes[l][i].id = view.id
                                 /\ lanes' = [lanes EXCEPT ![l] = RemoveAt(@, i)]
  BY DEF RemoveEntry, Found
<1> DEFINE p == view.id
           C == {p}
<1>2. removed' = removed \cup C /\ UNCHANGED <<moving, text>>
  BY DEF RemoveEntry
<1>3. /\ lanes' \in [Lane -> Seq(Entry)] /\ (\A m \in Lane : Lined(lanes'[m], text))
      /\ p \in Prompt /\ p \in Ids(lanes[l]) /\ Ids(lanes'[l]) = Ids(lanes[l]) \ C
      /\ \A m \in Lane : m # l => lanes'[m] = lanes[m]
  <2>1. /\ lanes' \in [Lane -> Seq(Entry)] /\ (\A m \in Lane : Lined(lanes'[m], text))
        /\ lanes[l][i] \in Entry /\ lanes[l][i].id \in Ids(lanes[l])
        /\ Ids(lanes'[l]) = Ids(lanes[l]) \ {lanes[l][i].id}
        /\ \A m \in Lane : m # l => lanes'[m] = lanes[m]
    BY <1>1, TakenOut
  <2>2. p \in Prompt
    BY <1>1, <2>1 DEF Entry
  <2> QED
    BY <1>1, <2>1, <2>2
<1> HIDE DEF p
<1>4. Partition(Where')
  <2>1. C \subseteq Where[l] /\ l \in Homes /\ "removed" \in Homes
    BY <1>3, WhereIs DEF Placed
  <2>2. Partition(Where)
    BY DEF Conserved
  <2>3. ASSUME NEW x \in Homes, NEW q \in Prompt
        PROVE  q \in Where'[x] <=> IF q \in C THEN x = "removed" ELSE q \in Where[x]
    <3>1. p \in Where[x] => x = l
      BY <1>3, <2>1, <2>2 DEF Partition
    <3>2. CASE x \in Lane
      <4>1. Where'[x] = Ids(lanes'[x]) /\ Where[x] = Ids(lanes[x]) /\ x # "removed"
        BY <3>2, WhereIs DEF Placed, Lane
      <4> QED
        BY <1>3, <3>1, <3>2, <4>1
    <3>3. CASE x = "removed"
      BY <1>2, <3>3, WhereIs DEF Placed
    <3>4. CASE x \notin Lane \cup {"removed"}
      <4>1. Where'[x] = Where[x]
        BY <1>2, <3>4, WhereIs DEF Placed
      <4> QED
        BY <3>1, <3>4, <4>1
    <3> QED
      BY <3>2, <3>3, <3>4
  <2> HIDE DEF C
  <2> QED
    BY <2>1, <2>2, <2>3, Moved
<1> QED
  BY <1>2, <1>3, <1>4 DEF Conserved

(* A client clears a lane.                                                 *)
LEMMA ClearConserves ==
  ASSUME Conserved, NEW l \in Lane, Clear(l), UNCHANGED <<pending, delivered, lost, pc>>
  PROVE  Conserved'
<1> DEFINE C == Ids(lanes[l])
<1>1. /\ lanes' = [lanes EXCEPT ![l] = <<>>] /\ removed' = removed \cup C
      /\ UNCHANGED <<moving, text>>
  BY DEF Clear, Ids
<1>2. Lined(<<>>, text) /\ Ids(<<>>) = {}
  BY DEF Lined, Ids
<1>3. /\ lanes' \in [Lane -> Seq(Entry)] /\ (\A m \in Lane : Lined(lanes'[m], text))
      /\ lanes'[l] = <<>> /\ (\A m \in Lane : m # l => lanes'[m] = lanes[m])
  <2>1. \A m \in Lane \ {l} : Lined(lanes[m], text)
    BY DEF Conserved
  <2> QED
    BY <1>1, <1>2, <2>1, OneLane
<1>4. C \subseteq Prompt
  <2>1. ASSUME NEW i \in DOMAIN lanes[l] PROVE lanes[l][i].id \in Prompt
    <3>1. lanes[l][i] \in Entry
      BY DEF Conserved, Lined
    <3> QED
      BY <3>1 DEF Entry
  <2> QED
    BY <2>1 DEF Ids
<1>5. Partition(Where')
  <2>1. C \subseteq Where[l] /\ l \in Homes /\ "removed" \in Homes
    BY WhereIs DEF Placed
  <2>2. Partition(Where)
    BY DEF Conserved
  <2> HIDE DEF C
  <2>3. ASSUME NEW x \in Homes, NEW q \in Prompt
        PROVE  q \in Where'[x] <=> IF q \in C THEN x = "removed" ELSE q \in Where[x]
    <3>1. q \in C /\ q \in Where[x] => x = l
      BY <2>1, <2>2 DEF Partition
    <3>2. CASE x \in Lane
      <4>1. Where'[x] = Ids(lanes'[x]) /\ Where[x] = Ids(lanes[x]) /\ x # "removed"
        BY <3>2, WhereIs DEF Placed, Lane
      <4> QED
        BY <1>2, <1>3, <3>1, <3>2, <4>1 DEF C
    <3>3. CASE x = "removed"
      BY <1>1, <3>3, WhereIs DEF Placed, C
    <3>4. CASE x \notin Lane \cup {"removed"}
      <4>1. Where'[x] = Where[x]
        BY <1>1, <3>4, WhereIs DEF Placed
      <4> QED
        BY <3>1, <3>4, <4>1
    <3> QED
      BY <3>2, <3>3, <3>4
  <2> QED
    BY <2>1, <2>2, <2>3, Moved
<1> QED
  BY <1>1, <1>3, <1>4, <1>5 DEF Conserved

(* A prompt leaves the follow-up lane to be sent now.                      *)
LEMMA SendNowRemovesConserves ==
  ASSUME Conserved, SendNowRemoves, UNCHANGED <<pending, delivered, lost, pc>>
  PROVE  Conserved'
<1> DEFINE l == "follow_up"
<1>1. PICK i \in DOMAIN lanes[l] : /\ lanes' = [lanes EXCEPT ![l] = RemoveAt(@, i)]
                                 /\ moving' = {lanes[l][i]}
  BY DEF SendNowRemoves, Found
<1>2. moving = {} /\ UNCHANGED <<text, removed>>
  BY DEF SendNowRemoves
<1> DEFINE e == lanes[l][i]
           C == {e.id}
<1>3. /\ lanes' \in [Lane -> Seq(Entry)] /\ (\A m \in Lane : Lined(lanes'[m], text))
      /\ e \in Entry /\ e.id \in Ids(lanes[l]) /\ e.text = text[e.id]
      /\ Ids(lanes'[l]) = Ids(lanes[l]) \ C
      /\ \A m \in Lane : m # l => lanes'[m] = lanes[m]
  BY <1>1, TakenOut DEF Lane
<1>4. moving' = {e} /\ {f.id : f \in moving'} = C
  BY <1>1
<1> HIDE DEF e
<1>5. Partition(Where')
  <2>1. C \subseteq Where[l] /\ l \in Homes /\ "moving" \in Homes /\ l \in Lane
    BY <1>3, WhereIs DEF Placed, Lane
  <2>2. Partition(Where)
    BY DEF Conserved
  <2>3. ASSUME NEW x \in Homes, NEW q \in Prompt
        PROVE  q \in Where'[x] <=> IF q \in C THEN x = "moving" ELSE q \in Where[x]
    <3>1. q \in C /\ q \in Where[x] => x = l
      BY <2>1, <2>2 DEF Partition
    <3>2. CASE x \in Lane
      <4>1. Where'[x] = Ids(lanes'[x]) /\ Where[x] = Ids(lanes[x]) /\ x # "moving"
        BY <3>2, WhereIs DEF Placed, Lane
      <4> QED
        BY <1>3, <3>1, <3>2, <4>1
    <3>3. CASE x = "moving"
      <4>1. Where'[x] = C /\ Where[x] = {}
        BY <1>2, <1>4, <3>3, WhereIs DEF Placed
      <4> QED
        BY <3>3, <4>1
    <3>4. CASE x \notin Lane \cup {"moving"}
      <4>1. Where'[x] = Where[x]
        BY <1>2, <3>4, WhereIs DEF Placed
      <4> QED
        BY <2>1, <3>1, <3>4, <4>1
    <3> QED
      BY <3>2, <3>3, <3>4
  <2> HIDE DEF C, l
  <2> QED
    BY <2>1, <2>2, <2>3, Moved
<1> QED
  BY <1>2, <1>3, <1>4, <1>5 DEF Conserved

(* ... and enters the other lane.                                          *)
LEMMA SendNowPushesConserves ==
  ASSUME Conserved, SendNowPushes, UNCHANGED <<pending, delivered, lost, pc>>
  PROVE  Conserved'
<1> DEFINE l == "steering"
<1>1. PICK e \in moving : lanes' = [lanes EXCEPT ![l] = Append(@, Bumped(e))]
  BY DEF SendNowPushes
<1>2. moving' = {} /\ UNCHANGED <<text, removed>>
  BY DEF SendNowPushes
<1> DEFINE C == {e.id}
<1>3. /\ e \in Entry /\ e.text = text[e.id] /\ moving = {e}
      /\ Bumped(e) \in Entry /\ Bumped(e).id = e.id /\ Bumped(e).text = e.text
  <2>1. e \in Entry /\ e.text = text[e.id] /\ moving = {e}
    BY DEF Conserved
  <2> QED
    BY <2>1 DEF Bumped, Entry
<1>4. l \in Lane /\ l \in Homes /\ "moving" \in Homes /\ Where["moving"] = C
  BY <1>3, WhereIs DEF Placed, Lane
<1>5. Partition(Where)
  BY DEF Conserved
<1>6. \A x \in Homes : e.id \in Where[x] => x = "moving"
  BY <1>3, <1>4, <1>5 DEF Partition, Entry
<1>7. e.id \notin Ids(lanes[l])
  BY <1>4, <1>6, WhereIs DEF Placed
<1> DEFINE s == Append(lanes[l], Bumped(e))
<1>8. Lined(s, text) /\ Ids(s) = Ids(lanes[l]) \cup C
  <2>1. Lined(lanes[l], text)
    BY <1>4 DEF Conserved
  <2> HIDE DEF l
  <2>2. Bumped(e).id \notin Ids(lanes[l]) /\ Bumped(e).text = text[Bumped(e).id]
    BY <1>3, <1>7
  <2>3. Lined(s, text) /\ Ids(s) = Ids(lanes[l]) \cup {Bumped(e).id}
    BY <1>3, <2>1, <2>2, LinedAppend
  <2> QED
    BY <1>3, <2>3
<1>9. lanes' = [lanes EXCEPT ![l] = s]
  BY <1>1
<1> HIDE DEF s, l
<1>10. /\ lanes' \in [Lane -> Seq(Entry)] /\ (\A m \in Lane : Lined(lanes'[m], text))
       /\ lanes'[l] = s /\ (\A m \in Lane : m # l => lanes'[m] = lanes[m])
  <2>1. \A m \in Lane \ {l} : Lined(lanes[m], text)
    BY DEF Conserved
  <2> QED
    BY <1>4, <1>8, <1>9, <2>1, OneLane
<1>11. Partition(Where')
  <2>1. ASSUME NEW x \in Homes, NEW q \in Prompt
        PROVE  q \in Where'[x] <=> IF q \in C THEN x = l ELSE q \in Where[x]
    <3>1. q \in C /\ q \in Where[x] => x = "moving"
      BY <1>6
    <3>2. CASE x \in Lane
      <4>1. Where'[x] = Ids(lanes'[x]) /\ Where[x] = Ids(lanes[x]) /\ x # "moving"
        BY <3>2, WhereIs DEF Placed, Lane
      <4> QED
        BY <1>8, <1>10, <3>1, <3>2, <4>1
    <3>3. CASE x = "moving"
      <4>1. Where'[x] = {} /\ Where[x] = C /\ l # x
        BY <1>2, <1>4, <3>3, WhereIs DEF Placed, Lane
      <4> QED
        BY <3>3, <4>1
    <3>4. CASE x \notin Lane \cup {"moving"}
      <4>1. Where'[x] = Where[x]
        BY <1>2, <3>4, WhereIs DEF Placed
      <4> QED
        BY <1>4, <3>1, <3>4, <4>1
    <3> QED
      BY <3>2, <3>3, <3>4
  <2> HIDE DEF C
  <2> QED
    BY <1>4, <1>5, <2>1, Moved
<1> QED
  BY <1>2, <1>10, <1>11 DEF Conserved

(* No prompt changes its place.                                            *)
LEMMA Stays ==
  ASSUME Partition(Where), \A x \in Homes : \A q \in Prompt : q \in Where'[x] <=> q \in Where[x]
  PROVE  Partition(Where')
  BY DEF Partition

(* A client edits a prompt.                                                *)
LEMMA UpdateConserves ==
  ASSUME Conserved, NEW l \in Lane, Update(l), UNCHANGED <<pending, delivered, lost, pc>>
  PROVE  Conserved'
<1> DEFINE s == lanes[l]
           p == view.id
<1>1. PICK i \in DOMAIN s :
        /\ s[i].id = p /\ text' = [text EXCEPT ![p] = text[p] + 1]
        /\ lanes' = [lanes EXCEPT ![l] =
                       [s EXCEPT ![i] = [Bumped(s[i]) EXCEPT !.text = text[p] + 1]]]
  BY DEF Update, Matches, Found
<1>2. UNCHANGED <<moving, removed>>
  BY DEF Update
<1>3. Lined(s, text) /\ s[i] \in Entry /\ p \in Prompt /\ text[p] \in Nat
  <2>1. Lined(s, text) /\ s[i] \in Entry
    BY DEF Conserved, Lined
  <2> QED
    BY <1>1, <2>1 DEF Conserved, Entry
<1> DEFINE e == [Bumped(s[i]) EXCEPT !.text = text[p] + 1]
           new == [s EXCEPT ![i] = e]
<1>4. e \in Entry /\ e.id = p /\ e.text = text[p] + 1
  <2>1. \A f \in Entry : Bumped(f) \in Entry /\ Bumped(f).id = f.id
    BY DEF Bumped, Entry
  <2>2. \A f \in Entry : \A n \in Nat :
          LET g == [f EXCEPT !.text = n] IN g \in Entry /\ g.id = f.id /\ g.text = n
    BY DEF Entry
  <2>3. text[p] + 1 \in Nat
    BY <1>3
  <2> QED
    BY <1>1, <1>3, <2>1, <2>2, <2>3
<1>5. lanes' = [lanes EXCEPT ![l] = new]
  BY <1>1
<1> HIDE DEF e
<1>6. /\ text' \in [Prompt -> Nat] /\ text'[p] = text[p] + 1
      /\ (\A q \in Prompt : q # p => text'[q] = text[q])
  BY <1>1, <1>3 DEF Conserved
<1>7. Lined(new, text') /\ Ids(new) = Ids(s)
  <2>1. new \in Seq(Entry) /\ Len(new) = Len(s) /\ DOMAIN new = DOMAIN s
    BY <1>3, <1>4 DEF Lined
  <2>2. ASSUME NEW j \in DOMAIN s
        PROVE  new[j].id = s[j].id /\ new[j].text = text'[new[j].id]
    <3>1. CASE j = i
      BY <1>1, <1>4, <1>6, <3>1
    <3>2. CASE j # i
      <4>1. new[j] = s[j] /\ s[j].id # p /\ s[j].text = text[s[j].id] /\ s[j] \in Entry
        BY <1>1, <1>3, <3>2 DEF Lined
      <4>2. s[j].id \in Prompt
        BY <4>1 DEF Entry
      <4> QED
        BY <1>6, <4>1, <4>2
    <3> QED
      BY <3>1, <3>2
  <2>3. \A j, k \in DOMAIN s : new[j].id = new[k].id => j = k
    BY <1>3, <2>2 DEF Lined
  <2>4. Ids(new) = Ids(s)
    BY <2>1, <2>2 DEF Ids
  <2> HIDE DEF new
  <2> QED
    BY <2>1, <2>2, <2>3, <2>4 DEF Lined
<1> HIDE DEF new
<1>8. \A x \in Homes : p \in Where[x] => x = l
  <2>1. p \in Ids(s)
    BY <1>1 DEF Ids
  <2>2. p \in Where[l] /\ l \in Homes
    BY <2>1, WhereIs DEF Placed
  <2> QED
    BY <1>3, <2>2 DEF Conserved, Partition
<1>9. \A m \in Lane \ {l} : Lined(lanes[m], text')
  <2>1. ASSUME NEW m \in Lane \ {l} PROVE p \notin Ids(lanes[m]) /\ Lined(lanes[m], text)
    <3>1. m \in Homes /\ Where[m] = Ids(lanes[m])
      BY WhereIs DEF Placed
    <3> QED
      BY <1>8, <3>1 DEF Conserved
  <2>2. text \in [Prompt -> Nat] /\ text[p] + 1 \in Nat
    BY <1>3 DEF Conserved
  <2> QED
    BY <1>1, <1>3, <2>1, <2>2, OtherText
<1>10. /\ lanes' \in [Lane -> Seq(Entry)] /\ (\A m \in Lane : Lined(lanes'[m], text'))
       /\ lanes'[l] = new /\ (\A m \in Lane : m # l => lanes'[m] = lanes[m])
  BY <1>5, <1>7, <1>9, OneLane
<1>11. Told(pending', text') /\ Told(delivered', text')
  <2>1. p \notin Heads(pending) /\ p \notin Heads(delivered)
    BY <1>8, WhereIs DEF Placed, Lane
  <2>2. /\ Told(pending, text) /\ Told(delivered, text)
        /\ text \in [Prompt -> Nat] /\ text[p] + 1 \in Nat
    BY <1>3 DEF Conserved
  <2> QED
    BY <1>1, <1>3, <2>1, <2>2, OtherText
<1>12. \A f \in moving' : f.text = text'[f.id]
  <2>1. ASSUME NEW f \in moving PROVE f.id \in Prompt /\ f.id # p
    <3>1. f \in Entry
      BY DEF Conserved
    <3>2. p \notin {g.id : g \in moving}
      BY <1>8, WhereIs DEF Placed, Lane
    <3> QED
      BY <3>1, <3>2 DEF Entry
  <2> QED
    BY <1>2, <1>6, <2>1 DEF Conserved
<1>13. text[p] # 0
  <2>1. p \notin Where["none"]
    BY <1>8, WhereIs DEF Placed, Lane
  <2> QED
    BY <1>3, <2>1, WhereIs DEF Placed
<1>14. Partition(Where')
  <2>1. ASSUME NEW x \in Homes, NEW q \in Prompt PROVE q \in Where'[x] <=> q \in Where[x]
    <3>1. CASE x \in Lane
      BY <1>7, <1>10, <3>1, WhereIs DEF Placed
    <3>2. CASE x = "none"
      <4>1. text'[q] = 0 <=> text[q] = 0
        BY <1>3, <1>6, <1>13
      <4> QED
        BY <3>2, <4>1, WhereIs DEF Placed
    <3>3. CASE x \notin Lane \cup {"none"}
      BY <1>2, <3>3, WhereIs DEF Placed
    <3> QED
      BY <3>1, <3>2, <3>3
  <2> QED
    BY <2>1, Stays DEF Conserved
<1> QED
  BY <1>2, <1>6, <1>10, <1>11, <1>12, <1>14 DEF Conserved

(* A client moves a prompt within its lane.                                *)
LEMMA MoveConserves ==
  ASSUME Conserved, NEW l \in Lane, NEW up \in BOOLEAN, MoveBy(l, up),
         UNCHANGED <<pending, delivered, lost, pc>>
  PROVE  Conserved'
<1> DEFINE s == lanes[l]
<1>1. PICK i \in DOMAIN s : \E j \in DOMAIN s :
        /\ j \in {i - 1, i + 1}
        /\ lanes' = [lanes EXCEPT ![l] = [s EXCEPT ![i] = Bumped(s[j]), ![j] = Bumped(s[i])]]
  <2>1. PICK i \in Matches(l, view) :
               LET target == IF up THEN i - 1 ELSE i + 1 IN
               /\ target \in DOMAIN lanes[l]
               /\ lanes' = [lanes EXCEPT ![l][i] = Bumped(lanes[l][target]),
                                         ![l][target] = Bumped(lanes[l][i])]
    BY DEF MoveBy
  <2> DEFINE j == IF up THEN i - 1 ELSE i + 1
  <2>2. j \in DOMAIN s /\ j \in {i - 1, i + 1} /\ i \in DOMAIN s
    BY <2>1 DEF Matches, Found
  <2>3. lanes' = [lanes EXCEPT ![l][i] = Bumped(s[j]), ![l][j] = Bumped(s[i])]
    BY <2>1
  <2> HIDE DEF j
  <2>4. lanes' = [lanes EXCEPT ![l] = [s EXCEPT ![i] = Bumped(s[j]), ![j] = Bumped(s[i])]]
    BY <2>3 DEF Conserved
  <2> QED
    BY <2>2, <2>4
<1>2. PICK j \in DOMAIN s :
        /\ j \in {i - 1, i + 1}
        /\ lanes' = [lanes EXCEPT ![l] = [s EXCEPT ![i] = Bumped(s[j]), ![j] = Bumped(s[i])]]
  BY <1>1
<1>3. UNCHANGED <<moving, text, removed>>
  BY DEF MoveBy
<1>4. Lined(s, text) /\ i # j
  BY <1>2 DEF Conserved, Lined
<1>5. \A k \in DOMAIN s : /\ Bumped(s[k]) \in Entry /\ Bumped(s[k]).id = s[k].id
                          /\ Bumped(s[k]).text = s[k].text
  <2>1. \A e \in Entry : Bumped(e) \in Entry /\ Bumped(e).id = e.id /\ Bumped(e).text = e.text
    BY DEF Bumped, Entry
  <2> QED
    BY <1>4, <2>1 DEF Lined
<1> DEFINE new == [s EXCEPT ![i] = Bumped(s[j]), ![j] = Bumped(s[i])]
           f == [k \in DOMAIN s |-> IF k = i THEN j ELSE IF k = j THEN i ELSE k]
<1>6. /\ new \in Seq(Entry) /\ Len(new) = Len(s)
      /\ \A k \in DOMAIN s : new[k] = IF k = i THEN Bumped(s[j])
                                      ELSE IF k = j THEN Bumped(s[i]) ELSE s[k]
  BY <1>4, <1>5 DEF Lined
<1>7. /\ f \in [DOMAIN s -> DOMAIN s] /\ (\A a, b \in DOMAIN s : f[a] = f[b] => a = b)
      /\ \A b \in DOMAIN s : \E a \in DOMAIN s : f[a] = b
  <2>1. f \in [DOMAIN s -> DOMAIN s] /\ (\A a, b \in DOMAIN s : f[a] = f[b] => a = b)
    OBVIOUS
  <2>2. \A b \in DOMAIN s : f[b] \in DOMAIN s /\ f[f[b]] = b
    OBVIOUS
  <2> QED
    BY <2>1, <2>2
<1>8. \A k \in DOMAIN s : new[k].id = s[f[k]].id /\ new[k].text = s[f[k]].text
  BY <1>5, <1>6
<1>9. lanes' = [lanes EXCEPT ![l] = new]
  BY <1>2
<1>10. Lined(new, text) /\ Ids(new) = Ids(s)
  <2>1. Lined(s, text) /\ new \in Seq(Entry) /\ Len(new) = Len(s)
    BY <1>4, <1>6
  <2>2. Reordered(new, s, f)
    BY <1>7, <1>8, <2>1 DEF Reordered
  <2> HIDE DEF new, f, s
  <2> QED
    BY <2>1, <2>2, LinedReordered
<1> HIDE DEF new, f
<1>11. /\ lanes' \in [Lane -> Seq(Entry)] /\ (\A m \in Lane : Lined(lanes'[m], text))
       /\ lanes'[l] = new /\ (\A m \in Lane : m # l => lanes'[m] = lanes[m])
  <2>1. \A m \in Lane \ {l} : Lined(lanes[m], text)
    BY DEF Conserved
  <2> QED
    BY <1>9, <1>10, <2>1, OneLane
<1>12. Partition(Where')
  <2>1. ASSUME NEW x \in Homes, NEW q \in Prompt PROVE q \in Where'[x] <=> q \in Where[x]
    <3>1. CASE x \in Lane
      BY <1>10, <1>11, <3>1, WhereIs DEF Placed
    <3>2. CASE x \notin Lane
      BY <1>3, <3>2, WhereIs DEF Placed
    <3> QED
      BY <3>1, <3>2
  <2> QED
    BY <2>1, Stays DEF Conserved
<1> QED
  BY <1>3, <1>11, <1>12 DEF Conserved

(* Whatever a client does.                                                 *)
LEMMA ClientsConserve ==
  ASSUME Typed, Conserved, Clients
  PROVE  Conserved'
<1>1. UNCHANGED <<pending, delivered, lost, pc>>
  BY DEF Clients, loopVars
<1>2. CASE \E l \in Lane, p \in Scope.prompts : Enqueue(l, p)
  <2>1. PICK l \in Lane, p \in Scope.prompts : Enqueue(l, p)
    BY <1>2
  <2>2. p \in Prompt
    BY ScopesAssumption DEF Typed, Scope
  <2> QED
    BY <1>1, <2>1, <2>2, EnqueueConserves
<1>3. ASSUME NEW l \in Lane, List(l) PROVE Conserved'
  BY <1>1, <1>3 DEF List, Conserved, Where
<1>4. ASSUME NEW l \in Lane, Update(l) PROVE Conserved'
  BY <1>1, <1>4, UpdateConserves
<1>5. ASSUME NEW l \in Lane, RemoveEntry(l) PROVE Conserved'
  BY <1>1, <1>5, RemoveConserves
<1>6. ASSUME NEW l \in Lane, NEW up \in BOOLEAN, MoveBy(l, up) PROVE Conserved'
  BY <1>1, <1>6, MoveConserves
<1>7. ASSUME NEW l \in Lane, Clear(l) PROVE Conserved'
  BY <1>1, <1>7, ClearConserves
<1>8. CASE SendNowRemoves
  BY <1>1, <1>8, SendNowRemovesConserves
<1>9. CASE SendNowPushes
  BY <1>1, <1>9, SendNowPushesConserves
<1> QED
  BY <1>2, <1>3, <1>4, <1>5, <1>6, <1>7, <1>8, <1>9 DEF Clients, Edits

(* Nothing that the loop keeps of the prompts changes.                     *)
LEMMA NothingMoves ==
  ASSUME Conserved, UNCHANGED <<queueVars, pending, delivered, lost>>, pending # <<>> => pc' = pc
  PROVE  Conserved'
  BY DEF Conserved, queueVars, Where

(* A lane hands out its first prompt.                                      *)
LEMMA DrainConserves ==
  ASSUME Conserved, NEW l \in Lane, NEW then, Drains(l, then), pc # "top",
         UNCHANGED <<delivered, lost>>
  PROVE  Conserved'
<1>1. pending = <<>> /\ UNCHANGED <<moving, text, removed>>
  BY DEF Drains, Conserved
<1>2. CASE lanes[l] = <<>>
  <2>1. pending' = <<>>
    BY <1>2 DEF Drains, Drained
  <2>2. lanes' = lanes
    BY <1>2 DEF Drains, DrainFrom, Conserved
  <2> QED
    BY <1>1, <2>1, <2>2 DEF Conserved, Where
<1>3. CASE lanes[l] # <<>>
  <2> DEFINE s == lanes[l]
             e == s[1]
             C == {e.id}
  <2>1. /\ Lined(s, text) /\ 1 \in DOMAIN s /\ Head(s) = e
        /\ Lined(Tail(s), text) /\ Ids(Tail(s)) = Ids(s) \ C
    BY <1>3, LinedTail DEF Conserved
  <2>2. e \in Entry /\ e.id \in Prompt /\ e.text = text[e.id] /\ e.id \in Ids(s)
    <3>1. e \in Entry /\ e.text = text[e.id] /\ e.id \in Ids(s)
      BY <2>1 DEF Lined, Ids
    <3> QED
      BY <3>1 DEF Entry
  <2>3. lanes' = [lanes EXCEPT ![l] = Tail(s)]
    BY <1>3 DEF Drains, DrainFrom, Conserved
  <2>4. pending' = <<<<e.id, e.text>>>> /\ pc' = "top"
    <3>1. Drained(l) = <<e>>
      BY <1>3, <2>1 DEF Drained
    <3>2. Drained(l) # <<>> /\ DOMAIN Drained(l) = 1 .. 1 /\ Drained(l)[1] = e
      BY <3>1
    <3>3. pending' = [i \in 1 .. 1 |-> <<e.id, e.text>>] /\ pc' = "top"
      BY <3>2 DEF Drains
    <3>4. [i \in 1 .. 1 |-> <<e.id, e.text>>] = <<<<e.id, e.text>>>>
      OBVIOUS
    <3> QED
      BY <3>3, <3>4
  <2>5. /\ lanes' \in [Lane -> Seq(Entry)] /\ (\A m \in Lane : Lined(lanes'[m], text))
        /\ lanes'[l] = Tail(s) /\ (\A m \in Lane : m # l => lanes'[m] = lanes[m])
    <3>1. \A m \in Lane \ {l} : Lined(lanes[m], text)
      BY DEF Conserved
    <3> DEFINE t == Tail(s)
    <3>2. Lined(t, text) /\ lanes' = [lanes EXCEPT ![l] = t]
      BY <2>1, <2>3
    <3> HIDE DEF t
    <3>3. /\ lanes' \in [Lane -> Seq(Entry)] /\ (\A m \in Lane : Lined(lanes'[m], text))
          /\ lanes'[l] = t /\ (\A m \in Lane : m # l => lanes'[m] = lanes[m])
      BY <3>1, <3>2, OneLane
    <3> QED
      BY <3>3 DEF t
  <2> HIDE DEF e
  <2>6. Told(pending', text) /\ Heads(pending') = C /\ Len(pending') = 1
    <3>1. /\ DOMAIN pending' = {1} /\ pending'[1] = <<e.id, e.text>> /\ Len(pending') = 1
          /\ IsSeq(pending')
      <4> DEFINE x == <<e.id, e.text>>
      <4>1. pending' = <<x>>
        BY <2>4
      <4> HIDE DEF x
      <4>2. IsSeq(pending') /\ Len(pending') = 1 /\ pending'[1] = x
        BY <4>1, OneIsSeq
      <4>3. DOMAIN pending' = {1}
        BY <4>1
      <4> QED
        BY <4>2, <4>3 DEF x
    <3> QED
      BY <2>2, <3>1 DEF Told, Heads
  <2>7. Partition(Where')
    <3>1. C \subseteq Where[l] /\ l \in Homes /\ "pending" \in Homes
      BY <2>2, WhereIs DEF Placed
    <3>2. Partition(Where)
      BY DEF Conserved
    <3>3. ASSUME NEW x \in Homes, NEW q \in Prompt
          PROVE  q \in Where'[x] <=> IF q \in C THEN x = "pending" ELSE q \in Where[x]
      <4>1. q \in C /\ q \in Where[x] => x = l
        BY <3>1, <3>2 DEF Partition
      <4>2. CASE x \in Lane
        <5>1. Where'[x] = Ids(lanes'[x]) /\ Where[x] = Ids(lanes[x]) /\ x # "pending"
          BY <4>2, WhereIs DEF Placed, Lane
        <5> QED
          BY <2>1, <2>5, <4>1, <4>2, <5>1
      <4>3. CASE x = "pending"
        <5>1. Where'[x] = C /\ Where[x] = {}
          BY <1>1, <2>6, <4>3, WhereIs DEF Placed, Heads
        <5> QED
          BY <4>3, <5>1
      <4>4. CASE x \notin Lane \cup {"pending"}
        <5>1. Where'[x] = Where[x]
          BY <1>1, <4>4, WhereIs DEF Placed
        <5> QED
          BY <3>1, <4>1, <4>4, <5>1
      <4> QED
        BY <4>2, <4>3, <4>4
    <3> HIDE DEF C
    <3> QED
      BY <3>1, <3>2, <3>3, Moved
  <2> QED
    BY <1>1, <2>4, <2>5, <2>6, <2>7 DEF Conserved
<1> QED
  BY <1>2, <1>3

(* A message of the loop's own is no prompt.                               *)
LEMMA OwnWordsConserve ==
  ASSUME Conserved, pc # "top", pc' = "top", UNCHANGED <<queueVars, delivered, lost>>,
         NEW who \in {"doom", "nudge"}, pending' = <<<<who, clock>>>>
  PROVE  Conserved'
<1>1. pending = <<>> /\ who \notin Prompt
  BY ScopesAssumption DEF Conserved
<1>2. /\ IsSeq(pending') /\ Len(pending') = 1 /\ DOMAIN pending' = {1}
      /\ pending'[1] = <<who, clock>>
  <2> DEFINE x == <<who, clock>>
  <2>1. pending' = <<x>>
    OBVIOUS
  <2> HIDE DEF x
  <2>2. IsSeq(pending') /\ Len(pending') = 1 /\ pending'[1] = x
    BY <2>1, OneIsSeq
  <2>3. DOMAIN pending' = {1}
    BY <2>1
  <2> QED
    BY <2>2, <2>3 DEF x
<1>3. Told(pending', text) /\ Heads(pending') = {who} /\ Heads(pending) = {}
  BY <1>1, <1>2 DEF Told, Heads
<1>4. UNCHANGED <<lanes, moving, text, removed>>
  BY DEF queueVars
<1>5. Partition(Where')
  <2>1. ASSUME NEW x \in Homes, NEW q \in Prompt PROVE q \in Where'[x] <=> q \in Where[x]
    <3>1. CASE x = "pending"
      BY <1>1, <1>3, <3>1, WhereIs DEF Placed
    <3>2. CASE x # "pending"
      BY <1>4, <3>2, WhereIs DEF Placed
    <3> QED
      BY <3>1, <3>2
  <2> QED
    BY <2>1, Stays DEF Conserved
<1> QED
  BY <1>2, <1>3, <1>4, <1>5 DEF Conserved

(* What is pending goes to one other home.                                 *)
LEMMA PendingMoves ==
  ASSUME Conserved, pending' = <<>>, UNCHANGED queueVars, NEW b \in {"delivered", "lost"},
         Where'[b] \cap Prompt = (Where[b] \cup Heads(pending)) \cap Prompt,
         \A x \in {"delivered", "lost"} \ {b} : Where'[x] = Where[x]
  PROVE  Partition(Where')
<1> DEFINE C == Heads(pending)
<1>1. C \subseteq Where["pending"] /\ "pending" \in Homes /\ b \in Homes
  BY WhereIs DEF Placed
<1>2. Partition(Where) /\ Where'["pending"] = {} /\ Where["pending"] = C
  BY WhereIs DEF Placed, Conserved, Heads
<1>3. ASSUME NEW x \in Homes, NEW q \in Prompt
      PROVE  q \in Where'[x] <=> IF q \in C THEN x = b ELSE q \in Where[x]
  <2>1. q \in C /\ q \in Where[x] => x = "pending"
    BY <1>1, <1>2 DEF Partition
  <2>2. CASE x = "pending"
    BY <1>2, <2>2
  <2>3. CASE x = b
    BY <2>3
  <2>4. CASE x \notin {"pending", b}
    <3>1. Where'[x] = Where[x]
      <4>1. CASE x \in {"delivered", "lost"}
        BY <2>4, <4>1
      <4>2. CASE x \notin {"delivered", "lost"}
        BY <2>4, <4>2, WhereIs DEF Placed, queueVars
      <4> QED
        BY <4>1, <4>2
    <3> QED
      BY <2>1, <2>4, <3>1
  <2> QED
    BY <2>2, <2>3, <2>4
<1> HIDE DEF C
<1> SUFFICES ASSUME NEW p \in Prompt
             PROVE  /\ \E x \in Homes : p \in Where'[x]
                    /\ \A x, y \in Homes : p \in Where'[x] /\ p \in Where'[y] => x = y
  BY DEF Partition
<1>4. CASE p \in C
  BY ONLY <1>1, <1>3, <1>4, p \in Prompt
<1>5. CASE p \notin C
  <2>1. /\ \E x \in Homes : p \in Where[x]
        /\ \A x, y \in Homes : p \in Where[x] /\ p \in Where[y] => x = y
    BY <1>2 DEF Partition
  <2>2. \A x \in Homes : p \in Where'[x] <=> p \in Where[x]
    BY ONLY <1>3, <1>5, p \in Prompt
  <2> QED
    BY ONLY <2>1, <2>2
<1> QED
  BY <1>4, <1>5

(* A cancelled run drops what is pending.                                  *)
LEMMA StopConserves == ASSUME Conserved, StopsCancelled PROVE Conserved'
<1>1. /\ lost' = lost \cup (Heads(pending) \cap Prompt) /\ pending' = <<>>
      /\ UNCHANGED <<queueVars, delivered>>
  BY DEF StopsCancelled, Ends, Heads
<1>2. Where'["lost"] = lost' /\ Where["lost"] = lost /\ Where'["delivered"] = Where["delivered"]
  BY <1>1, WhereIs DEF Placed
<1>3. Partition(Where')
  BY <1>1, <1>2, PendingMoves
<1>4. Told(<<>>, text)
  BY NoneIsSeq DEF Told
<1> QED
  BY <1>1, <1>3, <1>4 DEF Conserved, queueVars

(* A run that goes on takes in what is pending.                            *)
LEMMA InjectConserves == ASSUME Conserved, Injects PROVE Conserved'
<1>1. /\ delivered' = delivered \o pending /\ pending' = <<>>
      /\ UNCHANGED <<queueVars, lost>>
  BY DEF Injects, Ends
<1>2. /\ IsSeq(delivered) /\ IsSeq(pending)
      /\ Told(delivered, text) /\ Told(pending, text)
  BY DEF Conserved, Told
<1> DEFINE d == delivered
           p == pending
           n == Len(d)
<1>3. /\ n \in Nat /\ Len(p) \in Nat /\ DOMAIN d = 1 .. n /\ DOMAIN p = 1 .. Len(p)
  BY <1>2 DEF IsSeq
<1>4. /\ IsSeq(delivered') /\ DOMAIN delivered' = 1 .. (n + Len(p))
      /\ \A i \in 1 .. n : delivered'[i] = d[i]
      /\ \A i \in 1 .. Len(p) : delivered'[n + i] = p[i]
  <2>1. /\ IsSeq(delivered') /\ Len(delivered') = n + Len(p)
        /\ \A i \in 1 .. n : delivered'[i] = d[i]
        /\ \A i \in 1 .. Len(p) : delivered'[n + i] = p[i]
    BY <1>1, <1>2, ConcatIsSeq
  <2> QED
    BY <2>1 DEF IsSeq
<1> HIDE DEF n
<1>5. \A i \in DOMAIN delivered' :
        \/ i \in DOMAIN d /\ delivered'[i] = d[i]
        \/ \E j \in DOMAIN p : i = n + j /\ delivered'[i] = p[j]
  <2> SUFFICES ASSUME NEW i \in 1 .. (n + Len(p)), i \notin 1 .. n
               PROVE  \E j \in 1 .. Len(p) : i = n + j /\ delivered'[i] = p[j]
    BY <1>3, <1>4
  <2>1. i - n \in 1 .. Len(p) /\ i = n + (i - n)
    BY <1>3
  <2> QED
    BY <1>4, <2>1
<1>6. Heads(delivered') = Heads(d) \cup Heads(p)
  <2>1. Heads(delivered') \subseteq Heads(d) \cup Heads(p)
    BY <1>5 DEF Heads
  <2>2. ASSUME NEW i \in DOMAIN d PROVE d[i][1] \in Heads(delivered')
    <3>1. i \in DOMAIN delivered' /\ delivered'[i] = d[i]
      BY <1>3, <1>4
    <3> QED
      BY <3>1 DEF Heads
  <2>3. ASSUME NEW j \in DOMAIN p PROVE p[j][1] \in Heads(delivered')
    <3>1. n + j \in DOMAIN delivered' /\ delivered'[n + j] = p[j]
      BY <1>3, <1>4
    <3> QED
      BY <3>1 DEF Heads
  <2>4. Heads(d) \subseteq Heads(delivered') /\ Heads(p) \subseteq Heads(delivered')
    <3>1. ASSUME NEW x \in Heads(d) PROVE x \in Heads(delivered')
      <4>1. PICK i \in DOMAIN d : x = d[i][1]
        BY DEF Heads
      <4> QED
        BY <2>2, <4>1
    <3>2. ASSUME NEW x \in Heads(p) PROVE x \in Heads(delivered')
      <4>1. PICK j \in DOMAIN p : x = p[j][1]
        BY DEF Heads
      <4> QED
        BY <2>3, <4>1
    <3> QED
      BY <3>1, <3>2
  <2> QED
    BY <2>1, <2>4
<1>7. \A q \in Prompt : ~(q \in Heads(d) /\ q \in Heads(p))
  <2>1. /\ Where["delivered"] = Heads(d) /\ Where["pending"] = Heads(p)
        /\ "delivered" \in Homes /\ "pending" \in Homes /\ Partition(Where)
    BY WhereIs DEF Placed, Conserved
  <2> QED
    BY <2>1 DEF Partition
<1>8. Told(delivered', text)
  <2>1. ASSUME NEW i \in DOMAIN delivered', NEW j \in DOMAIN delivered',
               delivered'[i][1] \in Prompt, delivered'[i][1] = delivered'[j][1]
        PROVE  i = j
    <3> DEFINE q == delivered'[i][1]
    <3>1. CASE i \in DOMAIN d /\ delivered'[i] = d[i] /\ j \in DOMAIN d /\ delivered'[j] = d[j]
      BY <1>2, <2>1, <3>1 DEF Told
    <3>2. CASE /\ \E k \in DOMAIN p : i = n + k /\ delivered'[i] = p[k]
               /\ \E k \in DOMAIN p : j = n + k /\ delivered'[j] = p[k]
      BY <1>2, <2>1, <3>2 DEF Told
    <3>3. CASE /\ i \in DOMAIN d /\ delivered'[i] = d[i]
               /\ \E k \in DOMAIN p : delivered'[j] = p[k]
      BY <1>7, <2>1, <3>3 DEF Heads
    <3>4. CASE /\ j \in DOMAIN d /\ delivered'[j] = d[j]
               /\ \E k \in DOMAIN p : delivered'[i] = p[k]
      BY <1>7, <2>1, <3>4 DEF Heads
    <3> QED
      BY <1>5, <3>1, <3>2, <3>3, <3>4
  <2>2. \A i \in DOMAIN delivered' : delivered'[i][1] \in Prompt
          => delivered'[i][2] = text[delivered'[i][1]]
    BY <1>2, <1>5 DEF Told
  <2> QED
    BY <1>4, <2>1, <2>2 DEF Told
<1>9. Partition(Where')
  <2>1. /\ Where'["delivered"] = Where["delivered"] \cup Heads(pending)
        /\ Where'["lost"] = Where["lost"]
    BY <1>1, <1>6, WhereIs DEF Placed
  <2> QED
    BY <1>1, <2>1, PendingMoves
<1>10. Told(<<>>, text)
  BY NoneIsSeq DEF Told
<1> QED
  BY <1>1, <1>8, <1>9, <1>10 DEF Conserved, queueVars

(* Every step keeps the prompts.                                           *)
LEMMA ConservedStep == Typed /\ Conserved /\ [Next]_vars => Conserved'
<1> SUFFICES ASSUME Typed, Conserved, [Next]_vars
             PROVE  Conserved'
  OBVIOUS
<1> USE DEF UNCHANGED_ghosts
<1>0. pending # <<>> => pc = "top"
  BY DEF Conserved
<1>1. CASE Starts \/ InstallEngine \/ Continues \/ Prompts \/ Checks
  <2>1. UNCHANGED <<queueVars, pending, delivered, lost>> /\ pc # "top"
    BY <1>1 DEF Starts, InstallEngine, Continues, Prompts, Checks
  <2> QED
    BY <1>0, <2>1, NothingMoves
<1>2. CASE DrainsAtStart \/ FollowsUp
  <2>1. PICK l \in Lane, then \in {"top", "check"} : Drains(l, then)
    BY <1>2 DEF DrainsAtStart, FollowsUp, Lane
  <2>2. pc # "top" /\ UNCHANGED <<delivered, lost>>
    BY <1>2 DEF DrainsAtStart, FollowsUp
  <2> QED
    BY <2>1, <2>2, DrainConserves
<1>3. CASE StopsCancelled
  BY <1>3, StopConserves
<1>4. CASE Injects
  BY <1>4, InjectConserves
<1>5. CASE Responds
  <2>1. /\ pc = "call" /\ UNCHANGED <<queueVars, delivered, lost>>
        /\ \/ pending' = pending
           \/ pending' = <<<<"doom", clock>>>> /\ pc' = "top"
    BY <1>5 DEF Responds
  <2>2. CASE pending' = pending
    BY <1>0, <2>1, <2>2, NothingMoves
  <2>3. CASE pending' = <<<<"doom", clock>>>> /\ pc' = "top"
    BY <2>1, <2>3, OwnWordsConserve
  <2> QED
    BY <2>1, <2>2, <2>3
<1>6. CASE ExecutesBatch
  <2>1. /\ pc = "exec" /\ UNCHANGED <<delivered, lost>>
        /\ \/ Drains("steering", "settle")
           \/ UNCHANGED <<queueVars, pending, pc>>
    BY <1>6 DEF ExecutesBatch
  <2>2. CASE Drains("steering", "settle")
    BY <2>1, <2>2, DrainConserves DEF Lane
  <2>3. CASE UNCHANGED <<queueVars, pending, pc>>
    BY <2>1, <2>3, NothingMoves
  <2> QED
    BY <2>1, <2>2, <2>3
<1>7. CASE Settles
  <2>1. /\ pc = "settle" /\ UNCHANGED <<delivered, lost>>
        /\ \/ pending' = <<<<"nudge", clock>>>> /\ pc' = "top" /\ UNCHANGED queueVars
           \/ \E then \in {"top", "follow_up"} : Drains("steering", then)
    BY <1>7 DEF Settles
  <2>2. CASE pending' = <<<<"nudge", clock>>>> /\ pc' = "top" /\ UNCHANGED queueVars
    BY <2>1, <2>2, OwnWordsConserve
  <2>3. CASE \E then \in {"top", "follow_up"} : Drains("steering", then)
    BY <2>1, <2>3, DrainConserves DEF Lane
  <2> QED
    BY <2>1, <2>2, <2>3
<1>8. CASE Panics
  <2>1. UNCHANGED <<queueVars, pending, delivered, lost>> /\ pc \in {"call", "exec"}
    BY <1>8, Zenon DEF Panics
  <2> QED
    BY <1>0, <2>1, NothingMoves
<1>9. CASE AbortBegins \/ AbortReachesEngine \/ UNCHANGED vars
  <2>1. UNCHANGED <<queueVars, pending, delivered, lost, pc>>
    BY <1>9 DEF AbortBegins, AbortReachesEngine, vars, loopVars
  <2> QED
    BY <2>1, NothingMoves
<1>10. CASE Clients
  BY <1>10, ClientsConserve
<1> QED
  BY <1>1, <1>2, <1>3, <1>4, <1>5, <1>6, <1>7, <1>8, <1>9, <1>10 DEF Next, Loop

(* No prompt has been queued at first.                                     *)
LEMMA ConservedInit == Init => Conserved
<1> SUFFICES ASSUME Init PROVE Conserved
  OBVIOUS
<1> USE DEF Init, QueueInit
<1>1. /\ Told(<<>>, text) /\ Lined(<<>>, text) /\ Ids(<<>>) = {} /\ Heads(<<>>) = {}
  BY NoneIsSeq DEF Told, Lined, Ids, Heads
<1>2. lanes \in [Lane -> Seq(Entry)] /\ text \in [Prompt -> Nat]
      /\ \A l \in Lane : lanes[l] = <<>>
  OBVIOUS
<1>3. Partition(Where)
  <2>1. Where["none"] = Prompt
    BY WhereIs DEF Placed
  <2>2. \A x \in Homes \ {"none"} : Where[x] = {}
    BY <1>1, <1>2, WhereIs DEF Placed
  <2>3. "none" \in Homes
    BY WhereIs DEF Placed
  <2> QED
    BY <2>1, <2>2, <2>3 DEF Partition
<1> QED
  BY <1>1, <1>2, <1>3 DEF Conserved

(* A prompt that is in one home is in one place.                           *)
LEMMA ConservedIsEnough == Conserved => PromptsConserved
<1> SUFFICES ASSUME Conserved, NEW p \in Prompt
    PROVE
    /\ text[p] = 0 <=> Whereabouts(p) = {}
    /\ \A x, y \in Whereabouts(p) : x = y
    /\ \A l \in Lane : \A i \in Found(l, p) : lanes[l][i].text = text[p]
    /\ \A e \in moving : e.id = p => e.text = text[p]
    /\ \A i \in DOMAIN pending : pending[i][1] = p => pending[i][2] = text[p]
    /\ \A i \in DOMAIN delivered : delivered[i][1] = p => delivered[i][2] = text[p]
  BY DEF PromptsConserved
<1>1. PICK h \in Homes : \A x \in Homes : p \in Where[x] <=> x = h
  BY DEF Conserved, Partition
<1>2. \A x : x \in Whereabouts(p) <=>
        \/ \E l \in Lane : \E i \in Found(l, p) : x = <<l, i>>
        \/ \E i \in DOMAIN pending : pending[i][1] = p /\ x = <<"pending", i>>
        \/ \E i \in DOMAIN delivered : delivered[i][1] = p /\ x = <<"delivered", i>>
        \/ \E e \in moving : e.id = p /\ x = <<"moving", e>>
        \/ p \in removed /\ x = <<"removed", p>>
        \/ p \in lost /\ x = <<"lost", p>>
  <2> SUFFICES ASSUME NEW x
               PROVE  x \in Whereabouts(p) <=>
        \/ \E l \in Lane : \E i \in Found(l, p) : x = <<l, i>>
        \/ \E i \in DOMAIN pending : pending[i][1] = p /\ x = <<"pending", i>>
        \/ \E i \in DOMAIN delivered : delivered[i][1] = p /\ x = <<"delivered", i>>
        \/ \E e \in moving : e.id = p /\ x = <<"moving", e>>
        \/ p \in removed /\ x = <<"removed", p>>
        \/ p \in lost /\ x = <<"lost", p>>
    OBVIOUS
  <2> DEFINE T == {i \in DOMAIN pending : pending[i][1] = p}
             D == {i \in DOMAIN delivered : delivered[i][1] = p}
             M == {e \in moving : e.id = p}
             A == UNION {{l} \X Found(l, p) : l \in Lane}
             B == {"pending"} \X T
             E == {"delivered"} \X D
             G == {"moving"} \X M
             H == {"removed"} \X (removed \cap {p})
             L == {"lost"} \X (lost \cap {p})
  <2>1. x \in A <=> \E l \in Lane : \E i \in Found(l, p) : x = <<l, i>>
    OBVIOUS
  <2>2. x \in B <=> \E i \in T : x = <<"pending", i>>
    OBVIOUS
  <2>3. x \in E <=> \E i \in D : x = <<"delivered", i>>
    OBVIOUS
  <2>4. x \in G <=> \E e \in M : x = <<"moving", e>>
    OBVIOUS
  <2>5. x \in H <=> p \in removed /\ x = <<"removed", p>>
    OBVIOUS
  <2>6. x \in L <=> p \in lost /\ x = <<"lost", p>>
    OBVIOUS
  <2>7. Whereabouts(p) = A \cup B \cup E \cup G \cup H \cup L
    BY DEF Whereabouts
  <2>8. x \in Whereabouts(p)
          <=> x \in A \/ x \in B \/ x \in E \/ x \in G \/ x \in H \/ x \in L
    <3> HIDE DEF A, B, E, G, H, L
    <3> QED
      BY <2>7
  <2>9. /\ (\E i \in T : x = <<"pending", i>>)
           <=> \E i \in DOMAIN pending : pending[i][1] = p /\ x = <<"pending", i>>
        /\ (\E i \in D : x = <<"delivered", i>>)
           <=> \E i \in DOMAIN delivered : delivered[i][1] = p /\ x = <<"delivered", i>>
        /\ (\E e \in M : x = <<"moving", e>>)
           <=> \E e \in moving : e.id = p /\ x = <<"moving", e>>
    OBVIOUS
  <2> QED
    BY <2>1, <2>2, <2>3, <2>4, <2>5, <2>6, <2>8, <2>9, Zenon
<1>3. \A l \in Lane : /\ Found(l, p) # {} <=> h = l
                      /\ \A i, j \in Found(l, p) : i = j
  <2> SUFFICES ASSUME NEW l \in Lane
               PROVE  /\ Found(l, p) # {} <=> h = l
                      /\ \A i, j \in Found(l, p) : i = j
    OBVIOUS
  <2>1. Where[l] = Ids(lanes[l]) /\ l \in Homes
    BY WhereIs DEF Placed
  <2>2. p \in Ids(lanes[l]) <=> Found(l, p) # {}
    BY DEF Ids, Found
  <2>3. \A i, j \in Found(l, p) : i = j
    BY DEF Found, Conserved, Lined
  <2> QED
    BY <1>1, <2>1, <2>2, <2>3
<1>4. /\ (\E i \in DOMAIN pending : pending[i][1] = p) <=> h = "pending"
      /\ \A i, j \in DOMAIN pending : pending[i][1] = p /\ pending[j][1] = p => i = j
  <2>1. Where["pending"] = Heads(pending) /\ "pending" \in Homes
    BY WhereIs DEF Placed
  <2>2. (\E i \in DOMAIN pending : pending[i][1] = p) <=> p \in Heads(pending)
    BY DEF Heads
  <2>3. \A i, j \in DOMAIN pending : pending[i][1] = p /\ pending[j][1] = p => i = j
    BY DEF Conserved, Told
  <2> QED
    BY <1>1, <2>1, <2>2, <2>3
<1>5. /\ (\E i \in DOMAIN delivered : delivered[i][1] = p) <=> h = "delivered"
      /\ \A i, j \in DOMAIN delivered : delivered[i][1] = p /\ delivered[j][1] = p => i = j
  <2>1. Where["delivered"] = Heads(delivered) /\ "delivered" \in Homes
    BY WhereIs DEF Placed
  <2>2. (\E i \in DOMAIN delivered : delivered[i][1] = p) <=> p \in Heads(delivered)
    BY DEF Heads
  <2>3. \A i, j \in DOMAIN delivered : delivered[i][1] = p /\ delivered[j][1] = p => i = j
    BY DEF Conserved, Told
  <2> QED
    BY <1>1, <2>1, <2>2, <2>3
<1>6. /\ (\E e \in moving : e.id = p) <=> h = "moving"
      /\ \A e, f \in moving : e = f
  <2>1. Where["moving"] = {e.id : e \in moving} /\ "moving" \in Homes
    BY WhereIs DEF Placed
  <2>2. (\E e \in moving : e.id = p) <=> p \in {e.id : e \in moving}
    OBVIOUS
  <2>3. \A e, f \in moving : e = f
    BY DEF Conserved
  <2> QED
    BY <1>1, <2>1, <2>2, <2>3
<1>7. (p \in removed <=> h = "removed") /\ (p \in lost <=> h = "lost")
      /\ (text[p] = 0 <=> h = "none")
  BY <1>1, WhereIs DEF Placed
<1>8. \A x, y \in Whereabouts(p) : x = y
  BY <1>2, <1>3, <1>4, <1>5, <1>6, <1>7 DEF Lane
<1>9. text[p] = 0 <=> Whereabouts(p) = {}
  <2>1. h = "none" => Whereabouts(p) = {}
    BY <1>2, <1>3, <1>4, <1>5, <1>6, <1>7 DEF Lane
  <2>2. h # "none" => Whereabouts(p) # {}
    BY <1>2, <1>3, <1>4, <1>5, <1>6, <1>7 DEF Lane, Homes
  <2> QED
    BY <1>7, <2>1, <2>2
<1>10. /\ \A l \in Lane : \A i \in Found(l, p) : lanes[l][i].text = text[p]
       /\ \A e \in moving : e.id = p => e.text = text[p]
       /\ \A i \in DOMAIN pending : pending[i][1] = p => pending[i][2] = text[p]
       /\ \A i \in DOMAIN delivered : delivered[i][1] = p => delivered[i][2] = text[p]
  BY DEF Conserved, Lined, Found, Told
<1> QED
  BY <1>8, <1>9, <1>10

(* A prompt that was accepted is in one place only and has the text of its *)
(* last accepted edit (queue.rs:156, driver.rs:249).                       *)
THEOREM PromptsConservedAlways == Spec => []PromptsConserved
<1>1. Init => Typed /\ Conserved
  BY TypedInit, ConservedInit
<1>2. Typed /\ Conserved /\ [Next]_vars => (Typed /\ Conserved)'
  BY TypedStep, ConservedStep
<1> QED
  BY <1>1, <1>2, ConservedIsEnough, PTL DEF Spec

(***************************************************************************)
(* Exchanges.                                                              *)
(***************************************************************************)

(* A set with zero and with every successor holds all naturals.             *)
LEMMA SetInduction ==
  ASSUME NEW S, 0 \in S, \A n \in Nat : n \in S => n + 1 \in S
  PROVE  \A n \in Nat : n \in S
<1> SUFFICES ASSUME Nat \ S # {} PROVE FALSE
  OBVIOUS
<1>1. PICK x \in Nat \ S : \A y \in Nat \ S : <<y, x>> \notin Below
  <2>1. Nat \ S \subseteq Nat
    OBVIOUS
  <2> QED
    BY <2>1, BelowIsWellFounded, WFMin
<1>2. x # 0 /\ x - 1 \in Nat
  BY <1>1
<1>3. x - 1 \in S
  <2>1. <<x - 1, x>> \in Below
    BY <1>1, <1>2 DEF Below
  <2> QED
    BY <1>1, <1>2, <2>1
<1> QED
  BY <1>1, <1>2, <1>3

(* Equal lengths and elements make equal sequences.                        *)
LEMMA SameSeq ==
  ASSUME NEW s, NEW t, IsSeq(s), IsSeq(t), Len(s) = Len(t), \A i \in 1 .. Len(s) : s[i] = t[i]
  PROVE  s = t
<1>1. s = [i \in 1 .. Len(s) |-> s[i]] /\ t = [i \in 1 .. Len(t) |-> t[i]]
  BY DEF IsSeq
<1> QED
  BY <1>1

(* The values of the recursion that takes the elements at some places.     *)
Takes(g, s, places, n) ==
  /\ g = [i \in 0 .. n |-> g[i]] /\ g[0] = <<>>
  /\ \A i \in 1 .. n : g[i] = IF i \in places THEN Append(g[i - 1], s[i]) ELSE g[i - 1]

(* It has values, and what is taken is the last.                           *)
LEMMA TakingExists ==
  ASSUME NEW s, IsSeq(s), NEW places
  PROVE  \E g : Takes(g, s, places, Len(s)) /\ AtPlaces(s, places) = g[Len(s)]
<1> DEFINE S == {m \in Nat : \E g : Takes(g, s, places, m)}
           n == Len(s)
           Is(f) == f = [i \in 0 .. n |->
                          IF i = 0 THEN <<>>
                          ELSE IF i \in places THEN Append(f[i - 1], s[i]) ELSE f[i - 1]]
           f == CHOOSE f : Is(f)
<1>1. 0 \in S
  <2> DEFINE h == [i \in 0 .. 0 |-> <<>>]
  <2>1. Takes(h, s, places, 0)
    BY DEF Takes
  <2> QED
    BY <2>1
<1>2. \A m \in Nat : m \in S => m + 1 \in S
  <2> SUFFICES ASSUME NEW m \in Nat, m \in S PROVE \E g : Takes(g, s, places, m + 1)
    OBVIOUS
  <2>1. PICK g : Takes(g, s, places, m)
    OBVIOUS
  <2> DEFINE next == IF m + 1 \in places THEN Append(g[m], s[m + 1]) ELSE g[m]
             h == [i \in 0 .. m + 1 |-> IF i = m + 1 THEN next ELSE g[i]]
  <2>2. h = [i \in 0 .. m + 1 |-> h[i]] /\ h[0] = <<>>
    BY <2>1 DEF Takes
  <2>3. ASSUME NEW i \in 1 .. m + 1
        PROVE  h[i] = IF i \in places THEN Append(h[i - 1], s[i]) ELSE h[i - 1]
    <3>1. i - 1 \in 0 .. m /\ h[i - 1] = g[i - 1]
      OBVIOUS
    <3>2. CASE i = m + 1
      <4>1. h[i] = next /\ i - 1 = m
        BY <3>2
      <4> HIDE DEF h
      <4> QED
        BY <3>1, <3>2, <4>1
    <3>3. CASE i # m + 1
      <4>1. i \in 1 .. m /\ h[i] = g[i]
        BY <3>3
      <4> HIDE DEF h
      <4> QED
        BY <2>1, <3>1, <4>1 DEF Takes
    <3> QED
      BY <3>2, <3>3
  <2> HIDE DEF h
  <2> QED
    BY <2>2, <2>3 DEF Takes
<1>3. n \in Nat
  BY DEF IsSeq
<1> HIDE DEF S, n
<1>4. n \in S
  BY <1>1, <1>2, <1>3, SetInduction
<1>5. PICK g : Takes(g, s, places, n)
  BY <1>4 DEF S
<1>6. Is(g)
  <2>1. \A i \in 0 .. n : g[i] = IF i = 0 THEN <<>>
                                 ELSE IF i \in places THEN Append(g[i - 1], s[i]) ELSE g[i - 1]
    <3> SUFFICES ASSUME NEW i \in 0 .. n
                 PROVE  g[i] = IF i = 0 THEN <<>>
                               ELSE IF i \in places THEN Append(g[i - 1], s[i]) ELSE g[i - 1]
      OBVIOUS
    <3>1. CASE i = 0
      BY <1>5, <3>1 DEF Takes
    <3>2. CASE i # 0
      <4>1. i \in 1 .. n
        BY <1>3, <3>2
      <4> QED
        BY <1>5, <3>2, <4>1 DEF Takes
    <3> QED
      BY <3>1, <3>2
  <2> QED
    BY <1>5, <2>1 DEF Takes
<1>7. Is(f)
  <2> HIDE DEF Is
  <2> QED
    BY <1>6
<1>8. AtPlaces(s, places) = f[n]
  BY DEF AtPlaces, n
<1> HIDE DEF f
<1>9. Takes(f, s, places, n)
  <2>1. f[0] = <<>>
    BY <1>3, <1>7
  <2>2. ASSUME NEW i \in 1 .. n
        PROVE  f[i] = IF i \in places THEN Append(f[i - 1], s[i]) ELSE f[i - 1]
    <3>1. i \in 0 .. n /\ i # 0
      BY <1>3
    <3> QED
      BY <1>7, <3>1
  <2>3. f = [i \in 0 .. n |-> f[i]]
    BY <1>7
  <2> QED
    BY <2>1, <2>2, <2>3 DEF Takes
<1> QED
  BY <1>8, <1>9 DEF n

(* The elements of an appended sequence.                                   *)
LEMMA AppendSet ==
  ASSUME NEW s, NEW e, IsSeq(s)
  PROVE  /\ ToSet(Append(s, e)) = ToSet(s) \cup {e}
         /\ IsInjective(s) /\ e \notin ToSet(s) => IsInjective(Append(s, e))
<1> DEFINE t == Append(s, e)
<1>1. Len(s) \in Nat /\ DOMAIN s = 1 .. Len(s)
  BY DEF IsSeq
<1>2. /\ DOMAIN t = 1 .. Len(s) + 1 /\ \A i \in 1 .. Len(s) : t[i] = s[i]
      /\ t[Len(s) + 1] = e
  <2>1. IsSeq(t) /\ Len(t) = Len(s) + 1
    BY AppendIsSeq
  <2>2. DOMAIN t = 1 .. Len(t)
    <3> HIDE DEF t
    <3> QED
      BY <2>1 DEF IsSeq
  <2> QED
    BY <2>1, <2>2, AppendIsSeq
<1> HIDE DEF t
<1>3. ToSet(t) = ToSet(s) \cup {e}
  <2>1. ASSUME NEW x \in ToSet(t) PROVE x \in ToSet(s) \cup {e}
    <3>1. PICK i \in 1 .. Len(s) + 1 : x = t[i]
      BY <1>2 DEF ToSet
    <3> QED
      BY <1>1, <1>2, <3>1 DEF ToSet
  <2>2. ASSUME NEW x \in ToSet(s) PROVE x \in ToSet(t)
    <3>1. PICK i \in 1 .. Len(s) : x = s[i]
      BY <1>1 DEF ToSet
    <3>2. i \in DOMAIN t /\ t[i] = x
      BY <1>1, <1>2, <3>1
    <3> QED
      BY <3>2 DEF ToSet
  <2>3. e \in ToSet(t)
    <3>1. Len(s) + 1 \in DOMAIN t
      BY <1>1, <1>2
    <3> QED
      BY <1>2, <3>1 DEF ToSet
  <2> QED
    BY <2>1, <2>2, <2>3
<1>4. ASSUME IsInjective(s), e \notin ToSet(s) PROVE IsInjective(t)
  <2> SUFFICES ASSUME NEW i \in 1 .. Len(s) + 1, NEW j \in 1 .. Len(s) + 1, t[i] = t[j]
               PROVE  i = j
    BY <1>2 DEF IsInjective
  <2>1. \A k \in 1 .. Len(s) : s[k] # e
    BY <1>1, <1>4 DEF ToSet
  <2>2. CASE i = Len(s) + 1 \/ j = Len(s) + 1
    BY <1>1, <1>2, <2>1, <2>2
  <2>3. CASE i # Len(s) + 1 /\ j # Len(s) + 1
    <3>1. i \in 1 .. Len(s) /\ j \in 1 .. Len(s)
      BY <1>1, <2>3
    <3> QED
      BY <1>1, <1>2, <1>4, <3>1 DEF IsInjective
  <2> QED
    BY <2>2, <2>3
<1> QED
  BY <1>3, <1>4 DEF t

Distinct(s, at) == \A i, j \in at : s[i] = s[j] => i = j

(* What has been taken from the first m elements.                          *)
Taken(t, s, places, m) ==
  /\ IsSeq(t)
  /\ ToSet(t) = {s[i] : i \in places \cap (1 .. m)}
  /\ Distinct(s, places \cap (1 .. m)) => IsInjective(t)

(* What is taken at some places.                                           *)
LEMMA TakenIs ==
  ASSUME NEW s, IsSeq(s), NEW places
  PROVE  Taken(AtPlaces(s, places), s, places, Len(s))
<1>1. PICK g : Takes(g, s, places, Len(s)) /\ AtPlaces(s, places) = g[Len(s)]
  BY TakingExists
<1> DEFINE n == Len(s)
           S == {m \in Nat : m <= n => Taken(g[m], s, places, m)}
<1>2. n \in Nat
  BY DEF IsSeq
<1>3. 0 \in S
  <2>1. g[0] = <<>>
    BY <1>1 DEF Takes
  <2>2. IsSeq(<<>>) /\ ToSet(<<>>) = {} /\ IsInjective(<<>>)
    BY NoneIsSeq DEF ToSet, IsInjective
  <2>3. places \cap (1 .. 0) = {}
    OBVIOUS
  <2> QED
    BY <2>1, <2>2, <2>3 DEF Taken
<1>4. \A m \in Nat : m \in S => m + 1 \in S
  <2> SUFFICES ASSUME NEW m \in Nat, m \in S, m + 1 <= n
               PROVE  Taken(g[m + 1], s, places, m + 1)
    OBVIOUS
  <2>1. Taken(g[m], s, places, m)
    BY <1>2
  <2>2. g[m + 1] = IF m + 1 \in places THEN Append(g[m], s[m + 1]) ELSE g[m]
    <3>1. m + 1 \in 1 .. n
      BY <1>2
    <3> DEFINE l == (m + 1) - 1
    <3>2. l = m
      OBVIOUS
    <3>3. g[m + 1] = IF m + 1 \in places THEN Append(g[l], s[m + 1]) ELSE g[l]
      BY <1>1, <3>1 DEF Takes
    <3> HIDE DEF l
    <3> QED
      BY <3>2, <3>3
  <2>3. CASE m + 1 \notin places
    <3>1. places \cap (1 .. m + 1) = places \cap (1 .. m)
      <4>1. \A i \in places : i \in 1 .. m + 1 <=> i \in 1 .. m
        BY <2>3
      <4> QED
        BY <4>1
    <3> QED
      BY <2>1, <2>2, <2>3, <3>1 DEF Taken
  <2>4. CASE m + 1 \in places
    <3> DEFINE now == places \cap (1 .. m + 1)
               before == places \cap (1 .. m)
    <3>1. now = before \cup {m + 1} /\ m + 1 \notin before
      <4>1. \A i : i \in 1 .. m + 1 <=> i \in 1 .. m \/ i = m + 1
        OBVIOUS
      <4> QED
        BY <2>4, <4>1
    <3> HIDE DEF now, before
    <3>2. IsSeq(g[m]) /\ ToSet(g[m]) = {s[i] : i \in before}
          /\ (Distinct(s, before) => IsInjective(g[m]))
      BY <2>1 DEF Taken, before
    <3>3. IsSeq(g[m + 1])
      BY <2>2, <2>4, <3>2, AppendIsSeq
    <3>4. ToSet(g[m + 1]) = {s[i] : i \in now}
      <4>1. ToSet(g[m + 1]) = ToSet(g[m]) \cup {s[m + 1]}
        BY <2>2, <2>4, <3>2, AppendSet
      <4> QED
        BY <3>1, <3>2, <4>1
    <3>5. ASSUME Distinct(s, now) PROVE IsInjective(g[m + 1])
      <4>1. Distinct(s, before) /\ s[m + 1] \notin {s[i] : i \in before}
        BY <3>1, <3>5 DEF Distinct
      <4> QED
        BY <2>2, <2>4, <3>2, <4>1, AppendSet
    <3> QED
      BY <3>3, <3>4, <3>5 DEF Taken, now
  <2> QED
    BY <2>3, <2>4
<1> HIDE DEF S
<1>5. n \in S
  BY <1>2, <1>3, <1>4, SetInduction
<1> QED
  BY <1>1, <1>2, <1>5 DEF S

(* At all places it is the sequence itself.                                *)
LEMMA AllTaken ==
  ASSUME NEW s, IsSeq(s), NEW places, \A i \in 1 .. Len(s) : i \in places
  PROVE  AtPlaces(s, places) = s
<1>1. PICK g : Takes(g, s, places, Len(s)) /\ AtPlaces(s, places) = g[Len(s)]
  BY TakingExists
<1> DEFINE n == Len(s)
           Same(t, m) == IsSeq(t) /\ Len(t) = m /\ \A i \in 1 .. m : t[i] = s[i]
           S == {m \in Nat : m <= n => Same(g[m], m)}
<1>2. n \in Nat
  BY DEF IsSeq
<1>3. 0 \in S
  <2>1. g[0] = <<>>
    BY <1>1 DEF Takes
  <2> QED
    BY <2>1, NoneIsSeq
<1>4. \A m \in Nat : m \in S => m + 1 \in S
  <2> HIDE DEF Same
  <2> SUFFICES ASSUME NEW m \in Nat, m \in S, m + 1 <= n PROVE Same(g[m + 1], m + 1)
    OBVIOUS
  <2> USE DEF Same
  <2>1. Same(g[m], m)
    BY <1>2
  <2>2. g[m + 1] = Append(g[m], s[m + 1])
    <3>1. m + 1 \in 1 .. n
      BY <1>2
    <3> DEFINE l == (m + 1) - 1
    <3>2. l = m
      OBVIOUS
    <3>3. g[m + 1] = Append(g[l], s[m + 1])
      BY <1>1, <3>1 DEF Takes
    <3> HIDE DEF l
    <3> QED
      BY <3>2, <3>3
  <2>3. /\ IsSeq(g[m + 1]) /\ Len(g[m + 1]) = m + 1
        /\ \A i \in 1 .. m : g[m + 1][i] = g[m][i]
        /\ g[m + 1][m + 1] = s[m + 1]
    BY <2>1, <2>2, AppendIsSeq
  <2> QED
    BY <2>1, <2>3
<1> HIDE DEF S
<1>5. n \in S
  BY <1>2, <1>3, <1>4, SetInduction
<1>6. Same(g[n], n)
  BY <1>2, <1>5 DEF S
<1> QED
  BY <1>1, <1>6, SameSeq

(***************************************************************************)
(* Conversations whose exchanges are complete.                             *)
(***************************************************************************)

(* What a message makes of the calls that await a result.                  *)
Moves(m, before, now) ==
  IF IsResult(m) THEN m.call \in before /\ now = before \ {m.call}
  ELSE /\ before = {}
       /\ now = IF IsAssistant(m) /\ ~Failed(m) THEN ToSet(m.calls) ELSE {}
       /\ IsAssistant(m) /\ ~Failed(m) => IsSeq(m.calls) /\ IsInjective(m.calls)

(* u[i] is what awaits a result after the first i messages.                *)
Trace(messages, u, open) ==
  /\ u[0] = {} /\ u[Len(messages)] = open
  /\ \A i \in 1 .. Len(messages) : Moves(messages[i], u[i - 1], u[i])

(* The messages are complete exchanges, and open awaits results after them. *)
Reads(messages, open) == \E u : Trace(messages, u, open)

(* Nothing is complete.                                                    *)
LEMMA ReadsNone == Reads(<<>>, {})
<1> DEFINE u == [i \in 0 .. 0 |-> {}]
<1>1. Len(<<>>) = 0 /\ u[0] = {}
  BY NoneIsSeq
<1> HIDE DEF u
<1>2. Trace(<<>>, u, {})
  BY <1>1 DEF Trace
<1> QED
  BY <1>2 DEF Reads

(* One conversation after another.                                         *)
LEMMA ReadsConcat ==
  ASSUME NEW s, NEW t, IsSeq(s), IsSeq(t), NEW open, Reads(s, {}), Reads(t, open)
  PROVE  Reads(s \o t, open)
<1>1. PICK u : Trace(s, u, {})
  BY DEF Reads
<1>2. PICK v : Trace(t, v, open)
  BY DEF Reads
<1>3. Len(s) \in Nat /\ Len(t) \in Nat
  BY DEF IsSeq
<1> DEFINE n == Len(s)
           w == [i \in 0 .. n + Len(t) |-> IF i <= n THEN u[i] ELSE v[i - n]]
<1>4. /\ Len(s \o t) = n + Len(t) /\ (\A i \in 1 .. n : (s \o t)[i] = s[i])
      /\ \A i \in 1 .. Len(t) : (s \o t)[n + i] = t[i]
  BY ConcatIsSeq
<1>5. \A i \in 0 .. n : w[i] = u[i]
  BY <1>3
<1>6. \A i \in 0 .. Len(t) : w[n + i] = v[i]
  <2> SUFFICES ASSUME NEW i \in 0 .. Len(t) PROVE w[n + i] = v[i]
    OBVIOUS
  <2>1. CASE i = 0
    <3>1. w[n] = u[n] /\ u[n] = {} /\ v[0] = {}
      BY <1>1, <1>2, <1>3 DEF Trace
    <3> QED
      BY <1>3, <2>1, <3>1
  <2>2. CASE i # 0
    <3>1. n + i \in 0 .. n + Len(t) /\ ~(n + i <= n) /\ (n + i) - n = i
      BY <1>3, <2>2
    <3> QED
      BY <3>1
  <2> QED
    BY <2>1, <2>2
<1> HIDE DEF w
<1>7. w[0] = {}
  BY <1>1, <1>3, <1>5 DEF Trace
<1>8. w[n + Len(t)] = open
  BY <1>2, <1>3, <1>6 DEF Trace
<1>9. ASSUME NEW i \in 1 .. n + Len(t) PROVE Moves((s \o t)[i], w[i - 1], w[i])
  <2>1. CASE i <= n
    <3>1. i \in 1 .. n /\ i \in 0 .. n /\ i - 1 \in 0 .. n
      BY <1>3, <2>1
    <3>2. Moves(s[i], u[i - 1], u[i])
      BY <1>1, <3>1 DEF Trace
    <3> QED
      BY <1>4, <1>5, <3>1, <3>2
  <2>2. CASE ~(i <= n)
    <3> DEFINE k == i - n
    <3>1. k \in 1 .. Len(t) /\ k \in 0 .. Len(t) /\ k - 1 \in 0 .. Len(t)
      BY <1>3, <2>2
    <3>2. n + k = i /\ n + (k - 1) = i - 1
      BY <1>3
    <3> HIDE DEF k
    <3>3. Moves(t[k], v[k - 1], v[k])
      BY <1>2, <3>1 DEF Trace
    <3>4. (s \o t)[i] = t[k] /\ w[i] = v[k] /\ w[i - 1] = v[k - 1]
      BY <1>4, <1>6, <3>1, <3>2
    <3> QED
      BY <3>3, <3>4
  <2> QED
    BY <2>1, <2>2
<1>10. Trace(s \o t, w, open)
  BY <1>4, <1>7, <1>8, <1>9 DEF Trace
<1> QED
  BY <1>10 DEF Reads

(* One more message.                                                       *)
LEMMA ReadsAppend ==
  ASSUME NEW s, IsSeq(s), NEW m, NEW before, NEW now, Reads(s, before), Moves(m, before, now)
  PROVE  Reads(Append(s, m), now)
<1>1. PICK u : Trace(s, u, before)
  BY DEF Reads
<1> DEFINE n == Len(s)
           w == [i \in 0 .. n + 1 |-> IF i <= n THEN u[i] ELSE now]
<1>2. n \in Nat
  BY DEF IsSeq
<1>3. /\ Len(Append(s, m)) = n + 1 /\ (\A i \in 1 .. n : Append(s, m)[i] = s[i])
      /\ Append(s, m)[n + 1] = m
  BY AppendIsSeq
<1>4. (\A i \in 0 .. n : w[i] = u[i]) /\ w[n + 1] = now
  BY <1>2
<1> HIDE DEF w
<1>5. ASSUME NEW i \in 1 .. n + 1 PROVE Moves(Append(s, m)[i], w[i - 1], w[i])
  <2>1. CASE i = n + 1
    <3>1. w[i - 1] = u[n] /\ u[n] = before
      <4>1. i - 1 = n /\ n \in 0 .. n
        BY <1>2, <2>1
      <4> QED
        BY <1>1, <1>4, <4>1 DEF Trace
    <3> QED
      BY <1>3, <1>4, <2>1, <3>1
  <2>2. CASE i # n + 1
    <3>1. i \in 1 .. n /\ i \in 0 .. n /\ i - 1 \in 0 .. n
      BY <1>2, <2>2
    <3>2. Moves(s[i], u[i - 1], u[i])
      BY <1>1, <3>1 DEF Trace
    <3> QED
      BY <1>3, <1>4, <3>1, <3>2
  <2> QED
    BY <2>1, <2>2
<1>6. w[0] = {}
  BY <1>1, <1>2, <1>4 DEF Trace
<1>7. Trace(Append(s, m), w, now)
  BY <1>3, <1>4, <1>5, <1>6 DEF Trace
<1> QED
  BY <1>7 DEF Reads

(* The results of calls that await them.                                   *)
LEMMA ReadsResults ==
  ASSUME NEW s, IsSeq(s), NEW open, Reads(s, open), NEW how,
         NEW calls, IsSeq(calls), IsInjective(calls), ToSet(calls) \subseteq open
  PROVE  Reads(s \o Results(calls, how), open \ ToSet(calls))
<1>1. PICK u : Trace(s, u, open)
  BY DEF Reads
<1> DEFINE n == Len(s)
           k == Len(calls)
           t == Results(calls, how)
           Upto(i) == {calls[j] : j \in 1 .. i}
           w == [i \in 0 .. n + k |-> IF i <= n THEN u[i] ELSE open \ Upto(i - n)]
<1>2. n \in Nat /\ k \in Nat /\ DOMAIN calls = 1 .. k
  BY DEF IsSeq
<1>3. IsSeq(t) /\ Len(t) = k /\ \A i \in 1 .. k : t[i] = Result(calls[i], how)
  <2>1. DOMAIN t = 1 .. k
    BY <1>2 DEF Results
  <2>2. IsSeq(t) /\ \A i \in 1 .. k : t[i] = Result(calls[i], how)
    BY <1>2, ResultsAreSeq DEF Results
  <2> HIDE DEF t
  <2> QED
    BY <1>2, <2>1, <2>2 DEF IsSeq
<1>4. /\ Len(s \o t) = n + k /\ (\A i \in 1 .. n : (s \o t)[i] = s[i])
      /\ \A i \in 1 .. k : (s \o t)[n + i] = t[i]
  <2> HIDE DEF t
  <2> QED
    BY <1>3, ConcatIsSeq
<1>5. \A i \in 0 .. n : w[i] = u[i]
  BY <1>2
<1>6. \A i \in 0 .. k : w[n + i] = open \ Upto(i)
  <2> SUFFICES ASSUME NEW i \in 0 .. k PROVE w[n + i] = open \ Upto(i)
    OBVIOUS
  <2>1. CASE i = 0
    <3>1. Upto(0) = {} /\ u[n] = open
      BY <1>1 DEF Trace
    <3> QED
      BY <1>2, <2>1, <3>1
  <2>2. CASE i # 0
    <3>1. n + i \in 0 .. n + k /\ ~(n + i <= n) /\ (n + i) - n = i
      BY <1>2, <2>2
    <3> QED
      BY <3>1
  <2> QED
    BY <2>1, <2>2
<1>7. Upto(k) = ToSet(calls)
  BY <1>2 DEF ToSet
<1>8. ASSUME NEW i \in 1 .. k
      PROVE  Moves(t[i], open \ Upto(i - 1), open \ Upto(i))
  <2>1. Upto(i) = Upto(i - 1) \cup {calls[i]}
    <3>1. \A j : j \in 1 .. i <=> j \in 1 .. i - 1 \/ j = i
      BY <1>2
    <3> QED
      BY <3>1
  <2>2. calls[i] \notin Upto(i - 1)
    <3>1. \A j \in 1 .. i - 1 : j \in 1 .. k /\ j # i
      BY <1>2
    <3> QED
      BY <1>2, <3>1 DEF IsInjective
  <2>3. calls[i] \in open
    BY <1>2 DEF ToSet
  <2> HIDE DEF Upto, t
  <2>4. IsResult(t[i]) /\ t[i].call = calls[i]
    <3>1. t[i] = Result(calls[i], how)
      BY <1>3
    <3> QED
      BY <3>1 DEF IsResult, Result
  <2> QED
    BY <2>1, <2>2, <2>3, <2>4 DEF Moves
<1> HIDE DEF w, t
<1>9. ASSUME NEW i \in 1 .. n + k PROVE Moves((s \o t)[i], w[i - 1], w[i])
  <2> HIDE DEF Upto
  <2>1. CASE i <= n
    <3>1. i \in 1 .. n /\ i \in 0 .. n /\ i - 1 \in 0 .. n
      BY <1>2, <2>1
    <3>2. Moves(s[i], u[i - 1], u[i])
      BY <1>1, <3>1 DEF Trace
    <3> QED
      BY <1>4, <1>5, <3>1, <3>2
  <2>2. CASE ~(i <= n)
    <3> DEFINE j == i - n
    <3>1. j \in 1 .. k /\ j \in 0 .. k /\ j - 1 \in 0 .. k
      BY <1>2, <2>2
    <3>2. n + j = i /\ n + (j - 1) = i - 1
      BY <1>2
    <3> HIDE DEF j
    <3>3. (s \o t)[i] = t[j] /\ w[i] = open \ Upto(j) /\ w[i - 1] = open \ Upto(j - 1)
      BY <1>4, <1>6, <3>1, <3>2
    <3> QED
      BY <1>8, <3>1, <3>3
  <2> QED
    BY <2>1, <2>2
<1>10. w[0] = {} /\ w[n + k] = open \ ToSet(calls)
  <2>1. 0 \in 0 .. n /\ k \in 0 .. k
    BY <1>2
  <2> HIDE DEF Upto
  <2> QED
    BY <1>1, <1>5, <1>6, <1>7, <2>1 DEF Trace
<1>11. Trace(s \o t, w, open \ ToSet(calls))
  BY <1>4, <1>9, <1>10 DEF Trace
<1> QED
  BY <1>11 DEF Reads, t

(* A conversation can be split where no result follows.                    *)
LEMMA ReadsSplit ==
  ASSUME NEW s, IsSeq(s), Reads(s, {}), NEW p \in 0 .. Len(s),
         p # Len(s) => ~IsResult(s[p + 1])
  PROVE  /\ IsSeq(SubSeq(s, 1, p)) /\ Reads(SubSeq(s, 1, p), {})
         /\ IsSeq(SubSeq(s, p + 1, Len(s))) /\ Reads(SubSeq(s, p + 1, Len(s)), {})
<1>1. PICK u : Trace(s, u, {})
  BY DEF Reads
<1> DEFINE n == Len(s)
           a == SubSeq(s, 1, p)
           b == SubSeq(s, p + 1, n)
           v == [i \in 0 .. n - p |-> u[i + p]]
<1>2. n \in Nat /\ p \in Nat /\ p <= n
  BY DEF IsSeq
<1>3. u[p] = {}
  <2>1. CASE p = n
    BY <1>1, <2>1 DEF Trace
  <2>2. CASE p # n
    <3>1. p + 1 \in 1 .. n /\ (p + 1) - 1 = p
      BY <1>2, <2>2
    <3>2. Moves(s[p + 1], u[p], u[p + 1])
      BY <1>1, <3>1 DEF Trace
    <3> QED
      BY <2>2, <3>2 DEF Moves
  <2> QED
    BY <2>1, <2>2
<1>4. IsSeq(a) /\ Len(a) = p /\ \A i \in 1 .. p : a[i] = s[i]
  <2>1. /\ IsSeq(a) /\ Len(a) = p + 1 - 1
        /\ \A i \in 1 .. (p + 1 - 1) : a[i] = s[i + 1 - 1]
    BY <1>2, SubSeqIsSeq
  <2>2. p + 1 - 1 = p /\ \A i \in 1 .. p : i + 1 - 1 = i
    BY <1>2
  <2> HIDE DEF a
  <2> QED
    BY <2>1, <2>2
<1>5. IsSeq(b) /\ Len(b) = n - p /\ \A i \in 1 .. n - p : b[i] = s[i + p]
  <2>1. /\ IsSeq(b) /\ Len(b) = n + 1 - (p + 1)
        /\ \A i \in 1 .. (n + 1 - (p + 1)) : b[i] = s[i + (p + 1) - 1]
    BY <1>2, SubSeqIsSeq
  <2>2. n + 1 - (p + 1) = n - p /\ \A i \in 1 .. n - p : i + (p + 1) - 1 = i + p
    BY <1>2
  <2> HIDE DEF b
  <2> QED
    BY <2>1, <2>2
<1> HIDE DEF a, b
<1>6. Trace(a, u, {})
  <2>1. ASSUME NEW i \in 1 .. p PROVE Moves(a[i], u[i - 1], u[i])
    <3>1. i \in 1 .. n
      BY <1>2
    <3> QED
      BY <1>1, <1>4, <3>1 DEF Trace
  <2> QED
    BY <1>1, <1>3, <1>4, <2>1 DEF Trace
<1>7. \A i \in 0 .. n - p : v[i] = u[i + p]
  OBVIOUS
<1> HIDE DEF v
<1>8. Trace(b, v, {})
  <2>1. v[0] = {} /\ v[n - p] = {}
    <3>1. 0 \in 0 .. n - p /\ n - p \in 0 .. n - p /\ 0 + p = p /\ (n - p) + p = n
      BY <1>2
    <3> QED
      BY <1>1, <1>3, <1>7, <3>1 DEF Trace
  <2>2. ASSUME NEW i \in 1 .. n - p PROVE Moves(b[i], v[i - 1], v[i])
    <3>1. i + p \in 1 .. n /\ i \in 0 .. n - p /\ i - 1 \in 0 .. n - p
          /\ (i - 1) + p = (i + p) - 1
      BY <1>2
    <3>2. Moves(s[i + p], u[(i + p) - 1], u[i + p])
      BY <1>1, <3>1 DEF Trace
    <3> QED
      BY <1>5, <1>7, <3>1, <3>2
  <2> QED
    BY <1>5, <2>1, <2>2 DEF Trace
<1> QED
  BY <1>4, <1>5, <1>6, <1>8 DEF Reads, a, b

(***************************************************************************)
(* The repair of exchanges.                                                *)
(***************************************************************************)
Nothing == [out |-> <<>>, pending |-> <<>>, unanswered |-> {}]

(* The values of the recursion over the messages.                          *)
Sanitizes(g, messages, n) ==
  /\ g = [i \in 0 .. n |-> g[i]] /\ g[0] = Nothing
  /\ \A i \in 1 .. n : g[i] = SanitizeOne(g[i - 1], messages[i])

(* It has values, and the last one is completed.                           *)
LEMMA SanitizingExists ==
  ASSUME NEW messages, IsSeq(messages)
  PROVE  \E g : /\ Sanitizes(g, messages, Len(messages))
                /\ SanitizeToolPairs(messages) = CompleteExchange(g[Len(messages)]).out
<1> DEFINE S == {m \in Nat : \E g : Sanitizes(g, messages, m)}
           n == Len(messages)
           Is(f) == f = [i \in 0 .. n |-> IF i = 0 THEN Nothing
                                          ELSE SanitizeOne(f[i - 1], messages[i])]
           f == CHOOSE f : Is(f)
<1>1. 0 \in S
  <2> DEFINE h == [i \in 0 .. 0 |-> Nothing]
  <2>1. Sanitizes(h, messages, 0)
    BY DEF Sanitizes
  <2> QED
    BY <2>1
<1>2. \A m \in Nat : m \in S => m + 1 \in S
  <2> SUFFICES ASSUME NEW m \in Nat, m \in S PROVE \E g : Sanitizes(g, messages, m + 1)
    OBVIOUS
  <2>1. PICK g : Sanitizes(g, messages, m)
    OBVIOUS
  <2> DEFINE next == SanitizeOne(g[m], messages[m + 1])
             h == [i \in 0 .. m + 1 |-> IF i = m + 1 THEN next ELSE g[i]]
  <2>2. h = [i \in 0 .. m + 1 |-> h[i]] /\ h[0] = Nothing
    BY <2>1 DEF Sanitizes
  <2>3. ASSUME NEW i \in 1 .. m + 1 PROVE h[i] = SanitizeOne(h[i - 1], messages[i])
    <3>1. i - 1 \in 0 .. m /\ h[i - 1] = g[i - 1]
      OBVIOUS
    <3>2. CASE i = m + 1
      <4>1. h[i] = next /\ i - 1 = m
        BY <3>2
      <4> HIDE DEF h
      <4> QED
        BY <3>1, <3>2, <4>1
    <3>3. CASE i # m + 1
      <4>1. i \in 1 .. m /\ h[i] = g[i]
        BY <3>3
      <4> HIDE DEF h
      <4> QED
        BY <2>1, <3>1, <4>1 DEF Sanitizes
    <3> QED
      BY <3>2, <3>3
  <2> HIDE DEF h
  <2> QED
    BY <2>2, <2>3 DEF Sanitizes
<1>3. n \in Nat
  BY DEF IsSeq
<1> HIDE DEF S, n
<1>4. n \in S
  BY <1>1, <1>2, <1>3, SetInduction
<1>5. PICK g : Sanitizes(g, messages, n)
  BY <1>4 DEF S
<1>6. Is(g)
  <2>1. \A i \in 0 .. n : g[i] = IF i = 0 THEN Nothing ELSE SanitizeOne(g[i - 1], messages[i])
    <3> SUFFICES ASSUME NEW i \in 0 .. n
                 PROVE  g[i] = IF i = 0 THEN Nothing ELSE SanitizeOne(g[i - 1], messages[i])
      OBVIOUS
    <3>1. CASE i = 0
      BY <1>5, <3>1 DEF Sanitizes
    <3>2. CASE i # 0
      <4>1. i \in 1 .. n
        BY <1>3, <3>2
      <4> QED
        BY <1>5, <3>2, <4>1 DEF Sanitizes
    <3> QED
      BY <3>1, <3>2
  <2> QED
    BY <1>5, <2>1 DEF Sanitizes
<1>7. Is(f)
  <2> HIDE DEF Is
  <2> QED
    BY <1>6
<1>8. SanitizeToolPairs(messages) = CompleteExchange(f[n]).out
  BY DEF SanitizeToolPairs, n, Nothing
<1> HIDE DEF f
<1>9. Sanitizes(f, messages, n)
  <2>1. f[0] = Nothing
    BY <1>3, <1>7
  <2>2. ASSUME NEW i \in 1 .. n PROVE f[i] = SanitizeOne(f[i - 1], messages[i])
    <3>1. i \in 0 .. n /\ i # 0
      BY <1>3
    <3> QED
      BY <1>7, <3>1
  <2>3. f = [i \in 0 .. n |-> f[i]]
    BY <1>7
  <2> QED
    BY <2>1, <2>2, <2>3 DEF Sanitizes
<1> QED
  BY <1>8, <1>9 DEF n

(* A placeholder for a result stands in the sequence.                      *)
HasMissing(s) == \E i \in 1 .. Len(s) : IsResult(s[i]) /\ s[i].how = "missing"

(* The state of the repair between two messages.                           *)
Normal(st) ==
  /\ st = [out |-> st.out, pending |-> st.pending, unanswered |-> st.unanswered]
  /\ IsSeq(st.out) /\ IsSeq(st.pending) /\ IsInjective(st.pending)
  /\ st.unanswered \subseteq ToSet(st.pending)
  /\ Reads(st.out, st.unanswered)
  /\ \A i \in 1 .. Len(st.out) : ~Failed(st.out[i])

(* The calls of an answer, each once.                                      *)
LEMMA DistinctIs ==
  ASSUME NEW calls, IsSeq(calls)
  PROVE  /\ IsSeq(DistinctCalls(calls)) /\ IsInjective(DistinctCalls(calls))
         /\ IsInjective(calls) => DistinctCalls(calls) = calls
<1> DEFINE P == {i \in DOMAIN calls : \A j \in 1 .. i - 1 : calls[j] # calls[i]}
<1>1. Len(calls) \in Nat /\ DOMAIN calls = 1 .. Len(calls)
  BY DEF IsSeq
<1>2. DistinctCalls(calls) = AtPlaces(calls, P)
  BY DEF DistinctCalls
<1>3. Distinct(calls, P \cap (1 .. Len(calls)))
  <2> SUFFICES ASSUME NEW i \in 1 .. Len(calls), NEW j \in 1 .. Len(calls), i \in P, j \in P,
                      calls[i] = calls[j]
               PROVE  i = j
    BY DEF Distinct
  <2>1. ~(i < j)
    <3> SUFFICES ASSUME i < j PROVE FALSE
      OBVIOUS
    <3>1. i \in 1 .. j - 1
      BY <1>1
    <3> QED
      BY <3>1
  <2>2. ~(j < i)
    <3> SUFFICES ASSUME j < i PROVE FALSE
      OBVIOUS
    <3>1. j \in 1 .. i - 1
      BY <1>1
    <3> QED
      BY <3>1
  <2> QED
    BY <1>1, <2>1, <2>2
<1>4. ASSUME IsInjective(calls) PROVE \A i \in 1 .. Len(calls) : i \in P
  <2> SUFFICES ASSUME NEW i \in 1 .. Len(calls), NEW j \in 1 .. i - 1, calls[j] = calls[i]
               PROVE  FALSE
    BY <1>1
  <2>1. j \in 1 .. Len(calls) /\ j # i
    BY <1>1
  <2> QED
    BY <1>1, <1>4, <2>1 DEF IsInjective
<1> HIDE DEF P
<1>5. Taken(AtPlaces(calls, P), calls, P, Len(calls))
  BY TakenIs
<1>6. IsInjective(calls) => AtPlaces(calls, P) = calls
  BY <1>4, AllTaken
<1> QED
  BY <1>2, <1>3, <1>5, <1>6 DEF Taken

(* The calls that get a placeholder.                                       *)
Missing(st) ==
  AtPlaces(st.pending, {i \in DOMAIN st.pending : st.pending[i] \in st.unanswered})

(* They are those that no result has answered.                             *)
LEMMA MissingIs ==
  ASSUME NEW st, Normal(st)
  PROVE  /\ IsSeq(Missing(st)) /\ IsInjective(Missing(st)) /\ ToSet(Missing(st)) = st.unanswered
         /\ CompleteExchange(st) = [out |-> st.out \o Results(Missing(st), "missing"),
                                    pending |-> <<>>, unanswered |-> {}]
<1> DEFINE calls == st.pending
           P == {i \in DOMAIN calls : calls[i] \in st.unanswered}
<1>1. IsSeq(calls) /\ IsInjective(calls) /\ st.unanswered \subseteq ToSet(calls)
  BY DEF Normal
<1>2. Len(calls) \in Nat /\ DOMAIN calls = 1 .. Len(calls)
  BY <1>1 DEF IsSeq
<1>3. Taken(AtPlaces(calls, P), calls, P, Len(calls))
  <2> HIDE DEF calls, P
  <2> QED
    BY <1>1, TakenIs
<1>4. Distinct(calls, P \cap (1 .. Len(calls)))
  BY <1>1, <1>2 DEF Distinct, IsInjective
<1>5. {calls[i] : i \in P \cap (1 .. Len(calls))} = st.unanswered
  BY <1>1, <1>2 DEF ToSet
<1>6. Missing(st) = AtPlaces(calls, P)
  BY DEF Missing
<1>7. CompleteExchange(st) = [out |-> st.out \o Results(Missing(st), "missing"),
                              pending |-> <<>>, unanswered |-> {}]
  BY DEF CompleteExchange, Missing, Results
<1> HIDE DEF calls, P
<1> QED
  BY <1>3, <1>4, <1>5, <1>6, <1>7 DEF Taken

(* A completed exchange.                                                   *)
LEMMA CompleteIs ==
  ASSUME NEW st, Normal(st), NEW done, done = CompleteExchange(st)
  PROVE  /\ Normal(done) /\ done.unanswered = {}
         /\ st.unanswered = {} => done.out = st.out
         /\ st.unanswered # {} \/ HasMissing(st.out) => HasMissing(done.out)
<1> DEFINE missing == Missing(st)
           t == Results(missing, "missing")
<1>1. /\ IsSeq(missing) /\ IsInjective(missing) /\ ToSet(missing) = st.unanswered
      /\ done.out = st.out \o t /\ done.pending = <<>> /\ done.unanswered = {}
      /\ done = [out |-> done.out, pending |-> done.pending, unanswered |-> done.unanswered]
  BY MissingIs
<1>2. Len(missing) \in Nat /\ DOMAIN missing = 1 .. Len(missing)
  BY <1>1 DEF IsSeq
<1>3. IsSeq(t) /\ Len(t) = Len(missing)
      /\ \A i \in 1 .. Len(missing) : t[i] = Result(missing[i], "missing")
  <2>1. DOMAIN t = 1 .. Len(missing)
    BY <1>2 DEF Results
  <2>2. IsSeq(t) /\ \A i \in 1 .. Len(missing) : t[i] = Result(missing[i], "missing")
    BY <1>1, <1>2, ResultsAreSeq DEF Results
  <2> HIDE DEF t
  <2> QED
    BY <1>2, <2>1, <2>2 DEF IsSeq
<1>4. Reads(done.out, st.unanswered \ ToSet(missing))
  <2> HIDE DEF missing
  <2>1. Reads(st.out, st.unanswered) /\ IsSeq(st.out)
    BY DEF Normal
  <2> QED
    BY <1>1, <2>1, ReadsResults
<1> HIDE DEF t, missing
<1>5. IsSeq(st.out) /\ Len(st.out) \in Nat
  BY DEF Normal, IsSeq
<1>6. /\ IsSeq(done.out) /\ Len(done.out) = Len(st.out) + Len(t)
      /\ \A i \in 1 .. Len(st.out) : done.out[i] = st.out[i]
      /\ \A i \in 1 .. Len(t) : done.out[Len(st.out) + i] = t[i]
  BY <1>1, <1>3, <1>5, ConcatIsSeq
<1>7. ASSUME NEW i \in 1 .. Len(done.out) PROVE ~Failed(done.out[i])
  <2>1. CASE i <= Len(st.out)
    <3>1. i \in 1 .. Len(st.out)
      BY <1>5, <2>1
    <3> QED
      BY <1>6, <3>1 DEF Normal
  <2>2. CASE ~(i <= Len(st.out))
    <3> DEFINE j == i - Len(st.out)
    <3>1. j \in 1 .. Len(t) /\ Len(st.out) + j = i
      BY <1>2, <1>3, <1>5, <1>6, <2>2
    <3> HIDE DEF j
    <3>2. done.out[i] = Result(missing[j], "missing")
      BY <1>3, <1>6, <3>1
    <3> QED
      BY <3>2 DEF Failed, IsAssistant, Result
  <2> QED
    BY <2>1, <2>2
<1>8. Normal(done)
  <2>1. IsSeq(<<>>) /\ IsInjective(<<>>) /\ {} \subseteq ToSet(<<>>)
    BY NoneIsSeq DEF IsInjective
  <2>2. Reads(done.out, {})
    BY <1>1, <1>4
  <2> QED
    BY <1>1, <1>6, <1>7, <2>1, <2>2 DEF Normal
<1>9. ASSUME st.unanswered = {} PROVE done.out = st.out
  <2>1. Len(missing) = 0
    <3> SUFFICES ASSUME Len(missing) # 0 PROVE FALSE
      OBVIOUS
    <3>1. missing[1] \in ToSet(missing)
      BY <1>2 DEF ToSet
    <3> QED
      BY <1>1, <1>9, <3>1
  <2> QED
    BY <1>3, <1>5, <1>6, <2>1, SameSeq
<1>10. ASSUME st.unanswered # {} \/ HasMissing(st.out) PROVE HasMissing(done.out)
  <2>1. CASE st.unanswered # {}
    <3>1. 1 \in 1 .. Len(missing)
      BY <1>1, <1>2, <2>1 DEF ToSet
    <3>2. done.out[Len(st.out) + 1] = Result(missing[1], "missing")
      BY <1>3, <1>6, <3>1
    <3>3. Len(st.out) + 1 \in 1 .. Len(done.out)
      BY <1>2, <1>3, <1>5, <1>6, <3>1
    <3> QED
      BY <3>2, <3>3 DEF HasMissing, IsResult, Result
  <2>2. CASE HasMissing(st.out)
    <3>1. PICK i \in 1 .. Len(st.out) : IsResult(st.out[i]) /\ st.out[i].how = "missing"
      BY <2>2 DEF HasMissing
    <3>2. i \in 1 .. Len(done.out) /\ done.out[i] = st.out[i]
      BY <1>2, <1>3, <1>5, <1>6
    <3> QED
      BY <3>1, <3>2 DEF HasMissing
  <2> QED
    BY <1>10, <2>1, <2>2
<1> QED
  BY <1>1, <1>8, <1>9, <1>10

(* An answer with other calls.                                             *)
LEMMA OtherCalls ==
  ASSUME NEW m, IsMessage(m), IsAssistant(m), NEW calls, NEW e, e = [m EXCEPT !.calls = calls]
  PROVE  /\ IsSeq(m.calls)
         /\ IsAssistant(e) /\ ~IsResult(e) /\ ~IsUser(e) /\ e.stop = m.stop /\ e.calls = calls
         /\ calls = m.calls => e = m
<1>1. /\ IsSeq(m.calls)
      /\ m = [role |-> "assistant", calls |-> m.calls, stop |-> m.stop, size |-> m.size,
              text |-> m.text, at |-> m.at]
  BY DEF IsMessage, IsAssistant, IsUser, IsResult, IsSeq
<1>2. PICK was, stop, size, said, at :
        m = [role |-> "assistant", calls |-> was, stop |-> stop, size |-> size, text |-> said,
             at |-> at]
  BY <1>1
<1>3. e = [role |-> "assistant", calls |-> calls, stop |-> stop, size |-> size, text |-> said,
           at |-> at]
  BY <1>2
<1> QED
  BY <1>1, <1>2, <1>3 DEF IsAssistant, IsResult, IsUser

(* A message is of one kind.                                               *)
LEMMA KindsDiffer ==
  ASSUME NEW m, IsMessage(m)
  PROVE  /\ IsResult(m) => ~IsAssistant(m) /\ ~IsUser(m) /\ ~Failed(m) /\ m.how # "missing"
         /\ IsUser(m) => ~IsAssistant(m) /\ ~Failed(m)
         /\ IsResult(m) \/ IsUser(m) \/ IsAssistant(m)
  BY DEF IsMessage, IsResult, IsUser, IsAssistant, Failed

(* The repair keeps its state in order.                                    *)
LEMMA SanitizeOneKeeps ==
  ASSUME NEW st, Normal(st), NEW m, IsMessage(m)
  PROVE  Normal(SanitizeOne(st, m))
<1> DEFINE done == CompleteExchange(st)
<1>1. Normal(done) /\ done.unanswered = {} /\ IsSeq(done.out) /\ Reads(done.out, {})
      /\ \A i \in 1 .. Len(done.out) : ~Failed(done.out[i])
  <2>1. Normal(done) /\ done.unanswered = {}
    BY CompleteIs
  <2> HIDE DEF done
  <2> QED
    BY <2>1 DEF Normal
<1>2. PICK out, pending0, unanswered :
        st = [out |-> out, pending |-> pending0, unanswered |-> unanswered]
  BY DEF Normal
<1>3. PICK done1, done2, done3 : done = [out |-> done1, pending |-> done2, unanswered |-> done3]
  BY <1>1 DEF Normal
<1>4. CASE IsResult(m) /\ m.call \in st.unanswered
  <2> DEFINE new == SanitizeOne(st, m)
  <2>1. new = [out |-> Append(st.out, m), pending |-> st.pending,
               unanswered |-> st.unanswered \ {m.call}]
    BY <1>2, <1>4 DEF SanitizeOne
  <2>2. Moves(m, st.unanswered, st.unanswered \ {m.call})
    BY <1>4 DEF Moves
  <2>3. Reads(Append(st.out, m), st.unanswered \ {m.call})
    BY <2>2, ReadsAppend DEF Normal
  <2>4. IsSeq(st.out) /\ Len(st.out) \in Nat
    BY DEF Normal, IsSeq
  <2>5. ASSUME NEW i \in 1 .. Len(Append(st.out, m)) PROVE ~Failed(Append(st.out, m)[i])
    <3>1. i \in 1 .. Len(st.out) \/ i = Len(st.out) + 1
      BY <2>4, AppendIsSeq
    <3> QED
      BY <1>4, <2>4, <3>1, AppendIsSeq, KindsDiffer DEF Normal
  <2>6. IsSeq(Append(st.out, m))
    BY <2>4, AppendIsSeq
  <2> HIDE DEF new
  <2>7. Normal(new)
    BY <2>1, <2>3, <2>5, <2>6 DEF Normal
  <2> QED
    BY <2>7 DEF new
<1>5. CASE IsResult(m) /\ m.call \notin st.unanswered
  BY <1>5 DEF SanitizeOne
<1>6. CASE IsUser(m)
  <2> DEFINE new == SanitizeOne(st, m)
  <2>1. new = [done EXCEPT !.out = Append(done.out, m)]
    BY <1>6, KindsDiffer DEF SanitizeOne
  <2> HIDE DEF done
  <2>2. new = [out |-> Append(done.out, m), pending |-> done.pending,
               unanswered |-> done.unanswered]
    BY <1>3, <2>1
  <2>3. Moves(m, {}, {})
    BY <1>6, KindsDiffer DEF Moves
  <2>4. Reads(Append(done.out, m), {})
    BY <1>1, <2>3, ReadsAppend
  <2>5. Len(done.out) \in Nat
    BY <1>1 DEF IsSeq
  <2>6. ASSUME NEW i \in 1 .. Len(Append(done.out, m)) PROVE ~Failed(Append(done.out, m)[i])
    <3>1. i \in 1 .. Len(done.out) \/ i = Len(done.out) + 1
      BY <1>1, <2>5, AppendIsSeq
    <3> QED
      BY <1>1, <1>6, <3>1, AppendIsSeq, KindsDiffer
  <2>7. IsSeq(Append(done.out, m))
    BY <1>1, AppendIsSeq
  <2> HIDE DEF new
  <2>8. Normal(new)
    BY <1>1, <2>2, <2>4, <2>6, <2>7 DEF Normal
  <2> QED
    BY <2>8 DEF new
<1>7. CASE Failed(m)
  BY <1>1, <1>7, KindsDiffer DEF SanitizeOne
<1>8. CASE IsAssistant(m) /\ ~Failed(m)
  <2> DEFINE new == SanitizeOne(st, m)
             calls == DistinctCalls(m.calls)
             e == [m EXCEPT !.calls = calls]
  <2>1. new = [out |-> Append(done.out, e), pending |-> calls, unanswered |-> ToSet(calls)]
    BY <1>8, KindsDiffer DEF SanitizeOne
  <2>2. IsSeq(m.calls) /\ IsAssistant(e) /\ ~IsResult(e) /\ ~Failed(e) /\ e.calls = calls
    BY <1>8, OtherCalls DEF Failed
  <2>3. IsSeq(calls) /\ IsInjective(calls)
    BY <2>2, DistinctIs
  <2> HIDE DEF done, calls, e
  <2>4. Moves(e, {}, ToSet(calls))
    BY <2>2, <2>3 DEF Moves
  <2>5. Reads(Append(done.out, e), ToSet(calls))
    BY <1>1, <2>4, ReadsAppend
  <2>6. Len(done.out) \in Nat
    BY <1>1 DEF IsSeq
  <2>7. ASSUME NEW i \in 1 .. Len(Append(done.out, e)) PROVE ~Failed(Append(done.out, e)[i])
    <3>1. i \in 1 .. Len(done.out) \/ i = Len(done.out) + 1
      BY <1>1, <2>6, AppendIsSeq
    <3> QED
      BY <1>1, <2>2, <3>1, AppendIsSeq
  <2>8. IsSeq(Append(done.out, e))
    BY <1>1, AppendIsSeq
  <2> HIDE DEF new
  <2>9. Normal(new)
    BY <2>1, <2>3, <2>5, <2>7, <2>8 DEF Normal
  <2> QED
    BY <2>9 DEF new
<1> QED
  BY <1>4, <1>5, <1>6, <1>7, <1>8, KindsDiffer

(* A repaired sequence that is not, and will not become, what was kept.     *)
Off(s, kept) == HasMissing(s) \/ (Len(s) <= Len(kept) /\ s # kept)

(* It stays so.                                                            *)
LEMMA AppendOff ==
  ASSUME NEW s, NEW kept, IsSeq(s), IsSeq(kept), NEW x, NEW y
  PROVE  /\ Off(s, kept) => Off(Append(s, x), Append(kept, y))
         /\ s = kept /\ x # y => Off(Append(s, x), Append(kept, y))
         /\ HasMissing(s) => HasMissing(Append(s, x))
<1>1. Len(s) \in Nat /\ Len(kept) \in Nat
  BY DEF IsSeq
<1>2. /\ Len(Append(s, x)) = Len(s) + 1 /\ Len(Append(kept, y)) = Len(kept) + 1
      /\ \A i \in 1 .. Len(s) : Append(s, x)[i] = s[i]
      /\ \A i \in 1 .. Len(kept) : Append(kept, y)[i] = kept[i]
      /\ Append(s, x)[Len(s) + 1] = x /\ Append(kept, y)[Len(kept) + 1] = y
  BY AppendIsSeq
<1>3. ASSUME Append(s, x) = Append(kept, y) PROVE s = kept /\ x = y
  <2>1. Len(s) = Len(kept)
    BY <1>1, <1>2, <1>3
  <2>2. \A i \in 1 .. Len(s) : s[i] = kept[i]
    BY <1>2, <1>3, <2>1
  <2> QED
    BY <1>2, <1>3, <2>1, <2>2, SameSeq
<1>4. ASSUME HasMissing(s) PROVE HasMissing(Append(s, x))
  <2>1. PICK i \in 1 .. Len(s) : IsResult(s[i]) /\ s[i].how = "missing"
    BY <1>4 DEF HasMissing
  <2>2. i \in 1 .. Len(Append(s, x)) /\ Append(s, x)[i] = s[i]
    BY <1>1, <1>2
  <2> QED
    BY <2>1, <2>2 DEF HasMissing
<1>5. Len(s) <= Len(kept) => Len(Append(s, x)) <= Len(Append(kept, y))
  BY <1>1, <1>2
<1>6. s = kept => Len(s) <= Len(kept)
  BY <1>1
<1> QED
  BY <1>3, <1>4, <1>5, <1>6 DEF Off

(* What one message does to the repaired sequence and to what is kept: if    *)
(* it belongs where it stands, the same, and if not, the two part for good.  *)
Mirrors(st, m, kept, new, next) ==
  \A now : st.out = kept /\ Moves(m, st.unanswered, now) => new.out = next /\ new.unanswered = now
Parts(st, m, kept, new, next) ==
  /\ Off(st.out, kept) => Off(new.out, next)
  /\ st.out = kept => Off(new.out, next) \/ Moves(m, st.unanswered, new.unanswered)

LEMMA SanitizeOneIs ==
  ASSUME NEW st, Normal(st), NEW m, IsMessage(m), NEW kept, IsSeq(kept),
         NEW next, next = IF Failed(m) THEN kept ELSE Append(kept, m),
         NEW new, new = SanitizeOne(st, m)
  PROVE  Mirrors(st, m, kept, new, next) /\ Parts(st, m, kept, new, next)
<1> DEFINE done == CompleteExchange(st)
<1>1. IsSeq(st.out) /\ Len(st.out) \in Nat /\ Len(kept) \in Nat
  BY DEF Normal, IsSeq
<1>2. PICK out, pending0, unanswered :
        st = [out |-> out, pending |-> pending0, unanswered |-> unanswered]
  BY DEF Normal
<1>3. /\ IsSeq(done.out) /\ done.unanswered = {}
      /\ st.unanswered = {} => done.out = st.out
      /\ st.unanswered # {} \/ HasMissing(st.out) => HasMissing(done.out)
      /\ done = [out |-> done.out, pending |-> done.pending, unanswered |-> done.unanswered]
  BY CompleteIs DEF Normal
<1>4. CASE IsResult(m) /\ m.call \in st.unanswered
  <2>1. new.out = Append(st.out, m) /\ new.unanswered = st.unanswered \ {m.call}
    BY <1>2, <1>4 DEF SanitizeOne
  <2>2. next = Append(kept, m)
    BY <1>4, KindsDiffer
  <2>3. \A now : Moves(m, st.unanswered, now) <=> now = new.unanswered
    BY <1>4, <2>1 DEF Moves
  <2>4. Off(st.out, kept) => Off(new.out, next)
    BY <1>1, <2>1, <2>2, AppendOff
  <2>5. Mirrors(st, m, kept, new, next)
    BY <2>1, <2>2, <2>3 DEF Mirrors
  <2> QED
    BY <2>3, <2>4, <2>5 DEF Parts
<1>5. CASE IsResult(m) /\ m.call \notin st.unanswered
  <2>1. new = st
    BY <1>5 DEF SanitizeOne
  <2>2. next = Append(kept, m) /\ Len(next) = Len(kept) + 1
    BY <1>5, KindsDiffer, AppendIsSeq
  <2>3. ASSUME Len(st.out) <= Len(kept) PROVE Len(st.out) <= Len(next) /\ st.out # next
    <3>1. Len(st.out) < Len(next)
      BY <1>1, <2>2, <2>3
    <3>2. Len(st.out) # Len(next)
      BY <1>1, <2>2, <2>3
    <3>3. Len(st.out) <= Len(next)
      BY <1>1, <2>2, <2>3
    <3>4. st.out # next
      BY ONLY <3>2
    <3> QED
      BY <3>3, <3>4
  <2>4. st.out = kept => Len(st.out) <= Len(kept)
    BY <1>1
  <2>5. ~\E now : Moves(m, st.unanswered, now)
    BY <1>5 DEF Moves
  <2>6. Mirrors(st, m, kept, new, next)
    BY <2>5 DEF Mirrors
  <2>7. Off(st.out, kept) => Off(new.out, next)
    BY <2>1, <2>3 DEF Off
  <2>8. st.out = kept => Off(new.out, next)
    BY <2>1, <2>3, <2>4 DEF Off
  <2> QED
    BY <2>6, <2>7, <2>8 DEF Parts
<1>6. CASE IsUser(m)
  <2>1. new = [done EXCEPT !.out = Append(done.out, m)] /\ next = Append(kept, m)
    BY <1>6, KindsDiffer DEF SanitizeOne
  <2> HIDE DEF done
  <2>2. new.out = Append(done.out, m) /\ new.unanswered = {}
    <3>1. PICK o, p, u : done = [out |-> o, pending |-> p, unanswered |-> u]
      BY <1>3
    <3> QED
      BY <1>3, <2>1, <3>1
  <2>3. \A before, now : Moves(m, before, now) <=> before = {} /\ now = {}
    BY <1>6, KindsDiffer DEF Moves
  <2>4. CASE st.unanswered = {}
    <3>1. new.out = Append(st.out, m)
      BY <1>3, <2>2, <2>4
    <3>2. Off(st.out, kept) => Off(new.out, next)
      BY <1>1, <2>1, <3>1, AppendOff
    <3>3. Moves(m, st.unanswered, new.unanswered)
      BY <2>2, <2>3, <2>4
    <3>4. Mirrors(st, m, kept, new, next)
      BY <2>1, <2>2, <2>3, <3>1 DEF Mirrors
    <3> QED
      BY <3>2, <3>3, <3>4 DEF Parts
  <2>5. CASE st.unanswered # {}
    <3>1. HasMissing(new.out)
      BY <1>3, <2>2, <2>5, AppendOff
    <3>2. Mirrors(st, m, kept, new, next)
      BY <2>3, <2>5 DEF Mirrors
    <3> QED
      BY <3>1, <3>2 DEF Off, Parts
  <2> QED
    BY <2>4, <2>5
<1>7. CASE Failed(m)
  <2>1. new = done /\ next = kept
    BY <1>7, KindsDiffer DEF SanitizeOne
  <2> HIDE DEF done
  <2>2. \A before, now : Moves(m, before, now) <=> before = {} /\ now = {}
    BY <1>7, KindsDiffer DEF Moves
  <2>3. CASE st.unanswered = {}
    <3>1. new.out = st.out /\ new.unanswered = {}
      BY <1>3, <2>1, <2>3
    <3>2. Mirrors(st, m, kept, new, next)
      BY <2>1, <2>2, <3>1 DEF Mirrors
    <3>3. Moves(m, st.unanswered, new.unanswered)
      BY <2>2, <2>3, <3>1
    <3> QED
      BY <2>1, <3>1, <3>2, <3>3 DEF Parts
  <2>4. CASE st.unanswered # {}
    <3>1. HasMissing(new.out)
      BY <1>3, <2>1, <2>4
    <3>2. Mirrors(st, m, kept, new, next)
      BY <2>2, <2>4 DEF Mirrors
    <3> QED
      BY <3>1, <3>2 DEF Off, Parts
  <2> QED
    BY <2>3, <2>4
<1>8. CASE IsAssistant(m) /\ ~Failed(m)
  <2>0. PICK e : e = [m EXCEPT !.calls = DistinctCalls(m.calls)]
    OBVIOUS
  <2> DEFINE calls == DistinctCalls(m.calls)
  <2>1. new = [out |-> Append(done.out, e), pending |-> calls, unanswered |-> ToSet(calls)]
    BY <1>8, <2>0, KindsDiffer DEF SanitizeOne
  <2> HIDE DEF calls
  <2>20. e = [m EXCEPT !.calls = calls]
    BY <2>0 DEF calls
  <2>2. IsSeq(m.calls) /\ e.calls = calls /\ (calls = m.calls => e = m)
    BY ONLY <1>8, <2>20, IsMessage(m), OtherCalls
  <2> USE DEF calls
  <2>3. IsInjective(calls) /\ (IsInjective(m.calls) => calls = m.calls)
    BY <2>2, DistinctIs
  <2>4. next = Append(kept, m) /\ ~IsResult(m)
    BY <1>8, KindsDiffer
  <2> HIDE DEF done, calls
  <2>5. \A before, now : Moves(m, before, now) <=>
                           before = {} /\ now = ToSet(m.calls) /\ IsInjective(m.calls)
    BY <1>8, <2>2, <2>4 DEF Moves
  <2>6. new.out = Append(done.out, e) /\ new.unanswered = ToSet(calls)
    BY <2>1
  <2>7. CASE st.unanswered # {}
    <3>1. HasMissing(new.out)
      BY <1>3, <2>6, <2>7, AppendOff
    <3>2. Mirrors(st, m, kept, new, next)
      BY <2>5, <2>7 DEF Mirrors
    <3> QED
      BY <3>1, <3>2 DEF Off, Parts
  <2>8. CASE st.unanswered = {} /\ IsInjective(m.calls)
    <3>1. new.out = Append(st.out, m) /\ new.unanswered = ToSet(m.calls)
      BY <1>3, <2>6, <2>2, <2>3, <2>8
    <3>2. Off(st.out, kept) => Off(new.out, next)
      BY <1>1, <2>4, <3>1, AppendOff
    <3>3. Moves(m, st.unanswered, new.unanswered)
      BY <2>5, <2>8, <3>1
    <3>4. Mirrors(st, m, kept, new, next)
      BY <2>4, <2>5, <3>1 DEF Mirrors
    <3> QED
      BY <3>2, <3>3, <3>4 DEF Parts
  <2>9. CASE st.unanswered = {} /\ ~IsInjective(m.calls)
    <3>1. new.out = Append(st.out, e) /\ e # m
      BY <1>3, <2>6, <2>2, <2>3, <2>9
    <3>2. Off(st.out, kept) => Off(new.out, next)
      BY <1>1, <2>4, <3>1, AppendOff
    <3>3. st.out = kept => Off(new.out, next)
      BY <1>1, <2>4, <3>1, AppendOff
    <3>4. Mirrors(st, m, kept, new, next)
      BY <2>5, <2>9 DEF Mirrors
    <3> QED
      BY <3>2, <3>3, <3>4 DEF Parts
  <2> QED
    BY <2>7, <2>8, <2>9
<1> QED
  BY <1>4, <1>5, <1>6, <1>7, <1>8, KindsDiffer

(* The repair's state is in order after every message.                     *)
LEMMA SanitizingKeeps ==
  ASSUME NEW ms, IsSeq(ms), \A i \in 1 .. Len(ms) : IsMessage(ms[i]),
         NEW g, Sanitizes(g, ms, Len(ms))
  PROVE  \A i \in 0 .. Len(ms) : Normal(g[i])
<1> DEFINE n == Len(ms)
           S == {m \in Nat : m <= n => Normal(g[m])}
<1>1. n \in Nat
  BY DEF IsSeq
<1>2. 0 \in S
  <2>1. g[0] = Nothing
    BY DEF Sanitizes
  <2>2. IsSeq(<<>>) /\ Len(<<>>) = 0 /\ IsInjective(<<>>) /\ Reads(<<>>, {})
    BY NoneIsSeq, ReadsNone DEF IsInjective
  <2>3. Normal(Nothing)
    BY <2>2 DEF Normal, Nothing
  <2> QED
    BY <2>1, <2>3
<1>3. \A m \in Nat : m \in S => m + 1 \in S
  <2> SUFFICES ASSUME NEW m \in Nat, m \in S, m + 1 <= n PROVE Normal(g[m + 1])
    OBVIOUS
  <2>1. Normal(g[m])
    BY <1>1
  <2> DEFINE l == (m + 1) - 1
  <2>2. l = m /\ m + 1 \in 1 .. n
    BY <1>1
  <2>3. g[m + 1] = SanitizeOne(g[l], ms[m + 1]) /\ IsMessage(ms[m + 1])
    BY <2>2 DEF Sanitizes
  <2> HIDE DEF l
  <2>4. g[m + 1] = SanitizeOne(g[m], ms[m + 1])
    BY <2>2, <2>3
  <2> QED
    BY <2>1, <2>3, <2>4, SanitizeOneKeeps
<1> HIDE DEF S, n
<1>4. \A m \in Nat : m \in S
  BY <1>2, <1>3, SetInduction
<1> QED
  BY <1>1, <1>4 DEF S, n

(* The repair leaves complete exchanges and no failed answer.              *)
LEMMA RepairedReads ==
  ASSUME NEW ms, IsSeq(ms), \A i \in 1 .. Len(ms) : IsMessage(ms[i]),
         NEW out, out = SanitizeToolPairs(ms)
  PROVE  IsSeq(out) /\ Reads(out, {}) /\ \A i \in 1 .. Len(out) : ~Failed(out[i])
<1>1. PICK g : Sanitizes(g, ms, Len(ms)) /\ out = CompleteExchange(g[Len(ms)]).out
  BY SanitizingExists
<1>2. Len(ms) \in 0 .. Len(ms)
  BY DEF IsSeq
<1>3. Normal(g[Len(ms)])
  BY <1>1, <1>2, SanitizingKeeps
<1> DEFINE done == CompleteExchange(g[Len(ms)])
<1>4. Normal(done) /\ done.unanswered = {}
  BY <1>3, CompleteIs
<1>5. out = done.out
  BY <1>1
<1> HIDE DEF done
<1> QED
  BY <1>4, <1>5 DEF Normal

(* The results that follow an answer.                                      *)
AnsweredBy(ms, i, k) == {ms[i + j].call : j \in 1 .. k}

(* After the first k of them the others are still awaited.                 *)
Awaits(ms, u, i, k) ==
  /\ u[i + k] = u[i] \ AnsweredBy(ms, i, k)
  /\ \A j \in 1 .. k : ms[i + j].call \in u[i] /\ ms[i + j].call \notin AnsweredBy(ms, i, j - 1)

(* Every result is of a call that awaited one.                             *)
LEMMA ResultsAnswer ==
  ASSUME NEW ms, IsSeq(ms), NEW u, Trace(ms, u, {}), NEW i \in 1 .. Len(ms),
         NEW k \in Nat, i + k <= Len(ms), \A j \in 1 .. k : IsResult(ms[i + j])
  PROVE  Awaits(ms, u, i, k)
<1> DEFINE S == {m \in Nat : m <= k => Awaits(ms, u, i, m)}
<1>1. Len(ms) \in Nat
  BY DEF IsSeq
<1>2. 0 \in S
  <2>1. i + 0 = i /\ 1 .. 0 = {}
    OBVIOUS
  <2> QED
    BY <2>1 DEF Awaits, AnsweredBy
<1>3. \A m \in Nat : m \in S => m + 1 \in S
  <2> SUFFICES ASSUME NEW m \in Nat, m \in S, m + 1 <= k PROVE Awaits(ms, u, i, m + 1)
    OBVIOUS
  <2>1. Awaits(ms, u, i, m)
    OBVIOUS
  <2> DEFINE p == i + (m + 1)
             q == p - 1
             c == ms[p].call
  <2>2. p \in 1 .. Len(ms) /\ q = i + m /\ m + 1 \in 1 .. k
    BY <1>1
  <2>3. Moves(ms[p], u[q], u[p]) /\ IsResult(ms[p])
    BY <2>2 DEF Trace
  <2> HIDE DEF q
  <2>4. c \in u[q] /\ u[p] = u[q] \ {c}
    BY <2>3 DEF Moves
  <2>5. u[q] = u[i] \ AnsweredBy(ms, i, m)
    BY <2>1, <2>2 DEF Awaits
  <2>6. AnsweredBy(ms, i, m + 1) = AnsweredBy(ms, i, m) \cup {c}
    <3>1. 1 .. m + 1 = (1 .. m) \cup {m + 1}
      OBVIOUS
    <3> QED
      BY <3>1 DEF AnsweredBy
  <2>7. u[p] = u[i] \ AnsweredBy(ms, i, m + 1)
    BY <2>4, <2>5, <2>6
  <2>8. ASSUME NEW j \in 1 .. m + 1
        PROVE  ms[i + j].call \in u[i] /\ ms[i + j].call \notin AnsweredBy(ms, i, j - 1)
    <3>1. CASE j = m + 1
      <4> DEFINE l == (m + 1) - 1
      <4>1. l = m
        OBVIOUS
      <4>2. c \in u[i] /\ c \notin AnsweredBy(ms, i, m)
        BY <2>4, <2>5
      <4> HIDE DEF l
      <4>3. c \notin AnsweredBy(ms, i, l)
        BY <4>1, <4>2
      <4> QED
        BY <3>1, <4>2, <4>3 DEF l
    <3>2. CASE j # m + 1
      <4>1. j \in 1 .. m
        BY <3>2
      <4> QED
        BY <2>1, <4>1 DEF Awaits
    <3> QED
      BY <3>1, <3>2
  <2> QED
    BY <2>7, <2>8 DEF Awaits
<1> HIDE DEF S
<1>4. k \in S
  BY <1>2, <1>3, SetInduction
<1> QED
  BY <1>4 DEF S

(* An answer is followed by one result for each of its calls.              *)
Follow(ms, i, k) == i + k <= Len(ms) /\ \A j \in 1 .. k : IsResult(ms[i + j])

LEMMA GroupIs ==
  ASSUME NEW ms, IsSeq(ms), NEW u, Trace(ms, u, {}), NEW i \in 1 .. Len(ms),
         IsAssistant(ms[i]), ~Failed(ms[i])
  PROVE  LET Group == {j \in DOMAIN ms : j > i /\ \A k \in (i + 1) .. j : IsResult(ms[k])}
         IN /\ Cardinality(Group) = Len(ms[i].calls)
            /\ {ms[j].call : j \in Group} = ToSet(ms[i].calls)
<1> DEFINE n == Len(ms)
           calls == ms[i].calls
           Group == {j \in DOMAIN ms : j > i /\ \A k \in (i + 1) .. j : IsResult(ms[k])}
<1>1. n \in Nat /\ DOMAIN ms = 1 .. n
  BY DEF IsSeq
<1>0. n \in Nat /\ i \in Nat
  BY <1>1
<1>2. u[i] = ToSet(calls) /\ IsSeq(calls) /\ IsInjective(calls)
  <2>1. Moves(ms[i], u[i - 1], u[i]) /\ ~IsResult(ms[i])
    BY DEF Trace, IsAssistant, IsResult
  <2> QED
    BY <2>1 DEF Moves
<1>3. PICK k \in Nat : Follow(ms, i, k) /\ ~Follow(ms, i, k + 1)
  <2> SUFFICES ASSUME \A k \in Nat : Follow(ms, i, k) => Follow(ms, i, k + 1) PROVE FALSE
    OBVIOUS
  <2> DEFINE S == {k \in Nat : Follow(ms, i, k)}
  <2>1. 0 \in S
    BY <1>1 DEF Follow
  <2>2. \A m \in Nat : m \in S => m + 1 \in S
    OBVIOUS
  <2> HIDE DEF S
  <2>3. n \in S
    BY <1>1, <2>1, <2>2, SetInduction
  <2>4. i + n <= n
    BY <2>3 DEF S, Follow
  <2> QED
    BY <1>1, <2>4
<1>4. k \in Nat /\ i + k <= n /\ \A j \in 1 .. k : IsResult(ms[i + j])
  BY <1>3 DEF Follow
<1>5. i + k = n \/ ~IsResult(ms[i + (k + 1)])
  <2> SUFFICES ASSUME i + k # n, IsResult(ms[i + (k + 1)]) PROVE FALSE
    OBVIOUS
  <2>1. i + (k + 1) <= n
    <3>1. k \in Nat /\ i + k <= n /\ i + k # n
      BY <1>4
    <3> HIDE DEF n
    <3> QED
      BY ONLY <1>0, <3>1
  <2>2. \A j \in 1 .. k + 1 : j \in 1 .. k \/ j = k + 1
    OBVIOUS
  <2>3. Follow(ms, i, k + 1)
    BY <1>4, <2>1, <2>2 DEF Follow
  <2> QED
    BY <1>3, <2>3
<1>6. Group = (i + 1) .. (i + k)
  <2>1. ASSUME NEW j \in Group PROVE j \in (i + 1) .. (i + k)
    <3>1. j \in 1 .. n /\ j > i /\ \A l \in (i + 1) .. j : IsResult(ms[l])
      BY <1>1
    <3>2. ~(j > i + k)
      <4> SUFFICES ASSUME j > i + k PROVE FALSE
        OBVIOUS
      <4>1. i + k # n /\ i + (k + 1) \in (i + 1) .. j
        <5>1. k \in Nat /\ j \in Nat /\ j <= n /\ j > i + k
          BY <1>1, <1>4, <3>1
        <5> HIDE DEF n, Group
        <5>2. i + k < n
          BY ONLY <1>0, <5>1
        <5>3. i + (k + 1) \in (i + 1) .. j
          BY ONLY <1>0, <5>1
        <5> QED
          BY ONLY <1>0, <5>1, <5>2, <5>3
      <4> QED
        BY <1>5, <3>1, <4>1
    <3> QED
      BY <1>1, <3>1, <3>2
  <2>2. ASSUME NEW j \in (i + 1) .. (i + k) PROVE j \in Group
    <3>1. j \in 1 .. n /\ j > i
      BY <1>1, <1>4
    <3>2. ASSUME NEW l \in (i + 1) .. j PROVE IsResult(ms[l])
      <4>1. l - i \in 1 .. k /\ i + (l - i) = l
        OBVIOUS
      <4> QED
        BY <1>4, <4>1
    <3> QED
      BY <1>1, <3>1, <3>2
  <2> QED
    BY <2>1, <2>2
<1> HIDE DEF Group
<1>7. Awaits(ms, u, i, k)
  BY <1>4, ResultsAnswer
<1>8. u[i + k] = {}
  <2>1. CASE i + k = n
    BY <2>1 DEF Trace
  <2>2. CASE i + k # n
    <3> DEFINE p == i + (k + 1)
               q == p - 1
    <3>1. p \in 1 .. n /\ q = i + k
      <4>0. k \in Nat /\ i + k <= n /\ i + k # n
        BY <1>4, <2>2
      <4>1. k \in Nat /\ i + k < n
        <5> HIDE DEF n
        <5> QED
          BY ONLY <1>0, <4>0
      <4> QED
        BY ONLY <1>1, <4>1, i \in 1 .. n DEF n
    <3>2. Moves(ms[p], u[q], u[p]) /\ ~IsResult(ms[p])
      BY <1>5, <2>2, <3>1 DEF Trace
    <3> HIDE DEF q
    <3> QED
      BY <3>1, <3>2 DEF Moves
  <2> QED
    BY <2>1, <2>2
<1>9. AnsweredBy(ms, i, k) = ToSet(calls)
  <2> HIDE DEF calls
  <2> QED
    BY <1>2, <1>7, <1>8 DEF Awaits, AnsweredBy
<1>10. \A j, l \in 1 .. k : ms[i + j].call = ms[i + l].call => j = l
  <2>1. ASSUME NEW j \in 1 .. k, NEW l \in 1 .. k, j < l PROVE ms[i + j].call # ms[i + l].call
    <3>1. ms[i + l].call \notin AnsweredBy(ms, i, l - 1)
      BY <1>7 DEF Awaits
    <3>2. j \in 1 .. l - 1
      BY <2>1
    <3> QED
      BY <3>1, <3>2 DEF AnsweredBy
  <2>2. \A j, l \in 1 .. k : j < l \/ l < j \/ j = l
    OBVIOUS
  <2> QED
    BY <2>1, <2>2
<1> DEFINE T == ToSet(calls)
           byResult == [j \in 1 .. k |-> ms[i + j].call]
<1>11. Cardinality(T) = k
  <2>1. byResult \in [1 .. k -> T]
    BY <1>9 DEF AnsweredBy
  <2>2. \A j, l \in 1 .. k : byResult[j] = byResult[l] => j = l
    BY <1>10
  <2>3. \A t \in T : \E j \in 1 .. k : byResult[j] = t
    BY <1>9 DEF AnsweredBy
  <2> HIDE DEF byResult, T
  <2>4. byResult \in Bijection(1 .. k, T)
    BY <2>1, <2>2, <2>3 DEF Bijection, Injection, Surjection, IsInjective
  <2>5. ExistsBijection(1 .. k, T)
    BY <2>4 DEF ExistsBijection
  <2> QED
    BY <2>5, FS_CountingElements
<1>12. Cardinality(T) = Len(calls) /\ Len(calls) \in Nat
  <2> HIDE DEF calls
  <2>1. DOMAIN calls = 1 .. Len(calls) /\ Len(calls) \in Nat /\ calls \in [1 .. Len(calls) -> T]
    BY <1>2 DEF IsSeq
  <2>2. \A t \in T : \E j \in 1 .. Len(calls) : calls[j] = t
    BY <2>1 DEF ToSet
  <2>3. \A j, l \in 1 .. Len(calls) : calls[j] = calls[l] => j = l
    BY <1>2, <2>1 DEF IsInjective
  <2> HIDE DEF T
  <2>4. calls \in Bijection(1 .. Len(calls), T)
    BY <2>1, <2>2, <2>3 DEF Bijection, Injection, Surjection, IsInjective
  <2>5. ExistsBijection(1 .. Len(calls), T)
    BY <2>4 DEF ExistsBijection
  <2> QED
    BY <2>1, <2>5, FS_CountingElements
<1>13. Cardinality(Group) = k
  <2>1. Cardinality((i + 1) .. (i + k)) = IF i + 1 > i + k THEN 0 ELSE (i + k) - (i + 1) + 1
    BY FS_Interval
  <2> QED
    BY <1>6, <2>1
<1>14. {ms[j].call : j \in Group} = T
  <2>1. ASSUME NEW j \in Group PROVE ms[j].call \in T
    <3>1. j - i \in 1 .. k /\ i + (j - i) = j
      BY <1>6
    <3>2. ms[j].call \in AnsweredBy(ms, i, k)
      BY <3>1 DEF AnsweredBy
    <3> QED
      BY <1>9, <3>2
  <2>2. ASSUME NEW t \in T PROVE \E j \in Group : ms[j].call = t
    <3>1. PICK j \in 1 .. k : ms[i + j].call = t
      BY <1>9 DEF AnsweredBy
    <3>2. i + j \in Group
      BY <1>6
    <3> QED
      BY <3>1, <3>2
  <2> HIDE DEF T
  <2> QED
    BY <2>1, <2>2
<1> QED
  BY <1>11, <1>12, <1>13, <1>14 DEF Group

(* Complete exchanges are what every provider demands.                     *)
LEMMA ReadsIsWellPaired ==
  ASSUME NEW ms, IsSeq(ms), Reads(ms, {}), \A i \in 1 .. Len(ms) : ~Failed(ms[i])
  PROVE  WellPaired(ms)
<1>1. PICK u : Trace(ms, u, {})
  BY DEF Reads
<1>2. Len(ms) \in Nat /\ DOMAIN ms = 1 .. Len(ms)
  BY DEF IsSeq
<1>3. ASSUME NEW i \in 1 .. Len(ms)
      PROVE  ~(IF i = 1 THEN IsResult(ms[1]) ELSE IsUser(ms[i - 1]) /\ IsResult(ms[i]))
  <2>1. Moves(ms[i], u[i - 1], u[i])
    BY <1>1 DEF Trace
  <2>2. u[i - 1] = {} => ~IsResult(ms[i])
    BY <2>1 DEF Moves
  <2>3. CASE i = 1
    BY <1>1, <2>2, <2>3 DEF Trace
  <2>4. CASE i # 1
    <3> DEFINE p == i - 1
    <3>1. p \in 1 .. Len(ms)
      BY <1>2, <2>4
    <3>2. Moves(ms[p], u[p - 1], u[p])
      BY <1>1, <3>1 DEF Trace
    <3> HIDE DEF p
    <3>3. IsUser(ms[p]) => u[p] = {}
      BY <3>2 DEF Moves, IsUser, IsResult, IsAssistant
    <3> QED
      BY <2>2, <2>4, <3>3 DEF p
  <2> QED
    BY <2>3, <2>4
<1> QED
  BY <1>1, <1>2, <1>3, GroupIs DEF WellPaired

Unfailed(ms) == {i \in DOMAIN ms : ~Failed(ms[i])}

(* What is kept of the first messages, one message further.                *)
LEMMA KeepingStep ==
  ASSUME NEW ms, IsSeq(ms), \A i \in 1 .. Len(ms) : IsMessage(ms[i]),
         NEW g, Sanitizes(g, ms, Len(ms)), NEW k, Takes(k, ms, Unfailed(ms), Len(ms)),
         NEW m \in Nat, m + 1 <= Len(ms), IsSeq(k[m])
  PROVE  /\ IsSeq(k[m + 1])
         /\ Mirrors(g[m], ms[m + 1], k[m], g[m + 1], k[m + 1])
         /\ Parts(g[m], ms[m + 1], k[m], g[m + 1], k[m + 1])
<1> DEFINE n == Len(ms)
           l == (m + 1) - 1
<1>1. n \in Nat /\ DOMAIN ms = 1 .. n
  BY DEF IsSeq
<1>2. l = m /\ m + 1 \in 1 .. n /\ m \in 0 .. n
  BY <1>1
<1>3. /\ g[m + 1] = SanitizeOne(g[l], ms[m + 1])
      /\ k[m + 1] = IF m + 1 \in Unfailed(ms) THEN Append(k[l], ms[m + 1]) ELSE k[l]
      /\ IsMessage(ms[m + 1])
  BY <1>2 DEF Sanitizes, Takes
<1> HIDE DEF l
<1>4. /\ g[m + 1] = SanitizeOne(g[m], ms[m + 1])
      /\ k[m + 1] = IF Failed(ms[m + 1]) THEN k[m] ELSE Append(k[m], ms[m + 1])
  BY <1>1, <1>2, <1>3 DEF Unfailed
<1>5. Normal(g[m])
  BY <1>2, SanitizingKeeps
<1>6. IsSeq(k[m + 1])
  BY <1>4, AppendIsSeq
<1> HIDE DEF n
<1>7. /\ Mirrors(g[m], ms[m + 1], k[m], g[m + 1], k[m + 1])
      /\ Parts(g[m], ms[m + 1], k[m], g[m + 1], k[m + 1])
  BY <1>3, <1>4, <1>5, SanitizeOneIs
<1> QED
  BY <1>6, <1>7

(* Nothing is kept that says of a result that there is none.               *)
LEMMA KeptHasResults ==
  ASSUME NEW ms, IsSeq(ms), \A i \in 1 .. Len(ms) : IsMessage(ms[i])
  PROVE  IsSeq(Kept(ms)) /\ ~HasMissing(Kept(ms))
<1> DEFINE P == Unfailed(ms)
           kept == AtPlaces(ms, P)
<1>1. Kept(ms) = kept
  BY DEF Kept, Unfailed
<1>2. IsSeq(kept) /\ ToSet(kept) = {ms[i] : i \in P \cap (1 .. Len(ms))}
  BY TakenIs DEF Taken
<1> HIDE DEF kept
<1>3. ASSUME NEW i \in 1 .. Len(kept) PROVE ~(IsResult(kept[i]) /\ kept[i].how = "missing")
  <2>1. kept[i] \in ToSet(kept)
    BY <1>2 DEF ToSet, IsSeq
  <2>2. IsMessage(kept[i])
    BY <1>2, <2>1
  <2> QED
    BY <2>2, KindsDiffer
<1> QED
  BY <1>1, <1>2, <1>3 DEF HasMissing

(* Complete exchanges need no repair.                                      *)
LEMMA ReadsIsWhole ==
  ASSUME NEW ms, IsSeq(ms), \A i \in 1 .. Len(ms) : IsMessage(ms[i]), Reads(ms, {})
  PROVE  IsWhole(ms)
<1>1. PICK u : Trace(ms, u, {})
  BY DEF Reads
<1>2. PICK g : /\ Sanitizes(g, ms, Len(ms))
               /\ SanitizeToolPairs(ms) = CompleteExchange(g[Len(ms)]).out
  BY SanitizingExists
<1>3. PICK k : Takes(k, ms, Unfailed(ms), Len(ms)) /\ AtPlaces(ms, Unfailed(ms)) = k[Len(ms)]
  BY TakingExists
<1> DEFINE n == Len(ms)
           S == {m \in Nat : m <= n => /\ IsSeq(k[m]) /\ g[m].out = k[m]
                                       /\ g[m].unanswered = u[m]}
<1>4. n \in Nat
  BY DEF IsSeq
<1>5. 0 \in S
  <2>1. g[0] = Nothing /\ k[0] = <<>> /\ u[0] = {} /\ IsSeq(<<>>)
    BY <1>1, <1>2, <1>3, NoneIsSeq DEF Sanitizes, Takes, Trace
  <2>2. g[0].out = k[0] /\ g[0].unanswered = u[0] /\ IsSeq(k[0])
    BY <2>1 DEF Nothing
  <2> QED
    BY <2>2
<1>6. \A m \in Nat : m \in S => m + 1 \in S
  <2> SUFFICES ASSUME NEW m \in Nat, m \in S, m + 1 <= n
               PROVE  /\ IsSeq(k[m + 1]) /\ g[m + 1].out = k[m + 1]
                      /\ g[m + 1].unanswered = u[m + 1]
    OBVIOUS
  <2>1. IsSeq(k[m]) /\ g[m].out = k[m] /\ g[m].unanswered = u[m]
    BY <1>4
  <2>2. IsSeq(k[m + 1]) /\ Mirrors(g[m], ms[m + 1], k[m], g[m + 1], k[m + 1])
    BY <1>2, <1>3, <2>1, KeepingStep
  <2> DEFINE l == (m + 1) - 1
  <2>3. l = m /\ m + 1 \in 1 .. n
    BY <1>4
  <2>4. Moves(ms[m + 1], u[l], u[m + 1])
    BY <1>1, <2>3 DEF Trace
  <2> HIDE DEF l
  <2>5. Moves(ms[m + 1], g[m].unanswered, u[m + 1])
    BY <2>1, <2>3, <2>4
  <2> QED
    BY <2>1, <2>2, <2>5 DEF Mirrors
<1> HIDE DEF S, n
<1>7. n \in S
  BY <1>4, <1>5, <1>6, SetInduction
<1>8. g[n].out = k[n] /\ g[n].unanswered = {}
  BY <1>1, <1>4, <1>7 DEF S, n, Trace
<1>9. Normal(g[n])
  <2>1. n \in 0 .. n
    BY <1>4
  <2> QED
    BY <1>2, <2>1, SanitizingKeeps DEF n
<1>10. CompleteExchange(g[n]).out = g[n].out
  BY <1>8, <1>9, CompleteIs
<1> QED
  BY <1>2, <1>3, <1>8, <1>10 DEF IsWhole, Kept, Unfailed, n

(* And what needs no repair has complete exchanges.                        *)
SoFar(ms, g, k, m) ==
  /\ IsSeq(k[m])
  /\ \/ Off(g[m].out, k[m])
     \/ /\ g[m].out = k[m]
        /\ \A j \in 1 .. m : Moves(ms[j], g[j - 1].unanswered, g[j].unanswered)

LEMMA WholeReads ==
  ASSUME NEW ms, IsSeq(ms), \A i \in 1 .. Len(ms) : IsMessage(ms[i]), IsWhole(ms)
  PROVE  Reads(ms, {})
<1>1. PICK g : /\ Sanitizes(g, ms, Len(ms))
               /\ SanitizeToolPairs(ms) = CompleteExchange(g[Len(ms)]).out
  BY SanitizingExists
<1>2. PICK k : Takes(k, ms, Unfailed(ms), Len(ms)) /\ AtPlaces(ms, Unfailed(ms)) = k[Len(ms)]
  BY TakingExists
<1> DEFINE n == Len(ms)
           S == {m \in Nat : m <= n => SoFar(ms, g, k, m)}
<1>3. n \in Nat
  BY DEF IsSeq
<1>4. 0 \in S
  <2>1. g[0] = Nothing /\ k[0] = <<>> /\ IsSeq(<<>>) /\ 1 .. 0 = {}
    BY <1>1, <1>2, NoneIsSeq DEF Sanitizes, Takes
  <2>2. SoFar(ms, g, k, 0)
    BY <2>1 DEF Nothing, SoFar
  <2> QED
    BY <2>2
<1>5. \A m \in Nat : m \in S => m + 1 \in S
  <2> SUFFICES ASSUME NEW m \in Nat, m \in S, m + 1 <= n PROVE SoFar(ms, g, k, m + 1)
    OBVIOUS
  <2>1. SoFar(ms, g, k, m)
    BY <1>3
  <2>2. /\ IsSeq(k[m + 1])
        /\ Mirrors(g[m], ms[m + 1], k[m], g[m + 1], k[m + 1])
        /\ Parts(g[m], ms[m + 1], k[m], g[m + 1], k[m + 1])
    BY <1>1, <1>2, <2>1, KeepingStep DEF SoFar
  <2>3. CASE Off(g[m].out, k[m])
    BY <2>2, <2>3 DEF Parts, SoFar
  <2>4. CASE Off(g[m + 1].out, k[m + 1])
    BY <2>2, <2>4 DEF SoFar
  <2>5. CASE ~Off(g[m].out, k[m]) /\ ~Off(g[m + 1].out, k[m + 1])
    <3>1. /\ g[m].out = k[m]
          /\ \A j \in 1 .. m : Moves(ms[j], g[j - 1].unanswered, g[j].unanswered)
      BY <2>1, <2>5 DEF SoFar
    <3>2. Moves(ms[m + 1], g[m].unanswered, g[m + 1].unanswered)
      BY <2>2, <2>5, <3>1 DEF Parts
    <3>3. g[m + 1].out = k[m + 1]
      BY <2>2, <3>1, <3>2 DEF Mirrors
    <3>4. ASSUME NEW j \in 1 .. m + 1
          PROVE  Moves(ms[j], g[j - 1].unanswered, g[j].unanswered)
      <4>1. CASE j = m + 1
        <5>1. j - 1 = m
          BY <4>1
        <5> QED
          BY <3>2, <4>1, <5>1
      <4>2. CASE j # m + 1
        <5>1. j \in 1 .. m
          BY <4>2
        <5> QED
          BY <3>1, <5>1
      <4> QED
        BY <4>1, <4>2
    <3> QED
      BY <2>2, <3>3, <3>4 DEF SoFar
  <2> QED
    BY <2>3, <2>4, <2>5
<1> HIDE DEF S, n
<1>6. n \in S
  BY <1>3, <1>4, <1>5, SetInduction
<1>7. SoFar(ms, g, k, n)
  BY <1>3, <1>6 DEF S
<1>8. Normal(g[n])
  <2>1. n \in 0 .. n
    BY <1>3
  <2> QED
    BY <1>1, <2>1, SanitizingKeeps DEF n
<1> DEFINE done == CompleteExchange(g[n])
<1>9. done.out = k[n] /\ k[n] = Kept(ms)
  BY <1>1, <1>2 DEF IsWhole, Kept, Unfailed, n
<1>10. ~HasMissing(done.out)
  <2>1. ~HasMissing(Kept(ms))
    BY KeptHasResults
  <2> HIDE DEF done
  <2> QED
    BY <1>9, <2>1
<1>11. /\ g[n].unanswered = {} => done.out = g[n].out
       /\ g[n].unanswered # {} \/ HasMissing(g[n].out) => HasMissing(done.out)
  BY <1>8, CompleteIs
<1> HIDE DEF done
<1>12. g[n].unanswered = {} /\ ~Off(g[n].out, k[n])
  BY <1>9, <1>10, <1>11 DEF Off
<1> DEFINE u == [i \in 0 .. n |-> g[i].unanswered]
<1>13. \A i \in 0 .. n : u[i] = g[i].unanswered
  OBVIOUS
<1> HIDE DEF u
<1>14. u[0] = {} /\ u[n] = {}
  <2>1. 0 \in 0 .. n /\ n \in 0 .. n /\ g[0] = Nothing
    BY <1>1, <1>3 DEF Sanitizes
  <2> QED
    BY <1>12, <1>13, <2>1 DEF Nothing
<1>15. ASSUME NEW i \in 1 .. n PROVE Moves(ms[i], u[i - 1], u[i])
  <2>1. i \in 0 .. n /\ i - 1 \in 0 .. n
    BY <1>3
  <2>2. u[i] = g[i].unanswered /\ u[i - 1] = g[i - 1].unanswered
    BY <1>13, <2>1
  <2>3. Moves(ms[i], g[i - 1].unanswered, g[i].unanswered)
    BY <1>7, <1>12 DEF SoFar
  <2> QED
    BY <2>2, <2>3
<1>16. Trace(ms, u, {})
  BY <1>14, <1>15 DEF Trace, n
<1> QED
  BY <1>16 DEF Reads

(***************************************************************************)
(* Compactions and exchanges.                                              *)
(***************************************************************************)
Fine(s) == IsSeq(s) /\ \A i \in 1 .. Len(s) : IsMessage(s[i])

(* No exchange is broken that was not.                                     *)
Passed(messages, new) == Fine(new) /\ (Reads(messages, {}) => Reads(new, {}))

(* Sequences that are made of messages.                                    *)
LEMMA FineAppend ==
  ASSUME NEW s, Fine(s), NEW m, IsMessage(m) PROVE Fine(Append(s, m))
<1>1. IsSeq(s) /\ Len(s) \in Nat
  BY DEF Fine, IsSeq
<1>2. IsSeq(Append(s, m)) /\ Len(Append(s, m)) = Len(s) + 1
  BY <1>1, AppendIsSeq
<1>3. ASSUME NEW i \in 1 .. Len(s) + 1 PROVE IsMessage(Append(s, m)[i])
  <2>1. i \in 1 .. Len(s) \/ i = Len(s) + 1
    BY <1>1
  <2> QED
    BY <1>1, <2>1, AppendIsSeq DEF Fine
<1> QED
  BY <1>2, <1>3 DEF Fine

(* One after another.                                                      *)
LEMMA FineConcat ==
  ASSUME NEW s, Fine(s), NEW t, Fine(t) PROVE Fine(s \o t)
<1>1. IsSeq(s) /\ Len(s) \in Nat /\ IsSeq(t) /\ Len(t) \in Nat
  BY DEF Fine, IsSeq
<1>2. /\ IsSeq(s \o t) /\ Len(s \o t) = Len(s) + Len(t)
      /\ \A i \in 1 .. Len(s) : (s \o t)[i] = s[i]
      /\ \A i \in 1 .. Len(t) : (s \o t)[Len(s) + i] = t[i]
  BY <1>1, ConcatIsSeq
<1>3. ASSUME NEW i \in 1 .. Len(s) + Len(t) PROVE IsMessage((s \o t)[i])
  <2>1. CASE i <= Len(s)
    <3>1. i \in 1 .. Len(s)
      BY <1>1, <2>1
    <3> QED
      BY <1>2, <3>1 DEF Fine
  <2>2. CASE ~(i <= Len(s))
    <3> DEFINE j == i - Len(s)
    <3>1. j \in 1 .. Len(t) /\ Len(s) + j = i
      BY <1>1, <2>2
    <3> HIDE DEF j
    <3>2. (s \o t)[i] = t[j]
      BY <1>2, <3>1
    <3> QED
      BY <3>1, <3>2 DEF Fine
  <2> QED
    BY <2>1, <2>2
<1> QED
  BY <1>2, <1>3 DEF Fine

(* Part of one.                                                            *)
LEMMA FinePart ==
  ASSUME NEW s, Fine(s), NEW m \in Nat, NEW n \in Nat, m >= 1, n <= Len(s), m <= n + 1
  PROVE  Fine(SubSeq(s, m, n))
<1>1. IsSeq(s) /\ Len(s) \in Nat
  BY DEF Fine, IsSeq
<1> DEFINE t == SubSeq(s, m, n)
<1>2. /\ IsSeq(t) /\ Len(t) = n + 1 - m
      /\ \A i \in 1 .. (n + 1 - m) : t[i] = s[i + m - 1]
  BY <1>1, SubSeqIsSeq
<1> HIDE DEF t
<1>3. ASSUME NEW i \in 1 .. (n + 1 - m) PROVE IsMessage(t[i])
  <2>1. i + m - 1 \in 1 .. Len(s)
    BY <1>1
  <2> QED
    BY <1>2, <2>1 DEF Fine
<1> QED
  BY <1>2, <1>3 DEF Fine, t

(* What users say is complete.                                             *)
LEMMA UsersRead ==
  ASSUME NEW s, IsSeq(s), \A i \in 1 .. Len(s) : IsUser(s[i])
  PROVE  Fine(s) /\ Reads(s, {})
<1> DEFINE u == [i \in 0 .. Len(s) |-> {}]
<1>1. Len(s) \in Nat
  BY DEF IsSeq
<1>2. \A i \in 0 .. Len(s) : u[i] = {}
  OBVIOUS
<1> HIDE DEF u
<1>3. ASSUME NEW i \in 1 .. Len(s) PROVE Moves(s[i], u[i - 1], u[i])
  <2>1. i \in 0 .. Len(s) /\ i - 1 \in 0 .. Len(s)
    BY <1>1
  <2>2. ~IsResult(s[i]) /\ ~IsAssistant(s[i])
    BY DEF IsUser, IsResult, IsAssistant
  <2> QED
    BY <1>2, <2>1, <2>2 DEF Moves
<1>4. u[0] = {} /\ u[Len(s)] = {}
  BY <1>1, <1>2
<1>5. Trace(s, u, {})
  BY <1>3, <1>4 DEF Trace
<1>6. Fine(s)
  BY DEF Fine, IsMessage
<1> QED
  BY <1>5, <1>6 DEF Reads

(* One more message that users say.                                        *)
LEMMA SaidPasses ==
  ASSUME NEW s, Fine(s), NEW who PROVE Passed(s, Append(s, User(who)))
<1>1. IsMessage(User(who)) /\ Moves(User(who), {}, {})
  BY DEF IsMessage, User, IsUser, IsResult, IsAssistant, Moves
<1>2. Fine(Append(s, User(who)))
  BY <1>1, FineAppend
<1>3. Reads(s, {}) => Reads(Append(s, User(who)), {})
  BY <1>1, ReadsAppend DEF Fine
<1> QED
  BY <1>2, <1>3 DEF Passed

(* A previous summary is taken out.                                        *)
LEMMA BasePasses ==
  ASSUME NEW messages, Fine(messages), NEW ctl PROVE Passed(messages, Base(messages, ctl))
<1> DEFINE At == {i \in DOMAIN messages : messages[i] = User(ctl.summary)}
           n == Len(messages)
<1>1. CASE At = {}
  BY <1>1 DEF Base, WithoutSummary, Passed
<1>2. CASE At # {}
  <2>1. DOMAIN messages = 1 .. n /\ n \in Nat /\ IsSeq(messages)
    BY DEF IsSeq, Fine
  <2>2. Min(At) \in At
    <3>1. At \subseteq Nat
      BY <2>1
    <3> HIDE DEF At
    <3> QED
      BY <1>2, <3>1, MinIsIn
  <2>3. PICK i \in 1 .. n : i = Min(At)
    BY <2>1, <2>2
  <2>4. IsUser(messages[i]) /\ ~IsResult(messages[i]) /\ ~IsAssistant(messages[i])
    BY <2>2, <2>3 DEF User, IsUser, IsResult, IsAssistant
  <2> DEFINE a == SubSeq(messages, 1, i - 1)
             b == SubSeq(messages, i + 1, n)
  <2>5. Base(messages, ctl) = a \o b
    BY <1>2, <2>3 DEF Base, WithoutSummary, RemoveAt
  <2>6. Fine(a) /\ Fine(b)
    BY <2>1, FinePart
  <2>7. ASSUME Reads(messages, {}) PROVE Reads(a, {}) /\ Reads(b, {})
    <3> DEFINE p == i - 1
    <3>1. p \in 0 .. n /\ i \in 0 .. n
      BY <2>1
    <3>2. p + 1 = i
      OBVIOUS
    <3> HIDE DEF p, n
    <3>3. Reads(SubSeq(messages, 1, p), {})
      BY <2>1, <2>4, <2>7, <3>1, <3>2, ReadsSplit DEF n
    <3>4. PICK u : Trace(messages, u, {})
      BY <2>7 DEF Reads
    <3>5. Moves(messages[i], u[p], u[i])
      BY <3>4 DEF Trace, p, n
    <3>6. u[i] = {}
      BY <2>4, <3>5 DEF Moves
    <3>7. ASSUME i # n PROVE ~IsResult(messages[i + 1])
      <4> DEFINE q == i + 1
                 l == q - 1
      <4>1. q \in 1 .. n /\ l = i
        BY <2>1, <3>7
      <4>2. Moves(messages[q], u[l], u[q])
        BY <3>4, <4>1 DEF Trace, n
      <4> HIDE DEF l
      <4> QED
        BY <3>6, <4>1, <4>2 DEF Moves
    <3>8. Reads(SubSeq(messages, i + 1, n), {})
      BY <2>1, <2>7, <3>1, <3>7, ReadsSplit DEF n
    <3> QED
      BY <3>3, <3>8 DEF p, n
  <2>8. Fine(a \o b)
    <3> HIDE DEF a, b
    <3> QED
      BY <2>6, FineConcat
  <2>9. Reads(messages, {}) => Reads(a \o b, {})
    <3> HIDE DEF a, b
    <3> QED
      BY <2>6, <2>7, ReadsConcat DEF Fine
  <2> QED
    BY <2>5, <2>8, <2>9 DEF Passed
<1> QED
  BY <1>1, <1>2

(* The retained tail begins where a plan may cut.                          *)
LEMMA CompactedPasses ==
  ASSUME NEW messages, Fine(messages), NEW k \in 1 .. Len(messages) + 1, NEW summary,
         k # Len(messages) + 1 => ~IsResult(messages[k])
  PROVE  Passed(messages, Compacted(messages, k, summary))
<1> DEFINE n == Len(messages)
           t == SubSeq(messages, k, n)
           s == <<User(summary)>>
<1>1. n \in Nat /\ IsSeq(messages)
  BY DEF Fine, IsSeq
<1>2. Fine(t)
  BY <1>1, FinePart
<1>3. Fine(s) /\ Reads(s, {})
  <2>1. IsSeq(s) /\ Len(s) = 1 /\ s[1] = User(summary)
    BY OneIsSeq
  <2>2. \A i \in 1 .. Len(s) : IsUser(s[i])
    BY <2>1 DEF IsUser, User
  <2> HIDE DEF s
  <2> QED
    BY <2>1, <2>2, UsersRead
<1>4. ASSUME Reads(messages, {}) PROVE Reads(t, {})
  <2> DEFINE p == k - 1
  <2>1. p \in 0 .. n /\ p + 1 = k
    BY <1>1
  <2>2. p # n => ~IsResult(messages[p + 1])
    BY <1>1
  <2> HIDE DEF p, n
  <2>3. Reads(SubSeq(messages, p + 1, n), {})
    BY <1>1, <1>4, <2>1, <2>2, ReadsSplit DEF n
  <2> QED
    BY <2>1, <2>3
<1> HIDE DEF s, t
<1>5. Fine(s \o t)
  BY <1>2, <1>3, FineConcat
<1>6. Reads(messages, {}) => Reads(s \o t, {})
  BY <1>2, <1>3, <1>4, ReadsConcat DEF Fine
<1> QED
  BY <1>5, <1>6 DEF Passed, Compacted, s, t

(* A compaction of what remains without the previous summary.              *)
LEMMA PlanPasses ==
  ASSUME NEW messages, Fine(messages), NEW ctl, NEW summary,
         NEW k \in Plans(Base(messages, ctl)) \cup {Len(Base(messages, ctl)) + 1}
  PROVE  Passed(messages, Compacted(Base(messages, ctl), k, summary))
<1> DEFINE base == Base(messages, ctl)
<1>1. Passed(messages, base)
  BY BasePasses
<1>2. IsSeq(base) /\ Len(base) \in Nat /\ DOMAIN base = 1 .. Len(base)
  BY <1>1 DEF Passed, Fine, IsSeq
<1> HIDE DEF base
<1>3. k \in 1 .. Len(base) + 1 /\ (k # Len(base) + 1 => ~IsResult(base[k]))
  BY <1>2 DEF Plans, ValidCuts, base
<1>4. Passed(base, Compacted(base, k, summary))
  BY <1>1, <1>3, CompactedPasses DEF Passed
<1> QED
  BY <1>1, <1>4 DEF Passed, base

(* A required summary that may fail.                                       *)
LEMMA MayCompactPasses ==
  ASSUME NEW messages, Fine(messages), NEW ctl, NEW stop, NEW o \in MayCompact(messages, ctl, stop)
  PROVE  Passed(messages, o.messages)
<1>1. CASE o = Skipped(messages, ctl)
  BY <1>1 DEF Skipped, Outcome, Passed
<1>2. CASE o # Skipped(messages, ctl)
  <2>1. PICK k \in Plans(Base(messages, ctl)) :
               o.messages = Compacted(Base(messages, ctl), k, <<"summary", clock>>)
    BY <1>2 DEF MayCompact, Compact, Outcome
  <2> QED
    BY <2>1, PlanPasses
<1> QED
  BY <1>1, <1>2

(* A compaction at the threshold.                                          *)
LEMMA ThresholdPasses ==
  ASSUME NEW messages, Fine(messages), NEW ctl, NEW stop,
         NEW o \in ThresholdCompact(messages, ctl, stop)
  PROVE  Passed(messages, o.messages)
<1>1. CASE ctl.suppressed
  BY <1>1 DEF ThresholdCompact, Skipped, Outcome, Passed
<1>2. CASE ~ctl.suppressed
  <2>1. PICK p \in MayCompact(messages, ctl, stop) : o = [p EXCEPT !.ctl.suppressed = p.replaced]
    BY <1>2 DEF ThresholdCompact
  <2>2. Passed(messages, p.messages)
    BY <2>1, MayCompactPasses
  <2>3. PICK a, b, c, d : p = Outcome(a, b, c, d)
    BY <2>1 DEF MayCompact, Skipped, Compact
  <2>4. o.messages = p.messages
    BY <2>1, <2>3 DEF Outcome
  <2> QED
    BY <2>2, <2>4
<1> QED
  BY <1>1, <1>2

(* A request that was refused: its answer is taken out.                    *)
LEMMA OverflowPasses ==
  ASSUME NEW messages, Fine(messages), NEW ctl, NEW stop,
         NEW o \in OverflowRetry(messages, ctl, stop)
  PROVE  Passed(messages, o.messages)
<1> DEFINE popped == IF messages # <<>> /\ IsAssistant(Last(messages))
                     THEN Front(messages) ELSE messages
           base == Base(popped, ctl)
<1>1. Passed(messages, popped)
  <2>1. CASE messages # <<>> /\ IsAssistant(Last(messages))
    <3>1. Len(messages) \in Nat /\ Len(messages) # 0 /\ IsSeq(messages)
      BY <2>1 DEF IsSeq, Fine
    <3> DEFINE p == Len(messages) - 1
    <3>2. p \in 0 .. Len(messages) /\ p \in Nat /\ p + 1 = Len(messages)
      BY <3>1
    <3>3. ~IsResult(messages[Len(messages)])
      BY <2>1 DEF Last, IsAssistant, IsResult
    <3>4. popped = SubSeq(messages, 1, p)
      BY <2>1 DEF Front
    <3> HIDE DEF p
    <3>5. Fine(SubSeq(messages, 1, p))
      BY <3>1, <3>2, FinePart
    <3>6. Reads(messages, {}) => Reads(SubSeq(messages, 1, p), {})
      BY <3>1, <3>2, <3>3, ReadsSplit
    <3> QED
      BY <3>4, <3>5, <3>6 DEF Passed
  <2>2. CASE ~(messages # <<>> /\ IsAssistant(Last(messages)))
    BY <2>2 DEF Passed
  <2> QED
    BY <2>1, <2>2
<1>2. CASE o = Skipped(popped, ctl)
  BY <1>1, <1>2 DEF Skipped, Outcome
<1>3. CASE o # Skipped(popped, ctl)
  <2>1. PICK k \in Plans(base) \cup {Len(base) + 1} :
               o.messages = Compacted(base, k, <<"summary", clock>>)
    BY <1>3 DEF OverflowRetry, Compact, Outcome
  <2> HIDE DEF popped
  <2>2. Passed(popped, o.messages)
    BY <1>1, <2>1, PlanPasses DEF Passed
  <2> QED
    BY <1>1, <2>2 DEF Passed
<1> QED
  BY <1>2, <1>3

(* The check of a response breaks no exchange.                             *)
LEMMA AfterResponsePasses ==
  ASSUME NEW messages, Fine(messages), NEW m, NEW stop, NEW o \in AfterResponse(m, messages, stop)
  PROVE  Passed(messages, o.messages)
<1>1. PICK ctl :
      \/ o \in {Skipped(messages, ctl), Skipped(messages, [ctl EXCEPT !.suppressed = FALSE])}
      \/ o \in MayCompact(messages, ctl, stop)
      \/ o \in ThresholdCompact(messages, ctl, stop)
      \/ o \in OverflowRetry(messages, ctl, stop)
  BY DEF AfterResponse, Estimated
<1>2. CASE o \in {Skipped(messages, ctl), Skipped(messages, [ctl EXCEPT !.suppressed = FALSE])}
  BY <1>2 DEF Skipped, Outcome, Passed
<1> QED
  BY <1>1, <1>2, MayCompactPasses, ThresholdPasses, OverflowPasses

(***************************************************************************)
(* The loop and its exchanges.                                             *)
(***************************************************************************)

(* Concatenation, rearranged.                                              *)
LEMMA ConcatNone == ASSUME NEW s, IsSeq(s) PROVE s \o <<>> = s
<1>1. IsSeq(<<>>) /\ Len(<<>>) = 0 /\ Len(s) \in Nat
  BY NoneIsSeq DEF IsSeq
<1>2. IsSeq(s \o <<>>) /\ Len(s \o <<>>) = Len(s) /\ \A i \in 1 .. Len(s) : (s \o <<>>)[i] = s[i]
  BY <1>1, ConcatIsSeq
<1> QED
  BY <1>2, SameSeq

(* The order of concatenations does not matter.                            *)
LEMMA ConcatAssociates ==
  ASSUME NEW r, NEW s, NEW t, IsSeq(r), IsSeq(s), IsSeq(t)
  PROVE  (r \o s) \o t = r \o (s \o t)
<1> DEFINE S == ToSet(r) \cup ToSet(s) \cup ToSet(t)
<1>1. r \in Seq(S) /\ s \in Seq(S) /\ t \in Seq(S)
  BY DEF IsSeq
<1> HIDE DEF S
<1> QED
  BY <1>1

(* What the loop says of the results of calls.                             *)
LEMMA ResultsAreFine ==
  ASSUME NEW calls, IsSeq(calls), NEW how, how # "missing"
  PROVE  /\ Fine(Results(calls, how))
         /\ \A said \in AsTheyEnd(Results(calls, how)) : Fine(said)
<1>1. Len(calls) \in Nat /\ DOMAIN calls = 1 .. Len(calls)
  BY DEF IsSeq
<1> DEFINE t == Results(calls, how)
<1>2. DOMAIN t = 1 .. Len(calls) /\ \A i \in 1 .. Len(calls) : t[i] = Result(calls[i], how)
  BY <1>1 DEF Results
<1>3. \A call : IsMessage(Result(call, how))
  BY DEF IsMessage, Result, IsResult
<1>4. IsSeq(t) /\ \A said \in AsTheyEnd(t) : IsSeq(said)
  BY ResultsAreSeq
<1> HIDE DEF t
<1>5. Fine(t)
  <2>1. \A i \in 1 .. Len(t) : i \in DOMAIN t
    BY <1>4 DEF IsSeq
  <2> QED
    BY <1>2, <1>3, <1>4, <2>1 DEF Fine
<1>6. ASSUME NEW said \in AsTheyEnd(t) PROVE Fine(said)
  <2>1. PICK order \in [DOMAIN t -> DOMAIN t] : said = [i \in DOMAIN t |-> t[order[i]]]
    BY DEF AsTheyEnd
  <2>2. IsSeq(said)
    BY <1>4
  <2>3. \A i \in DOMAIN said : IsMessage(said[i])
    BY <1>2, <1>3, <2>1
  <2>4. \A i \in 1 .. Len(said) : i \in DOMAIN said
    BY <2>2 DEF IsSeq
  <2> QED
    BY <2>2, <2>3, <2>4 DEF Fine
<1> QED
  BY <1>5, <1>6 DEF t

(* An answer is a message, and its calls differ.                           *)
LEMMA AnswerIsMessage ==
  ASSUME Typed, NEW a \in Answers
  PROVE  /\ IsMessage(Answer(a)) /\ IsAssistant(Answer(a))
         /\ Failed(Answer(a)) <=> a.stop \in {"error", "aborted"}
         /\ IsSeq(Answer(a).calls) /\ IsInjective(Answer(a).calls)
         /\ a.calls = <<>> => ToSet(Answer(a).calls) = {}
<1>1. /\ IsSeq(a.calls) /\ IsSeq(Answer(a).calls) /\ Len(Answer(a).calls) = Len(a.calls)
  BY AnswerIsSeq
<1>2. Answer(a).calls = [i \in DOMAIN a.calls |-> <<a.calls[i], clock, i>>]
  BY DEF Answer
<1>3. IsInjective(Answer(a).calls)
  BY <1>2 DEF IsInjective
<1>4. a.calls = <<>> => ToSet(Answer(a).calls) = {}
  BY <1>2 DEF ToSet
<1>5. PICK calls :
        Answer(a) = [role |-> "assistant", stop |-> a.stop, size |-> a.size, text |-> a.text,
                     at |-> clock + 1, calls |-> calls]
  BY DEF Answer
<1>6. /\ IsAssistant(Answer(a)) /\ Answer(a).stop = a.stop
      /\ Answer(a) = [role |-> "assistant", calls |-> Answer(a).calls, stop |-> Answer(a).stop,
                      size |-> Answer(a).size, text |-> Answer(a).text, at |-> Answer(a).at]
  BY <1>5 DEF IsAssistant
<1>7. IsMessage(Answer(a))
  BY <1>1, <1>6 DEF IsMessage, IsSeq
<1> QED
  BY <1>1, <1>3, <1>4, <1>6, <1>7 DEF Failed

(* A batch, and what is left.                                              *)
LEMMA BatchSplits ==
  ASSUME Typed, IsInjective(todo), NEW rest, rest = SubSeq(todo, BatchLength + 1, Len(todo))
  PROVE  /\ IsSeq(Batch) /\ IsInjective(Batch) /\ IsSeq(rest) /\ IsInjective(rest)
         /\ ToSet(Batch) \subseteq ToSet(todo) /\ ToSet(todo) \ ToSet(Batch) = ToSet(rest)
<1> DEFINE n == Len(todo)
           k == BatchLength
<1>1. IsSeq(todo) /\ n \in Nat /\ DOMAIN todo = 1 .. n
  BY DEF Typed, IsSeq
<1>2. k \in 0 .. n /\ k \in Nat
  BY <1>1, BatchIsSeq
<1> HIDE DEF k
<1>3. IsSeq(Batch) /\ Len(Batch) = k /\ \A i \in 1 .. k : Batch[i] = todo[i]
  <2>1. /\ IsSeq(Batch) /\ Len(Batch) = k + 1 - 1
        /\ \A i \in 1 .. (k + 1 - 1) : Batch[i] = todo[i + 1 - 1]
    BY <1>1, <1>2, SubSeqIsSeq DEF Batch, k
  <2>2. k + 1 - 1 = k /\ \A i \in 1 .. k : i + 1 - 1 = i
    BY <1>2
  <2> QED
    BY <2>1, <2>2
<1>4. IsSeq(rest) /\ Len(rest) = n - k /\ \A i \in 1 .. n - k : rest[i] = todo[i + k]
  <2>1. /\ IsSeq(rest) /\ Len(rest) = n + 1 - (k + 1)
        /\ \A i \in 1 .. (n + 1 - (k + 1)) : rest[i] = todo[i + (k + 1) - 1]
    BY <1>1, <1>2, SubSeqIsSeq DEF k
  <2>2. n + 1 - (k + 1) = n - k /\ \A i \in 1 .. n - k : i + (k + 1) - 1 = i + k
    <3> HIDE DEF n
    <3>1. n + 1 - (k + 1) = n - k
      BY ONLY <1>1, <1>2
    <3>2. \A i \in 1 .. n - k : i + (k + 1) - 1 = i + k
      BY ONLY <1>1, <1>2
    <3> QED
      BY <3>1, <3>2
  <2> QED
    BY <2>1, <2>2
<1>5. DOMAIN Batch = 1 .. k /\ DOMAIN rest = 1 .. n - k
  BY <1>3, <1>4 DEF IsSeq
<1>6. IsInjective(Batch)
  <2>1. \A i \in 1 .. k : i \in 1 .. n
    <3> HIDE DEF n
    <3> QED
      BY ONLY <1>1, <1>2
  <2> QED
    BY <1>1, <1>3, <1>5, <2>1 DEF IsInjective
<1>7. IsInjective(rest)
  <2> SUFFICES ASSUME NEW i \in 1 .. n - k, NEW j \in 1 .. n - k, rest[i] = rest[j] PROVE i = j
    BY <1>5 DEF IsInjective
  <2>1. i + k \in 1 .. n /\ j + k \in 1 .. n
    BY <1>1, <1>2
  <2>2. i + k = j + k
    BY <1>1, <1>4, <2>1 DEF IsInjective
  <2> QED
    BY <1>2, <2>2
<1>8. ToSet(Batch) = {todo[i] : i \in 1 .. k}
  BY <1>3, <1>5 DEF ToSet
<1>9. ToSet(rest) = {todo[i] : i \in k + 1 .. n}
  <2>1. ASSUME NEW x \in ToSet(rest) PROVE \E i \in k + 1 .. n : x = todo[i]
    <3>1. PICK i \in 1 .. n - k : x = rest[i]
      BY <1>5 DEF ToSet
    <3>2. i + k \in k + 1 .. n
      BY <1>1, <1>2
    <3> QED
      BY <1>4, <3>1, <3>2
  <2>2. ASSUME NEW i \in k + 1 .. n PROVE todo[i] \in ToSet(rest)
    <3> DEFINE j == i - k
    <3>1. j \in 1 .. n - k /\ j + k = i
      BY <1>1, <1>2
    <3> HIDE DEF j
    <3>2. rest[j] = todo[i] /\ j \in DOMAIN rest
      BY <1>4, <1>5, <3>1
    <3> QED
      BY <3>2 DEF ToSet
  <2> QED
    BY <2>1, <2>2
<1>10. ToSet(todo) = {todo[i] : i \in 1 .. n}
  BY <1>1 DEF ToSet
<1>11. (1 .. n = (1 .. k) \cup (k + 1 .. n)) /\ (1 .. k) \cap (k + 1 .. n) = {}
  BY <1>1, <1>2
<1>12. \A i, j \in 1 .. n : todo[i] = todo[j] => i = j
  BY <1>1 DEF IsInjective
<1> HIDE DEF n
<1>13. ToSet(Batch) \subseteq ToSet(todo)
  BY <1>8, <1>10, <1>11
<1>14. ToSet(todo) \ ToSet(Batch) = ToSet(rest)
  <2>1. ASSUME NEW x \in ToSet(todo), x \notin ToSet(Batch) PROVE x \in ToSet(rest)
    BY <1>8, <1>9, <1>10, <1>11, <2>1
  <2>2. ASSUME NEW x \in ToSet(rest) PROVE x \in ToSet(todo) /\ x \notin ToSet(Batch)
    <3>1. PICK i \in k + 1 .. n : x = todo[i]
      BY <1>9
    <3>2. i \in 1 .. n /\ i \notin 1 .. k
      BY <1>11
    <3>3. \A j \in 1 .. k : j \in 1 .. n
      BY <1>11
    <3> QED
      BY <1>8, <1>10, <1>12, <3>1, <3>2, <3>3
  <2> QED
    BY <2>1, <2>2
<1> QED
  BY <1>3, <1>4, <1>6, <1>7, <1>13, <1>14

(* The results that were said before a panic.                              *)
LEMMA EndedIsFine ==
  ASSUME Typed, NEW ended \in SUBSET (1 .. BatchLength), NEW order,
         NEW said \in AsTheyEnd(Ran([i \in 1 .. Cardinality(ended) |-> todo[order[i]]]))
  PROVE  Fine(said)
<1> DEFINE calls == [i \in 1 .. Cardinality(ended) |-> todo[order[i]]]
<1>1. Cardinality(ended) \in Nat
  <2>1. BatchLength \in 0 .. Len(todo) /\ Len(todo) \in Nat
    BY BatchIsSeq DEF Typed, IsSeq
  <2>2. BatchLength \in Int
    BY <2>1
  <2>3. IsFiniteSet(1 .. BatchLength)
    BY <2>2, FS_Interval
  <2> QED
    BY <2>3, FS_Subset, FS_CardinalityType
<1>2. IsSeq(calls)
  <2>1. /\ DOMAIN calls = 1 .. Cardinality(ended)
        /\ calls = [i \in 1 .. Cardinality(ended) |-> calls[i]]
    OBVIOUS
  <2> HIDE DEF calls
  <2> QED
    BY <1>1, <2>1, MapIsSeq
<1>3. said \in AsTheyEnd(Results(calls, "ran"))
  BY DEF Ran
<1> HIDE DEF calls
<1> QED
  BY <1>2, <1>3, ResultsAreFine

(* The context is what was read back, or complete exchanges: while calls    *)
(* run, it lacks the results of those that are left.                       *)
Paired ==
  /\ Fine(context) /\ Fine(saved) /\ Fine(results)
  /\ pc # "exec" => results = <<>>
  /\ pc = "exec" => IsInjective(todo)
  /\ whole /\ pc = "exec" => Reads(context \o results, ToSet(todo))
  /\ whole /\ pc \notin {"idle", "exec"} => Reads(context, {})

(* It holds at first.                                                      *)
LEMMA PairedInit == Init => Paired
<1> SUFFICES ASSUME Init PROVE Paired
  OBVIOUS
<1>1. IsSeq(saved) /\ \A m \in ToSet(saved) : IsMessage(m)
  BY ScopesAssumption DEF Init, Scope, IsSeq
<1>2. \A i \in 1 .. Len(saved) : saved[i] \in ToSet(saved)
  BY <1>1 DEF ToSet, IsSeq
<1>3. Fine(saved)
  BY <1>1, <1>2 DEF Fine
<1>4. Fine(<<>>)
  BY NoneIsSeq DEF Fine
<1> QED
  BY <1>3, <1>4 DEF Init, Paired

(* What an answer adds to the context.                                     *)
Adds(more, open) == Fine(more) /\ Reads(more, open)

(* An answer without results, and with results for all its calls.          *)
LEMMA AnswerAdds ==
  ASSUME Typed, NEW a \in Answers, NEW m, m = Answer(a)
  PROVE  /\ a.stop \in {"error", "aborted"} \/ a.calls = <<>> => Adds(<<m>>, {})
         /\ a.stop \notin {"error", "aborted"} => Adds(<<m>>, ToSet(m.calls))
         /\ \A how : a.stop \notin {"error", "aborted"} /\ how # "missing"
                       => Adds(<<m>> \o Results(m.calls, how), {})
<1>1. /\ IsMessage(m) /\ IsAssistant(m) /\ (Failed(m) <=> a.stop \in {"error", "aborted"})
      /\ IsSeq(m.calls) /\ IsInjective(m.calls) /\ (a.calls = <<>> => ToSet(m.calls) = {})
  BY AnswerIsMessage
<1>2. ~IsResult(m)
  BY <1>1 DEF IsAssistant, IsResult
<1>3. Moves(m, {}, IF Failed(m) THEN {} ELSE ToSet(m.calls))
  BY <1>1, <1>2 DEF Moves
<1> DEFINE s == <<m>>
<1>4. s = Append(<<>>, m) /\ IsSeq(<<>>) /\ Fine(<<>>) /\ Reads(<<>>, {})
  BY NoneIsSeq, ReadsNone DEF Fine
<1> HIDE DEF s
<1>5. Fine(s) /\ IsSeq(s)
  BY <1>1, <1>4, FineAppend DEF Fine
<1>6. Reads(s, IF Failed(m) THEN {} ELSE ToSet(m.calls))
  BY <1>3, <1>4, ReadsAppend
<1>7. a.stop \in {"error", "aborted"} \/ a.calls = <<>> => Adds(s, {})
  BY <1>1, <1>5, <1>6 DEF Adds
<1>8. a.stop \notin {"error", "aborted"} => Adds(s, ToSet(m.calls))
  BY <1>1, <1>5, <1>6 DEF Adds
<1>9. ASSUME NEW how, a.stop \notin {"error", "aborted"}, how # "missing"
      PROVE  Adds(s \o Results(m.calls, how), {})
  <2>1. Reads(s, ToSet(m.calls))
    BY <1>1, <1>6, <1>9
  <2>2. Reads(s \o Results(m.calls, how), ToSet(m.calls) \ ToSet(m.calls))
    BY <1>1, <1>5, <2>1, ReadsResults
  <2>3. Fine(Results(m.calls, how))
    BY <1>1, <1>9, ResultsAreFine
  <2>4. Fine(s \o Results(m.calls, how))
    BY <1>5, <2>3, FineConcat
  <2>5. ToSet(m.calls) \ ToSet(m.calls) = {}
    OBVIOUS
  <2> QED
    BY <2>2, <2>4, <2>5 DEF Adds
<1> QED
  BY <1>7, <1>8, <1>9 DEF s

(* A compaction check, if there is one.                                    *)
LEMMA CheckPasses ==
  ASSUME Fine(context), NEW m, NEW o,
         o = Skipped(context, controller) \/ o \in AfterResponse(m, context, cancelled)
  PROVE  Passed(context, o.messages)
<1>1. CASE o = Skipped(context, controller)
  BY <1>1 DEF Skipped, Outcome, Passed
<1> QED
  BY <1>1, AfterResponsePasses
(* Every step keeps it.                                                    *)
LEMMA PairedStep == Typed /\ Paired /\ [Next]_vars => Paired'
<1> SUFFICES ASSUME Typed, Paired, [Next]_vars
             PROVE  Paired'
  OBVIOUS
<1> USE DEF Paired
<1>1. CASE Starts
  <2>1. context' = saved /\ saved' = saved /\ results' = results /\ pc' = "building"
        /\ pc = "idle" /\ whole' = IsWhole(saved)
    BY <1>1 DEF Starts
  <2>2. whole' => Reads(saved, {})
    BY <2>1, WholeReads DEF Fine
  <2> QED
    BY <2>1, <2>2 DEF Fine
<1>2. CASE InstallEngine \/ Continues
  BY <1>2 DEF InstallEngine, Continues, UNCHANGED_ghosts, Fine
<1>3. CASE Prompts
  <2>1. PICK o : /\ o = Skipped(context, controller)
                    \/ \E m : o \in AfterResponse(m, context, cancelled)
                 /\ context' = Append(o.messages, User(<<"run", runs>>))
                 /\ saved' = Append(IF o.replaced THEN o.messages ELSE saved,
                                    User(<<"run", runs>>))
    BY <1>3 DEF Prompts
  <2>2. Passed(context, o.messages)
    BY <2>1, CheckPasses
  <2>3. Passed(o.messages, context') /\ Fine(saved')
    BY <2>1, <2>2, SaidPasses DEF Passed
  <2>4. pc = "prompt" /\ pc' = "drain" /\ UNCHANGED <<results, whole>>
    BY <1>3 DEF Prompts, UNCHANGED_ghosts
  <2> QED
    BY <2>2, <2>3, <2>4 DEF Passed, Fine
<1>4. CASE DrainsAtStart \/ FollowsUp
  <2>1. /\ pc \in {"drain", "follow_up"} /\ pc' \in {"top", "check"}
        /\ UNCHANGED <<context, saved, results, whole>>
    BY <1>4, DrainsOne DEF DrainsAtStart, FollowsUp, UNCHANGED_ghosts
  <2> QED
    BY <2>1 DEF Fine
<1>5. CASE StopsCancelled
  BY <1>5 DEF StopsCancelled, Ends, Fine
<1>6. CASE Injects
  <2> DEFINE said == [i \in DOMAIN pending |-> User(pending[i])]
  <2>1. IsSeq(said) /\ \A i \in 1 .. Len(said) : IsUser(said[i])
    <3>1. Len(pending) \in Nat /\ DOMAIN pending = 1 .. Len(pending)
      BY DEF Typed, IsSeq
    <3>2. DOMAIN said = 1 .. Len(pending) /\ said = [i \in 1 .. Len(pending) |-> said[i]]
      BY <3>1
    <3>3. \A i \in 1 .. Len(pending) : IsUser(said[i])
      BY <3>1 DEF User, IsUser
    <3> HIDE DEF said
    <3>4. IsSeq(said) /\ Len(said) = Len(pending)
      BY <3>1, <3>2, MapIsSeq
    <3> QED
      BY <3>3, <3>4
  <2>2. PICK more : Adds(more, {}) /\ context' = context \o more /\ saved' = saved \o more
    <3> HIDE DEF said
    <3>1. Adds(said, {})
      BY <2>1, UsersRead DEF Adds
    <3>2. Adds(Append(said, User(<<"limit", runs>>)), {})
      BY <3>1, SaidPasses DEF Adds, Passed
    <3> QED
      BY <1>6, <3>1, <3>2 DEF Injects, Says, said
  <2>3. Fine(context') /\ Fine(saved') /\ (Reads(context, {}) => Reads(context', {}))
    BY <2>2, FineConcat, ReadsConcat DEF Adds, Fine
  <2>4. pc = "top" /\ pc' \in {"idle", "call"} /\ UNCHANGED <<results, whole>>
    BY <1>6 DEF Injects, Ends
  <2> QED
    BY <2>3, <2>4 DEF Fine
<1>7. CASE Responds
  <2>1. PICK a \in Answers :
          /\ \/ /\ a.stop \in {"error", "aborted"} \/ a.calls = <<>>
                /\ Says(<<Answer(a)>>) /\ pc' # "exec"
             \/ /\ a.stop \notin {"error", "aborted"}
                /\ Says(<<Answer(a)>> \o Doomed(Answer(a).calls)) /\ pc' # "exec"
             \/ /\ a.stop \notin {"error", "aborted"}
                /\ Says(<<Answer(a)>> \o Truncated(Answer(a).calls)) /\ pc' # "exec"
             \/ /\ a.stop \notin {"error", "aborted"}
                /\ Says(<<Answer(a)>> \o <<>>) /\ pc' = "exec" /\ todo' = Answer(a).calls
    BY <1>7 DEF Responds
  <2>2. pc = "call" /\ UNCHANGED <<results, whole>>
    BY <1>7 DEF Responds
  <2>3. PICK m : m = Answer(a)
    OBVIOUS
  <2>4. PICK more, open :
          /\ Adds(more, open) /\ context' = context \o more /\ saved' = saved \o more
          /\ \/ pc' # "exec" /\ open = {}
             \/ pc' = "exec" /\ todo' = m.calls /\ open = ToSet(m.calls)
    <3>1. CASE (a.stop \in {"error", "aborted"} \/ a.calls = <<>>) /\ Says(<<m>>) /\ pc' # "exec"
      BY <2>3, <3>1, AnswerAdds DEF Says
    <3>2. CASE /\ a.stop \notin {"error", "aborted"}
               /\ Says(<<m>> \o Doomed(m.calls)) /\ pc' # "exec"
      BY <2>3, <3>2, AnswerAdds DEF Says, Doomed
    <3>3. CASE /\ a.stop \notin {"error", "aborted"}
               /\ Says(<<m>> \o Truncated(m.calls)) /\ pc' # "exec"
      BY <2>3, <3>3, AnswerAdds DEF Says, Truncated
    <3>4. CASE /\ a.stop \notin {"error", "aborted"}
               /\ Says(<<m>> \o <<>>) /\ pc' = "exec" /\ todo' = m.calls
      <4>1. <<m>> \o <<>> = <<m>>
        BY OneIsSeq, ConcatNone
      <4> QED
        BY <2>3, <3>4, <4>1, AnswerAdds DEF Says
    <3> QED
      BY <2>1, <2>3, <3>1, <3>2, <3>3, <3>4
  <2>5. Fine(context') /\ Fine(saved') /\ (whole => Reads(context', open))
    BY <2>2, <2>4, FineConcat, ReadsConcat DEF Adds, Fine
  <2>6. results = <<>> /\ context' \o results = context'
    BY <2>2, <2>5, ConcatNone DEF Fine
  <2>7. pc' = "exec" => IsInjective(todo')
    BY <2>3, <2>4, AnswerIsMessage
  <2> QED
    BY <2>2, <2>4, <2>5, <2>6, <2>7 DEF Fine
<1>8. CASE ExecutesBatch
  <2> DEFINE ran == Ran(Batch)
             rest == SubSeq(todo, BatchLength + 1, Len(todo))
             spared == IF lanes["steering"] # <<>> THEN Spared(rest) ELSE <<>>
             left == IF lanes["steering"] # <<>> THEN {} ELSE ToSet(rest)
             before == context \o results
  <2>1. pc = "exec" /\ UNCHANGED whole
    BY <1>8 DEF ExecutesBatch
  <2>2. /\ IsSeq(Batch) /\ IsInjective(Batch) /\ IsSeq(rest) /\ IsInjective(rest)
        /\ ToSet(Batch) \subseteq ToSet(todo) /\ ToSet(todo) \ ToSet(Batch) = ToSet(rest)
    BY <2>1, BatchSplits
  <2>3. Fine(ran) /\ Fine(spared) /\ (\A said \in AsTheyEnd(ran) : Fine(said))
    <3> HIDE DEF rest
    <3>1. Fine(<<>>)
      BY NoneIsSeq DEF Fine
    <3> QED
      BY <2>2, <3>1, ResultsAreFine DEF Ran, Spared
  <2>4. Fine(saved')
    <3>1. PICK said \in AsTheyEnd(ran) : saved' = saved \o said \o spared
      BY <1>8 DEF ExecutesBatch
    <3> HIDE DEF ran, spared
    <3>2. Fine(saved \o said)
      BY <2>3, FineConcat
    <3> QED
      BY <2>3, <3>1, <3>2, FineConcat
  <2>5. Fine(before)
    BY FineConcat
  <2>6. Fine(before \o ran) /\ Fine(before \o ran \o spared)
    <3> HIDE DEF ran, spared, before
    <3>1. Fine(before \o ran)
      BY <2>3, <2>5, FineConcat
    <3> QED
      BY <2>3, <3>1, FineConcat
  <2>7. whole => Reads(before \o ran, ToSet(rest))
    <3> HIDE DEF rest
    <3> QED
      BY <2>1, <2>2, <2>5, ReadsResults DEF Ran, Fine
  <2>8. whole => Reads(before \o ran \o spared, left)
    <3>1. CASE lanes["steering"] # <<>>
      <4>1. spared = Results(rest, "skipped") /\ left = {}
        BY <3>1 DEF Spared
      <4> HIDE DEF rest, ran, before, spared, left
      <4>2. whole => Reads((before \o ran) \o Results(rest, "skipped"), ToSet(rest) \ ToSet(rest))
        BY <2>2, <2>6, <2>7, ReadsResults DEF Fine
      <4>3. ToSet(rest) \ ToSet(rest) = {}
        OBVIOUS
      <4> QED
        BY <4>1, <4>2, <4>3
    <3>2. CASE lanes["steering"] = <<>>
      <4>1. spared = <<>> /\ left = ToSet(rest)
        BY <3>2
      <4> HIDE DEF rest, ran, before, spared, left
      <4> QED
        BY <2>6, <2>7, <4>1, ConcatNone DEF Fine
    <3> QED
      BY <3>1, <3>2
  <2>9. CASE /\ lanes["steering"] # <<>> \/ rest = <<>>
             /\ context' = context \o results \o ran \o spared
             /\ results' = <<>>
             /\ Drains("steering", "settle")
    <3>1. left = {}
      <4>1. CASE rest = <<>>
        <5> HIDE DEF rest
        <5> QED
          BY <4>1 DEF ToSet
      <4> QED
        BY <2>9, <4>1
    <3>2. pc' \in {"settle", "top"}
      BY <2>9, DrainsOne
    <3>3. Fine(context') /\ (whole => Reads(context', {}))
      <4> HIDE DEF ran, spared, left
      <4> QED
        BY <2>6, <2>8, <2>9, <3>1
    <3>4. Fine(<<>>)
      BY NoneIsSeq DEF Fine
    <3> QED
      BY <2>1, <2>4, <2>9, <3>2, <3>3, <3>4
  <2>10. CASE /\ results' = results \o ran
              /\ todo' = rest
              /\ UNCHANGED <<context, pc>>
    <3> HIDE DEF ran, rest, spared, left
    <3>1. Fine(results')
      BY <2>3, <2>10, FineConcat
    <3>2. context' \o results' = before \o ran
      <4>1. IsSeq(ran) /\ IsSeq(context) /\ IsSeq(results)
        BY <2>3 DEF Fine
      <4>2. (context \o results) \o ran = context \o (results \o ran)
        BY <4>1, ConcatAssociates, SMTT(30)
      <4>3. context' \o results' = context \o (results \o ran)
        BY <2>10
      <4> QED
        BY <4>2, <4>3
    <3> HIDE DEF before
    <3>3. whole => Reads(context' \o results', ToSet(todo'))
      BY <2>7, <2>10, <3>2
    <3>4. IsInjective(todo')
      BY <2>2, <2>10
    <3> QED
      BY <2>1, <2>4, <2>10, <3>1, <3>3, <3>4 DEF Fine
  <2> QED
    BY <1>8, <2>9, <2>10 DEF ExecutesBatch
<1>9. CASE Settles
  <2>1. pc = "settle" /\ UNCHANGED <<context, saved, results, whole>>
    BY <1>9 DEF Settles, UNCHANGED_ghosts
  <2>2. pc' \in {"top", "follow_up"}
    BY <1>9, DrainsOne DEF Settles
  <2> QED
    BY <2>1, <2>2 DEF Fine
<1>10. CASE Checks
  <2>1. PICK o : /\ o = Skipped(context, controller)
                    \/ \E m : o \in AfterResponse(m, context, cancelled)
                 /\ context' = o.messages
                 /\ saved' = IF o.replaced THEN o.messages ELSE saved
                 /\ pc' \in {"top", "idle"}
    BY <1>10 DEF Checks
  <2>2. Passed(context, o.messages)
    BY <2>1, CheckPasses
  <2>3. pc = "check" /\ UNCHANGED <<results, whole>>
    BY <1>10 DEF Checks
  <2> QED
    BY <2>1, <2>2, <2>3 DEF Passed
<1>11. CASE Panics
  <2>1. PICK ended \in SUBSET (1 .. BatchLength) :
               \E order : \E said \in AsTheyEnd(Ran([i \in 1 .. Cardinality(ended) |->
                                                    todo[order[i]]])) :
                 saved' = saved \o said
    BY <1>11, Zenon DEF Panics
  <2>2. PICK order :
               \E said \in AsTheyEnd(Ran([i \in 1 .. Cardinality(ended) |-> todo[order[i]]])) :
                 saved' = saved \o said
    BY <2>1
  <2>3. PICK said \in AsTheyEnd(Ran([i \in 1 .. Cardinality(ended) |-> todo[order[i]]])) :
               saved' = saved \o said
    BY <2>2
  <2>4. Fine(said)
    BY <2>1, <2>3, EndedIsFine
  <2>5. Fine(saved')
    BY <2>3, <2>4, FineConcat
  <2>6. results' = <<>> /\ pc' = "idle" /\ UNCHANGED context
    BY <1>11 DEF Panics
  <2>7. Fine(<<>>)
    BY NoneIsSeq DEF Fine
  <2> QED
    BY <2>5, <2>6, <2>7 DEF Fine
<1>12. CASE AbortBegins \/ AbortReachesEngine
  BY <1>12 DEF AbortBegins, AbortReachesEngine, UNCHANGED_ghosts, Fine
<1>13. CASE Clients
  BY <1>13 DEF Clients, loopVars, Fine
<1>14. CASE UNCHANGED vars
  BY <1>14 DEF vars, loopVars, Fine
<1> QED
  BY <1>1, <1>2, <1>3, <1>4, <1>5, <1>6, <1>7, <1>8, <1>9, <1>10, <1>11, <1>12, <1>13, <1>14
     DEF Next, Loop

(* What a request is made of, then.                                        *)
LEMMA PairedIsWhole == Paired => ExchangesStayWhole
<1> SUFFICES ASSUME Paired, pc = "call"
             PROVE  WellPaired(SanitizeToolPairs(context)) /\ (whole => IsWhole(context))
  BY DEF ExchangesStayWhole
<1>1. Fine(context) /\ (whole => Reads(context, {}))
  BY DEF Paired
<1>2. WellPaired(SanitizeToolPairs(context))
  BY <1>1, RepairedReads, ReadsIsWellPaired DEF Fine
<1>3. whole => IsWhole(context)
  BY <1>1, ReadsIsWhole DEF Fine
<1> QED
  BY <1>2, <1>3

(* Every request pairs each call with one result, whatever the transcript   *)
(* held and whatever was cancelled, truncated, compacted or lost            *)
(* (sanitize.rs); and a run that begins with complete exchanges never needs *)
(* that repair (driver.rs:502, tool_exec.rs:104, plan.rs).                  *)
THEOREM ExchangesStayWholeAlways == Spec => []ExchangesStayWhole
<1>1. Init => Typed /\ Paired
  BY TypedInit, PairedInit
<1>2. Typed /\ Paired /\ [Next]_vars => Typed' /\ Paired'
  BY TypedStep, PairedStep
<1>3. Typed /\ Paired => ExchangesStayWhole
  BY PairedIsWhole
<1> QED
  BY <1>1, <1>2, <1>3, PTL DEF Spec

(***************************************************************************)
(* The transcript and the context.                                         *)
(***************************************************************************)

(* What is taken from the first n elements depends on them alone.          *)
LEMMA TakesSame ==
  ASSUME NEW s, NEW t, NEW P, NEW Q, NEW m \in Nat, NEW n \in Nat,
         NEW g, Takes(g, s, P, m), NEW h, Takes(h, t, Q, n),
         NEW k \in Nat, k <= m, k <= n,
         \A i \in 1 .. k : s[i] = t[i] /\ (i \in P <=> i \in Q)
  PROVE  g[k] = h[k]
<1> DEFINE S == {i \in Nat : i <= k => g[i] = h[i]}
<1>1. 0 \in S
  BY DEF Takes
<1>2. \A i \in Nat : i \in S => i + 1 \in S
  <2> SUFFICES ASSUME NEW i \in Nat, i \in S, i + 1 <= k PROVE g[i + 1] = h[i + 1]
    OBVIOUS
  <2> DEFINE l == (i + 1) - 1
  <2>1. i + 1 \in 1 .. m /\ i + 1 \in 1 .. n /\ i + 1 \in 1 .. k /\ l = i /\ g[i] = h[i]
    OBVIOUS
  <2>2. g[i + 1] = IF i + 1 \in P THEN Append(g[l], s[i + 1]) ELSE g[l]
    BY <2>1 DEF Takes
  <2>3. h[i + 1] = IF i + 1 \in Q THEN Append(h[l], t[i + 1]) ELSE h[l]
    BY <2>1 DEF Takes
  <2> HIDE DEF l
  <2> QED
    BY <2>1, <2>2, <2>3
<1> HIDE DEF S
<1>3. k \in S
  BY <1>1, <1>2, SetInduction
<1> QED
  BY <1>3 DEF S

(* Nothing is taken from places that are left out.                         *)
LEMMA TakesNoMore ==
  ASSUME NEW s, NEW P, NEW n \in Nat, NEW g, Takes(g, s, P, n), NEW k \in Nat, k <= n,
         \A i \in 1 .. n : i > k => i \notin P
  PROVE  g[n] = g[k]
<1> DEFINE S == {i \in Nat : i <= n => (k <= i => g[i] = g[k])}
<1>1. 0 \in S
  OBVIOUS
<1>2. \A i \in Nat : i \in S => i + 1 \in S
  <2> SUFFICES ASSUME NEW i \in Nat, i \in S, i + 1 <= n, k <= i + 1
               PROVE  g[i + 1] = g[k]
    OBVIOUS
  <2>1. CASE k = i + 1
    BY <2>1
  <2>2. CASE k # i + 1
    <3> DEFINE l == (i + 1) - 1
    <3>1. i + 1 \in 1 .. n /\ i + 1 \notin P /\ l = i /\ g[i] = g[k]
      BY <2>2
    <3>2. g[i + 1] = IF i + 1 \in P THEN Append(g[l], s[i + 1]) ELSE g[l]
      BY <3>1 DEF Takes
    <3> HIDE DEF l
    <3> QED
      BY <3>1, <3>2
  <2> QED
    BY <2>1, <2>2
<1> HIDE DEF S
<1>3. n \in S
  BY <1>1, <1>2, SetInduction
<1> QED
  BY <1>3 DEF S

Speaks(m) == ~IsResult(m) /\ ~Empty(m)

(* What is spoken grows with a message that says something.                *)
LEMMA SpokenAppend ==
  ASSUME NEW s, IsSeq(s), NEW m
  PROVE  Spoken(Append(s, m)) = IF Speaks(m) THEN Append(Spoken(s), m) ELSE Spoken(s)
<1> DEFINE n == Len(s)
           t == Append(s, m)
           P == {i \in DOMAIN s : Speaks(s[i])}
           Q == {i \in DOMAIN t : Speaks(t[i])}
<1>1. n \in Nat /\ DOMAIN s = 1 .. n
  BY DEF IsSeq
<1>2. /\ IsSeq(t) /\ Len(t) = n + 1 /\ (\A i \in 1 .. n : t[i] = s[i]) /\ t[n + 1] = m
  BY AppendIsSeq
<1> HIDE DEF t, n
<1>3. DOMAIN t = 1 .. n + 1
  BY <1>2 DEF IsSeq
<1>4. PICK g : Takes(g, s, P, n) /\ Spoken(s) = g[n]
  BY TakingExists DEF Spoken, Speaks, n
<1>5. PICK h : Takes(h, t, Q, n + 1) /\ Spoken(t) = h[n + 1]
  BY <1>2, TakingExists DEF Spoken, Speaks
<1>6. g[n] = h[n]
  <2>1. \A i \in 1 .. n : s[i] = t[i] /\ (i \in P <=> i \in Q)
    BY <1>1, <1>2, <1>3
  <2>2. PICK k \in Nat : k = n + 1 /\ n <= k
    BY <1>1
  <2>3. Takes(h, t, Q, k)
    BY <1>5, <2>2
  <2>4. n \in Nat /\ n <= n /\ Takes(g, s, P, n)
    BY <1>1, <1>4
  <2> HIDE DEF P, Q
  <2> QED
    BY ONLY <2>1, <2>2, <2>3, <2>4, TakesSame
<1>7. h[n + 1] = IF n + 1 \in Q THEN Append(h[n], m) ELSE h[n]
  <2> DEFINE l == (n + 1) - 1
  <2>1. n + 1 \in 1 .. n + 1 /\ l = n
    BY <1>1
  <2>2. h[n + 1] = IF n + 1 \in Q THEN Append(h[l], t[n + 1]) ELSE h[l]
    BY <1>5, <2>1 DEF Takes
  <2> HIDE DEF l, Q
  <2> QED
    BY <1>2, <2>1, <2>2
<1>8. n + 1 \in Q <=> Speaks(m)
  BY <1>1, <1>2, <1>3
<1> QED
  BY <1>4, <1>5, <1>6, <1>7, <1>8 DEF t

(* Results speak no more.                                                  *)
LEMMA SpokenResults ==
  ASSUME NEW s, IsSeq(s), NEW t, IsSeq(t), \A i \in 1 .. Len(t) : IsResult(t[i])
  PROVE  Spoken(s \o t) = Spoken(s)
<1> DEFINE n == Len(s)
           r == s \o t
           P == {i \in DOMAIN s : Speaks(s[i])}
           Q == {i \in DOMAIN r : Speaks(r[i])}
<1>1. n \in Nat /\ DOMAIN s = 1 .. n /\ Len(t) \in Nat
  BY DEF IsSeq
<1>2. /\ IsSeq(r) /\ Len(r) = n + Len(t) /\ (\A i \in 1 .. n : r[i] = s[i])
      /\ \A i \in 1 .. Len(t) : r[n + i] = t[i]
  BY ConcatIsSeq
<1> HIDE DEF r, n
<1>3. DOMAIN r = 1 .. Len(r) /\ Len(r) \in Nat
  BY <1>2 DEF IsSeq
<1>4. PICK g : Takes(g, s, P, n) /\ Spoken(s) = g[n]
  BY TakingExists DEF Spoken, Speaks, n
<1>5. PICK h : Takes(h, r, Q, Len(r)) /\ Spoken(r) = h[Len(r)]
  BY <1>2, TakingExists DEF Spoken, Speaks
<1>6. g[n] = h[n]
  <2>1. \A i \in 1 .. n : s[i] = r[i] /\ (i \in P <=> i \in Q)
    BY <1>1, <1>2, <1>3
  <2>2. PICK k \in Nat : k = Len(r) /\ n <= k
    BY <1>1, <1>2
  <2>3. Takes(h, r, Q, k)
    BY <1>5, <2>2
  <2>4. n \in Nat /\ n <= n /\ Takes(g, s, P, n)
    BY <1>1, <1>4
  <2> HIDE DEF P, Q
  <2> QED
    BY ONLY <2>1, <2>2, <2>3, <2>4, TakesSame
<1>7. \A i \in 1 .. Len(r) : i > n => i \notin Q
  <2> SUFFICES ASSUME NEW i \in 1 .. Len(r), i > n PROVE IsResult(r[i])
    BY DEF Speaks
  <2> DEFINE j == i - n
  <2>1. j \in 1 .. Len(t) /\ n + j = i
    BY <1>1, <1>2
  <2> HIDE DEF j
  <2> QED
    BY <1>2, <2>1
<1>8. h[Len(r)] = h[n]
  <2>1. PICK k \in Nat : k = Len(r) /\ n <= k
    BY <1>1, <1>2
  <2>2. Takes(h, r, Q, k)
    BY <1>5, <2>1
  <2>5. \A i \in 1 .. k : i > n => i \notin Q
    BY <1>7, <2>1
  <2>3. n \in Nat
    BY <1>1
  <2> HIDE DEF Q
  <2>4. h[k] = h[n]
    BY ONLY <2>1, <2>2, <2>3, <2>5, TakesNoMore
  <2> QED
    BY <2>1, <2>4
<1> QED
  BY <1>4, <1>5, <1>6, <1>8 DEF r

(* What a request tells of the repair's state, up to the order of results. *)
View(st) ==
  [unanswered |-> st.unanswered, spoken |-> Spoken(st.out), results |-> ResultsIn(st.out)]

(* Calls without a result get one that says so.                            *)
Missed(v) == v.results \cup {Result(c, "missing") : c \in v.unanswered}

(* What one more message makes of it.                                      *)
Viewed(v, m) ==
  IF IsResult(m)
  THEN IF m.call \in v.unanswered
       THEN [unanswered |-> v.unanswered \ {m.call}, spoken |-> v.spoken,
             results |-> v.results \cup {m}]
       ELSE v
  ELSE IF IsUser(m)
  THEN [unanswered |-> {}, spoken |-> Append(v.spoken, m), results |-> Missed(v)]
  ELSE IF Failed(m)
  THEN [unanswered |-> {}, spoken |-> v.spoken, results |-> Missed(v)]
  ELSE LET calls == DistinctCalls(m.calls)
           e == [m EXCEPT !.calls = calls]
       IN [unanswered |-> ToSet(calls),
           spoken |-> IF Empty(e) THEN v.spoken ELSE Append(v.spoken, e),
           results |-> Missed(v)]

(* The results in a sequence that grows.                                   *)
LEMMA ResultsInAppend ==
  ASSUME NEW s, IsSeq(s), NEW m
  PROVE  ResultsIn(Append(s, m)) = ResultsIn(s) \cup (IF IsResult(m) THEN {m} ELSE {})
<1>1. ToSet(Append(s, m)) = ToSet(s) \cup {m}
  BY AppendSet
<1> HIDE DEF IsSeq
<1> QED
  BY <1>1 DEF ResultsIn

(* The elements of a concatenation.                                        *)
LEMMA ConcatSet ==
  ASSUME NEW s, NEW t, IsSeq(s), IsSeq(t) PROVE ToSet(s \o t) = ToSet(s) \cup ToSet(t)
<1> DEFINE n == Len(s)
           r == s \o t
<1>1. n \in Nat /\ Len(t) \in Nat /\ DOMAIN s = 1 .. n /\ DOMAIN t = 1 .. Len(t)
  BY DEF IsSeq
<1>2. /\ IsSeq(r) /\ Len(r) = n + Len(t) /\ (\A i \in 1 .. n : r[i] = s[i])
      /\ \A i \in 1 .. Len(t) : r[n + i] = t[i]
  BY ConcatIsSeq
<1> HIDE DEF n, r
<1>3. DOMAIN r = 1 .. n + Len(t)
  BY <1>2 DEF IsSeq
<1>4. ASSUME NEW x \in ToSet(r) PROVE x \in ToSet(s) \cup ToSet(t)
  <2>1. PICK i \in 1 .. n + Len(t) : x = r[i]
    BY <1>3 DEF ToSet
  <2>2. CASE i <= n
    <3>1. i \in 1 .. n
      BY <1>1, <2>2
    <3> QED
      BY <1>1, <1>2, <2>1, <3>1 DEF ToSet
  <2>3. CASE ~(i <= n)
    <3> DEFINE j == i - n
    <3>1. j \in 1 .. Len(t) /\ n + j = i
      BY <1>1, <2>3
    <3> HIDE DEF j
    <3> QED
      BY <1>1, <1>2, <2>1, <3>1 DEF ToSet
  <2> QED
    BY <2>2, <2>3
<1>5. ASSUME NEW x \in ToSet(s) PROVE x \in ToSet(r)
  <2>1. PICK i \in 1 .. n : x = s[i]
    BY <1>1 DEF ToSet
  <2>2. i \in 1 .. n + Len(t) /\ x = r[i]
    BY <1>1, <1>2, <2>1
  <2> QED
    BY <1>3, <2>2 DEF ToSet
<1>6. ASSUME NEW x \in ToSet(t) PROVE x \in ToSet(r)
  <2>1. PICK i \in 1 .. Len(t) : x = t[i]
    BY <1>1 DEF ToSet
  <2>2. n + i \in 1 .. n + Len(t) /\ x = r[n + i]
    BY <1>1, <1>2, <2>1
  <2> QED
    BY <1>3, <2>2 DEF ToSet
<1> QED
  BY <1>4, <1>5, <1>6 DEF r

(* A completed exchange.                                                   *)
LEMMA CompleteViewed ==
  ASSUME NEW st, Normal(st), NEW done, done = CompleteExchange(st)
  PROVE  View(done) = [unanswered |-> {}, spoken |-> Spoken(st.out),
                       results |-> Missed(View(st))]
<1> DEFINE missing == Missing(st)
           t == Results(missing, "missing")
<1>1. /\ IsSeq(missing) /\ ToSet(missing) = st.unanswered
      /\ done.out = st.out \o t /\ done.unanswered = {}
  BY MissingIs
<1>2. IsSeq(st.out)
  BY DEF Normal
<1>3. Len(missing) \in Nat /\ DOMAIN missing = 1 .. Len(missing)
  BY <1>1 DEF IsSeq
<1>4. DOMAIN t = 1 .. Len(missing) /\ \A i \in 1 .. Len(missing) : t[i] = Result(missing[i], "missing")
  BY <1>3 DEF Results
<1>5. IsSeq(t)
  <2> HIDE DEF missing
  <2> QED
    BY <1>1, ResultsAreSeq
<1> HIDE DEF t, missing
<1>6. ToSet(t) = {Result(c, "missing") : c \in st.unanswered}
  <2>1. ToSet(t) = {Result(missing[i], "missing") : i \in 1 .. Len(missing)}
    BY <1>4 DEF ToSet
  <2>2. st.unanswered = {missing[i] : i \in 1 .. Len(missing)}
    BY <1>1, <1>3 DEF ToSet
  <2> QED
    BY <2>1, <2>2
<1>7. \A c : IsResult(Result(c, "missing"))
  BY DEF IsResult, Result
<1>8. Spoken(done.out) = Spoken(st.out)
  <2>1. \A i \in 1 .. Len(t) : i \in DOMAIN t
    BY <1>5 DEF IsSeq
  <2>2. \A i \in 1 .. Len(t) : IsResult(t[i])
    BY <1>4, <1>7, <2>1
  <2> QED
    BY <1>1, <1>2, <1>5, <2>2, SpokenResults
<1>9. ResultsIn(done.out) = ResultsIn(st.out) \cup {Result(c, "missing") : c \in st.unanswered}
  <2>1. ToSet(done.out) = ToSet(st.out) \cup ToSet(t)
    BY <1>1, <1>2, <1>5, ConcatSet
  <2> QED
    BY <1>6, <1>7, <2>1 DEF ResultsIn
<1> QED
  BY <1>1, <1>8, <1>9 DEF View, Missed

(* One message more, seen from the request.                                *)
LEMMA SanitizeOneViewed ==
  ASSUME NEW st, Normal(st), NEW m, IsMessage(m)
  PROVE  View(SanitizeOne(st, m)) = Viewed(View(st), m)
<1> DEFINE done == CompleteExchange(st)
           new == SanitizeOne(st, m)
           v == View(st)
<1>1. IsSeq(done.out) /\ IsSeq(st.out)
  BY CompleteIs DEF Normal
<1>2. /\ Spoken(done.out) = v.spoken /\ ResultsIn(done.out) = Missed(v)
      /\ done.unanswered = {}
  <2>1. View(done) = [unanswered |-> {}, spoken |-> Spoken(st.out), results |-> Missed(v)]
    BY CompleteViewed
  <2> HIDE DEF done
  <2> QED
    BY <2>1 DEF View
<1>3. PICK out, pending0, unanswered :
        st = [out |-> out, pending |-> pending0, unanswered |-> unanswered]
  BY DEF Normal
<1>4. PICK done1, done2, done3 : done = [out |-> done1, pending |-> done2, unanswered |-> done3]
  BY CompleteIs DEF Normal
<1>5. v = [unanswered |-> st.unanswered, spoken |-> Spoken(st.out), results |-> ResultsIn(st.out)]
  BY DEF View
<1> HIDE DEF v
<1>6. CASE IsResult(m) /\ m.call \in st.unanswered
  <2>1. new.out = Append(st.out, m) /\ new.unanswered = st.unanswered \ {m.call}
    BY <1>3, <1>6 DEF SanitizeOne
  <2>2. Spoken(new.out) = Spoken(st.out) /\ ResultsIn(new.out) = ResultsIn(st.out) \cup {m}
    BY <1>1, <1>6, <2>1, SpokenAppend, ResultsInAppend DEF Speaks
  <2> HIDE DEF new
  <2> QED
    BY <1>5, <1>6, <2>1, <2>2 DEF View, Viewed, new
<1>7. CASE IsResult(m) /\ m.call \notin st.unanswered
  BY <1>5, <1>7 DEF SanitizeOne, Viewed, v
<1>8. CASE IsUser(m)
  <2>1. ~IsResult(m) /\ ~IsAssistant(m)
    BY <1>8, KindsDiffer
  <2>2. new = [done EXCEPT !.out = Append(done.out, m)]
    BY <1>8, <2>1 DEF SanitizeOne
  <2> HIDE DEF done, new
  <2>3. new.out = Append(done.out, m) /\ new.unanswered = {}
    BY <1>2, <1>4, <2>2
  <2>4. Spoken(new.out) = Append(v.spoken, m) /\ ResultsIn(new.out) = Missed(v)
    BY <1>1, <1>2, <2>1, <2>3, SpokenAppend, ResultsInAppend DEF Speaks, Empty
  <2>5. View(new) = Viewed(v, m)
    BY <1>8, <2>1, <2>3, <2>4 DEF View, Viewed
  <2> QED
    BY <2>5 DEF new, v
<1>9. CASE Failed(m)
  <2>1. ~IsResult(m) /\ ~IsUser(m)
    BY <1>9, KindsDiffer
  <2>2. new = done
    BY <1>9, <2>1 DEF SanitizeOne
  <2> HIDE DEF done, new
  <2>3. View(new) = Viewed(v, m)
    BY <1>2, <1>9, <2>1, <2>2 DEF View, Viewed
  <2> QED
    BY <2>3 DEF new, v
<1>10. CASE IsAssistant(m) /\ ~Failed(m)
  <2> DEFINE calls == DistinctCalls(m.calls)
             e == [m EXCEPT !.calls = calls]
  <2>1. ~IsResult(m) /\ ~IsUser(m)
    BY <1>10, KindsDiffer
  <2>2. ~IsResult(e)
    BY <1>10, OtherCalls
  <2>3. new = [out |-> Append(done.out, e), pending |-> calls, unanswered |-> ToSet(calls)]
    BY <1>10, <2>1 DEF SanitizeOne
  <2>4. Viewed(v, m) = [unanswered |-> ToSet(calls),
                        spoken |-> IF Empty(e) THEN v.spoken ELSE Append(v.spoken, e),
                        results |-> Missed(v)]
    BY <1>10, <2>1 DEF Viewed
  <2> HIDE DEF done, new, calls, e
  <2>5. new.out = Append(done.out, e) /\ new.unanswered = ToSet(calls)
    BY <2>3
  <2>6. /\ Spoken(new.out) = IF Empty(e) THEN v.spoken ELSE Append(v.spoken, e)
        /\ ResultsIn(new.out) = Missed(v)
    BY <1>1, <1>2, <2>2, <2>5, SpokenAppend, ResultsInAppend, ZenonT(60) DEF Speaks
  <2>7. View(new) = Viewed(v, m)
    BY <2>4, <2>5, <2>6 DEF View
  <2> QED
    BY <2>7 DEF new, v
<1> QED
  BY <1>6, <1>7, <1>8, <1>9, <1>10, KindsDiffer

(* Where the repair of a history ends.                                     *)
End(ms) == (CHOOSE g : Sanitizes(g, ms, Len(ms)))[Len(ms)]

(* What a request tells of each message that follows.                      *)
Views(v, a, more) ==
  v[0] = a /\ \A i \in 1 .. Len(more) : v[i] = Viewed(v[i - 1], more[i])

(* It leads to one end.                                                    *)
LEMMA ViewsAgree ==
  ASSUME NEW more, IsSeq(more), NEW a, NEW v, Views(v, a, more), NEW w, Views(w, a, more)
  PROVE  v[Len(more)] = w[Len(more)]
<1> DEFINE n == Len(more)
           S == {i \in Nat : i <= n => v[i] = w[i]}
<1>1. n \in Nat
  BY DEF IsSeq
<1>2. 0 \in S
  BY DEF Views
<1>3. \A i \in Nat : i \in S => i + 1 \in S
  <2> SUFFICES ASSUME NEW i \in Nat, i \in S, i + 1 <= n PROVE v[i + 1] = w[i + 1]
    OBVIOUS
  <2> DEFINE l == (i + 1) - 1
  <2>1. i + 1 \in 1 .. n /\ l = i /\ v[i] = w[i]
    BY <1>1
  <2>2. v[i + 1] = Viewed(v[l], more[i + 1]) /\ w[i + 1] = Viewed(w[l], more[i + 1])
    BY <2>1 DEF Views
  <2> HIDE DEF l
  <2> QED
    BY <2>1, <2>2
<1> HIDE DEF S, n
<1>4. n \in S
  BY <1>1, <1>2, <1>3, SetInduction
<1> QED
  BY <1>1, <1>4 DEF S, n

(* The repair of the first k messages depends on them alone.               *)
LEMMA SanitizesSame ==
  ASSUME NEW ms, NEW ns, NEW m \in Nat, NEW n \in Nat, NEW g, Sanitizes(g, ms, m),
         NEW h, Sanitizes(h, ns, n), NEW k \in Nat, k <= m, k <= n,
         \A i \in 1 .. k : ms[i] = ns[i]
  PROVE  g[k] = h[k]
<1> DEFINE S == {i \in Nat : i <= k => g[i] = h[i]}
<1>1. 0 \in S
  BY DEF Sanitizes
<1>2. \A i \in Nat : i \in S => i + 1 \in S
  <2> SUFFICES ASSUME NEW i \in Nat, i \in S, i + 1 <= k PROVE g[i + 1] = h[i + 1]
    OBVIOUS
  <2> DEFINE l == (i + 1) - 1
  <2>1. i + 1 \in 1 .. m /\ i + 1 \in 1 .. n /\ i + 1 \in 1 .. k /\ l = i /\ g[i] = h[i]
    OBVIOUS
  <2>2. g[i + 1] = SanitizeOne(g[l], ms[i + 1]) /\ h[i + 1] = SanitizeOne(h[l], ns[i + 1])
    BY <2>1 DEF Sanitizes
  <2> HIDE DEF l
  <2> QED
    BY <2>1, <2>2
<1> HIDE DEF S
<1>3. k \in S
  BY <1>1, <1>2, SetInduction
<1> QED
  BY <1>3 DEF S

(* The end of the repair, and the request made of it.                      *)
LEMMA EndIs ==
  ASSUME NEW ms, Fine(ms)
  PROVE  /\ \E g : Sanitizes(g, ms, Len(ms)) /\ End(ms) = g[Len(ms)]
         /\ Normal(End(ms))
         /\ Speech(ms) = View(End(ms)).spoken /\ Outcomes(ms) = Missed(View(End(ms)))
<1> DEFINE n == Len(ms)
           g == CHOOSE g : Sanitizes(g, ms, n)
<1>1. IsSeq(ms) /\ n \in Nat /\ \A i \in 1 .. n : IsMessage(ms[i])
  BY DEF Fine, IsSeq
<1>2. PICK h : Sanitizes(h, ms, n) /\ SanitizeToolPairs(ms) = CompleteExchange(h[n]).out
  BY <1>1, SanitizingExists
<1>3. Sanitizes(g, ms, n)
  BY <1>2
<1>4. End(ms) = g[n]
  BY DEF End
<1> HIDE DEF g, n
<1>5. g[n] = h[n]
  <2>1. n <= n /\ \A i \in 1 .. n : ms[i] = ms[i]
    BY <1>1
  <2> QED
    BY <1>1, <1>2, <1>3, <2>1, SanitizesSame
<1>6. Normal(g[n])
  <2>1. n \in 0 .. n
    BY <1>1
  <2> QED
    BY <1>1, <1>3, <2>1, SanitizingKeeps DEF n
<1> DEFINE done == CompleteExchange(End(ms))
<1>7. View(done) = [unanswered |-> {}, spoken |-> Spoken(End(ms).out),
                    results |-> Missed(View(End(ms)))]
  BY <1>4, <1>6, CompleteViewed
<1>8. SanitizeToolPairs(ms) = done.out
  BY <1>2, <1>4, <1>5
<1> HIDE DEF done
<1>9. /\ Speech(ms) = View(End(ms)).spoken
      /\ Outcomes(ms) = Missed(View(End(ms)))
  BY <1>7, <1>8 DEF Speech, Outcomes, View
<1> QED
  BY <1>3, <1>4, <1>6, <1>9 DEF n

(* A history that goes on.                                                 *)
LEMMA EndGoesOn ==
  ASSUME NEW ms, Fine(ms), NEW more, Fine(more)
  PROVE  \E v : Views(v, View(End(ms)), more) /\ v[Len(more)] = View(End(ms \o more))
<1> DEFINE n == Len(ms)
           k == Len(more)
           t == ms \o more
<1>1. /\ IsSeq(ms) /\ n \in Nat /\ IsSeq(more) /\ k \in Nat
      /\ \A i \in 1 .. k : IsMessage(more[i])
  BY DEF Fine, IsSeq
<1>2. /\ IsSeq(t) /\ Len(t) = n + k /\ (\A i \in 1 .. n : t[i] = ms[i])
      /\ \A i \in 1 .. k : t[n + i] = more[i]
  BY <1>1, ConcatIsSeq
<1>3. Fine(t)
  BY FineConcat
<1> HIDE DEF t, n, k
<1>4. PICK g : Sanitizes(g, ms, n) /\ End(ms) = g[n]
  BY EndIs DEF n
<1>5. PICK h : Sanitizes(h, t, Len(t)) /\ End(t) = h[Len(t)]
  BY <1>3, EndIs
<1>6. g[n] = h[n]
  <2>1. PICK p \in Nat : p = Len(t) /\ n <= p
    BY <1>1, <1>2
  <2>2. Sanitizes(h, t, p) /\ n \in Nat /\ n <= n /\ \A i \in 1 .. n : ms[i] = t[i]
    BY <1>1, <1>2, <1>5, <2>1
  <2> QED
    BY ONLY <1>4, <2>1, <2>2, SanitizesSame
<1>7. \A i \in 0 .. Len(t) : Normal(h[i])
  <2>1. IsSeq(t) /\ \A i \in 1 .. Len(t) : IsMessage(t[i])
    BY <1>3 DEF Fine
  <2> QED
    BY <1>5, <2>1, SanitizingKeeps
<1> DEFINE v == [i \in 0 .. k |-> View(h[n + i])]
<1>8. v[0] = View(End(ms)) /\ v[k] = View(End(t))
  <2>1. v[0] = View(h[n + 0]) /\ v[k] = View(h[n + k]) /\ n + 0 = n
    BY <1>1
  <2> HIDE DEF v
  <2> QED
    BY <1>2, <1>4, <1>5, <1>6, <2>1
<1>9. ASSUME NEW i \in 1 .. k PROVE v[i] = Viewed(v[i - 1], more[i])
  <2> DEFINE p == n + i
             q == n + (i - 1)
             l == p - 1
  <2>1. v[i] = View(h[p]) /\ v[i - 1] = View(h[q])
    BY <1>1
  <2>2. p \in 1 .. Len(t) /\ q \in 0 .. Len(t) /\ l = q
    BY <1>1, <1>2
  <2>3. t[p] = more[i] /\ IsMessage(more[i])
    BY <1>1, <1>2
  <2> HIDE DEF p, q, v
  <2>4. h[p] = SanitizeOne(h[l], t[p])
    BY <1>5, <2>2 DEF Sanitizes
  <2> HIDE DEF l
  <2>5. h[p] = SanitizeOne(h[q], more[i]) /\ Normal(h[q])
    BY <1>7, <2>2, <2>3, <2>4
  <2> QED
    BY <2>1, <2>3, <2>5, SanitizeOneViewed
<1> HIDE DEF v
<1>10. Views(v, View(End(ms)), more)
  BY <1>8, <1>9 DEF Views, k
<1> QED
  BY <1>8, <1>10 DEF t, k

(* Two histories make the same request, up to the order of results.        *)
Agree(ms, ns) == View(End(ms)) = View(End(ns))

(* They go on to do so when the same follows.                              *)
LEMMA AgreeGoesOn ==
  ASSUME NEW ms, Fine(ms), NEW ns, Fine(ns), NEW more, Fine(more), Agree(ms, ns)
  PROVE  Agree(ms \o more, ns \o more)
<1>1. PICK v : Views(v, View(End(ms)), more) /\ v[Len(more)] = View(End(ms \o more))
  BY EndGoesOn
<1>2. PICK w : Views(w, View(End(ns)), more) /\ w[Len(more)] = View(End(ns \o more))
  BY EndGoesOn
<1>3. v[Len(more)] = w[Len(more)]
  BY <1>1, <1>2, ViewsAgree DEF Agree, Fine
<1> QED
  BY <1>1, <1>2, <1>3 DEF Agree

(* One message more.                                                       *)
LEMMA EndAppend ==
  ASSUME NEW ms, Fine(ms), NEW m, IsMessage(m)
  PROVE  View(End(Append(ms, m))) = Viewed(View(End(ms)), m)
<1> DEFINE more == <<m>>
<1>1. IsSeq(more) /\ Len(more) = 1 /\ more[1] = m
  BY OneIsSeq
<1>2. Append(ms, m) = ms \o more
  BY DEF Fine, IsSeq
<1> HIDE DEF more
<1>3. Fine(more)
  BY <1>1 DEF Fine
<1>4. PICK v : Views(v, View(End(ms)), more) /\ v[Len(more)] = View(End(ms \o more))
  BY <1>3, EndGoesOn
<1>5. v[1] = Viewed(v[0], m)
  <2> DEFINE l == 1 - 1
  <2>1. l = 0 /\ 1 \in 1 .. Len(more)
    BY <1>1
  <2>2. v[1] = Viewed(v[l], more[1])
    BY <1>4, <2>1 DEF Views
  <2> HIDE DEF l
  <2> QED
    BY <1>1, <2>1, <2>2
<1> QED
  BY <1>1, <1>2, <1>4, <1>5 DEF Views

CallsOf(rs) == {rs[i].call : i \in 1 .. Len(rs)}
Returned(a, calls, how) ==
  [unanswered |-> a.unanswered \ calls, spoken |-> a.spoken,
   results |-> a.results \cup {Result(c, how) : c \in a.unanswered \cap calls}]
Same(rs, how) == IsSeq(rs) /\ \A i \in 1 .. Len(rs) : rs[i] = Result(rs[i].call, how)

(* The results of some calls, in whatever order they are read.             *)
LEMMA ResultsViewed ==
  ASSUME NEW rs, NEW how, Same(rs, how),
         NEW a, a = [unanswered |-> a.unanswered, spoken |-> a.spoken, results |-> a.results],
         NEW v, Views(v, a, rs)
  PROVE  v[Len(rs)] = Returned(a, CallsOf(rs), how)
<1> DEFINE n == Len(rs)
           Calls(k) == {rs[i].call : i \in 1 .. k}
           After(k) == [unanswered |-> a.unanswered \ Calls(k), spoken |-> a.spoken,
                        results |-> a.results
                                      \cup {Result(c, how) : c \in a.unanswered \cap Calls(k)}]
           S == {k \in Nat : k <= n => v[k] = After(k)}
<1>1. n \in Nat
  BY DEF Same, IsSeq
<1>2. 0 \in S
  <2>1. Calls(0) = {}
    OBVIOUS
  <2> HIDE DEF Calls
  <2>2. After(0) = a
    BY <2>1
  <2> QED
    BY <2>2 DEF Views
<1>3. \A k \in Nat : k \in S => k + 1 \in S
  <2> HIDE DEF After
  <2> SUFFICES ASSUME NEW k \in Nat, k \in S, k + 1 <= n PROVE v[k + 1] = After(k + 1)
    OBVIOUS
  <2> USE DEF After
  <2> DEFINE l == (k + 1) - 1
             r == rs[k + 1]
             U == a.unanswered
             before == Calls(k)
             now == Calls(k + 1)
  <2>1. k + 1 \in 1 .. n /\ l = k
    BY <1>1
  <2>2. v[k] = After(k)
    BY <1>1
  <2>3. v[k + 1] = Viewed(v[l], r)
    BY <2>1 DEF Views
  <2>4. r = Result(r.call, how) /\ IsResult(r)
    BY <2>1 DEF Same, Result, IsResult
  <2>5. now = before \cup {r.call}
    <3>1. 1 .. k + 1 = (1 .. k) \cup {k + 1}
      OBVIOUS
    <3> QED
      BY <3>1
  <2>6. v[k] = [unanswered |-> U \ before, spoken |-> a.spoken,
                results |-> a.results \cup {Result(c, how) : c \in U \cap before}]
    BY <2>2
  <2>7. After(k + 1) = [unanswered |-> U \ now, spoken |-> a.spoken,
                        results |-> a.results \cup {Result(c, how) : c \in U \cap now}]
    OBVIOUS
  <2> HIDE DEF l, r, U, before, now, After, Calls
  <2>8. v[k + 1] = Viewed(v[k], r)
    BY <2>1, <2>3
  <2>9. CASE r.call \in U \ before
    <3>1. v[k + 1] = [unanswered |-> (U \ before) \ {r.call}, spoken |-> a.spoken,
                      results |-> a.results \cup {Result(c, how) : c \in U \cap before} \cup {r}]
      BY <2>4, <2>6, <2>8, <2>9 DEF Viewed
    <3>2. (U \ before) \ {r.call} = U \ now
      BY <2>5
    <3>3. U \cap now = (U \cap before) \cup {r.call}
      BY <2>5, <2>9
    <3>4. {Result(c, how) : c \in U \cap now} = {Result(c, how) : c \in U \cap before} \cup {r}
      BY <2>4, <3>3
    <3>5. a.results \cup {Result(c, how) : c \in U \cap before} \cup {r}
            = a.results \cup {Result(c, how) : c \in U \cap now}
      BY <3>4
    <3> QED
      BY <2>7, <3>1, <3>2, <3>5
  <2>10. CASE r.call \notin U \ before
    <3>1. v[k + 1] = v[k]
      BY <2>4, <2>6, <2>8, <2>10 DEF Viewed
    <3>2. U \ before = U \ now /\ U \cap now = U \cap before
      BY <2>5, <2>10
    <3> QED
      BY <2>6, <2>7, <3>1, <3>2
  <2> QED
    BY <2>9, <2>10
<1> HIDE DEF S, n
<1>4. n \in S
  BY <1>1, <1>2, <1>3, SetInduction
<1> QED
  BY <1>1, <1>4 DEF S, n, CallsOf, Returned

(* The results of one batch, as they end and in the order of the calls.    *)
LEMMA OrderIsNothing ==
  ASSUME NEW ms, Fine(ms), NEW calls, IsSeq(calls), NEW said \in AsTheyEnd(Ran(calls))
  PROVE  Agree(ms \o said, ms \o Ran(calls))
<1> DEFINE ran == Ran(calls)
           n == Len(calls)
           a == View(End(ms))
<1>1. n \in Nat /\ DOMAIN calls = 1 .. n
  BY DEF IsSeq
<1>2. Fine(ran) /\ Fine(said)
  BY ResultsAreFine DEF Ran
<1>3. DOMAIN ran = 1 .. n /\ \A i \in 1 .. n : ran[i] = Result(calls[i], "ran")
  BY <1>1 DEF Ran, Results
<1> HIDE DEF ran, n
<1>4. PICK order \in [DOMAIN ran -> DOMAIN ran] :
        /\ said = [i \in DOMAIN ran |-> ran[order[i]]]
        /\ \A i, j \in DOMAIN ran : order[i] = order[j] => i = j
  BY DEF AsTheyEnd, ran
<1>5. DOMAIN said = 1 .. n /\ \A i \in 1 .. n : order[i] \in 1 .. n /\ said[i] = ran[order[i]]
  BY <1>3, <1>4
<1>6. \A i \in 1 .. n : \E j \in 1 .. n : order[j] = i
  <2>1. order \in Injection(1 .. n, 1 .. n)
    BY <1>3, <1>4 DEF Injection, IsInjective
  <2>2. IsFiniteSet(1 .. n)
    BY <1>1, FS_Interval
  <2>3. order \in Surjection(1 .. n, 1 .. n)
    BY <2>1, <2>2, FS_Injection
  <2> QED
    BY <2>3 DEF Surjection
<1>7. Len(ran) = n /\ Len(said) = n /\ IsSeq(ran) /\ IsSeq(said)
  BY <1>1, <1>2, <1>3, <1>5 DEF Fine, IsSeq
<1> DEFINE C == {ran[i].call : i \in 1 .. n}
<1>8. {said[i].call : i \in 1 .. n} = C
  <2>1. \A i \in 1 .. n : said[i].call \in C
    BY <1>5
  <2>2. \A i \in 1 .. n : \E j \in 1 .. n : said[j].call = ran[i].call
    <3> SUFFICES ASSUME NEW i \in 1 .. n PROVE \E j \in 1 .. n : said[j].call = ran[i].call
      OBVIOUS
    <3>1. PICK j \in 1 .. n : order[j] = i
      BY <1>6
    <3>2. said[j] = ran[i]
      BY <1>5, <3>1
    <3> QED
      BY <3>2
  <2> QED
    BY <2>1, <2>2
<1>9. \A i \in 1 .. n : ran[i] = Result(ran[i].call, "ran")
  BY <1>3 DEF Result
<1>10. \A i \in 1 .. n : said[i] = Result(said[i].call, "ran")
  BY <1>5, <1>9
<1>11. a = [unanswered |-> a.unanswered, spoken |-> a.spoken, results |-> a.results]
  BY DEF View
<1>12. PICK v : Views(v, a, ran) /\ v[n] = View(End(ms \o ran))
  BY <1>2, <1>7, EndGoesOn
<1>13. PICK w : Views(w, a, said) /\ w[n] = View(End(ms \o said))
  BY <1>2, <1>7, EndGoesOn
<1> HIDE DEF a
<1>14. Same(ran, "ran") /\ Same(said, "ran") /\ CallsOf(ran) = CallsOf(said)
  BY <1>7, <1>8, <1>9, <1>10 DEF Same, CallsOf
<1>15. v[n] = Returned(a, CallsOf(ran), "ran") /\ w[n] = Returned(a, CallsOf(said), "ran")
  BY <1>7, <1>11, <1>12, <1>13, <1>14, ResultsViewed
<1> QED
  BY <1>12, <1>13, <1>14, <1>15 DEF Agree, ran

(* An answer that was refused or says nothing, and can be taken out when    *)
(* the user goes on.                                                       *)
Quiet(m) == Failed(m) \/ (IsAssistant(m) /\ Empty(m))

(* Nothing of it is in the request.                                        *)
LEMMA QuietPopped ==
  ASSUME NEW ms, Fine(ms), NEW m, IsMessage(m), Quiet(m), NEW u, IsUser(u)
  PROVE  Agree(Append(Append(ms, m), u), Append(ms, u))
<1> DEFINE v == View(End(ms))
           w == Viewed(v, m)
<1>1. IsMessage(u) /\ ~IsResult(u)
  BY DEF IsMessage, IsUser, IsResult
<1>2. Fine(Append(ms, m))
  BY FineAppend
<1>3. View(End(Append(ms, m))) = w
  BY EndAppend
<1>4. View(End(Append(Append(ms, m), u))) = Viewed(w, u) /\ View(End(Append(ms, u))) = Viewed(v, u)
  BY <1>1, <1>2, <1>3, EndAppend
<1> HIDE DEF v
<1>5. ~IsResult(m) /\ ~IsUser(m)
  BY KindsDiffer DEF Quiet, Failed
<1>6. w = [unanswered |-> {}, spoken |-> v.spoken, results |-> Missed(v)]
  <2>1. CASE Failed(m)
    BY <1>5, <2>1 DEF Viewed
  <2>2. CASE ~Failed(m)
    <3>1. IsAssistant(m) /\ m.calls = <<>> /\ Empty(m)
      BY <2>2 DEF Quiet, Empty
    <3> DEFINE calls == DistinctCalls(m.calls)
               e == [m EXCEPT !.calls = calls]
    <3>2. calls = m.calls
      <4>1. IsSeq(<<>>) /\ IsInjective(<<>>)
        BY NoneIsSeq DEF IsInjective
      <4> QED
        BY <3>1, <4>1, DistinctIs
    <3>3. e = m
      <4>1. e = [m EXCEPT !.calls = calls]
        OBVIOUS
      <4> HIDE DEF e, calls
      <4> QED
        BY <3>1, <3>2, <4>1, OtherCalls
    <3>4. w = [unanswered |-> ToSet(calls),
               spoken |-> IF Empty(e) THEN v.spoken ELSE Append(v.spoken, e),
               results |-> Missed(v)]
      BY <1>5, <2>2 DEF Viewed
    <3>5. ToSet(m.calls) = {}
      BY <3>1 DEF ToSet
    <3> HIDE DEF w, e, calls
    <3> QED
      BY <3>1, <3>2, <3>3, <3>4, <3>5
  <2> QED
    BY <2>1, <2>2
<1>7. Missed(w) = Missed(v)
  BY <1>6 DEF Missed
<1>8. Viewed(w, u) = Viewed(v, u)
  <2> HIDE DEF w
  <2> QED
    BY <1>1, <1>6, <1>7 DEF Viewed
<1> QED
  BY <1>4, <1>8 DEF Agree

(* An outcome that replaces nothing takes out the last answer at most.     *)
LEMMA UnreplacedIs ==
  ASSUME NEW messages, NEW m, NEW stop, NEW o \in AfterResponse(m, messages, stop), ~o.replaced
  PROVE  /\ ~o.retry
         /\ \/ o.messages = messages
            \/ /\ Overflows(m) /\ messages # <<>> /\ IsAssistant(Last(messages))
               /\ o.messages = Front(messages)
<1>1. PICK ctl :
      \/ o \in {Skipped(messages, ctl), Skipped(messages, [ctl EXCEPT !.suppressed = FALSE])}
      \/ o \in MayCompact(messages, ctl, stop)
      \/ o \in ThresholdCompact(messages, ctl, stop)
      \/ Overflows(m) /\ o \in OverflowRetry(messages, ctl, stop)
  BY DEF AfterResponse, Estimated
<1>2. \A ms, k, c, retry : Compact(ms, k, c, retry).replaced
  BY DEF Compact, Outcome
<1>3. \A ms, c : Skipped(ms, c).messages = ms /\ ~Skipped(ms, c).retry /\ ~Skipped(ms, c).replaced
  BY DEF Skipped, Outcome
<1>4. \A p \in MayCompact(messages, ctl, stop) : p.replaced \/ p = Skipped(messages, ctl)
  BY <1>2 DEF MayCompact
<1>5. CASE o \in {Skipped(messages, ctl), Skipped(messages, [ctl EXCEPT !.suppressed = FALSE])}
  BY <1>3, <1>5
<1>6. CASE o \in MayCompact(messages, ctl, stop)
  BY <1>3, <1>4, <1>6
<1>7. CASE o \in ThresholdCompact(messages, ctl, stop)
  <2>1. CASE ctl.suppressed
    BY <1>3, <1>7, <2>1 DEF ThresholdCompact
  <2>2. CASE ~ctl.suppressed
    <3>1. PICK p \in MayCompact(messages, ctl, stop) : o = [p EXCEPT !.ctl.suppressed = p.replaced]
      BY <1>7, <2>2 DEF ThresholdCompact
    <3>2. PICK a, b, c, d : p = Outcome(a, b, c, d)
      BY <3>1 DEF MayCompact, Skipped, Compact
    <3>3. o.messages = p.messages /\ o.replaced = p.replaced /\ o.retry = p.retry
      BY <3>1, <3>2 DEF Outcome
    <3> QED
      BY <1>3, <1>4, <3>1, <3>3
  <2> QED
    BY <2>1, <2>2
<1>8. CASE Overflows(m) /\ o \in OverflowRetry(messages, ctl, stop)
  <2> DEFINE popped == IF messages # <<>> /\ IsAssistant(Last(messages))
                       THEN Front(messages) ELSE messages
  <2>1. o = Skipped(popped, ctl)
    BY <1>2, <1>8 DEF OverflowRetry
  <2> QED
    BY <1>3, <1>8, <2>1
<1> QED
  BY <1>1, <1>5, <1>6, <1>7, <1>8

(* What a turn is retried for is quiet.                                    *)
LEMMA OverflowsIsQuiet ==
  ASSUME NEW m, IsAssistant(m), Overflows(m) PROVE Quiet(m)
  BY DEF Overflows, Quiet, Failed, Empty

(* The transcript makes the request that the context does: while calls run, *)
(* it holds the results of those that have ended, in their own order.      *)
Agreed == pc # "idle" => Agree(saved, context \o results)

(* A check that ends the run or begins it.                                 *)
LEMMA PromptAgrees ==
  ASSUME Typed, Paired, Agreed, Prompts PROVE Agreed'
<1> DEFINE Said == {i \in DOMAIN context : IsAssistant(context[i])}
           u == User(<<"run", runs>>)
<1>1. /\ pc = "prompt" /\ results = <<>> /\ results' = <<>>
      /\ Fine(context) /\ Fine(saved)
  BY DEF Prompts, Paired
<1>2. PICK o : /\ o \in (IF Said = {} THEN {Skipped(context, controller)}
                         ELSE AfterResponse(context[Max(Said)], context, cancelled))
               /\ context' = Append(o.messages, u)
               /\ saved' = Append(IF o.replaced THEN o.messages ELSE saved, u)
  BY DEF Prompts
<1>3. IsMessage(u) /\ IsUser(u)
  BY DEF IsMessage, IsUser, User
<1> HIDE DEF u
<1>4. Fine(o.messages)
  <2>1. o = Skipped(context, controller) \/ \E m : o \in AfterResponse(m, context, cancelled)
    BY <1>2
  <2> QED
    BY <1>1, <2>1, CheckPasses DEF Passed
<1>5. Agree(saved, context) /\ Agree(Append(saved, u), Append(context, u))
  <2>1. Agree(saved, context)
    BY <1>1, ConcatNone DEF Agreed, Fine
  <2> QED
    BY <1>1, <1>3, <2>1, EndAppend DEF Agree
<1>6. Agree(saved', context')
  <2>1. CASE o.replaced
    BY <1>2, <2>1 DEF Agree
  <2>2. CASE ~o.replaced /\ o.messages = context
    BY <1>2, <1>5, <2>2
  <2>3. CASE ~o.replaced /\ o.messages # context
    <3>1. Said # {}
      <4>1. Skipped(context, controller).messages = context
        BY DEF Skipped, Outcome
      <4> QED
        BY <1>2, <2>3, <4>1
    <3>2. /\ Overflows(context[Max(Said)]) /\ context # <<>> /\ IsAssistant(Last(context))
          /\ o.messages = Front(context)
      <4> HIDE DEF Said
      <4> QED
        BY <1>2, <2>3, <3>1, UnreplacedIs
    <3> DEFINE n == Len(context)
               m == context[n]
               p == Front(context)
    <3>3. n \in Nat /\ n # 0 /\ IsSeq(context) /\ IsMessage(m)
      <4>1. IsSeq(context) /\ n \in Nat /\ n # 0
        BY <1>1, <3>2 DEF Fine, IsSeq
      <4>2. n \in 1 .. n
        BY <4>1
      <4> QED
        BY <1>1, <4>1, <4>2 DEF Fine
    <3>4. IsAssistant(m) /\ Max(Said) = n
      BY <3>2, <3>3, LastIsLastAnswer DEF Last
    <3>5. Quiet(m)
      <4>1. Overflows(m)
        BY <3>2, <3>4
      <4> HIDE DEF m
      <4> QED
        BY <3>4, <4>1, OverflowsIsQuiet
    <3>6. context = Append(p, m)
      <4>1. IsSeq(p) /\ Len(p) = n - 1 /\ \A i \in 1 .. n - 1 : p[i] = context[i]
        <5> DEFINE q == n - 1
        <5>1. q \in Nat /\ q <= n /\ p = SubSeq(context, 1, q) /\ q + 1 - 1 = q
          BY <3>3 DEF Front
        <5> HIDE DEF q, p, n
        <5>2. /\ IsSeq(p) /\ Len(p) = q + 1 - 1
              /\ \A i \in 1 .. (q + 1 - 1) : p[i] = context[i + 1 - 1]
          BY <3>3, <5>1, SubSeqIsSeq DEF n
        <5>3. \A i \in 1 .. q : i + 1 - 1 = i
          BY <5>1
        <5> QED
          BY <5>1, <5>2, <5>3 DEF q
      <4> HIDE DEF p, m
      <4>2. /\ IsSeq(Append(p, m)) /\ Len(Append(p, m)) = n
            /\ \A i \in 1 .. n - 1 : Append(p, m)[i] = context[i]
            /\ Append(p, m)[n] = m
        <5> DEFINE q == n - 1
        <5>1. q + 1 = n /\ q \in Nat
          BY <3>3
        <5>2. IsSeq(p) /\ Len(p) = q /\ \A i \in 1 .. q : p[i] = context[i]
          BY <4>1
        <5> HIDE DEF q
        <5>3. /\ IsSeq(Append(p, m)) /\ Len(Append(p, m)) = q + 1
              /\ \A i \in 1 .. q : Append(p, m)[i] = context[i]
              /\ Append(p, m)[q + 1] = m
          BY <5>2, AppendIsSeq
        <5> QED
          BY <5>1, <5>3 DEF q
      <4>3. \A i \in 1 .. n : context[i] = Append(p, m)[i]
        <5> SUFFICES ASSUME NEW i \in 1 .. n PROVE context[i] = Append(p, m)[i]
          OBVIOUS
        <5>1. i \in 1 .. n - 1 \/ i = n
          BY <3>3
        <5> QED
          BY <4>2, <5>1 DEF m
      <4> QED
        BY <3>3, <4>2, <4>3, SameSeq
    <3>7. Agree(Append(context, u), Append(p, u))
      <4>1. Fine(p)
        BY <1>4, <3>2
      <4> HIDE DEF p, m
      <4> QED
        BY <1>3, <3>3, <3>5, <3>6, <4>1, QuietPopped
    <3>8. saved' = Append(saved, u) /\ context' = Append(p, u)
      BY <1>2, <2>3, <3>2
    <3> HIDE DEF p
    <3> QED
      BY <1>5, <3>7, <3>8 DEF Agree
  <2> QED
    BY <2>1, <2>2, <2>3
<1>7. Fine(context')
  BY <1>2, <1>3, <1>4, FineAppend
<1>8. context' \o results' = context'
  BY <1>1, <1>7, ConcatNone DEF Fine
<1> QED
  BY <1>6, <1>8 DEF Agreed

(* A batch of calls, whatever order they end in.                           *)
LEMMA ExecuteAgrees ==
  ASSUME Typed, Paired, Agreed, ExecutesBatch PROVE Agreed'
<1> DEFINE ran == Ran(Batch)
           rest == SubSeq(todo, BatchLength + 1, Len(todo))
           spared == IF lanes["steering"] # <<>> THEN Spared(rest) ELSE <<>>
           before == context \o results
<1>1. pc = "exec" /\ Fine(context) /\ Fine(saved) /\ Fine(results) /\ IsInjective(todo)
  BY DEF ExecutesBatch, Paired
<1>2. IsSeq(Batch) /\ IsSeq(rest)
  BY <1>1, BatchSplits
<1>3. Fine(ran) /\ Fine(spared) /\ (\A said \in AsTheyEnd(ran) : Fine(said))
  <2> HIDE DEF rest
  <2>1. Fine(<<>>)
    BY NoneIsSeq DEF Fine
  <2> QED
    BY <1>2, <2>1, ResultsAreFine DEF Ran, Spared
<1>4. Fine(before) /\ Agree(saved, before)
  BY <1>1, FineConcat DEF Agreed
<1>5. PICK said \in AsTheyEnd(ran) : saved' = saved \o said \o spared
  BY DEF ExecutesBatch
<1>6. Agree(saved \o said, saved \o ran)
  BY <1>1, <1>2, <1>5, OrderIsNothing
<1> HIDE DEF ran, rest, spared
<1>7. Agree(saved \o said, before \o ran)
  <2> HIDE DEF before
  <2>1. Agree(saved \o ran, before \o ran)
    BY <1>1, <1>3, <1>4, AgreeGoesOn
  <2> QED
    BY <1>6, <2>1 DEF Agree
<1>8. Fine(saved \o said) /\ Fine(before \o ran)
  <2> HIDE DEF before
  <2> QED
    BY <1>1, <1>3, <1>4, <1>5, FineConcat
<1>9. Agree(saved', before \o ran \o spared)
  <2> HIDE DEF before
  <2>1. Agree((saved \o said) \o spared, (before \o ran) \o spared)
    BY <1>3, <1>7, <1>8, AgreeGoesOn
  <2> QED
    BY <1>5, <2>1
<1>10. CASE /\ context' = context \o results \o ran \o spared
            /\ results' = <<>>
  <2>1. Fine(context')
    <3>1. Fine(before \o ran \o spared)
      <4> HIDE DEF before
      <4> QED
        BY <1>3, <1>8, FineConcat
    <3> QED
      BY <1>10, <3>1
  <2>2. context' \o results' = context'
    BY <1>10, <2>1, ConcatNone DEF Fine
  <2>3. context' \o results' = before \o ran \o spared
    BY <1>10, <2>2
  <2> QED
    BY <1>9, <2>3 DEF Agreed
<1>11. CASE /\ lanes["steering"] = <<>> /\ results' = results \o ran
            /\ context' = context
  <2>1. spared = <<>>
    BY <1>11 DEF spared
  <2>2. before \o ran \o spared = before \o ran
    <3> HIDE DEF before
    <3> QED
      BY <1>8, <2>1, ConcatNone DEF Fine
  <2>3. context' \o results' = before \o ran
    <3>1. IsSeq(ran) /\ IsSeq(context) /\ IsSeq(results)
      BY <1>1, <1>3 DEF Fine
    <3>2. (context \o results) \o ran = context \o (results \o ran)
      BY <3>1, ConcatAssociates
    <3> QED
      BY <1>11, <3>2
  <2> QED
    BY <1>9, <2>2, <2>3 DEF Agreed
<1> QED
  BY <1>10, <1>11 DEF ExecutesBatch, ran, rest, spared

(* Both say the same.                                                      *)
LEMMA SaidAgrees ==
  ASSUME Paired, Agreed, pc \notin {"idle", "exec"}, NEW more, Fine(more),
         context' = context \o more, saved' = saved \o more, results' = <<>>
  PROVE  Agreed'
<1>1. Fine(context) /\ Fine(saved) /\ results = <<>>
  BY DEF Paired
<1>2. Agree(saved, context)
  BY <1>1, ConcatNone DEF Agreed, Fine
<1>3. Agree(saved', context') /\ Fine(context')
  BY <1>1, <1>2, AgreeGoesOn, FineConcat
<1>4. context' \o results' = context'
  BY <1>3, ConcatNone DEF Fine
<1> QED
  BY <1>3, <1>4 DEF Agreed

(* Every step keeps it.                                                    *)
LEMMA AgreedStep == Typed /\ Paired /\ Agreed /\ [Next]_vars => Agreed'
<1> SUFFICES ASSUME Typed, Paired, Agreed, [Next]_vars PROVE Agreed'
  OBVIOUS
<1>1. CASE Starts
  <2>1. context' = saved /\ saved' = saved /\ results' = <<>>
    BY <1>1 DEF Starts, Paired
  <2>2. saved' \o results' = saved'
    BY <2>1, ConcatNone DEF Paired, Fine
  <2> QED
    BY <2>1, <2>2 DEF Agreed, Agree
<1>2. CASE InstallEngine \/ Continues
  BY <1>2 DEF InstallEngine, Continues, Agreed
<1>3. CASE Prompts
  BY <1>3, PromptAgrees
<1>4. CASE DrainsAtStart \/ FollowsUp \/ Settles
  BY <1>4 DEF DrainsAtStart, FollowsUp, Settles, Agreed
<1>5. CASE StopsCancelled
  BY <1>5 DEF StopsCancelled, Ends, Agreed
<1>6. CASE Injects
  <2> DEFINE said == [i \in DOMAIN pending |-> User(pending[i])]
  <2>1. IsSeq(said) /\ \A i \in 1 .. Len(said) : IsUser(said[i])
    <3>1. Len(pending) \in Nat /\ DOMAIN pending = 1 .. Len(pending)
      BY DEF Typed, IsSeq
    <3>2. DOMAIN said = 1 .. Len(pending) /\ said = [i \in 1 .. Len(pending) |-> said[i]]
      BY <3>1
    <3>3. \A i \in 1 .. Len(pending) : IsUser(said[i])
      BY <3>1 DEF User, IsUser
    <3> HIDE DEF said
    <3>4. IsSeq(said) /\ Len(said) = Len(pending)
      BY <3>1, <3>2, MapIsSeq
    <3> QED
      BY <3>3, <3>4
  <2>2. PICK more : Fine(more) /\ context' = context \o more /\ saved' = saved \o more
    <3> HIDE DEF said
    <3>1. Fine(said)
      BY <2>1, UsersRead
    <3>2. Fine(Append(said, User(<<"limit", runs>>)))
      BY <3>1, SaidPasses DEF Passed
    <3> QED
      BY <1>6, <3>1, <3>2 DEF Injects, Says, said
  <2>3. pc = "top" /\ results' = <<>>
    BY <1>6 DEF Injects, Ends, Paired
  <2> QED
    BY <2>2, <2>3, SaidAgrees
<1>7. CASE Responds
  <2>1. PICK a \in Answers :
          \/ (a.stop \in {"error", "aborted"} \/ a.calls = <<>>) /\ Says(<<Answer(a)>>)
          \/ /\ a.stop \notin {"error", "aborted"}
             /\ \/ Says(<<Answer(a)>> \o Doomed(Answer(a).calls))
                \/ Says(<<Answer(a)>> \o Truncated(Answer(a).calls))
                \/ Says(<<Answer(a)>> \o <<>>)
    BY <1>7 DEF Responds
  <2>2. pc = "call" /\ results' = <<>>
    BY <1>7 DEF Responds, Paired
  <2>3. PICK m : m = Answer(a)
    OBVIOUS
  <2>4. PICK more : Fine(more) /\ Says(more)
    <3>1. <<m>> \o <<>> = <<m>>
      BY OneIsSeq, ConcatNone
    <3>2. \/ (a.stop \in {"error", "aborted"} \/ a.calls = <<>>) /\ Says(<<m>>)
          \/ /\ a.stop \notin {"error", "aborted"}
             /\ \/ Says(<<m>> \o Results(m.calls, "doom"))
                \/ Says(<<m>> \o Results(m.calls, "truncated"))
                \/ Says(<<m>>)
      BY <2>1, <2>3, <3>1 DEF Doomed, Truncated
    <3> QED
      BY <2>3, <3>2, AnswerAdds DEF Adds
  <2> QED
    BY <2>2, <2>4, SaidAgrees DEF Says
<1>8. CASE ExecutesBatch
  BY <1>8, ExecuteAgrees
<1>9. CASE Checks
  <2>1. PICK o : /\ o \in (IF LastAnswer.stop = "aborted" THEN {Skipped(context, controller)}
                           ELSE AfterResponse(LastAnswer, context, cancelled))
                 /\ context' = o.messages
                 /\ saved' = IF o.replaced THEN o.messages ELSE saved
                 /\ pc' = IF o.retry THEN "top" ELSE "idle"
    BY <1>9 DEF Checks
  <2>2. results' = <<>> /\ Fine(context)
    BY <1>9 DEF Checks, Paired
  <2>3. o.retry => o.replaced
    <3>1. ~Skipped(context, controller).retry
      BY DEF Skipped, Outcome
    <3> QED
      BY <2>1, <3>1, UnreplacedIs
  <2>4. CASE o.retry
    <3>1. saved' = context'
      BY <2>1, <2>3, <2>4
    <3>2. Fine(context')
      <4>1. o = Skipped(context, controller) \/ o \in AfterResponse(LastAnswer, context, cancelled)
        BY <2>1
      <4> QED
        BY <2>1, <2>2, <4>1, CheckPasses DEF Passed
    <3>3. context' \o results' = context'
      BY <2>2, <3>2, ConcatNone DEF Fine
    <3> QED
      BY <3>1, <3>3 DEF Agreed, Agree
  <2>5. CASE ~o.retry
    BY <2>1, <2>5 DEF Agreed
  <2> QED
    BY <2>4, <2>5
<1>10. CASE Panics
  BY <1>10 DEF Panics, Agreed
<1>11. CASE AbortBegins \/ AbortReachesEngine
  BY <1>11 DEF AbortBegins, AbortReachesEngine, Agreed
<1>12. CASE Clients
  BY <1>12 DEF Clients, loopVars, Agreed
<1>13. CASE UNCHANGED vars
  BY <1>13 DEF vars, loopVars, Agreed
<1> QED
  BY <1>1, <1>2, <1>3, <1>4, <1>5, <1>6, <1>7, <1>8, <1>9, <1>10, <1>11, <1>12, <1>13
     DEF Next, Loop

(* What agrees makes the same request.                                     *)
LEMMA AgreedIsEnough == Paired /\ Agreed => TranscriptAgrees
<1> SUFFICES ASSUME Paired, Agreed, pc = "call"
             PROVE  Speech(saved) = Speech(context) /\ Outcomes(saved) = Outcomes(context)
  BY DEF TranscriptAgrees
<1>1. Fine(context) /\ Fine(saved) /\ results = <<>>
  BY DEF Paired
<1>2. Agree(saved, context)
  BY <1>1, ConcatNone DEF Agreed, Fine
<1> QED
  BY <1>1, <1>2, EndIs DEF Agree

(* Whenever a request is made, the transcript read back makes the same one, *)
(* up to the order of the results of a batch (driver.rs, tool_exec.rs): the  *)
(* next run goes on where the context of this one is, whatever was answered, *)
(* compacted, taken out or retried (compaction_check.rs, controller.rs).   *)
THEOREM TranscriptAgreesAlways == Spec => []TranscriptAgrees
<1>1. Init => Typed /\ Paired /\ Agreed
  BY TypedInit, PairedInit DEF Init, Agreed
<1>2. Typed /\ Paired /\ Agreed /\ [Next]_vars => Typed' /\ Paired' /\ Agreed'
  BY TypedStep, PairedStep, AgreedStep
<1>3. Paired /\ Agreed => TranscriptAgrees
  BY AgreedIsEnough
<1> QED
  BY <1>1, <1>2, <1>3, PTL DEF Spec
=============================================================================
