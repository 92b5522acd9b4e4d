------------------------------- MODULE LlmCall -------------------------------
(***************************************************************************)
(* One call to the model (engine/src/runner/llm_call.rs).                   *)
(*                                                                         *)
(* The call loop opens a stream at the provider, a forwarder task passes    *)
(* its events on to the run while the provider is still decoding, and when  *)
(* the provider returns the loop decides what the result means: an answer,  *)
(* a short retry with its own LlmCallStart and LlmCallEnd, one more probe   *)
(* of a wait that may last for hours (quota, outage), or the end.  The      *)
(* three tasks and the caller's cancellation interleave freely.             *)
(*                                                                         *)
(* log is the run's view: the events in the order EventSink received them,  *)
(* each with the stream it stems from.  Texts, usage and metrics are left   *)
(* out; a delay is kept as the number of times it was doubled.              *)
(***************************************************************************)
EXTENDS ProviderErrors, Sequences, FiniteSets

CONSTANTS
  Policies,       \* the max_retries the runner may be configured with
  ProtocolMax,    \* PROTOCOL_INCOMPLETE_MAX_RETRIES
  QuotaCap,       \* doublings from QUOTA_PROBE_INITIAL to QUOTA_PROBE_MAX
  StreamCapacity, \* mpsc::channel(64)
  MaxDeltas,      \* bound: deltas of one stream
  MaxStreams,     \* bound: the upstream answers for good on the last stream
  Failures        \* what may go wrong with a request, see ProviderErrors

ASSUME ConstantsAreNaturals ==
  /\ Policies \subseteq Nat
  /\ {ProtocolMax, QuotaCap} \subseteq Nat
  /\ {StreamCapacity, MaxDeltas, MaxStreams} \subseteq Nat \ {0}

\* A failure surfaces at one of five places, and a connection or a stream that
\* broke brought no words of the provider's to search.
ASSUME FailuresAreKnown ==
  \A f \in Failures :
    /\ f.at \in {Http, Inline, Transport, CutShort, Internal}
    /\ f.at \in {Transport, CutShort} => f.says = {}

VARIABLES
  policy,     \* RetryPolicy::max_retries
  pc,         \* where the call loop stands
  attempt,    \* short retries so far
  longWait,   \* long_wait_started
  doublings,  \* quota_probe_delay
  cancelled,  \* the cancellation token
  stream,     \* events between the provider and the forwarder
  provider,   \* what the provider is doing, and its result
  forwarder,  \* the forwarding task
  partial,    \* the forwarder's partial_message is set
  result,     \* what the loop breaks with: an answer or an error's variant
  failure,    \* the failure behind the current stream's error
  log,        \* events received by the run
  streams,    \* streams opened so far
  sent,       \* deltas the provider put into the current stream
  after       \* streams opened although the call was cancelled

control == <<pc, attempt, longWait, doublings, result>>
given == <<policy, failure>>
tasks == <<stream, provider, forwarder, partial, sent>>
vars == <<policy, control, cancelled, tasks, failure, log, streams, after>>

-----------------------------------------------------------------------------
Answer == "answer"
\* A stream that ends well but says nothing: Ok from a provider that does not
\* look, promoted to a network error by the loop.
Empty == "empty"
Promoted(r) == IF r = Empty THEN "Network" ELSE r

Results == Variants \cup {Answer, Empty}

Running == "running"
None == "none"

Event(kind, number) == [kind |-> kind, stream |-> streams, number |-> number]
Emit(events) == log' = log \o events

-----------------------------------------------------------------------------
Init ==
  /\ policy \in Policies
  /\ pc = "open" /\ attempt = 0 /\ longWait = FALSE /\ doublings = 0
  /\ result = None
  /\ cancelled = FALSE
  /\ stream = <<>> /\ provider = None /\ forwarder = None
  /\ partial = FALSE /\ sent = 0 /\ failure = NoFailure
  /\ log = <<>> /\ streams = 0 /\ after = 0

\* Open a stream. A probe of a long wait stays part of the same logical call
\* and announces nothing.
Open ==
  /\ pc = "open"
  /\ streams' = streams + 1
  /\ log' = IF longWait THEN log
            ELSE Append(log, [kind |-> "CallStart", stream |-> streams + 1,
                              number |-> attempt])
  /\ pc' = "streaming"
  /\ provider' = Running /\ forwarder' = Running
  /\ stream' = <<>> /\ partial' = FALSE /\ sent' = 0
  /\ after' = IF cancelled THEN after + 1 ELSE after
  /\ result' = None /\ failure' = NoFailure
  /\ UNCHANGED <<policy, attempt, longWait, doublings, cancelled>>

\* The decoder passes an event on and waits for capacity; once the call is
\* cancelled StreamSink drops the event instead.
ProviderSends ==
  /\ provider = Running /\ ~cancelled
  /\ Len(stream) < StreamCapacity
  /\ \/ /\ sent = 0 /\ ~partial /\ stream = <<>>
        /\ stream' = <<"Start">>
        /\ UNCHANGED sent
     \/ /\ partial \/ sent > 0 \/ stream # <<>>
        /\ sent < MaxDeltas
        /\ stream' = Append(stream, "Delta")
        /\ sent' = sent + 1
  /\ UNCHANGED <<given, control, cancelled, provider, forwarder, partial,
                 log, streams, after>>

\* What a stream may end in. A cancelled decoder answers Cancelled when its
\* select! sees the token first, and a network error when SseReader does; a
\* request that has not been answered yet is not raced with the token at all.
Fails(f) ==
  /\ provider' = Classify(f)
  /\ failure' = f

EndsWith(r) ==
  /\ r = Answer => sent > 0
  /\ r = "Cancelled" => cancelled
  /\ provider' = r
  /\ UNCHANGED failure

\* The last stream settles the call.
Settles(f) ==
  cancelled \/ (~ShouldRetry(Classify(f), f) /\ Classify(f) # "QuotaLimited")

ProviderReturns ==
  /\ provider = Running
  /\ \/ \E r \in {Answer, "Cancelled"} : EndsWith(r)
     \/ (streams < MaxStreams \/ cancelled) /\ EndsWith(Empty)
     \/ \E f \in Failures :
          /\ streams < MaxStreams \/ Settles(f)
          /\ Fails(f)
  /\ UNCHANGED <<policy, control, cancelled, stream, forwarder, partial, sent,
                 log, streams, after>>

\* The forwarder hands one event on. A delta with no message started is
\* dropped. It ends by itself when the provider has dropped its end.
Forward ==
  /\ forwarder \in {Running, "aborting"}
  /\ stream # <<>>
  /\ stream' = Tail(stream)
  /\ partial' = (partial \/ Head(stream) = "Start")
  /\ \/ /\ Head(stream) = "Start"
        /\ Emit(<<Event("MessageStart", 0)>>)
     \/ /\ Head(stream) = "Delta"
        /\ IF partial THEN Emit(<<Event("MessageUpdate", 0)>>)
           ELSE UNCHANGED log
  /\ UNCHANGED <<given, control, cancelled, provider, forwarder, sent,
                 streams, after>>

\* Mutant: the forwarder waits for Done rather than for the channel to close.
ForwarderEnds_OnDone ==
  /\ forwarder = Running
  /\ stream = <<>> /\ provider = Answer
  /\ forwarder' = "ended"
  /\ UNCHANGED <<given, control, cancelled, stream, provider, partial, sent,
                 log, streams, after>>

ForwarderEnds ==
  /\ forwarder = Running
  /\ stream = <<>> /\ provider \in Results
  /\ forwarder' = "ended"
  /\ UNCHANGED <<given, control, cancelled, stream, provider, partial, sent,
                 log, streams, after>>

-----------------------------------------------------------------------------
(* The loop's decision on the provider's result. *)

RetryLimit(r) ==
  IF r = "ProtocolIncomplete" /\ ProtocolMax < policy THEN ProtocolMax
  ELSE policy

MayRetry(r) ==
  /\ ShouldRetry(r, failure)
  /\ attempt < RetryLimit(r)
  /\ ~longWait
  /\ ~cancelled

\* Mutant: a spent budget ends the call.
MayWaitOut_Short(r) ==
  /\ ShouldRetry(r, failure)
  /\ r # "ProtocolIncomplete"
  /\ attempt < policy
  /\ ~cancelled

MayWaitOut(r) ==
  /\ ShouldRetry(r, failure)
  /\ r # "ProtocolIncomplete"
  /\ policy > 0
  /\ ~cancelled

Verdict(r) ==
  CASE r = "QuotaLimited" /\ ~cancelled -> "quota"
    [] MayRetry(r) -> "retry"
    [] ~MayRetry(r) /\ MayWaitOut(r) -> "outage"
    [] OTHER -> "final"

\* A failed stream's forwarder is aborted first; a final one may finish.
Judge ==
  /\ pc = "streaming" /\ provider \in Results
  /\ LET r == Promoted(provider)
     IN /\ result' = r
        /\ pc' = Verdict(r)
        /\ forwarder' = IF Verdict(r) # "final" /\ forwarder = Running
                        THEN "aborting" ELSE forwarder
  /\ UNCHANGED <<given, attempt, longWait, doublings, cancelled, stream,
                 provider, partial, sent, log, streams, after>>

\* forward_handle.await: the aborted task stops at its next await point.
ForwarderStops ==
  /\ forwarder = "aborting"
  /\ forwarder' = "ended"
  /\ UNCHANGED <<given, control, cancelled, stream, provider, partial, sent,
                 log, streams, after>>

\* Mutant: abort() without awaiting the task.
ForwarderIsGone_Aborted == forwarder \in {"aborting", "ended"}

ForwarderIsGone == forwarder = "ended"

WaitForQuota ==
  /\ pc = "quota" /\ ForwarderIsGone
  /\ Emit(<<Event("QuotaWait", doublings)>>)
  /\ longWait' = TRUE
  /\ doublings' = IF doublings < QuotaCap THEN doublings + 1 ELSE doublings
  /\ pc' = "sleeping"
  /\ UNCHANGED <<given, attempt, result, cancelled, tasks, streams, after>>

Retry ==
  /\ pc = "retry" /\ ForwarderIsGone
  /\ Emit(<<Event("CallEnd", attempt), Event("CallRetry", attempt + 1)>>)
  /\ attempt' = attempt + 1
  /\ pc' = "sleeping"
  /\ UNCHANGED <<given, longWait, doublings, result, cancelled, tasks,
                 streams, after>>

WaitOutOutage ==
  /\ pc = "outage" /\ ForwarderIsGone
  /\ Emit(<<Event("OutageWait", 0)>>)
  /\ longWait' = TRUE
  /\ pc' = "sleeping"
  /\ UNCHANGED <<given, attempt, doublings, result, cancelled, tasks,
                 streams, after>>

\* tokio::select! of the timer and the token: either branch when both are due.
Wake ==
  /\ pc = "sleeping"
  /\ pc' = "open"
  /\ UNCHANGED <<given, attempt, longWait, doublings, result,
                 cancelled, tasks, log, streams, after>>

BreakOff ==
  /\ pc = "sleeping" /\ cancelled
  /\ pc' = "resolve"
  /\ result' = "Cancelled"
  /\ UNCHANGED <<given, attempt, longWait, doublings, cancelled, tasks, log,
                 streams, after>>

\* The final stream's events all go out before the call is resolved.
Finish ==
  /\ pc = "final" /\ ForwarderIsGone
  /\ pc' = "resolve"
  /\ UNCHANGED <<given, attempt, longWait, doublings, result,
                 cancelled, tasks, log, streams, after>>

\* A cancelled call is not announced as ended; everything else is.
Resolve ==
  /\ pc = "resolve"
  /\ pc' = "done"
  /\ IF result = "Cancelled" /\ cancelled THEN UNCHANGED log
     ELSE Emit(<<Event("CallEnd", attempt)>>)
  /\ UNCHANGED <<given, attempt, longWait, doublings, result, cancelled,
                 tasks, streams, after>>

Cancel ==
  /\ ~cancelled /\ pc # "done"
  /\ cancelled' = TRUE
  /\ UNCHANGED <<given, control, tasks, log, streams, after>>

Next ==
  \/ Open \/ ProviderSends \/ ProviderReturns
  \/ Forward \/ ForwarderEnds \/ ForwarderStops
  \/ Judge \/ WaitForQuota \/ Retry \/ WaitOutOutage \/ Wake \/ BreakOff
  \/ Finish \/ Resolve \/ Cancel

\* Tasks are scheduled, timers fire, and a silent connection is given up by
\* its read timeout, so a provider always returns. Nobody has to cancel.
Fairness ==
  /\ WF_vars(Open) /\ WF_vars(ProviderReturns)
  /\ WF_vars(ProviderSends)
  /\ WF_vars(Forward) /\ WF_vars(ForwarderEnds) /\ WF_vars(ForwarderStops)
  /\ WF_vars(Judge) /\ WF_vars(WaitForQuota) /\ WF_vars(Retry)
  /\ WF_vars(WaitOutOutage) /\ WF_vars(Wake) /\ WF_vars(BreakOff)
  /\ WF_vars(Finish) /\ WF_vars(Resolve)

Spec == Init /\ [][Next]_vars /\ Fairness

-----------------------------------------------------------------------------
Indices(kinds) == {i \in DOMAIN log : log[i].kind \in kinds}
Messages == {"MessageStart", "MessageUpdate"}
Boundaries == {"CallEnd", "QuotaWait", "OutageWait"}

NoLateDeltas ==
  \A i \in Indices(Boundaries), j \in Indices(Messages) :
    i < j => log[j].stream > log[i].stream
Delivered == Cardinality({i \in Indices({"MessageUpdate"}) :
                            log[i].stream = streams})

\* The run sees every stream in one piece. Once it has seen the stream end, by
\* the end of the call or the beginning of a wait, nothing of that stream
\* follows: a late delta would be shown as part of the next one's answer
\* (llm_call.rs:376-379). And an answer is complete before it is announced.
StreamsArriveWhole ==
  /\ NoLateDeltas
  /\ pc = "done" /\ result = Answer => Delivered = sent /\ stream = <<>>

\* The connection, the gateway or the stream broke, and nothing in what they
\* said blames the request, the account or the model.
Blames(f) ==
  \/ SaysOverflow(f) \/ SaysModelNotFound(f) \/ SaysFatalQuota(f)
  \/ f.type \in PermanentTypes \cup AuthTypes \cup FatalTypes
Outage(f) ==
  /\ ~Blames(f)
  /\ \/ f.at \in {Transport, Inline}
     \/ f.at = Http /\ f.status \in {408, 425, 429} \cup 500..599

\* A failure is repeated when, and only when, a repetition can help. With
\* retries enabled an outage never ends the call, however often it comes and
\* whatever came before it: only the caller gives up (llm_call.rs:23-26,
\* retry.rs:15-23, error.rs:152-164). A request that is too large is never sent
\* again as it is: the driver compacts it (retry.rs:93-95). A cancelled call
\* opens at most one more stream, the one its timer had already started.
RepeatedIfItHelps ==
  failure # NoFailure =>
    /\ pc = "done" /\ result # "Cancelled" /\ Outage(failure)
         => cancelled \/ policy = 0
    /\ SaysOverflow(failure) => pc \notin {"quota", "retry", "outage", "sleeping"}
    /\ after <= 1

\* The status of a request that is too large is the one marker a proxy cannot
\* lose, so it means an overflow whatever the body says (error.rs:321-324).
RequestSizeIsOverflow ==
  failure.status = 413 => result \in {None, "ContextOverflow"}

\* Each call is resolved once the upstream recovers or the caller gives up.
CallResolves == <>(pc = "done")
==============================================================================
