---------------------------- MODULE LlmCallProofs ----------------------------
(***************************************************************************)
(* A call of the provider and the history it is sent.  Whatever fails, is    *)
(* retried, waited out or cancelled, the run sees every stream in one piece  *)
(* (LlmCall); and however the history is compacted, nothing of it is lost    *)
(* (Compaction), for conversations and tails of any length.                  *)
(***************************************************************************)
EXTENDS LlmCall, Compaction, FiniteSetTheorems, WellFoundedInduction, TLAPS

Kinds ==
  {"CallStart", "CallEnd", "CallRetry", "MessageStart", "MessageUpdate", "QuotaWait",
   "OutageWait"}

Entry == [kind : Kinds, stream : Nat, number : Nat]

TypeOK ==
  /\ log \in Seq(Entry) /\ streams \in Nat /\ sent \in Nat
  /\ attempt \in Nat /\ doublings \in Nat
  /\ stream \in Seq({"Start", "Delta"})
  /\ partial \in BOOLEAN
  /\ forwarder \in {None, Running, "aborting", "ended"}

Active == forwarder \in {Running, "aborting"}

\* Where the forwarder may still be at work, and that the provider is not
\* when the forwarder is gone.
Phases ==
  /\ Active => pc \in {"streaming", "quota", "retry", "outage", "final"}
  /\ forwarder = "aborting" => pc \in {"quota", "retry", "outage"}
  /\ forwarder # Running => provider # Running

\* Nothing is logged of a stream before it is opened, and no boundary before
\* its forwarder is gone.
LogIsPast ==
  \A i \in DOMAIN log :
    /\ log[i].stream <= streams
    /\ Active /\ log[i].kind \in Boundaries => log[i].stream # streams

\* A stream is a Start and its deltas.
Shape ==
  \/ partial /\ \A i \in DOMAIN stream : stream[i] = "Delta"
  \/ ~partial /\ stream = <<>> /\ sent = 0
  \/ /\ ~partial /\ stream # <<>> /\ stream[1] = "Start"
     /\ \A i \in DOMAIN stream : i > 1 => stream[i] = "Delta"

Updates(l, n) == {i \in DOMAIN l : l[i].kind = "MessageUpdate" /\ l[i].stream = n}

\* Deltas on their way: all that is in the channel but the Start.
Waiting == IF partial \/ stream = <<>> THEN Len(stream) ELSE Len(stream) - 1

Counted == Cardinality(Updates(log, streams)) + Waiting = sent

Drained ==
  /\ pc \in {"streaming", "final"} /\ forwarder = "ended" => stream = <<>>
  /\ pc \in {"resolve", "done"} /\ result = Answer => stream = <<>>

Inv ==
  /\ TypeOK /\ Phases /\ LogIsPast /\ Shape /\ Counted /\ Drained /\ NoLateDeltas

-----------------------------------------------------------------------------
(* Growing logs. *)

LEMMA Grown ==
  ASSUME NEW l \in Seq(Entry), NEW es \in Seq(Entry)
  PROVE  /\ l \o es \in Seq(Entry)
         /\ DOMAIN (l \o es) = 1 .. (Len(l) + Len(es))
         /\ DOMAIN l = 1 .. Len(l)
         /\ \A i \in DOMAIN l : (l \o es)[i] = l[i]
         /\ \A i \in DOMAIN (l \o es) :
              i \notin DOMAIN l =>
                i - Len(l) \in DOMAIN es /\ (l \o es)[i] = es[i - Len(l)]
  OBVIOUS

LEMMA NothingIsAdded ==
  ASSUME NEW l \in Seq(Entry)
  PROVE  \E es \in Seq(Entry) : es = <<>> /\ l = l \o es /\ DOMAIN es = {}
  <1>1. <<>> \in Seq(Entry) /\ l = l \o <<>>
    OBVIOUS
  <1>2. Len(<<>>) = 0
    OBVIOUS
  <1> DEFINE es == <<>>
  <1>3. DOMAIN es = {}
    OBVIOUS
  <1> HIDE DEF es
  <1>4. es = <<>>
    BY DEF es
  <1> QED BY <1>1, <1>3, <1>4

LEMMA UpdatesAreFinite ==
  ASSUME NEW l \in Seq(Entry), NEW n
  PROVE  IsFiniteSet(Updates(l, n)) /\ Cardinality(Updates(l, n)) \in Nat
  <1>1. Updates(l, n) \in SUBSET (1 .. Len(l)) /\ Len(l) \in Int
    BY DEF Updates
  <1>2. IsFiniteSet(1 .. Len(l))
    BY <1>1, FS_Interval
  <1>3. IsFiniteSet(Updates(l, n))
    BY <1>1, <1>2, FS_Subset
  <1> QED BY <1>3, FS_CardinalityType

(* Events that are no deltas change no count.                                *)
LEMMA SameUpdates ==
  ASSUME NEW l \in Seq(Entry), NEW es \in Seq(Entry), NEW n,
         \A k \in DOMAIN es : es[k].kind # "MessageUpdate"
  PROVE  Updates(l \o es, n) = Updates(l, n)
  <1>1. ASSUME NEW i
        PROVE  i \in Updates(l \o es, n) <=> i \in Updates(l, n)
    BY Grown DEF Updates
  <1> QED BY <1>1

LEMMA OneMoreUpdate ==
  ASSUME NEW l \in Seq(Entry), NEW e \in Entry, e.kind = "MessageUpdate"
  PROVE  Cardinality(Updates(l \o <<e>>, e.stream)) = Cardinality(Updates(l, e.stream)) + 1
  <1> DEFINE n == e.stream
             es == <<e>>
  <1>1. es \in Seq(Entry) /\ Len(es) = 1 /\ es[1] = e /\ DOMAIN es = {1}
    OBVIOUS
  <1> HIDE DEF es
  <1>2. ASSUME NEW i
        PROVE  i \in Updates(l \o es, n) <=> i \in Updates(l, n) \cup {Len(l) + 1}
    <2>1. CASE i \in DOMAIN l
      BY <2>1, <1>1, Grown DEF Updates
    <2>2. CASE i \notin DOMAIN l
      <3>1. Len(l) \in Nat /\ DOMAIN l = 1 .. Len(l)
        OBVIOUS
      <3>2. i \in DOMAIN (l \o es) => i = Len(l) + 1
        BY <2>2, <3>1, <1>1, Grown
      <3>3. Len(l) + 1 \in DOMAIN (l \o es) /\ (l \o es)[Len(l) + 1] = e
        BY <3>1, <1>1, Grown
      <3> QED BY <2>2, <3>2, <3>3 DEF Updates
    <2> QED BY <2>1, <2>2
  <1>3. Updates(l \o es, n) = Updates(l, n) \cup {Len(l) + 1}
    BY <1>2
  <1>4. Len(l) + 1 \notin Updates(l, n)
    BY DEF Updates
  <1>5. IsFiniteSet(Updates(l, n))
    BY UpdatesAreFinite
  <1> QED BY <1>3, <1>4, <1>5, FS_AddElement DEF es

-----------------------------------------------------------------------------
LEMMA InitInv == Init => Inv
  <1> SUFFICES ASSUME Init PROVE Inv
    OBVIOUS
  <1>1. TypeOK
    <2>1. log \in Seq(Entry) /\ stream \in Seq({"Start", "Delta"})
      BY DEF Init
    <2> QED BY <2>1 DEF Init, TypeOK
  <1>2. Updates(log, streams) = {}
    BY DEF Init, Updates
  <1>3. Counted
    BY <1>2, FS_EmptySet DEF Counted, Waiting, Init
  <1> QED
    BY <1>1, <1>3
       DEF Init, Inv, Phases, Active, LogIsPast, Shape, Drained, NoLateDeltas, Indices,
           None, Running, Answer

(* Boundaries and announcements: no messages, of the current stream.         *)
LEMMA AnnouncingKeepsOrder ==
  ASSUME Inv, NEW es \in Seq(Entry), log' = log \o es,
         \A k \in DOMAIN es : es[k].kind \notin Messages /\ es[k].stream <= streams',
         streams' \in Nat, streams <= streams'
  PROVE  /\ log' \in Seq(Entry)
         /\ NoLateDeltas'
         /\ \A i \in DOMAIN log' : log'[i].stream <= streams'
         /\ \A n : Updates(log', n) = Updates(log, n)
  <1>1. log \in Seq(Entry) /\ streams \in Nat
    BY DEF Inv, TypeOK
  <1>2. log' \in Seq(Entry)
    BY <1>1, Grown
  <1>3. ASSUME NEW i \in DOMAIN log'
        PROVE  \/ i \in DOMAIN log /\ log'[i] = log[i]
               \/ /\ i \notin DOMAIN log
                  /\ log'[i].kind \notin Messages /\ log'[i].stream <= streams'
    BY <1>1, Grown
  <1>4. \A i \in DOMAIN log' : log'[i].stream <= streams'
    <2> SUFFICES ASSUME NEW i \in DOMAIN log, log'[i] = log[i]
                 PROVE  log'[i].stream <= streams'
      BY <1>3
    <2>1. log[i] \in Entry /\ log[i].stream <= streams
      BY <1>1 DEF Inv, LogIsPast
    <2> QED BY <1>1, <2>1 DEF Entry
  <1>5. NoLateDeltas'
    <2> SUFFICES ASSUME NEW i \in DOMAIN log', NEW j \in DOMAIN log',
                        log'[i].kind \in Boundaries, log'[j].kind \in Messages, i < j
                 PROVE  log'[j].stream > log'[i].stream
      BY DEF NoLateDeltas, Indices
    <2>1. j \in DOMAIN log /\ log'[j] = log[j]
      BY <1>3
    <2>2. i \in DOMAIN log /\ log'[i] = log[i]
      BY <2>1, <1>1, <1>2, Grown
    <2> QED BY <2>1, <2>2 DEF Inv, NoLateDeltas, Indices
  <1>6. \A n : Updates(log', n) = Updates(log, n)
    BY <1>1, SameUpdates DEF Messages
  <1> QED BY <1>2, <1>4, <1>5, <1>6

-----------------------------------------------------------------------------
(* The loop. *)

OpenedStart == [kind |-> "CallStart", stream |-> streams + 1, number |-> attempt]

LEMMA OpenIsSafe ==
  ASSUME Inv, Open
  PROVE  Inv'
  <1>1. /\ log \in Seq(Entry) /\ streams \in Nat /\ attempt \in Nat
        /\ streams' = streams + 1 /\ streams' \in Nat /\ streams <= streams'
    BY DEF Open, Inv, TypeOK
  <1>2. PICK es \in Seq(Entry) :
          /\ log' = log \o es
          /\ \A k \in DOMAIN es : es[k].kind = "CallStart" /\ es[k].stream = streams'
    <2>1. CASE longWait
      BY <2>1, <1>1, NothingIsAdded DEF Open
    <2>2. CASE ~longWait
      <3>1. OpenedStart \in Entry /\ OpenedStart.kind = "CallStart"
            /\ OpenedStart.stream = streams'
        BY <1>1 DEF OpenedStart, Entry, Kinds
      <3>2. log' = Append(log, OpenedStart)
        BY <2>2 DEF Open, OpenedStart
      <3> HIDE DEF OpenedStart
      <3> DEFINE es == <<OpenedStart>>
      <3>3. es \in Seq(Entry) /\ log' = log \o es
        BY <1>1, <3>1, <3>2
      <3>4. \A k \in DOMAIN es : es[k] = OpenedStart
        OBVIOUS
      <3> HIDE DEF es
      <3> QED BY <3>1, <3>3, <3>4
    <2> QED BY <2>1, <2>2
  <1>3. /\ log' \in Seq(Entry) /\ NoLateDeltas'
        /\ \A i \in DOMAIN log' : log'[i].stream <= streams'
        /\ \A n : Updates(log', n) = Updates(log, n)
    <2>1. \A k \in DOMAIN es : es[k].kind \notin Messages /\ es[k].stream <= streams'
      BY <1>1, <1>2 DEF Messages
    <2> QED BY <1>1, <1>2, <2>1, AnnouncingKeepsOrder
  <1>4. LogIsPast'
    <2>1. ASSUME NEW i \in DOMAIN log', log'[i].kind \in Boundaries
          PROVE  log'[i].stream # streams'
      <3>1. log'[i] = log[i] /\ i \in DOMAIN log
        BY <1>1, <1>2, <2>1, Grown DEF Boundaries
      <3>2. log[i] \in Entry /\ log[i].stream <= streams
        BY <3>1, <1>1 DEF Inv, LogIsPast
      <3> QED BY <3>1, <3>2, <1>1 DEF Entry
    <2> QED BY <1>3, <2>1 DEF LogIsPast
  <1>5. /\ pc' = "streaming" /\ forwarder' = Running /\ stream' = <<>>
        /\ partial' = FALSE /\ sent' = 0 /\ UNCHANGED <<attempt, doublings>>
    BY DEF Open
  <1>6. TypeOK'
    <2>1. stream' \in Seq({"Start", "Delta"})
      BY <1>5
    <2> QED BY <1>1, <1>3, <1>5, <2>1 DEF Inv, TypeOK
  <1>7. Phases'
    BY <1>5 DEF Phases, Running
  <1>8. Shape'
    BY <1>5 DEF Shape
  <1>9. Counted'
    <2>1. Updates(log', streams') = {}
      <3>1. ASSUME NEW i \in DOMAIN log PROVE log[i].stream # streams'
        <4>1. log[i] \in Entry /\ log[i].stream <= streams
          BY <1>1 DEF Inv, LogIsPast
        <4> QED BY <4>1, <1>1 DEF Entry
      <3>2. Updates(log, streams') = {}
        BY <3>1 DEF Updates
      <3> QED BY <3>2, <1>3
    <2> QED BY <2>1, <1>5, FS_EmptySet DEF Counted, Waiting
  <1>10. Drained'
    BY <1>5 DEF Drained, Running
  <1> QED BY <1>3, <1>4, <1>6, <1>7, <1>8, <1>9, <1>10 DEF Inv

(* Steps of the loop between two streams, which log at most boundaries.      *)
LEMMA LoopStepIsSafe ==
  ASSUME Inv, NEW es \in Seq(Entry), log' = log \o es,
         \A k \in DOMAIN es : es[k].kind \notin Messages /\ es[k].stream = streams,
         es # <<>> => ~Active,
         UNCHANGED <<streams, tasks>>,
         attempt' \in Nat, doublings' \in Nat,
         Active => pc' \in {"streaming", "quota", "retry", "outage", "final"},
         forwarder = "aborting" => pc' \in {"quota", "retry", "outage"},
         Drained'
  PROVE  Inv'
  <1>1. log \in Seq(Entry) /\ streams \in Nat /\ streams' = streams
    BY DEF Inv, TypeOK
  <1>2. /\ log' \in Seq(Entry) /\ NoLateDeltas'
        /\ \A i \in DOMAIN log' : log'[i].stream <= streams'
        /\ \A n : Updates(log', n) = Updates(log, n)
    BY <1>1, AnnouncingKeepsOrder, SMTT(30)
  <1>3. UNCHANGED <<stream, provider, forwarder, partial, sent>>
    BY DEF tasks
  <1>4. TypeOK'
    BY <1>1, <1>2, <1>3 DEF Inv, TypeOK
  <1>5. Phases' /\ Active' = Active
    BY <1>3 DEF Inv, Phases, Active
  <1>6. LogIsPast'
    <2>1. CASE Active
      <3>1. log' = log
        BY <2>1, <1>1
      <3> QED BY <3>1, <1>1, <1>5 DEF Inv, LogIsPast
    <2>2. CASE ~Active
      BY <2>2, <1>2, <1>5 DEF LogIsPast
    <2> QED BY <2>1, <2>2
  <1>7. Shape'
    BY <1>3 DEF Inv, Shape
  <1>8. Counted'
    BY <1>1, <1>2, <1>3 DEF Inv, Counted, Waiting
  <1> QED BY <1>2, <1>4, <1>5, <1>6, <1>7, <1>8 DEF Inv

LEMMA QuietStepIsSafe ==
  ASSUME Inv, UNCHANGED <<log, streams, tasks>>,
         attempt' \in Nat, doublings' \in Nat,
         Active => pc' \in {"streaming", "quota", "retry", "outage", "final"},
         forwarder = "aborting" => pc' \in {"quota", "retry", "outage"},
         Drained'
  PROVE  Inv'
  <1>1. PICK es \in Seq(Entry) : es = <<>> /\ log = log \o es /\ DOMAIN es = {}
    BY NothingIsAdded DEF Inv, TypeOK
  <1> QED BY <1>1, LoopStepIsSafe

LEMMA EventType ==
  ASSUME Inv, NEW kind \in Kinds, NEW number \in Nat
  PROVE  /\ Event(kind, number) \in Entry
         /\ Event(kind, number).kind = kind /\ Event(kind, number).stream = streams
  BY DEF Event, Entry, Inv, TypeOK

(* One event that is no message, after the forwarder has gone.               *)
LEMMA AnnouncementIsSafe ==
  ASSUME Inv, NEW kind \in Kinds \ Messages, NEW number \in Nat,
         Emit(<<Event(kind, number)>>), ~Active,
         UNCHANGED <<streams, tasks>>, attempt' \in Nat, doublings' \in Nat, Drained'
  PROVE  Inv'
  <1> DEFINE es == <<Event(kind, number)>>
  <1>1. /\ es \in Seq(Entry)
        /\ \A k \in DOMAIN es : es[k].kind = kind /\ es[k].stream = streams
    BY EventType
  <1>2. log' = log \o es
    BY DEF Emit
  <1> HIDE DEF es
  <1> QED BY <1>1, <1>2, LoopStepIsSafe DEF Active

LEMMA WaitsAreSafe ==
  ASSUME Inv, WaitForQuota \/ WaitOutOutage
  PROVE  Inv'
  <1>1. /\ forwarder = "ended" /\ ~Active /\ pc' = "sleeping" /\ attempt' = attempt
        /\ UNCHANGED <<streams, tasks>>
        /\ doublings' \in Nat /\ attempt' \in Nat /\ doublings \in Nat
    BY DEF WaitForQuota, WaitOutOutage, ForwarderIsGone, Active, Running, Inv, TypeOK
  <1>2. Drained'
    BY <1>1 DEF Drained
  <1>3. "QuotaWait" \in Kinds \ Messages /\ "OutageWait" \in Kinds \ Messages /\ 0 \in Nat
    BY DEF Kinds, Messages
  <1> QED BY <1>1, <1>2, <1>3, AnnouncementIsSafe DEF WaitForQuota, WaitOutOutage

LEMMA RetryIsSafe ==
  ASSUME Inv, Retry
  PROVE  Inv'
  <1>1. /\ forwarder = "ended" /\ ~Active /\ pc' = "sleeping"
        /\ UNCHANGED <<streams, tasks>>
        /\ attempt \in Nat /\ attempt + 1 \in Nat /\ attempt' \in Nat /\ doublings' \in Nat
    BY DEF Retry, ForwarderIsGone, Active, Running, Inv, TypeOK
  <1>2. Drained'
    BY <1>1 DEF Drained
  <1>3. "CallEnd" \in Kinds /\ "CallRetry" \in Kinds
    BY DEF Kinds
  <1> DEFINE one == Event("CallEnd", attempt)
             two == Event("CallRetry", attempt + 1)
             es == <<one, two>>
  <1>4. /\ one \in Entry /\ one.kind = "CallEnd" /\ one.stream = streams
        /\ two \in Entry /\ two.kind = "CallRetry" /\ two.stream = streams
    BY <1>1, <1>3, EventType
  <1>5. log' = log \o es
    BY DEF Retry, Emit
  <1> HIDE DEF one, two
  <1>6. es \in Seq(Entry) /\ \A k \in DOMAIN es : es[k] = one \/ es[k] = two
    BY <1>4
  <1> HIDE DEF es
  <1>7. \A k \in DOMAIN es : es[k].kind \notin Messages /\ es[k].stream = streams
    BY <1>4, <1>6 DEF Messages
  <1> QED BY <1>1, <1>2, <1>5, <1>6, <1>7, LoopStepIsSafe DEF Active

LEMMA ResolveIsSafe ==
  ASSUME Inv, Resolve
  PROVE  Inv'
  <1>1. /\ pc = "resolve" /\ ~Active /\ pc' = "done" /\ result' = result
        /\ UNCHANGED <<streams, tasks>>
        /\ attempt \in Nat /\ attempt' \in Nat /\ doublings' \in Nat
    BY DEF Resolve, Inv, TypeOK, Phases
  <1>2. Drained'
    BY <1>1 DEF Drained, tasks, Inv
  <1>3. "CallEnd" \in Kinds \ Messages
    BY DEF Kinds, Messages
  <1>4. CASE UNCHANGED log
    BY <1>1, <1>2, <1>4, QuietStepIsSafe DEF Active
  <1>5. CASE Emit(<<Event("CallEnd", attempt)>>)
    BY <1>1, <1>2, <1>3, <1>5, AnnouncementIsSafe
  <1> QED BY <1>4, <1>5 DEF Resolve

LEMMA QuietStepsAreSafe ==
  ASSUME Inv, Wake \/ BreakOff \/ Finish \/ Cancel \/ UNCHANGED vars
  PROVE  Inv'
  <1>1. /\ UNCHANGED <<log, streams, tasks>>
        /\ attempt' = attempt /\ doublings' = doublings
    BY DEF Wake, BreakOff, Finish, Cancel, vars, control
  <1>2. attempt' \in Nat /\ doublings' \in Nat
    BY <1>1 DEF Inv, TypeOK
  <1>3. stream' = stream /\ forwarder' = forwarder
    BY <1>1 DEF tasks
  <1>4. CASE Wake \/ BreakOff
    <2>1. ~Active /\ pc' \in {"open", "resolve"} /\ (pc' = "resolve" => result' # Answer)
      BY <1>4 DEF Wake, BreakOff, Inv, Phases, Answer
    <2>2. Drained'
      BY <2>1 DEF Drained
    <2> QED BY <1>1, <1>2, <2>1, <2>2, QuietStepIsSafe DEF Active
  <1>5. CASE Finish
    <2>1. ~Active /\ pc' = "resolve" /\ stream = <<>>
      BY <1>5 DEF Finish, ForwarderIsGone, Active, Running, Inv, Drained
    <2>2. Drained'
      BY <2>1, <1>3 DEF Drained
    <2> QED BY <1>1, <1>2, <2>1, <2>2, QuietStepIsSafe DEF Active
  <1>6. CASE Cancel \/ UNCHANGED vars
    <2>1. pc' = pc /\ result' = result
      BY <1>6 DEF Cancel, vars, control
    <2>2. Drained'
      BY <2>1, <1>3 DEF Drained, Inv
    <2> QED BY <1>1, <1>2, <2>1, <2>2, QuietStepIsSafe DEF Inv, Phases
  <1> QED BY <1>4, <1>5, <1>6

-----------------------------------------------------------------------------
(* The provider and the forwarder. *)

(* What has arrived and what waits add up to what was sent. *)
LEMMA SumIsKept ==
  ASSUME NEW n \in Int, NEW w \in Int, NEW s \in Int, NEW w2 \in Int, NEW s2 \in Int,
         n + w = s, w2 - s2 = w - s
  PROVE  n + w2 = s2
  OBVIOUS

LEMMA OneMoreArrives ==
  ASSUME NEW n \in Int, NEW l \in Int, NEW s \in Int, n + l = s
  PROVE  (n + 1) + (l - 1) = s
  OBVIOUS

LEMMA SameLogIsSafe ==
  ASSUME Inv, UNCHANGED <<log, streams, attempt, doublings>>,
         stream' \in Seq({"Start", "Delta"}), sent' \in Nat, partial' \in BOOLEAN,
         forwarder' \in {None, Running, "aborting", "ended"},
         Active' => Active, Phases', Shape', Drained',
         Waiting' - sent' = Waiting - sent, Waiting' \in Int
  PROVE  Inv'
  <1>1. TypeOK'
    BY DEF Inv, TypeOK
  <1>2. LogIsPast'
    BY DEF Inv, LogIsPast
  <1>3. Counted'
    <2>1. Cardinality(Updates(log, streams)) \in Nat /\ sent \in Nat
      BY UpdatesAreFinite DEF Inv, TypeOK
    <2>2. Updates(log, streams)' = Updates(log, streams)
      BY DEF Updates
    <2>3. Waiting \in Int
      BY DEF Waiting, Inv, TypeOK
    <2>4. PICK n \in Nat : n = Cardinality(Updates(log, streams))
      BY <2>1
    <2>5. Cardinality(Updates(log, streams))' = n
      BY <2>2, <2>4
    <2>6. n + Waiting = sent
      BY <2>4 DEF Inv, Counted
    <2>7. n + Waiting' = sent'
      <3>1. PICK w \in Int, s \in Int, w2 \in Int, s2 \in Int :
              w = Waiting /\ s = sent /\ w2 = Waiting' /\ s2 = sent'
        BY <2>1, <2>3
      <3>2. n + w = s /\ n \in Int
        BY <2>4, <2>6, <3>1
      <3>3. Waiting' - sent' = Waiting - sent
        OBVIOUS
      <3>4. w2 - s2 = w - s
        BY <3>1, <3>3
      <3>5. n + w2 = s2
        BY <3>2, <3>4, SumIsKept
      <3> QED BY <3>1, <3>5
    <2> QED BY <2>5, <2>7 DEF Counted
  <1>4. NoLateDeltas'
    BY DEF Inv, NoLateDeltas, Indices
  <1> QED BY <1>1, <1>2, <1>3, <1>4 DEF Inv

LEMMA JudgeIsSafe ==
  ASSUME Inv, Judge
  PROVE  Inv'
  <1>1. /\ pc = "streaming" /\ pc' \in {"quota", "retry", "outage", "final"}
        /\ UNCHANGED <<log, streams, attempt, doublings, stream, provider, partial, sent>>
    BY DEF Judge, Verdict
  <1>2. /\ provider # Running
        /\ forwarder' = forwarder \/ (pc' # "final" /\ forwarder = Running /\ forwarder' = "aborting")
    <2>1. Running \notin Results
      BY DEF Running, Results, Variants, Answer, Empty
    <2> QED BY <2>1 DEF Judge
  <1>3. forwarder # "aborting"
    BY <1>1 DEF Inv, Phases
  <1>4. Phases' /\ (Active' => Active)
    BY <1>1, <1>2, <1>3 DEF Inv, Phases, Active, Running
  <1>5. Shape'
    BY <1>1 DEF Inv, Shape
  <1>6. Drained'
    BY <1>1, <1>2, <1>3 DEF Inv, Drained
  <1>7. Waiting' = Waiting /\ Waiting \in Int /\ sent' = sent
    BY <1>1 DEF Waiting, Inv, TypeOK
  <1>8. /\ stream' \in Seq({"Start", "Delta"}) /\ sent' \in Nat /\ partial' \in BOOLEAN
        /\ forwarder' \in {None, Running, "aborting", "ended"}
    BY <1>1, <1>2 DEF Inv, TypeOK
  <1> QED BY <1>1, <1>4, <1>5, <1>6, <1>7, <1>8, SameLogIsSafe DEF Inv, TypeOK

LEMMA ProviderReturnsSafely ==
  ASSUME Inv, ProviderReturns
  PROVE  Inv'
  <1>1. /\ provider = Running /\ forwarder = Running
        /\ UNCHANGED <<log, streams, attempt, doublings, stream, partial, sent, forwarder, pc, result>>
    BY DEF ProviderReturns, control, Inv, Phases
  <1>2. Phases' /\ (Active' => Active) /\ Shape' /\ Drained'
    BY <1>1 DEF Inv, Phases, Active, Shape, Drained, Running
  <1>3. Waiting' = Waiting /\ Waiting \in Int /\ sent' = sent
    BY <1>1 DEF Waiting, Inv, TypeOK
  <1>4. /\ stream' \in Seq({"Start", "Delta"}) /\ sent' \in Nat /\ partial' \in BOOLEAN
        /\ forwarder' \in {None, Running, "aborting", "ended"}
    BY <1>1 DEF Inv, TypeOK
  <1> QED BY <1>1, <1>2, <1>3, <1>4, SameLogIsSafe

LEMMA ForwarderEndsSafely ==
  ASSUME Inv, ForwarderEnds \/ ForwarderStops
  PROVE  Inv'
  <1>1. /\ forwarder' = "ended"
        /\ UNCHANGED <<log, streams, attempt, doublings, stream, partial, sent, provider, pc, result>>
    BY DEF ForwarderEnds, ForwarderStops, control
  <1>2. provider # Running /\ (pc \in {"streaming", "final"} => stream = <<>>)
    <2>1. Running \notin Results
      BY DEF Running, Results, Variants, Answer, Empty
    <2>2. CASE ForwarderEnds
      BY <2>1, <2>2 DEF ForwarderEnds
    <2>3. CASE ForwarderStops
      BY <2>3 DEF ForwarderStops, Inv, Phases, Running
    <2> QED BY <2>2, <2>3
  <1>3. Phases' /\ (Active' => Active) /\ Shape' /\ Drained'
    BY <1>1, <1>2 DEF Inv, Phases, Active, Shape, Drained, Running
  <1>4. Waiting' = Waiting /\ Waiting \in Int /\ sent' = sent
    BY <1>1 DEF Waiting, Inv, TypeOK
  <1>5. /\ stream' \in Seq({"Start", "Delta"}) /\ sent' \in Nat /\ partial' \in BOOLEAN
        /\ forwarder' \in {None, Running, "aborting", "ended"}
    BY <1>1 DEF Inv, TypeOK
  <1> QED BY <1>1, <1>3, <1>4, <1>5, SameLogIsSafe

LEMMA ProviderSendsSafely ==
  ASSUME Inv, ProviderSends
  PROVE  Inv'
  <1>1. /\ provider = Running /\ forwarder = Running /\ Active
        /\ UNCHANGED <<log, streams, attempt, doublings, partial, provider, forwarder, pc, result>>
        /\ stream \in Seq({"Start", "Delta"}) /\ sent \in Nat /\ partial \in BOOLEAN
    BY DEF ProviderSends, control, Inv, TypeOK, Phases, Active
  <1>2. PICK new \in {"Start", "Delta"} :
          /\ stream' = Append(stream, new)
          /\ new = "Start" => ~partial /\ stream = <<>> /\ sent = 0 /\ sent' = sent
          /\ new = "Delta" => (partial \/ sent > 0 \/ stream # <<>>) /\ sent' = sent + 1
    <2>1. CASE sent = 0 /\ ~partial /\ stream = <<>> /\ stream' = <<"Start">> /\ sent' = sent
      <3>1. stream' = Append(stream, "Start")
        BY <2>1
      <3> QED BY <2>1, <3>1
    <2>2. CASE /\ partial \/ sent > 0 \/ stream # <<>>
               /\ stream' = Append(stream, "Delta") /\ sent' = sent + 1
      BY <2>2
    <2> QED BY <2>1, <2>2 DEF ProviderSends
  <1>3. /\ Len(stream') = Len(stream) + 1 /\ Len(stream) \in Nat /\ stream' # <<>>
        /\ stream'[Len(stream) + 1] = new
        /\ DOMAIN stream = 1 .. Len(stream) /\ DOMAIN stream' = 1 .. (Len(stream) + 1)
        /\ \A i \in DOMAIN stream : stream'[i] = stream[i]
        /\ stream = <<>> <=> Len(stream) = 0
        /\ stream' \in Seq({"Start", "Delta"})
    BY <1>1, <1>2
  <1>4. Shape'
    <2>1. CASE new = "Start"
      BY <2>1, <1>1, <1>2, <1>3 DEF Shape
    <2>2. CASE new = "Delta" /\ partial
      BY <2>2, <1>1, <1>3 DEF Inv, Shape
    <2>3. CASE new = "Delta" /\ ~partial
      <3>1. stream # <<>> /\ stream[1] = "Start" /\ \A i \in DOMAIN stream : i > 1 => stream[i] = "Delta"
        BY <2>3, <1>1, <1>2 DEF Inv, Shape
      <3> QED BY <2>3, <3>1, <1>1, <1>3 DEF Shape
    <2> QED BY <2>1, <2>2, <2>3, <1>2
  <1>5. Waiting' - sent' = Waiting - sent /\ Waiting' \in Int /\ sent' \in Nat
    BY <1>1, <1>2, <1>3, SMTT(30) DEF Waiting, Inv, Shape
  <1>6. Phases' /\ Active' => Active
    BY <1>1
  <1>7. Phases' /\ Drained'
    BY <1>1 DEF Inv, Phases, Drained, Active, Running
  <1> QED BY <1>1, <1>3, <1>4, <1>5, <1>7, SameLogIsSafe DEF Inv, TypeOK

(* A Start is announced, a delta is shown: none is dropped, as a Start goes   *)
(* before.                                                                    *)
LEMMA ForwardIsSafe ==
  ASSUME Inv, Forward
  PROVE  Inv'
  <1>1. /\ Active /\ stream # <<>> /\ stream' = Tail(stream)
        /\ UNCHANGED <<streams, attempt, doublings, provider, forwarder, sent, pc, result>>
        /\ stream \in Seq({"Start", "Delta"}) /\ sent \in Nat /\ streams \in Nat
        /\ log \in Seq(Entry) /\ partial \in BOOLEAN
        /\ partial' = (partial \/ Head(stream) = "Start")
    BY DEF Forward, control, Active, Inv, TypeOK
  <1>2. /\ Len(stream) \in Nat /\ Len(stream) > 0 /\ Len(stream') = Len(stream) - 1
        /\ DOMAIN stream = 1 .. Len(stream) /\ DOMAIN stream' = 1 .. (Len(stream) - 1)
        /\ \A i \in DOMAIN stream' : stream'[i] = stream[i + 1]
        /\ Head(stream) = stream[1] /\ stream[1] \in {"Start", "Delta"}
        /\ stream' \in Seq({"Start", "Delta"})
    BY <1>1
  <1>3. /\ partial => stream[1] = "Delta"
        /\ ~partial => stream[1] = "Start"
        /\ \A i \in DOMAIN stream : i > 1 => stream[i] = "Delta"
    BY <1>1, <1>2 DEF Inv, Shape
  <1>4. partial' = TRUE
    BY <1>1, <1>2, <1>3
  <1>5. Shape'
    BY <1>2, <1>3, <1>4 DEF Shape
  <1>6. "MessageStart" \in Kinds /\ "MessageUpdate" \in Kinds /\ 0 \in Nat
    BY DEF Kinds
  <1>7. PICK e \in Entry :
          /\ log' = log \o <<e>> /\ e.stream = streams
          /\ e.kind = IF partial THEN "MessageUpdate" ELSE "MessageStart"
    <2>1. CASE partial
      <3>1. log' = log \o <<Event("MessageUpdate", 0)>>
        BY <2>1, <1>2, <1>3 DEF Forward, Emit
      <3> QED BY <2>1, <3>1, <1>6, EventType
    <2>2. CASE ~partial
      <3>1. log' = log \o <<Event("MessageStart", 0)>>
        BY <2>2, <1>2, <1>3 DEF Forward, Emit
      <3> QED BY <2>2, <3>1, <1>6, EventType
    <2> QED BY <2>1, <2>2
  <1> DEFINE es == <<e>>
  <1>8. es \in Seq(Entry) /\ Len(es) = 1 /\ DOMAIN es = {1} /\ es[1] = e /\ log' = log \o es
    BY <1>7
  <1> HIDE DEF es
  <1>9. log' \in Seq(Entry)
    BY <1>1, <1>8, Grown
  <1>10. ASSUME NEW i \in DOMAIN log'
         PROVE  \/ i \in DOMAIN log /\ log'[i] = log[i]
                \/ i \notin DOMAIN log /\ log'[i] = e
    BY <1>1, <1>8, Grown
  <1>11. TypeOK'
    BY <1>1, <1>2, <1>4, <1>9 DEF Inv, TypeOK
  <1>12. Phases' /\ Drained'
    BY <1>1 DEF Inv, Phases, Active, Drained, Running
  <1>13. e.kind \in Messages /\ e.kind \notin Boundaries
    BY <1>7 DEF Messages, Boundaries
  <1>14. LogIsPast'
    <2> SUFFICES ASSUME NEW i \in DOMAIN log'
                 PROVE  /\ log'[i].stream <= streams
                        /\ log'[i].kind \in Boundaries => log'[i].stream # streams
      BY <1>1 DEF LogIsPast
    <2> QED BY <1>1, <1>7, <1>10, <1>13 DEF Inv, LogIsPast
  <1>15. NoLateDeltas'
    <2> SUFFICES ASSUME NEW i \in DOMAIN log', NEW j \in DOMAIN log',
                        log'[i].kind \in Boundaries, log'[j].kind \in Messages, i < j
                 PROVE  log'[j].stream > log'[i].stream
      BY DEF NoLateDeltas, Indices
    <2>1. i \in DOMAIN log /\ log'[i] = log[i]
      BY <1>10, <1>13
    <2>2. CASE j \in DOMAIN log /\ log'[j] = log[j]
      BY <2>1, <2>2 DEF Inv, NoLateDeltas, Indices
    <2>3. CASE log'[j] = e
      <3>1. log[i] \in Entry /\ log[i].stream <= streams /\ log[i].stream # streams
        BY <1>1, <2>1 DEF Inv, LogIsPast
      <3> QED BY <2>1, <2>3, <3>1, <1>1, <1>7 DEF Entry
    <2> QED BY <2>2, <2>3, <1>10
  <1>16. Counted'
    <2>1. PICK n \in Nat : n = Cardinality(Updates(log, streams))
      BY <1>1, UpdatesAreFinite
    <2>2. n + Waiting = sent
      BY <2>1 DEF Inv, Counted
    <2>3. Waiting' = Len(stream) - 1
      BY <1>2, <1>4 DEF Waiting
    <2>4. CASE partial
      <3>1. Cardinality(Updates(log', streams')) = n + 1
        BY <2>1, <2>4, <1>1, <1>7, OneMoreUpdate
      <3>2. Waiting = Len(stream)
        BY <2>4 DEF Waiting
      <3>3. Len(stream) \in Int /\ sent \in Int /\ n + Len(stream) = sent
        BY <2>2, <3>2, <1>1 DEF Inv, TypeOK
      <3>4. (n + 1) + (Len(stream) - 1) = sent
        BY <3>3, OneMoreArrives
      <3> QED BY <2>3, <3>1, <3>4, <1>1 DEF Counted
    <2>5. CASE ~partial
      <3>1. \A k \in DOMAIN es : es[k].kind # "MessageUpdate"
        BY <2>5, <1>7, <1>8
      <3>2. Updates(log', streams') = Updates(log, streams)
        BY <3>1, <1>1, <1>8, SameUpdates
      <3>3. Waiting = Len(stream) - 1
        BY <2>5, <1>1 DEF Waiting
      <3> QED BY <2>1, <2>2, <2>3, <3>2, <3>3, <1>1 DEF Counted
    <2> QED BY <2>4, <2>5
  <1> QED BY <1>5, <1>11, <1>12, <1>14, <1>15, <1>16 DEF Inv

-----------------------------------------------------------------------------
LEMMA StepInv == Inv /\ [Next]_vars => Inv'
  <1> SUFFICES ASSUME Inv, [Next]_vars PROVE Inv'
    OBVIOUS
  <1> QED
    BY OpenIsSafe, ProviderSendsSafely, ProviderReturnsSafely, ForwardIsSafe,
       ForwarderEndsSafely, JudgeIsSafe, WaitsAreSafe, RetryIsSafe, QuietStepsAreSafe,
       ResolveIsSafe DEF Next

LEMMA AlwaysInv == Spec => []Inv
  BY InitInv, StepInv, PTL DEF Spec

LEMMA InvGivesWholeStreams == Inv => StreamsArriveWhole
  <1> SUFFICES ASSUME Inv, pc = "done", result = Answer
               PROVE  Delivered = sent /\ stream = <<>>
    BY DEF StreamsArriveWhole, Inv
  <1>1. stream = <<>>
    BY DEF Inv, Drained
  <1>2. Waiting = 0
    BY <1>1 DEF Waiting
  <1>3. {i \in Indices({"MessageUpdate"}) : log[i].stream = streams} = Updates(log, streams)
    BY DEF Indices, Updates
  <1>4. Cardinality(Updates(log, streams)) \in Nat
    BY UpdatesAreFinite DEF Inv, TypeOK
  <1>5. PICK n \in Nat : n = Cardinality(Updates(log, streams))
    BY <1>4
  <1>6. Delivered = n
    BY <1>3, <1>5 DEF Delivered
  <1>7. n + Waiting = sent
    BY <1>5 DEF Inv, Counted
  <1> QED BY <1>1, <1>2, <1>6, <1>7

(* However many streams fail, whatever is retried or waited out, and whenever *)
(* the caller cancels: no delta follows the end of its stream, and an answer   *)
(* is complete before it is announced (llm_call.rs, the forwarder and the      *)
(* loop that awaits it).                                                      *)
THEOREM StreamsAreWhole == Spec => []StreamsArriveWhole
  BY InvGivesWholeStreams, AlwaysInv, PTL

-----------------------------------------------------------------------------
(***************************************************************************)
(* Repetition.  What a failure means is a function of the failure alone, so *)
(* the argument has two parts: the classification never calls an outage     *)
(* final nor an overflow repeatable, and the loop acts on the               *)
(* classification of the stream it has just read.                           *)
(***************************************************************************)

\* A classification is a variant of ProviderError.
LEMMA ClassifyType == \A f \in Failures : Classify(f) \in Variants
<1> SUFFICES ASSUME NEW f \in Failures
             PROVE  Classify(f) \in Variants
  OBVIOUS
<1>1. ClassifyHttp(f) \in Variants
  BY DEF ClassifyHttp, ClassifyStatus, WithHint, Variants
<1>2. ClassifyInline(f) \in Variants
  BY DEF ClassifyInline, Variants
<1> QED
  BY <1>1, <1>2, FailuresAreKnown
  DEF Classify, Variants, Http, Inline, Transport, CutShort, Internal

\* What is no fault of the request, the account or the model can be repeated.
LEMMA OutageIsRepeatable ==
  ASSUME NEW f \in Failures, Outage(f)
  PROVE  Classify(f) = "QuotaLimited"
         \/ (ShouldRetry(Classify(f), f) /\ Classify(f) # "ProtocolIncomplete")
<1>1. CASE f.at = Http
  <2>1. f.status \in {408, 425, 429} \cup 500..599
    BY <1>1 DEF Outage, Http, Inline, Transport
  <2>2. f.status \notin {401, 403, 413}
    BY <2>1
  <2>3. ClassifyStatus(f) \in {"QuotaLimited", "RateLimited", "Overloaded", "Transient"}
    BY <2>1, <2>2 DEF Outage, Blames, ClassifyStatus
  <2>4. Classify(f) = ClassifyStatus(f)
    BY <1>1, <2>3 DEF Outage, Blames, Classify, ClassifyHttp, WithHint, Http, Inline,
       Transport, CutShort, Internal
  <2> QED
    BY <2>3, <2>4 DEF ShouldRetry
<1>2. CASE f.at = Inline
  <2>1. Classify(f) \in {"QuotaLimited", "RateLimited", "Overloaded", "Transient"}
    BY <1>2 DEF Outage, Blames, Classify, ClassifyInline, Http, Inline, Transport, CutShort,
       Internal
  <2> QED
    BY <2>1 DEF ShouldRetry
<1>3. CASE f.at = Transport
  <2>1. Classify(f) = "Network"
    BY <1>3 DEF Classify, Http, Inline, Transport, CutShort, Internal
  <2> QED
    BY <2>1 DEF ShouldRetry
<1> QED
  BY <1>1, <1>2, <1>3 DEF Outage, Http, Inline, Transport

\* A request that is too large is neither repeated nor waited out.
LEMMA OverflowIsNotRepeatable ==
  ASSUME NEW f \in Failures, SaysOverflow(f)
  PROVE  Classify(f) # "QuotaLimited" /\ ~ShouldRetry(Classify(f), f)
<1>1. f.at \in {Http, Inline, Internal}
  BY FailuresAreKnown DEF SaysOverflow
<1>2. CASE f.at = Http
  <2>1. ClassifyStatus(f) \in {"Auth", "ModelNotFound", "ContextOverflow"}
    BY DEF ClassifyStatus
  <2>2. Classify(f) = ClassifyStatus(f)
    BY <1>2, <2>1 DEF Classify, ClassifyHttp, WithHint, Http, Inline, Transport, CutShort, Internal
  <2> QED
    BY <2>1, <2>2 DEF ShouldRetry
<1>3. CASE f.at = Inline
  <2>1. Classify(f) \in {"Auth", "ModelNotFound", "ContextOverflow"}
    BY <1>3 DEF Classify, ClassifyInline, Http, Inline, Transport, CutShort, Internal
  <2> QED
    BY <2>1 DEF ShouldRetry
<1>4. CASE f.at = Internal
  <2>1. Classify(f) = "Api"
    BY <1>4 DEF Classify, Http, Inline, Transport, CutShort, Internal
  <2> QED
    BY <2>1 DEF ShouldRetry
<1> QED
  BY <1>1, <1>2, <1>3, <1>4

\* The failure of the current stream is what its provider returned.
Known == failure # NoFailure => failure \in Failures /\ provider = Classify(failure)

Judging == provider = Running => pc = "streaming"

HelpWasTried ==
  pc \in {"final", "resolve", "done"} /\ result # "Cancelled" /\ Outage(failure)
    => cancelled \/ policy = 0

OverflowEnds == SaysOverflow(failure) => pc \notin {"quota", "retry", "outage", "sleeping"}

\* A cancelled call that has opened its one late stream will open no other.
LateStreams ==
  /\ after \in Nat /\ after <= 1
  /\ after = 1 => cancelled /\ pc \in {"streaming", "final", "resolve", "done"}

RepeatInv ==
  /\ policy \in Nat
  /\ Known /\ Judging /\ HelpWasTried /\ OverflowEnds /\ LateStreams

\* No failure is neither an outage nor an overflow.
LEMMA NoFailureMeansNothing == ~Outage(NoFailure) /\ ~SaysOverflow(NoFailure)
BY DEF Outage, SaysOverflow, NoFailure, Http, Inline, Transport

\* Nothing has been repeated at the start.
LEMMA InitRepeat == Init => RepeatInv
BY NoFailureMeansNothing, ConstantsAreNaturals
DEF Init, RepeatInv, Known, Judging, HelpWasTried, OverflowEnds, LateStreams, Running, None

\* A new stream starts with a clean slate.
LEMMA OpenRepeats ==
  ASSUME RepeatInv, Open
  PROVE  RepeatInv'
<1>1. failure' = NoFailure /\ pc' = "streaming" /\ UNCHANGED <<policy, cancelled>>
  BY DEF Open
<1>2. LateStreams'
  BY DEF Open, RepeatInv, LateStreams
<1> QED
  BY <1>1, <1>2, NoFailureMeansNothing
  DEF RepeatInv, Known, Judging, HelpWasTried, OverflowEnds

\* A provider that is still running has failed at nothing yet, and what it then
\* fails with is classified as it is kept.
LEMMA ProviderRepeats ==
  ASSUME RepeatInv, ProviderReturns
  PROVE  RepeatInv'
<1>1. UNCHANGED <<policy, pc, result, cancelled, after>> /\ pc = "streaming"
  BY DEF ProviderReturns, control, RepeatInv, Judging
<1>2. failure = NoFailure
  <2>1. \A f \in Failures : Classify(f) # Running
    BY ClassifyType DEF Variants, Running
  <2> QED
    BY <2>1 DEF ProviderReturns, RepeatInv, Known
<1>3. Known'
  <2>1. ASSUME NEW f \in Failures, Fails(f)
        PROVE  Known'
    BY <2>1 DEF Fails, Known
  <2>2. ASSUME NEW r, EndsWith(r)
        PROVE  Known'
    BY <1>2, <2>2 DEF EndsWith, Known
  <2> QED
    BY <2>1, <2>2 DEF ProviderReturns
<1> QED
  BY <1>1, <1>3 DEF RepeatInv, Judging, HelpWasTried, OverflowEnds, LateStreams

\* The loop's decision: final only for what cannot be repeated, and never
\* anything else once the call is cancelled.
LEMMA JudgeRepeats ==
  ASSUME RepeatInv, Judge
  PROVE  RepeatInv'
<1> DEFINE r == Promoted(provider)
<1>1. /\ pc' = Verdict(r) /\ result' = r /\ provider \in Results
      /\ UNCHANGED <<policy, failure, cancelled, provider, after>>
  BY DEF Judge, given
<1>2. pc' \in {"quota", "retry", "outage", "final"}
  BY <1>1 DEF Verdict
<1>3. failure # NoFailure => failure \in Failures /\ r = Classify(failure)
  <2>1. Empty \notin Variants
    BY DEF Empty, Variants
  <2> QED
    BY <2>1, ClassifyType DEF RepeatInv, Known, Promoted
<1>4. Known' /\ Judging'
  BY <1>1, ClassifyType
  DEF RepeatInv, Known, Judging, Results, Variants, Running, Answer, Empty
<1>5. HelpWasTried'
  <2> SUFFICES ASSUME pc' = "final", Outage(failure), ~cancelled, policy # 0
               PROVE  FALSE
    BY <1>1, <1>2 DEF HelpWasTried
  <2>1. failure \in Failures /\ r = Classify(failure)
    BY <1>3, NoFailureMeansNothing
  <2>2. r = "QuotaLimited" \/ (ShouldRetry(r, failure) /\ r # "ProtocolIncomplete")
    BY <2>1, OutageIsRepeatable
  <2>3. r # "QuotaLimited"
    BY <1>1 DEF Verdict
  <2>4. MayWaitOut(r)
    BY <2>2, <2>3 DEF MayWaitOut, RepeatInv
  <2> QED
    BY <1>1, <2>4 DEF Verdict
<1>6. OverflowEnds'
  <2> SUFFICES ASSUME SaysOverflow(failure), pc' # "final"
               PROVE  FALSE
    BY <1>1, <1>2 DEF OverflowEnds
  <2>1. failure \in Failures /\ r = Classify(failure)
    BY <1>3, NoFailureMeansNothing
  <2>2. r # "QuotaLimited" /\ ~ShouldRetry(r, failure)
    BY <2>1, OverflowIsNotRepeatable
  <2> QED
    BY <1>1, <2>2 DEF Verdict, MayRetry, MayWaitOut
<1>7. LateStreams'
  <2>1. cancelled => pc' = "final"
    BY <1>1 DEF Verdict, MayRetry, MayWaitOut
  <2> QED
    BY <1>1, <2>1 DEF RepeatInv, LateStreams
<1> QED
  BY <1>1, <1>4, <1>5, <1>6, <1>7 DEF RepeatInv

\* The waits, and the timer that ends them, act on a verdict already given.
LEMMA WaitRepeats ==
  ASSUME RepeatInv, WaitForQuota \/ Retry \/ WaitOutOutage \/ Wake
  PROVE  RepeatInv'
<1>1. /\ UNCHANGED <<policy, failure, provider, cancelled, after>>
      /\ pc \in {"quota", "retry", "outage", "sleeping"}
      /\ pc' \in {"sleeping", "open"}
  BY DEF WaitForQuota, Retry, WaitOutOutage, Wake, given, tasks
<1>2. Known' /\ Judging'
  BY <1>1 DEF RepeatInv, Known, Judging
<1>3. HelpWasTried' /\ OverflowEnds' /\ LateStreams'
  BY <1>1 DEF RepeatInv, HelpWasTried, OverflowEnds, LateStreams
<1> QED
  BY <1>1, <1>2, <1>3 DEF RepeatInv

\* The ways out of the loop keep what the verdict established.
LEMMA EndRepeats ==
  ASSUME RepeatInv, BreakOff \/ Finish \/ Resolve
  PROVE  RepeatInv'
<1>1. /\ UNCHANGED <<policy, failure, provider, cancelled, after>>
      /\ pc' \in {"resolve", "done"}
      /\ pc \in {"sleeping", "final", "resolve"}
      /\ \/ result' = "Cancelled"
         \/ pc \in {"final", "resolve"} /\ result' = result
  BY DEF BreakOff, Finish, Resolve, given, tasks
<1>2. Known' /\ Judging'
  BY <1>1 DEF RepeatInv, Known, Judging
<1>3. HelpWasTried' /\ OverflowEnds' /\ LateStreams'
  BY <1>1 DEF RepeatInv, HelpWasTried, OverflowEnds, LateStreams
<1> QED
  BY <1>1, <1>2, <1>3 DEF RepeatInv

\* The streams' own traffic, a cancellation and a stutter decide nothing.
LEMMA TrafficRepeats ==
  ASSUME RepeatInv,
         ProviderSends \/ Forward \/ ForwarderEnds \/ ForwarderStops \/ Cancel
         \/ UNCHANGED vars
  PROVE  RepeatInv'
<1>1. /\ UNCHANGED <<policy, failure, provider, pc, result, after>>
      /\ cancelled => cancelled'
  BY DEF ProviderSends, Forward, ForwarderEnds, ForwarderStops, Cancel, given, control, tasks,
     vars
<1> QED
  BY <1>1 DEF RepeatInv, Known, Judging, HelpWasTried, OverflowEnds, LateStreams

\* Every step of the call preserves RepeatInv.
LEMMA StepRepeats == RepeatInv /\ [Next]_vars => RepeatInv'
BY OpenRepeats, ProviderRepeats, JudgeRepeats, WaitRepeats, EndRepeats, TrafficRepeats DEF Next

\* Whatever fails and however often, an outage ends no call that may retry, an
\* overflow is never sent again as it was, and a cancelled call opens at most
\* one more stream (llm_call.rs, the retry loop; error.rs, the classification).
THEOREM FailuresAreRepeated == Spec => []RepeatedIfItHelps
<1>1. RepeatInv => RepeatedIfItHelps
  BY DEF RepeatInv, HelpWasTried, OverflowEnds, LateStreams, RepeatedIfItHelps
<1> QED
  BY <1>1, InitRepeat, StepRepeats, PTL DEF Spec

-----------------------------------------------------------------------------
(* Compactions. *)

Ops == {NoOp} \cup ({"read", "edit", "grep"} \X Files)
Summaries == [written : BOOLEAN, users : SUBSET Nat, ops : SUBSET Ops]
Msg ==
  [role : {"user", "assistant", "result"}, id : Nat, op : Ops, size : Nat,
   brief : BOOLEAN, text : Summaries, native : Summaries]

CompactionTypes ==
  /\ messages \in Seq(Msg)
  /\ state \in [ops : SUBSET Ops, summary : Summaries, inContext : BOOLEAN, generation : Nat]
  /\ said \in Nat
  /\ touched \subseteq Ops

(* One summary stands, at the head, and the state knows in which form.      *)
OneStands ==
  /\ \A i \in DOMAIN messages : Stands(messages[i]) =>
       i = 1 /\ state.summary.written /\ messages[1].id = 0 /\ messages[1].op = NoOp
  /\ state.summary.written => /\ messages # <<>>
                              /\ IF state.inContext THEN IsSummary(messages[1])
                                 ELSE IsReplacement(messages[1])
  /\ state.inContext => state.summary.written

GoneIsRemembered ==
  /\ Remembers(state.summary)
  /\ ~state.summary.written => Remembers(NoSummary)
  /\ messages # <<>> /\ IsReplacement(messages[1]) => Remembers(messages[1].native)

(* The first message stands at the head until it is in a summary.            *)
FirstIsKept ==
  /\ 1 \notin omitted
  /\ said = 0 => messages = <<>> /\ ~state.summary.written
  /\ \A i \in DOMAIN messages :
       /\ messages[i].id = 1 => i = 1 /\ ~state.summary.written

(* What was read and edited has been counted, or can still be.               *)
WorkIsCounted ==
  /\ Worked \subseteq state.ops \cup {messages[i].op : i \in DOMAIN messages}
  /\ state.summary.written => state.ops \subseteq state.summary.ops

CompactionInv ==
  /\ CompactionTypes /\ OneStands /\ GoneIsRemembered /\ FirstIsKept /\ WorkIsCounted

(* The least and the greatest of a set of naturals.                          *)
Least(S, n) == n \in S /\ \A m \in S : n <= m

(* A set of naturals has a least element.                                    *)
LEMMA LeastExists == ASSUME NEW S, S \subseteq Nat, S # {} PROVE \E n \in Nat : Least(S, n)
<1> DEFINE below == {p \in Nat \X Nat : p[1] < p[2]}
<1>1. IsWellFoundedOn(below, Nat)
  <2>1. below = OpToRel(<, Nat)
    BY DEF OpToRel
  <2> QED
    BY <2>1, NatLessThanWellFounded
<1>2. PICK n \in S : \A m \in S : <<m, n>> \notin below
  BY <1>1, WFMin
<1>3. ASSUME NEW m \in S PROVE n <= m
  <2>1. m \in Nat /\ n \in Nat /\ <<m, n>> \notin below
    BY <1>2
  <2> QED
    BY <2>1
<1> QED
  BY <1>3 DEF Least

(* So what Min and Max choose is in the set.                                 *)
LEMMA MinIsIn == ASSUME NEW S, S \subseteq Nat, S # {} PROVE Min(S) \in S
<1>1. PICK n \in Nat : Least(S, n)
  BY LeastExists
<1> QED
  BY <1>1 DEF Min, Least

LEMMA MaxIsIn ==
  ASSUME NEW n \in Nat, NEW S, S \subseteq 0 .. n, S # {} PROVE Max(S) \in S
<1> DEFINE above == {m \in Nat : \A x \in S : x <= m}
<1>1. above # {} /\ above \subseteq Nat
  <2>1. n \in above
    OBVIOUS
  <2> QED
    BY <2>1
<1>2. PICK m \in Nat : Least(above, m)
  BY <1>1, LeastExists
<1>3. m \in S
  <2> SUFFICES ASSUME m \notin S PROVE FALSE
    OBVIOUS
  <2>1. \A x \in S : x \in Nat /\ x <= m /\ x # m
    BY <1>2 DEF Least
  <2>2. m # 0
    <3>1. PICK x \in S : TRUE
      OBVIOUS
    <3> QED
      BY <2>1, <3>1
  <2>3. m - 1 \in above
    BY <2>1, <2>2
  <2> QED
    BY <1>2, <2>3 DEF Least
<1>4. \A x \in S : m >= x
  BY <1>2 DEF Least
<1> QED
  BY <1>3, <1>4 DEF Max

-----------------------------------------------------------------------------
(* A plan evicts the first message at least, and a turn that it cuts begins   *)
(* among the evicted.                                                         *)
LEMMA PlanIs ==
  ASSUME NEW ms \in Seq(Msg), NEW minimum \in Nat, NEW plan \in PlanMessages(ms, minimum)
  PROVE  plan.kept \in 2 .. Len(ms) + 1 /\ plan.turn \in 1 .. plan.kept
<1> DEFINE first == FindFirstKept(ms)
           last == Min({minimum, Len(ms) + 1})
           kept == Max({first, last})
           users == {i \in 1 .. kept - 1 : IsUser(ms[i])}
<1>1. Len(ms) \in Nat /\ DOMAIN ms = 1 .. Len(ms)
  OBVIOUS
<1>2. ms # <<>> /\ ~(kept <= 1) /\ plan = [kept |-> kept, turn |-> DetectSplitTurn(ms, kept)]
  BY DEF PlanMessages
<1>3. first \in 1 .. Len(ms)
  <2>1. Len(ms) > 0
    BY <1>1, <1>2
  <2>2. ASSUME NEW cuts, cuts \subseteq ValidCuts(ms), cuts # {} PROVE Min(cuts) \in 1 .. Len(ms)
    <3>1. cuts \subseteq 1 .. Len(ms) /\ cuts \subseteq Nat
      BY <1>1, <2>2 DEF ValidCuts
    <3>2. Min(cuts) \in cuts
      BY <2>2, <3>1, MinIsIn
    <3> QED
      BY <3>1, <3>2
  <2>3. \A x : SnapForward(ms, x) \subseteq ValidCuts(ms)
    BY DEF SnapForward
  <2> HIDE DEF first
  <2>4. \/ first = 1
        \/ \E cuts : cuts \subseteq ValidCuts(ms) /\ cuts # {} /\ first = Min(cuts)
    BY <2>3 DEF first, FindFirstKept
  <2> QED
    BY <1>1, <2>1, <2>2, <2>4
<1>4. last \in 0 .. Len(ms) + 1
  <2>1. last \in {minimum, Len(ms) + 1} /\ last <= Len(ms) + 1
    <3>1. Min({minimum, Len(ms) + 1}) =
            CHOOSE x \in {minimum, Len(ms) + 1} : \A y \in {minimum, Len(ms) + 1} : x =< y
      BY DEF Min
    <3>2. \E x \in {minimum, Len(ms) + 1} : \A y \in {minimum, Len(ms) + 1} : x =< y
      BY <1>1
    <3> QED
      BY <3>1, <3>2
  <2> QED
    BY <1>1, <2>1
<1> HIDE DEF first, last
<1>5. kept \in {first, last}
  <2>1. {first, last} \subseteq 0 .. Len(ms) + 1 /\ {first, last} # {} /\ Len(ms) + 1 \in Nat
    BY <1>1, <1>3, <1>4
  <2> QED
    BY <1>1, <2>1, MaxIsIn
<1>6. kept \in 2 .. Len(ms) + 1
  BY <1>1, <1>2, <1>3, <1>4, <1>5
<1> HIDE DEF kept
<1>7. DetectSplitTurn(ms, kept) \in 1 .. kept
  <2>1. CASE users = {} \/ kept > Len(ms) \/ IsUser(ms[kept])
    BY <1>6, <2>1 DEF DetectSplitTurn
  <2>2. CASE ~(users = {} \/ kept > Len(ms) \/ IsUser(ms[kept]))
    <3>1. DetectSplitTurn(ms, kept) = Max(users)
      BY <2>2 DEF DetectSplitTurn
    <3>2. users \subseteq 0 .. kept /\ kept \in Nat
      BY <1>6
    <3>3. Max(users) \in users
      BY <2>2, <3>2, MaxIsIn
    <3> QED
      BY <1>6, <3>1, <3>3
  <2> QED
    BY <2>1, <2>2
<1> QED
  BY <1>2, <1>6, <1>7

(* What a part of a sequence is.                                             *)
LEMMA PartIs ==
  ASSUME NEW S, NEW s \in Seq(S), NEW m \in Nat, NEW n \in Nat,
         m >= 1, n <= Len(s), m <= n + 1
  PROVE  LET part == SubSeq(s, m, n)
         IN /\ part \in Seq(S) /\ Len(part) = n + 1 - m
            /\ \A i \in 1 .. Len(part) : part[i] = s[i + (m - 1)]
<1> DEFINE f == SubSeq(s, m, n)
<1>1. f = [i \in 1 .. (1 + n - m) |-> s[i + m - 1]]
  OBVIOUS
<1> DEFINE l == n + 1 - m
<1>2. l \in Nat /\ f = [i \in 1 .. l |-> f[i]]
  BY <1>1
<1>3. \A i \in 1 .. l : f[i] = s[i + (m - 1)]
  BY <1>1
<1>4. \A i \in 1 .. l : f[i] \in S
  BY <1>1
<1> HIDE DEF f, l
<1>5. [i \in 1 .. l |-> f[i]] \in Seq(S)
  BY <1>2, <1>4
<1>6. f \in Seq(S)
  BY <1>2, <1>5
<1>7. Len(f) = l
  BY <1>2, <1>6
<1> QED
  BY <1>3, <1>6, <1>7 DEF f, l

(* Msg that differ in their size at most.                               *)
Alike(ms, ns) ==
  /\ ms \in Seq(Msg) /\ ns \in Seq(Msg) /\ Len(ms) = Len(ns)
  /\ \A i \in 1 .. Len(ms) :
       /\ ms[i].role = ns[i].role /\ ms[i].id = ns[i].id /\ ms[i].op = ns[i].op
       /\ ms[i].text = ns[i].text /\ ms[i].native = ns[i].native

(* A result that is cleared for its age changes in its size.                  *)
LEMMA ClearedIsMessage ==
  ASSUME NEW m \in Msg
  PROVE  LET n == [m EXCEPT !.size = 1]
         IN /\ n \in Msg /\ n.role = m.role /\ n.id = m.id /\ n.op = m.op
            /\ n.text = m.text /\ n.native = m.native
  BY DEF Msg

LEMMA ReclaimIsAlike ==
  ASSUME NEW ms \in Seq(Msg) PROVE Alike(Reclaim(ms), ms)
<1>1. Len(ms) \in Nat /\ DOMAIN ms = 1 .. Len(ms) /\ \A i \in 1 .. Len(ms) : ms[i] \in Msg
  OBVIOUS
<1> DEFINE cleared(i) == ms[i].brief /\ \E j \in i + 1 .. Len(ms) : IsUser(ms[j])
           f == [i \in 1 .. Len(ms) |-> IF cleared(i) THEN [ms[i] EXCEPT !.size = 1] ELSE ms[i]]
<1>2. Reclaim(ms) = f
  BY <1>1 DEF Reclaim
<1>3. ASSUME NEW i \in 1 .. Len(ms)
      PROVE  /\ f[i] \in Msg
             /\ f[i].role = ms[i].role /\ f[i].id = ms[i].id /\ f[i].op = ms[i].op
             /\ f[i].text = ms[i].text /\ f[i].native = ms[i].native
  <2> HIDE DEF cleared
  <2>1. f[i] = IF cleared(i) THEN [ms[i] EXCEPT !.size = 1] ELSE ms[i]
    OBVIOUS
  <2>2. ms[i] \in Msg
    BY <1>1
  <2> DEFINE n == [ms[i] EXCEPT !.size = 1]
  <2>3. /\ n \in Msg /\ n.role = ms[i].role /\ n.id = ms[i].id /\ n.op = ms[i].op
        /\ n.text = ms[i].text /\ n.native = ms[i].native
    BY <2>2, ClearedIsMessage
  <2>4. f[i] = IF cleared(i) THEN n ELSE ms[i]
    BY <2>1
  <2> HIDE DEF f, n
  <2> QED
    BY <2>2, <2>3, <2>4
<1>4. f \in Seq(Msg) /\ Len(f) = Len(ms)
  <2>1. f = [i \in 1 .. Len(ms) |-> f[i]]
    OBVIOUS
  <2> HIDE DEF f
  <2> QED
    BY <1>1, <1>3, <2>1
<1> HIDE DEF f
<1> QED
  BY <1>2, <1>3, <1>4 DEF Alike

LEMMA AlikeTransitive ==
  ASSUME NEW ms, NEW ns, NEW os, Alike(ms, ns), Alike(ns, os) PROVE Alike(ms, os)
  BY DEF Alike

(* The messages before a summary is taken out are the same from there on.    *)
Shift == IF state.inContext THEN 1 ELSE 0

(* The copy of the summary before, when the context has one, is at its head.  *)
LEMMA PreviousIs ==
  ASSUME CompactionTypes, OneStands
  PROVE  /\ Previous = IF state.inContext THEN {1} ELSE {}
         /\ state.inContext => Min(Previous) = 1 /\ Len(messages) >= 1
<1>1. Len(messages) \in Nat /\ DOMAIN messages = 1 .. Len(messages)
  BY DEF CompactionTypes
<1>2. CASE ~state.inContext
  BY <1>2 DEF Previous
<1>3. CASE state.inContext
  <2>1. messages # <<>> /\ IsSummary(messages[1])
    BY <1>3 DEF OneStands
  <2>2. Len(messages) >= 1
    BY <1>1, <2>1 DEF CompactionTypes
  <2>3. \A i \in DOMAIN messages : IsSummary(messages[i]) => i = 1
    BY DEF OneStands, Stands
  <2>4. Previous = {1}
    BY <1>1, <1>3, <2>1, <2>2, <2>3 DEF Previous
  <2>5. Min({1}) = 1
    BY MinIsIn
  <2> QED
    BY <1>3, <2>2, <2>4, <2>5
<1> QED
  BY <1>2, <1>3

LEMMA WithoutPreviousIs ==
  ASSUME CompactionTypes, OneStands
  PROVE  /\ WithoutPrevious \in Seq(Msg)
         /\ Len(WithoutPrevious) = Len(messages) - Shift
         /\ \A i \in 1 .. Len(WithoutPrevious) : WithoutPrevious[i] = messages[i + Shift]
<1>1. messages \in Seq(Msg) /\ Len(messages) \in Nat
  BY DEF CompactionTypes
<1>2. CASE ~state.inContext
  BY <1>1, <1>2, PreviousIs DEF WithoutPrevious, Shift
<1>3. CASE state.inContext
  <2>1. WithoutPrevious = SubSeq(messages, 1, 0) \o SubSeq(messages, 2, Len(messages))
        /\ Len(messages) >= 1
    <3>1. Previous = {1} /\ Min(Previous) = 1 /\ Len(messages) >= 1
      BY <1>3, PreviousIs
    <3>2. WithoutPrevious = RemoveAt(messages, 1)
      BY <3>1 DEF WithoutPrevious
    <3>3. RemoveAt(messages, 1) = SubSeq(messages, 1, 1 - 1) \o SubSeq(messages, 1 + 1, Len(messages))
      BY DEF RemoveAt
    <3>4. 1 - 1 = 0 /\ 1 + 1 = 2
      OBVIOUS
    <3> QED
      BY <3>1, <3>2, <3>3, <3>4
  <2>2. SubSeq(messages, 1, 0) = <<>>
    BY <1>1
  <2> DEFINE tail == SubSeq(messages, 2, Len(messages))
  <2>3. /\ tail \in Seq(Msg) /\ Len(tail) = Len(messages) - 1
        /\ \A i \in 1 .. Len(tail) : tail[i] = messages[i + 1]
    <3>1. 2 \in Nat /\ 2 >= 1 /\ Len(messages) <= Len(messages) /\ 2 <= Len(messages) + 1
      BY <1>1, <2>1
    <3>2. /\ tail \in Seq(Msg) /\ Len(tail) = Len(messages) + 1 - 2
          /\ \A i \in 1 .. Len(tail) : tail[i] = messages[i + (2 - 1)]
      BY <1>1, <3>1, PartIs, ZenonT(60)
    <3>3. Len(messages) + 1 - 2 = Len(messages) - 1 /\ 2 - 1 = 1
      BY <1>1
    <3> QED
      BY <3>2, <3>3
  <2> HIDE DEF tail
  <2>4. WithoutPrevious = tail
    BY <2>1, <2>2, <2>3 DEF tail
  <2> QED
    BY <1>3, <2>3, <2>4 DEF Shift
<1> QED
  BY <1>2, <1>3

(* When nothing comes of a compaction, every message is where it was.        *)
LEMMA RestoredIsAlike ==
  ASSUME CompactionTypes, OneStands PROVE Alike(Restored(Reclaim(WithoutPrevious)), messages)
<1> DEFINE ms == Reclaim(WithoutPrevious)
<1>1. messages \in Seq(Msg) /\ Len(messages) \in Nat
  BY DEF CompactionTypes
<1>2. Alike(ms, WithoutPrevious)
  BY WithoutPreviousIs, ReclaimIsAlike
<1> HIDE DEF ms
<1>3. CASE ~state.inContext
  <2>1. Restored(ms) = ms /\ WithoutPrevious = messages
    BY <1>3, PreviousIs DEF Restored, WithoutPrevious
  <2> QED
    BY <1>2, <2>1 DEF ms
<1>4. CASE state.inContext
  <2>1. Restored(ms) = SubSeq(ms, 1, 0) \o <<messages[1]>> \o SubSeq(ms, 1, Len(ms))
        /\ Len(messages) >= 1
    <3>1. Previous = {1} /\ Min(Previous) = 1 /\ Len(messages) >= 1
      BY <1>4, PreviousIs
    <3>2. Restored(ms) = InsertAt(ms, 1, messages[1])
      BY <3>1 DEF Restored
    <3>3. InsertAt(ms, 1, messages[1])
            = SubSeq(ms, 1, 1 - 1) \o <<messages[1]>> \o SubSeq(ms, 1, Len(ms))
      BY DEF InsertAt
    <3>4. 1 - 1 = 0
      OBVIOUS
    <3> QED
      BY <3>1, <3>2, <3>3, <3>4
  <2>2. /\ ms \in Seq(Msg) /\ Len(ms) = Len(messages) - 1 /\ messages[1] \in Msg
        /\ \A i \in 1 .. Len(ms) : WithoutPrevious[i] = messages[i + 1]
    <3>1. Shift = 1
      BY <1>4 DEF Shift
    <3>2. /\ Len(WithoutPrevious) = Len(messages) - 1
          /\ \A i \in 1 .. Len(WithoutPrevious) : WithoutPrevious[i] = messages[i + 1]
      BY <3>1, WithoutPreviousIs
    <3>3. ms \in Seq(Msg) /\ Len(ms) = Len(WithoutPrevious)
      BY <1>2 DEF Alike
    <3>4. messages[1] \in Msg
      BY <1>1, <2>1
    <3> QED
      BY <3>2, <3>3, <3>4
  <2>3. SubSeq(ms, 1, 0) = <<>> /\ SubSeq(ms, 1, Len(ms)) = ms
    BY <2>2
  <2>4. Restored(ms) = <<messages[1]>> \o ms
    BY <2>1, <2>2, <2>3
  <2> DEFINE ns == <<messages[1]>> \o ms
  <2>5. /\ ns \in Seq(Msg) /\ Len(ns) = Len(messages) /\ ns[1] = messages[1]
        /\ \A i \in 2 .. Len(ns) : ns[i] = ms[i - 1]
    BY <2>1, <2>2
  <2> HIDE DEF ns
  <2>6. ASSUME NEW i \in 1 .. Len(ns)
        PROVE  /\ ns[i].role = messages[i].role /\ ns[i].id = messages[i].id
               /\ ns[i].op = messages[i].op /\ ns[i].text = messages[i].text
               /\ ns[i].native = messages[i].native
    <3>1. CASE i = 1
      BY <2>5, <3>1
    <3>2. CASE i # 1
      <4>1. i \in 2 .. Len(ns) /\ i - 1 \in 1 .. Len(ms) /\ (i - 1) + 1 = i
        BY <2>2, <2>5, <3>2
      <4>2. ns[i] = ms[i - 1] /\ WithoutPrevious[i - 1] = messages[i]
        BY <2>2, <2>5, <4>1
      <4> QED
        BY <1>2, <4>1, <4>2 DEF Alike
    <3> QED
      BY <3>1, <3>2
  <2> QED
    BY <1>1, <2>4, <2>5, <2>6 DEF Alike, ms, ns
<1> QED
  BY <1>3, <1>4

(* Requests are known by their numbers.                                       *)
LEMMA UsersAreNumbers ==
  ASSUME NEW ms \in Seq(Msg) PROVE UsersOf(ms) \subseteq Nat
<1>1. \A i \in DOMAIN ms : ms[i] \in Msg
  OBVIOUS
<1>2. \A m \in Msg : m.id \in Nat
  BY DEF Msg
<1> QED
  BY <1>1, <1>2 DEF UsersOf

LEMMA OneUser ==
  ASSUME NEW m \in Msg PROVE UsersOf(<<m>>) = IF IsUser(m) THEN {m.id} \ {0} ELSE {}
<1> DEFINE s == <<m>>
<1>1. DOMAIN s = {1} /\ s[1] = m
  OBVIOUS
<1> HIDE DEF s
<1>2. UsersOf(s) = IF IsUser(m) THEN {m.id} \ {0} ELSE {}
  BY <1>1 DEF UsersOf
<1> QED
  BY <1>2 DEF s

(* What a summarizer is shown: users' messages, the first among them.        *)
LEMMA ShownAreNumbers ==
  ASSUME NEW ms \in Seq(Msg), NEW abbreviate PROVE Shown(ms, abbreviate) \subseteq Nat
<1>1. ASSUME NEW m \in Msg PROVE UsersIn(m) \subseteq Nat
  <2>1. m.text.users \subseteq Nat /\ m.id \in Nat
    BY DEF Msg, Summaries
  <2> QED
    BY <2>1, OneUser DEF UsersIn
<1>2. SerializeMessages(ms, abbreviate) \subseteq DOMAIN ms
  BY DEF SerializeMessages, Bounded, PartsOf
<1>3. \A i \in DOMAIN ms : ms[i] \in Msg
  OBVIOUS
<1> QED
  BY <1>1, <1>2, <1>3 DEF Shown

(* Too many parts or not, the first is among those that are shown.            *)
LEMMA FirstIsShown ==
  ASSUME NEW ms \in Seq(Msg), NEW abbreviate, Len(ms) >= 1, ~IsReplacement(ms[1])
  PROVE  UsersOf(<<ms[1]>>) \subseteq Shown(ms, abbreviate)
<1> DEFINE parts == PartsOf(ms, abbreviate)
<1>1. 1 \in parts /\ parts \subseteq Nat /\ \A j \in parts : j >= 1
  BY DEF PartsOf
<1> HIDE DEF parts
<1>2. {j \in parts : j <= 1} = {1}
  <2>1. \A j \in parts : j <= 1 <=> j = 1
    BY <1>1
  <2> QED
    BY <1>1, <2>1
<1>3. Rank(parts, 1) = 1
  BY <1>2, FS_Singleton DEF Rank
<1>4. InputParts \div 3 >= 1
  BY SizesAssumption
<1>5. 1 \in Bounded(parts)
  BY <1>1, <1>3, <1>4 DEF Bounded
<1>6. UsersIn(ms[1]) = UsersOf(<<ms[1]>>)
  BY DEF UsersIn
<1> QED
  BY <1>5, <1>6 DEF Shown, SerializeMessages, parts

(* The two parts a plan evicts.                                              *)
Planned(ms, plan) ==
  /\ ms \in Seq(Msg)
  /\ plan.kept \in 2 .. Len(ms) + 1 /\ plan.turn \in 1 .. plan.kept

(* They are messages, as all that is evicted is.                              *)
LEMMA PartsAreMessages ==
  ASSUME NEW ms, NEW plan, Planned(ms, plan)
  PROVE  /\ SubSeq(ms, 1, plan.kept - 1) \in Seq(Msg)
         /\ Evicted(ms, plan) \in Seq(Msg) /\ TurnPrefix(ms, plan) \in Seq(Msg)
<1>1. /\ Len(ms) \in Nat /\ plan.kept - 1 \in Nat /\ plan.turn - 1 \in Nat
      /\ plan.kept - 1 <= Len(ms) /\ plan.turn - 1 <= Len(ms)
      /\ plan.turn \in Nat /\ plan.turn >= 1 /\ plan.turn <= (plan.kept - 1) + 1
      /\ 1 <= (plan.kept - 1) + 1 /\ 1 <= (plan.turn - 1) + 1
  BY DEF Planned
<1>2. SubSeq(ms, 1, plan.kept - 1) \in Seq(Msg)
  BY <1>1, PartIs DEF Planned
<1>3. SubSeq(ms, 1, plan.turn - 1) \in Seq(Msg)
  BY <1>1, PartIs DEF Planned
<1>4. SubSeq(ms, plan.turn, plan.kept - 1) \in Seq(Msg)
  BY <1>1, PartIs DEF Planned
<1> QED
  BY <1>2, <1>3, <1>4 DEF Evicted, TurnPrefix

(* The first message is in the one or in the other.                           *)
LEMMA FirstIsIn ==
  ASSUME NEW ms, NEW plan, Planned(ms, plan)
  PROVE  LET part == IF plan.turn = 1 THEN TurnPrefix(ms, plan) ELSE Evicted(ms, plan)
         IN Len(part) >= 1 /\ part[1] = ms[1]
<1> DEFINE last == IF plan.turn = 1 THEN plan.kept - 1 ELSE plan.turn - 1
           s == SubSeq(ms, 1, last)
<1>1. /\ ms \in Seq(Msg) /\ last \in Nat /\ last <= Len(ms) /\ last >= 1
      /\ 1 <= last + 1
  <2>1. /\ ms \in Seq(Msg) /\ Len(ms) \in Nat
        /\ plan.kept - 1 \in 1 .. Len(ms) /\ plan.turn \in 1 .. (plan.kept - 1) + 1
    BY DEF Planned
  <2>2. last \in 1 .. Len(ms)
    <3>1. CASE plan.turn = 1
      BY <2>1, <3>1
    <3>2. CASE plan.turn # 1
      BY <2>1, <3>2
    <3> QED
      BY <3>1, <3>2
  <2> HIDE DEF last
  <2> QED
    BY <2>1, <2>2
<1>2. s = IF plan.turn = 1 THEN TurnPrefix(ms, plan) ELSE Evicted(ms, plan)
  BY DEF TurnPrefix, Evicted
<1> HIDE DEF last
<1>3. /\ s \in Seq(Msg) /\ Len(s) = last + 1 - 1
      /\ \A i \in 1 .. Len(s) : s[i] = ms[i + (1 - 1)]
  BY <1>1, PartIs
<1> HIDE DEF s
<1>4. 1 \in 1 .. Len(s) /\ 1 + (1 - 1) = 1
  BY <1>1, <1>3
<1> QED
  BY <1>2, <1>3, <1>4

(* So a request that comes first is told to whoever writes the summary.       *)
LEMMA FirstIsTold ==
  ASSUME NEW ms, NEW plan, NEW abbreviate, Planned(ms, plan), ~IsReplacement(ms[1])
  PROVE  LET first == UsersOf(<<ms[1]>>)
         IN /\ first \subseteq Shown(Evicted(ms, plan), abbreviate)
                               \cup Shown(TurnPrefix(ms, plan), abbreviate)
            /\ first \subseteq UsersOf(Evicted(ms, plan))
                               \cup Shown(TurnPrefix(ms, plan), abbreviate)
<1> DEFINE part == IF plan.turn = 1 THEN TurnPrefix(ms, plan) ELSE Evicted(ms, plan)
<1>1. part \in Seq(Msg) /\ Len(part) >= 1 /\ part[1] = ms[1]
  BY FirstIsIn, PartsAreMessages
<1>2. part = TurnPrefix(ms, plan) \/ part = Evicted(ms, plan)
  OBVIOUS
<1>3. plan.turn # 1 => part = Evicted(ms, plan)
  OBVIOUS
<1>4. plan.turn = 1 => part = TurnPrefix(ms, plan)
  OBVIOUS
<1> HIDE DEF part
<1>5. UsersOf(<<ms[1]>>) \subseteq Shown(part, abbreviate)
  BY <1>1, FirstIsShown
<1>6. UsersOf(<<ms[1]>>) \subseteq UsersOf(part)
  <2>1. 1 \in DOMAIN part /\ part[1] \in Msg
    BY <1>1
  <2> QED
    BY <1>1, <2>1, OneUser DEF UsersOf
<1> QED
  BY <1>3, <1>4, <1>5, <1>6

(* What a summary is made of.                                                 *)
LEMMA SummaryIs ==
  ASSUME NEW users \in SUBSET Nat, NEW ops \in SUBSET Ops
  PROVE  /\ Summary(users, ops) \in Summaries /\ Summary(users, ops).written
         /\ Summary(users, ops).users = users /\ Summary(users, ops).ops = ops
  BY DEF Summary, Summaries

Methods == {"remote", "llm", "abbreviated", "emergency"}

(* Whoever writes a summary, it lists the files worked on since the last, and *)
(* has the first message if that is evicted.                                  *)
LEMMA TextIs ==
  ASSUME CompactionTypes, NEW ms, NEW plan, Planned(ms, plan), NEW method \in Methods
  PROVE  /\ Text(ms, plan, method) \in Summaries /\ Text(ms, plan, method).written
         /\ ListedOps(ms, plan) \subseteq Text(ms, plan, method).ops
         /\ ~IsReplacement(ms[1]) => UsersOf(<<ms[1]>>) \subseteq Text(ms, plan, method).users
<1> DEFINE Good(t) == /\ t \in Summaries /\ t.written /\ ListedOps(ms, plan) \subseteq t.ops
                      /\ ~IsReplacement(ms[1]) => UsersOf(<<ms[1]>>) \subseteq t.users
<1>1. state.summary \in Summaries /\ NoSummary \in Summaries
  BY DEF CompactionTypes, NoSummary, Summaries
<1>2. ListedOps(ms, plan) \subseteq Ops
  BY DEF CompactionTypes, ListedOps, CollectFileOps, ExtractFileOps, OpsOf, Ops
<1>4. ASSUME NEW abbreviate PROVE Good(LlmSummary(ms, plan, abbreviate))
  <2> DEFINE previous == IF NoPriorHistory(ms, plan, abbreviate) THEN NoSummary ELSE state.summary
             shown == Shown(Evicted(ms, plan), abbreviate) \cup Shown(TurnPrefix(ms, plan), abbreviate)
             users == previous.users \cup shown
             ops == previous.ops \cup ListedOps(ms, plan)
  <2>1. previous \in Summaries
    BY <1>1
  <2>2. shown \subseteq Nat
    BY PartsAreMessages, ShownAreNumbers
  <2>3. ~IsReplacement(ms[1]) => UsersOf(<<ms[1]>>) \subseteq shown
    BY FirstIsTold
  <2>4. LlmSummary(ms, plan, abbreviate) = Summary(users, ops)
    BY DEF LlmSummary
  <2> HIDE DEF previous, shown
  <2>5. users \subseteq Nat /\ ops \subseteq Ops
    BY <1>2, <2>1, <2>2 DEF Summaries
  <2> HIDE DEF users, ops
  <2>6. /\ Summary(users, ops) \in Summaries /\ Summary(users, ops).written
        /\ Summary(users, ops).users = users /\ Summary(users, ops).ops = ops
    BY <2>5, SummaryIs
  <2> QED
    BY <2>3, <2>4, <2>6 DEF users, ops
<1>5. Good(EmergencySummary(ms, plan))
  <2> DEFINE evicted == UsersOf(Evicted(ms, plan))
             shown == Shown(TurnPrefix(ms, plan), FALSE)
             users == state.summary.users \cup evicted \cup shown
             ops == state.summary.ops \cup ListedOps(ms, plan)
  <2>1. evicted \subseteq Nat /\ shown \subseteq Nat
    BY PartsAreMessages, ShownAreNumbers, UsersAreNumbers
  <2>2. ~IsReplacement(ms[1]) => UsersOf(<<ms[1]>>) \subseteq evicted \cup shown
    BY FirstIsTold
  <2>3. EmergencySummary(ms, plan) = Summary(users, ops)
    BY DEF EmergencySummary
  <2> HIDE DEF evicted, shown
  <2>4. users \subseteq Nat /\ ops \subseteq Ops
    BY <1>1, <1>2, <2>1 DEF Summaries
  <2> HIDE DEF users, ops
  <2>5. /\ Summary(users, ops) \in Summaries /\ Summary(users, ops).written
        /\ Summary(users, ops).users = users /\ Summary(users, ops).ops = ops
    BY <2>4, SummaryIs
  <2> QED
    BY <2>2, <2>3, <2>5 DEF users, ops
<1> HIDE DEF Good
<1>6. Good(Text(ms, plan, method))
  BY <1>4, <1>5 DEF Text, Methods
<1> QED
  BY <1>6 DEF Good

(* A new conversation, and what the invariant says when there is a summary.   *)
LEMMA InitIsAccounted == CompactionInit => CompactionInv
<1> SUFFICES ASSUME CompactionInit PROVE CompactionInv
  OBVIOUS
<1>1. messages = <<>> /\ DOMAIN messages = {} /\ messages \in Seq(Msg)
  BY DEF CompactionInit
<1>2. state.summary = NoSummary /\ ~NoSummary.written /\ ~state.inContext
  BY DEF CompactionInit, NoSummary
<1>3. CompactionTypes
  BY <1>1, <1>2 DEF CompactionTypes, CompactionInit, NoSummary, Summaries
<1>4. OneStands
  BY <1>1, <1>2 DEF OneStands
<1>5. GoneIsRemembered
  BY <1>1 DEF GoneIsRemembered, Remembers, Gone, CompactionInit
<1>6. FirstIsKept
  BY <1>1, <1>2 DEF FirstIsKept, CompactionInit
<1>7. WorkIsCounted
  BY <1>2 DEF WorkIsCounted, Worked, CompactionInit
<1> QED
  BY <1>3, <1>4, <1>5, <1>6, <1>7 DEF CompactionInv

LEMMA InvIsEnough == CompactionInv => NothingIsLost
<1> SUFFICES ASSUME CompactionInv, state.summary.written PROVE NothingIsLost
  BY DEF NothingIsLost
<1>1. messages # <<>> /\ messages \in Seq(Msg)
  BY DEF CompactionInv, CompactionTypes, OneStands
<1>2. Stands(messages[1])
  BY DEF CompactionInv, OneStands, Stands
<1>3. \A i \in 2 .. Len(messages) : ~Stands(messages[i])
  <2>1. \A i \in 2 .. Len(messages) : i \in DOMAIN messages /\ i # 1
    BY <1>1
  <2> QED
    BY <2>1 DEF CompactionInv, OneStands
<1>4. Remembers(state.summary) /\ (IsReplacement(messages[1]) => Remembers(messages[1].native))
  BY <1>1 DEF CompactionInv, GoneIsRemembered
<1>5. 1 \notin omitted
  BY DEF CompactionInv, FirstIsKept
<1>6. Worked \subseteq state.summary.ops \cup {messages[i].op : i \in DOMAIN messages}
  BY DEF CompactionInv, WorkIsCounted
<1> QED
  BY <1>2, <1>3, <1>4, <1>5, <1>6 DEF NothingIsLost

(* Only sizes change. *)
LEMMA AlikeKeeps ==
  ASSUME CompactionInv, Alike(messages', messages),
         UNCHANGED <<state, said, asked, touched, omitted, forgotten>>
  PROVE  CompactionInv'
<1> USE DEF CompactionInv
<1>1. /\ messages \in Seq(Msg) /\ messages' \in Seq(Msg)
      /\ DOMAIN messages' = DOMAIN messages /\ (messages' = <<>> <=> messages = <<>>)
      /\ \A i \in DOMAIN messages :
           /\ messages'[i].role = messages[i].role /\ messages'[i].id = messages[i].id
           /\ messages'[i].op = messages[i].op /\ messages'[i].text = messages[i].text
           /\ messages'[i].native = messages[i].native
  BY DEF Alike
<1>2. 1 \in DOMAIN messages \/ messages = <<>>
  BY <1>1
<1>3. UsersOf(messages') = UsersOf(messages)
  <2>1. \A i \in DOMAIN messages : IsUser(messages'[i]) <=> IsUser(messages[i])
    BY <1>1 DEF IsUser
  <2>2. {j \in DOMAIN messages' : IsUser(messages'[j])} = {j \in DOMAIN messages : IsUser(messages[j])}
    BY <1>1, <2>1
  <2> QED
    BY <1>1, <2>2 DEF UsersOf
<1>4. {messages'[i].op : i \in DOMAIN messages'} = {messages[i].op : i \in DOMAIN messages}
  BY <1>1
<1>5. \A i \in DOMAIN messages :
        /\ Stands(messages'[i]) <=> Stands(messages[i])
        /\ IsSummary(messages'[i]) <=> IsSummary(messages[i])
        /\ IsReplacement(messages'[i]) <=> IsReplacement(messages[i])
  BY <1>1 DEF Stands, IsSummary, IsReplacement, IsUser
<1>6. CompactionTypes'
  BY <1>1 DEF CompactionTypes
<1>7. OneStands'
  <2>1. \A i \in DOMAIN messages' : Stands(messages'[i]) =>
          i = 1 /\ state'.summary.written /\ messages'[1].id = 0 /\ messages'[1].op = NoOp
    BY <1>1, <1>5 DEF OneStands
  <2>2. state'.summary.written =>
          /\ messages' # <<>>
          /\ IF state'.inContext THEN IsSummary(messages'[1]) ELSE IsReplacement(messages'[1])
    BY <1>1, <1>2, <1>5 DEF OneStands
  <2> QED
    BY <2>1, <2>2 DEF OneStands
<1>8. GoneIsRemembered'
  <2>1. Gone' = Gone
    BY <1>3 DEF Gone
  <2> QED
    BY <1>1, <1>2, <1>5, <2>1 DEF GoneIsRemembered, Remembers
<1>9. FirstIsKept'
  BY <1>1 DEF FirstIsKept
<1>10. WorkIsCounted'
  BY <1>4 DEF WorkIsCounted, Worked
<1> QED
  BY <1>6, <1>7, <1>8, <1>9, <1>10

(* Something is said. *)
LEMMA SayKeeps ==
  ASSUME CompactionInv, NEW m \in Msg, Say(m), ~Stands(m), m.id = said + 1
  PROVE  CompactionInv'
<1> USE DEF CompactionInv
<1>1. /\ messages \in Seq(Msg) /\ Len(messages) \in Nat /\ said \in Nat
      /\ DOMAIN messages = 1 .. Len(messages)
      /\ said' = said + 1 /\ messages' = Append(messages, m)
      /\ UNCHANGED <<state, omitted, forgotten>>
      /\ asked' = asked \cup UsersOf(<<m>>) /\ touched' = touched \cup ({m.op} \ {NoOp})
  BY DEF Say, CompactionTypes
<1>2. /\ messages' \in Seq(Msg) /\ DOMAIN messages' = DOMAIN messages \cup {Len(messages) + 1}
      /\ \A i \in DOMAIN messages : messages'[i] = messages[i]
      /\ messages'[Len(messages) + 1] = m /\ Len(messages) + 1 \notin DOMAIN messages
      /\ messages' # <<>>
  <2>1. /\ messages' \in Seq(Msg) /\ Len(messages') = Len(messages) + 1
        /\ \A i \in 1 .. Len(messages) : messages'[i] = messages[i]
        /\ messages'[Len(messages) + 1] = m
    BY <1>1
  <2>2. DOMAIN messages' = 1 .. Len(messages')
    BY <2>1
  <2>3. 1 .. Len(messages) + 1 = (1 .. Len(messages)) \cup {Len(messages) + 1}
    BY <1>1
  <2> QED
    BY <1>1, <2>1, <2>2, <2>3
<1>3. messages = <<>> \/ (1 \in DOMAIN messages /\ messages'[1] = messages[1])
  BY <1>1, <1>2
<1>4. CompactionTypes'
  <2>1. {m.op} \ {NoOp} \subseteq Ops
    BY DEF Msg
  <2> QED
    BY <1>1, <1>2, <2>1 DEF CompactionTypes
<1>5. OneStands'
  <2>1. ASSUME NEW i \in DOMAIN messages', Stands(messages'[i])
        PROVE  i = 1 /\ state'.summary.written /\ messages'[1].id = 0 /\ messages'[1].op = NoOp
    <3>1. i \in DOMAIN messages /\ Stands(messages[i])
      BY <1>2, <2>1
    <3>2. i = 1 /\ state.summary.written /\ messages[1].id = 0 /\ messages[1].op = NoOp
      BY <3>1 DEF OneStands
    <3> QED
      BY <1>1, <1>2, <3>1, <3>2
  <2>2. state'.summary.written =>
          /\ messages' # <<>>
          /\ IF state'.inContext THEN IsSummary(messages'[1]) ELSE IsReplacement(messages'[1])
    BY <1>1, <1>2, <1>3 DEF OneStands
  <2>3. state'.inContext => state'.summary.written
    BY <1>1 DEF OneStands
  <2> QED
    BY <2>1, <2>2, <2>3 DEF OneStands
<1>6. GoneIsRemembered'
  <2>1. UsersOf(messages') = UsersOf(messages) \cup UsersOf(<<m>>)
    <3>1. UsersOf(messages') =
            {messages'[i].id : i \in {j \in DOMAIN messages' : IsUser(messages'[j])}} \ {0}
      BY DEF UsersOf
    <3> QED
      BY <1>2, <3>1, OneUser DEF UsersOf
  <2>2. Gone' \subseteq Gone
    BY <1>1, <2>1 DEF Gone
  <2>3. messages' # <<>> /\ IsReplacement(messages'[1]) =>
          messages # <<>> /\ messages'[1] = messages[1]
    BY <1>2, <1>3 DEF Stands
  <2> QED
    BY <1>1, <2>2, <2>3 DEF GoneIsRemembered, Remembers
<1>7. FirstIsKept'
  <2>1. ASSUME NEW i \in DOMAIN messages', messages'[i].id = 1
        PROVE  i = 1 /\ ~state'.summary.written
    <3>1. CASE i \in DOMAIN messages
      BY <1>1, <1>2, <2>1, <3>1 DEF FirstIsKept
    <3>2. CASE i \notin DOMAIN messages
      <4>1. i = Len(messages) + 1 /\ said = 0
        BY <1>1, <1>2, <2>1, <3>2
      <4>2. messages = <<>> /\ ~state.summary.written
        BY <4>1 DEF FirstIsKept
      <4> QED
        BY <1>1, <4>1, <4>2
    <3> QED
      BY <3>1, <3>2
  <2>2. said' # 0
    BY <1>1
  <2> QED
    BY <1>1, <2>1, <2>2 DEF FirstIsKept
<1>8. WorkIsCounted'
  <2>1. {messages'[i].op : i \in DOMAIN messages'} = {messages[i].op : i \in DOMAIN messages} \cup {m.op}
    BY <1>2
  <2>2. Worked' \subseteq Worked \cup {m.op}
    BY <1>1 DEF Worked
  <2> QED
    BY <1>1, <2>1, <2>2 DEF WorkIsCounted
<1> QED
  BY <1>4, <1>5, <1>6, <1>7, <1>8

(* By the user, the model or a tool.                                          *)
LEMMA TalkKeeps == ASSUME CompactionInv, Ask \/ Reply \/ Return PROVE CompactionInv'
<1> DEFINE heard == {m \in Msg : ~Stands(m) /\ m.id = said + 1}
<1>1. said \in Nat
  BY DEF CompactionInv, CompactionTypes
<1>2. ASSUME NEW role \in {"user", "assistant", "result"}, NEW op \in Ops, NEW size \in Nat,
             NEW brief \in BOOLEAN
      PROVE  /\ Message(role, said + 1, op, size) \in heard
             /\ [Message(role, said + 1, op, size) EXCEPT !.brief = brief] \in heard
  <2> DEFINE m == Message(role, said + 1, op, size)
  <2>1. m.id = said + 1 /\ m.text = NoSummary /\ m.native = NoSummary
    BY DEF Message
  <2>2. NoSummary \in Summaries /\ ~NoSummary.written
    BY DEF NoSummary, Summaries
  <2>3. m \in Msg
    BY <1>1, <2>2 DEF Message, Msg
  <2> HIDE DEF m
  <2>4. ASSUME NEW n \in Msg, n.text = NoSummary, n.native = NoSummary PROVE ~Stands(n)
    BY <2>2, <2>4 DEF Stands, IsSummary, IsReplacement
  <2> DEFINE n == [m EXCEPT !.brief = brief]
  <2>5. /\ n \in Msg /\ n.id = m.id /\ n.text = m.text /\ n.native = m.native
    BY <2>3 DEF Msg
  <2> HIDE DEF n
  <2> QED
    BY <2>1, <2>3, <2>4, <2>5 DEF m, n
<1>3. NoOp \in Ops /\ {NoOp} \cup ({"read", "edit", "grep"} \X Files) = Ops
  BY DEF Ops
<1>4. CASE Ask
  <2>1. Say(Message("user", said + 1, NoOp, 1)) /\ Message("user", said + 1, NoOp, 1) \in heard
    BY <1>2, <1>3, <1>4 DEF Ask
  <2> QED
    BY <2>1, SayKeeps
<1>5. CASE Reply
  <2>1. PICK op \in Ops : Say(Message("assistant", said + 1, op, 1))
    BY <1>3, <1>5 DEF Reply
  <2>2. Message("assistant", said + 1, op, 1) \in heard
    BY <1>2
  <2> QED
    BY <2>1, <2>2, SayKeeps
<1>6. CASE Return
  <2>1. PICK brief \in BOOLEAN :
          Say([Message("result", said + 1, NoOp, 2) EXCEPT !.brief = brief])
    BY <1>6 DEF Return
  <2>2. [Message("result", said + 1, NoOp, 2) EXCEPT !.brief = brief] \in heard
    BY <1>2, <1>3
  <2> QED
    BY <2>1, <2>2, SayKeeps
<1> QED
  BY <1>4, <1>5, <1>6

(* Once the copy of the summary before is out, a message stands for the one   *)
(* that is so much further on in the context.                                 *)
Behind(ms) ==
  /\ ms \in Seq(Msg) /\ Len(messages) = Len(ms) + Shift /\ Shift \in {0, 1}
  /\ \A i \in 1 .. Len(ms) :
       LET m == messages[i + Shift]
       IN /\ ms[i].role = m.role /\ ms[i].id = m.id /\ ms[i].op = m.op
          /\ ms[i].text = m.text /\ ms[i].native = m.native

LEMMA ReclaimedIsBehind ==
  ASSUME CompactionTypes, OneStands PROVE Behind(Reclaim(WithoutPrevious))
<1> DEFINE ms == Reclaim(WithoutPrevious)
<1>1. /\ WithoutPrevious \in Seq(Msg) /\ Len(WithoutPrevious) = Len(messages) - Shift
      /\ \A i \in 1 .. Len(WithoutPrevious) : WithoutPrevious[i] = messages[i + Shift]
  BY WithoutPreviousIs
<1>2. Alike(ms, WithoutPrevious)
  BY <1>1, ReclaimIsAlike
<1>3. Shift \in {0, 1} /\ Len(messages) \in Nat
  BY DEF Shift, CompactionTypes
<1> HIDE DEF ms
<1>4. Behind(ms)
  BY <1>1, <1>2, <1>3 DEF Behind, Alike
<1> QED
  BY <1>4 DEF ms

(* What a compaction leaves: the summary, and the kept messages behind it.    *)
Before(ms, plan) == SubSeq(ms, 1, plan.kept - 1)

LEMMA BeforeIs ==
  ASSUME NEW ms, NEW plan, Planned(ms, plan)
  PROVE  /\ Before(ms, plan) \in Seq(Msg) /\ DOMAIN Before(ms, plan) = 1 .. plan.kept - 1
         /\ \A i \in 1 .. plan.kept - 1 : Before(ms, plan)[i] = ms[i]
<1> DEFINE last == plan.kept - 1
           s == SubSeq(ms, 1, last)
<1>1. /\ ms \in Seq(Msg) /\ Len(ms) \in Nat /\ last \in Nat /\ last <= Len(ms)
      /\ 1 <= last + 1
  BY DEF Planned
<1> HIDE DEF last
<1>2. /\ s \in Seq(Msg) /\ Len(s) = last + 1 - 1
      /\ \A i \in 1 .. Len(s) : s[i] = ms[i + (1 - 1)]
  BY <1>1, PartIs
<1>3. Before(ms, plan) = s
  BY DEF Before, last
<1> HIDE DEF s
<1>4. Len(s) = last /\ DOMAIN s = 1 .. last /\ \A i \in 1 .. last : s[i] = ms[i]
  BY <1>1, <1>2
<1> QED
  BY <1>2, <1>3, <1>4 DEF last

(* The replacement, and behind it the messages from the first that is kept.   *)
LEMMA AppliedIs ==
  ASSUME NEW ms, NEW plan, NEW r \in Msg, Planned(ms, plan)
  PROVE  LET ns == <<r>> \o SubSeq(ms, plan.kept, Len(ms))
         IN /\ ns \in Seq(Msg) /\ ns[1] = r /\ Len(ns) = Len(ms) + 2 - plan.kept
            /\ \A i \in 2 .. Len(ns) : ns[i] = ms[(i - 2) + plan.kept]
            /\ DOMAIN ns = 1 .. Len(ns)
<1> DEFINE kept == plan.kept
           tail == SubSeq(ms, kept, Len(ms))
           ns == <<r>> \o tail
<1>1. /\ ms \in Seq(Msg) /\ Len(ms) \in Nat /\ kept \in Nat /\ kept >= 1
      /\ Len(ms) <= Len(ms) /\ kept <= Len(ms) + 1
  BY DEF Planned
<1> HIDE DEF kept
<1>2. /\ tail \in Seq(Msg) /\ Len(tail) = Len(ms) + 1 - kept
      /\ \A i \in 1 .. Len(tail) : tail[i] = ms[i + (kept - 1)]
  BY <1>1, PartIs
<1> HIDE DEF tail
<1>3. /\ ns \in Seq(Msg) /\ ns[1] = r /\ Len(ns) = 1 + Len(tail)
      /\ \A i \in 2 .. Len(ns) : ns[i] = tail[i - 1]
  BY <1>2
<1> HIDE DEF ns
<1>4. ASSUME NEW i \in 2 .. Len(ns) PROVE ns[i] = ms[(i - 2) + kept]
  <2>1. i - 1 \in 1 .. Len(tail) /\ (i - 1) + (kept - 1) = (i - 2) + kept
    BY <1>1, <1>2, <1>3
  <2> QED
    BY <1>2, <1>3, <2>1
<1>5. Len(ns) = Len(ms) + 2 - kept /\ DOMAIN ns = 1 .. Len(ns)
  BY <1>1, <1>2, <1>3
<1> QED
  BY <1>3, <1>4, <1>5 DEF kept, tail, ns

(* A replacement is a summary in one form or the other.                       *)
LEMMA ReplacementIs ==
  ASSUME CompactionTypes, NEW ms, NEW plan, Planned(ms, plan), NEW method \in Methods
  PROVE  LET r == Replacement(ms, plan, method)
         IN /\ r \in Msg /\ r.id = 0 /\ r.op = NoOp
            /\ IF method = "remote"
               THEN IsReplacement(r) /\ ~IsSummary(r) /\ r.native = RemoteItem(ms, plan)
               ELSE IsSummary(r) /\ ~IsReplacement(r)
<1> DEFINE text == Text(ms, plan, method)
           item == RemoteItem(ms, plan)
           r == Replacement(ms, plan, method)
<1>1. text \in Summaries /\ text.written
  BY TextIs
<1>2. item \in Summaries /\ item.written
  <2> DEFINE before == Before(ms, plan)
             users == RemoteInput(before)
  <2>1. before \in Seq(Msg)
    BY BeforeIs
  <2> HIDE DEF before
  <2>2. users \subseteq Nat
    <3>1. UsersOf(before) \subseteq Nat
      BY <2>1, UsersAreNumbers
    <3>2. state.summary.users \subseteq Nat
      BY DEF CompactionTypes, Summaries
    <3>3. \A i \in DOMAIN before : before[i].native.users \subseteq Nat
      <4>1. \A m \in Msg : m.native.users \subseteq Nat
        BY DEF Msg, Summaries
      <4> QED
        BY <2>1, <4>1
    <3> QED
      BY <3>1, <3>2, <3>3 DEF RemoteInput
  <2>3. item = Summary(users, {})
    BY DEF RemoteItem, Before, before
  <2> HIDE DEF users
  <2> QED
    BY <2>2, <2>3, SummaryIs
<1>3. NoSummary \in Summaries /\ ~NoSummary.written
  BY DEF NoSummary, Summaries
<1>4. NoOp \in Ops
  BY DEF Ops
<1>5. CASE method = "remote"
  <2>1. r = ReplacementMessage(text, item)
    BY <1>5 DEF Replacement
  <2> HIDE DEF r, text, item
  <2>2. r = [role |-> "assistant", id |-> 0, op |-> NoOp, size |-> 1, brief |-> FALSE,
             text |-> text, native |-> item]
    BY <2>1 DEF ReplacementMessage, Message
  <2>3. r \in Msg
    BY <1>1, <1>2, <1>4, <2>2 DEF Msg
  <2>4. r.id = 0 /\ r.op = NoOp /\ r.native = item /\ r.role # "user"
    BY <2>2
  <2> QED
    BY <1>2, <1>5, <2>3, <2>4 DEF r, item, IsReplacement, IsSummary, IsUser
<1>6. CASE method # "remote"
  <2>1. r = SummaryMessage(text)
    BY <1>6 DEF Replacement
  <2> HIDE DEF r, text
  <2>2. r = [role |-> "user", id |-> 0, op |-> NoOp, size |-> 1, brief |-> FALSE,
             text |-> text, native |-> NoSummary]
    BY <2>1 DEF SummaryMessage, Message
  <2>3. r \in Msg
    BY <1>1, <1>3, <1>4, <2>2 DEF Msg
  <2>4. r.id = 0 /\ r.op = NoOp /\ r.native = NoSummary /\ r.role = "user" /\ r.text = text
    BY <2>2
  <2> QED
    BY <1>1, <1>3, <1>6, <2>3, <2>4 DEF r, IsReplacement, IsSummary, IsUser
<1> QED
  BY <1>5, <1>6

(* The requests and the file operations that are evicted.                     *)
LEMMA EvictedUsers ==
  ASSUME NEW ms, NEW plan, Planned(ms, plan), NEW u
  PROVE  u \in UsersOf(Before(ms, plan)) <=>
           u # 0 /\ \E i \in 1 .. plan.kept - 1 : IsUser(ms[i]) /\ ms[i].id = u
<1> DEFINE s == Before(ms, plan)
<1>1. DOMAIN s = 1 .. plan.kept - 1 /\ \A i \in 1 .. plan.kept - 1 : s[i] = ms[i]
  BY BeforeIs
<1> HIDE DEF s
<1>2. u \in UsersOf(s) <=>
        u # 0 /\ \E i \in 1 .. plan.kept - 1 : IsUser(ms[i]) /\ ms[i].id = u
  BY <1>1 DEF UsersOf
<1> QED
  BY <1>2 DEF s

LEMMA EvictedOps ==
  ASSUME NEW ms, NEW plan, Planned(ms, plan), NEW i \in 1 .. plan.kept - 1,
         ms[i].op \in {"read", "edit"} \X Files
  PROVE  ms[i].op \in CollectFileOps(ms, plan)
<1> DEFINE s == Before(ms, plan)
<1>1. CollectFileOps(ms, plan) = {s[j].op : j \in DOMAIN s} \cap ({"read", "edit"} \X Files)
  BY DEF CollectFileOps, OpsOf, Before
<1>2. i \in DOMAIN s /\ s[i] = ms[i]
  BY BeforeIs
<1> HIDE DEF s
<1> QED
  BY <1>1, <1>2

(* Where a kept message was: behind the place it has in a shorter context.   *)
LEMMA KeptPlace ==
  ASSUME NEW n \in Nat, NEW first \in Nat, NEW shift \in {0, 1}, NEW i \in Int,
         first >= 2, i >= 2, i <= n + 2 - first
  PROVE  (i - 2) + first \in 1 .. n /\ ((i - 2) + first) + shift # 1
OBVIOUS

(* A compaction that is carried out: what stands at the head accounts for    *)
(* what the summary before did and for all that is evicted.                   *)
LEMMA ApplyKeeps ==
  ASSUME CompactionInv, NEW ms, NEW plan, Behind(ms), Planned(ms, plan), NEW method \in Methods,
         NEW ops, CollectFileOps(ms, plan) \subseteq ops, ops \subseteq ListedOps(ms, plan),
         Apply(ms, plan, method, ops), UNCHANGED <<said, asked, touched>>
  PROVE  CompactionInv'
<1> DEFINE r == Replacement(ms, plan, method)
           text == Text(ms, plan, method)
           evicted == UsersOf(Before(ms, plan))
           kept == plan.kept
<1> USE DEF CompactionInv
<1>1. /\ ms \in Seq(Msg) /\ Len(ms) \in Nat /\ DOMAIN ms = 1 .. Len(ms)
      /\ kept \in Nat /\ kept >= 2 /\ kept <= Len(ms) + 1
      /\ DOMAIN messages = 1 .. Len(messages) /\ Len(messages) = Len(ms) + Shift
      /\ Shift \in {0, 1}
  BY DEF Planned, Behind, CompactionTypes
<1>2. /\ messages' = <<r>> \o SubSeq(ms, kept, Len(ms))
      /\ state' = [ops |-> state.ops \cup ops, summary |-> text, inContext |-> method # "remote",
                   generation |-> state.generation + 1]
      /\ omitted' = omitted \cup (evicted \ text.users)
      /\ forgotten' = forgotten \cup (state.summary.users \ text.users)
  BY DEF Apply, StateAfter, Unshown, Before
<1>3. /\ r \in Msg /\ r.id = 0 /\ r.op = NoOp
      /\ IF method = "remote"
         THEN IsReplacement(r) /\ ~IsSummary(r) /\ r.native = RemoteItem(ms, plan)
         ELSE IsSummary(r) /\ ~IsReplacement(r)
  BY ReplacementIs
<1>4. /\ text \in Summaries /\ text.written /\ ListedOps(ms, plan) \subseteq text.ops
      /\ ~IsReplacement(ms[1]) => UsersOf(<<ms[1]>>) \subseteq text.users
  BY TextIs
<1> HIDE DEF r, text, evicted
<1>5. /\ messages' \in Seq(Msg) /\ messages'[1] = r /\ messages' # <<>>
      /\ Len(messages') = Len(ms) + 2 - kept /\ DOMAIN messages' = 1 .. Len(messages')
      /\ \A i \in 2 .. Len(messages') : messages'[i] = ms[(i - 2) + kept]
  <2> DEFINE ns == <<r>> \o SubSeq(ms, kept, Len(ms))
  <2>2. /\ ns \in Seq(Msg) /\ ns[1] = r /\ Len(ns) = Len(ms) + 2 - kept
        /\ \A i \in 2 .. Len(ns) : ns[i] = ms[(i - 2) + kept]
        /\ DOMAIN ns = 1 .. Len(ns)
    BY <1>3, AppliedIs
  <2> HIDE DEF ns
  <2>3. messages' = ns
    BY <1>2 DEF ns
  <2>4. Len(ns) # 0
    BY <1>1, <2>2
  <2> QED
    BY <2>2, <2>3, <2>4
<1>6. \A i \in 1 .. Len(ms) :
        /\ i + Shift \in DOMAIN messages
        /\ LET m == messages[i + Shift]
           IN /\ ms[i].id = m.id /\ ms[i].op = m.op /\ (IsUser(ms[i]) <=> IsUser(m))
              /\ (Stands(ms[i]) <=> Stands(m)) /\ (IsReplacement(ms[i]) <=> IsReplacement(m))
              /\ ms[i].native = m.native
  BY <1>1 DEF Behind, Stands, IsSummary, IsReplacement, IsUser
\* What is kept was not at the head of the context.
<1>7. ASSUME NEW i \in 2 .. Len(messages')
      PROVE  LET k == (i - 2) + kept
             IN k \in 1 .. Len(ms) /\ k + Shift # 1 /\ messages'[i] = ms[k]
  <2> DEFINE k == (i - 2) + kept
  <2>1. messages'[i] = ms[k]
    BY ONLY <1>5, i \in 2 .. Len(messages')
  <2>2. /\ i \in Int /\ i >= 2 /\ i <= Len(ms) + 2 - kept
        /\ Len(ms) \in Nat /\ kept \in Nat /\ kept >= 2 /\ Shift \in {0, 1}
    BY ONLY <1>1, <1>5, i \in 2 .. Len(messages')
  <2>3. k \in 1 .. Len(ms) /\ k + Shift # 1
    BY ONLY <2>2, KeptPlace
  <2> QED
    BY ONLY <2>1, <2>3
<1>8. Shift = 1 <=> state.inContext
  BY DEF Shift
<1>9. Shift = 1 => messages[1].id = 0 /\ messages[1].op = NoOp
  <2> SUFFICES ASSUME Shift = 1 PROVE messages[1].id = 0 /\ messages[1].op = NoOp
    OBVIOUS
  <2>1. IsSummary(messages[1]) /\ 1 \in DOMAIN messages
    BY <1>1, <1>8 DEF OneStands
  <2> QED
    BY <2>1 DEF OneStands, Stands
<1>10. CompactionTypes'
  <2>1. ops \subseteq Ops
    BY DEF ListedOps, CollectFileOps, ExtractFileOps, OpsOf, Ops, CompactionTypes
  <2>2. state' \in [ops : SUBSET Ops, summary : Summaries, inContext : BOOLEAN, generation : Nat]
    BY <1>2, <1>4, <2>1 DEF CompactionTypes
  <2> QED
    BY <1>5, <2>2 DEF CompactionTypes
<1>11. OneStands'
  <2>1. ASSUME NEW i \in DOMAIN messages', Stands(messages'[i]) PROVE i = 1
    <3> SUFFICES ASSUME i # 1 PROVE FALSE
      OBVIOUS
    <3> DEFINE k == (i - 2) + kept
    <3>1. i \in 2 .. Len(messages')
      BY <1>5
    <3>2. k \in 1 .. Len(ms) /\ k + Shift # 1 /\ messages'[i] = ms[k]
      BY <1>7, <3>1
    <3> HIDE DEF k
    <3>3. k + Shift \in DOMAIN messages /\ Stands(messages[k + Shift])
      BY <1>6, <2>1, <3>2
    <3> QED
      BY <3>2, <3>3 DEF OneStands
  <2>2. state'.summary = text /\ state'.inContext = (method # "remote")
    BY <1>2
  <2>3. messages'[1].id = 0 /\ messages'[1].op = NoOp
        /\ IF state'.inContext THEN IsSummary(messages'[1]) ELSE IsReplacement(messages'[1])
    BY <1>3, <1>5, <2>2
  <2> QED
    BY <1>4, <1>5, <2>1, <2>2, <2>3 DEF OneStands
\* Every request that is gone was gone before or is evicted.
<1>12. Gone' \subseteq Gone \cup evicted
  <2> SUFFICES ASSUME NEW u \in asked, u \in UsersOf(messages), u \notin evicted
               PROVE  u \in UsersOf(messages')
    BY DEF Gone
  <2>1. PICK j \in DOMAIN messages : IsUser(messages[j]) /\ messages[j].id = u /\ u # 0
    BY DEF UsersOf
  <2>2. j - Shift \in 1 .. Len(ms) /\ (j - Shift) + Shift = j
    BY <1>1, <1>9, <2>1
  <2> DEFINE k == j - Shift
  <2>3. k \in 1 .. Len(ms) /\ IsUser(ms[k]) /\ ms[k].id = u
    BY <1>6, <2>1, <2>2
  <2> HIDE DEF k
  <2>4. k >= kept
    BY <1>1, <2>1, <2>3, EvictedUsers DEF evicted
  <2> DEFINE i == (k + 2) - kept
  <2>5. i \in 2 .. Len(messages') /\ (i - 2) + kept = k
    <3>1. /\ kept \in Nat /\ Len(ms) \in Nat /\ k \in kept .. Len(ms)
          /\ Len(messages') = Len(ms) + 2 - kept
      BY <1>1, <1>5, <2>3, <2>4
    <3> HIDE DEF kept
    <3> QED
      BY <3>1
  <2>6. i \in DOMAIN messages' /\ messages'[i] = ms[k]
    BY <1>1, <1>5, <2>5
  <2> HIDE DEF i
  <2> QED
    BY <2>1, <2>3, <2>6 DEF UsersOf
<1>13. GoneIsRemembered'
  <2>1. state'.summary = text
    BY <1>2
  <2>2. Gone' \subseteq text.users \cup omitted' \cup forgotten'
    BY <1>2, <1>12 DEF GoneIsRemembered, Remembers
  <2>3. ASSUME method = "remote"
        PROVE  Gone' \subseteq r.native.users \cup omitted' \cup forgotten'
    <3> DEFINE before == Before(ms, plan)
               natives == UNION {before[i].native.users : i \in DOMAIN before}
               local == IF state.inContext THEN state.summary.users ELSE {}
    <3>1. r.native.users = local \cup evicted \cup natives
      <4>1. r.native = Summary(RemoteInput(before), {})
        BY <1>3, <2>3 DEF RemoteItem, Before
      <4>2. RemoteInput(before) = local \cup evicted \cup natives
        BY DEF RemoteInput, evicted
      <4> HIDE DEF before, natives, local
      <4> QED
        BY <4>1, <4>2 DEF Summary
    <3>2. Gone \subseteq local \cup natives \cup omitted \cup forgotten
      <4>1. CASE state.inContext
        BY <4>1 DEF GoneIsRemembered, Remembers
      <4>2. CASE ~state.summary.written
        BY <4>2 DEF GoneIsRemembered, Remembers, NoSummary
      <4>3. CASE state.summary.written /\ ~state.inContext
        <5>1. messages # <<>> /\ IsReplacement(messages[1]) /\ Shift = 0
          BY <4>3 DEF OneStands, Shift
        <5>2. Gone \subseteq messages[1].native.users \cup omitted \cup forgotten
          BY <5>1 DEF GoneIsRemembered, Remembers
        <5>3. 1 \in 1 .. Len(ms) /\ 1 \in 1 .. kept - 1 /\ 1 + Shift = 1
          BY <1>1, <5>1
        <5>4. ms[1].native = messages[1 + Shift].native
          BY <1>6, <5>3
        <5>5. 1 \in DOMAIN before /\ before[1] = ms[1]
          <6>1. DOMAIN before = 1 .. kept - 1 /\ \A i \in 1 .. kept - 1 : before[i] = ms[i]
            BY BeforeIs
          <6> HIDE DEF before
          <6> QED
            BY <5>3, <6>1
        <5> HIDE DEF before
        <5> QED
          BY <5>2, <5>3, <5>4, <5>5
      <4> QED
        BY <4>1, <4>2, <4>3
    <3> HIDE DEF local, natives
    <3> QED
      BY <1>2, <1>12, <3>1, <3>2
  <2>4. IsReplacement(messages'[1]) =>
          Gone' \subseteq messages'[1].native.users \cup omitted' \cup forgotten'
    BY <1>3, <1>5, <2>3
  <2>5. Remembers(state.summary)'
    BY <2>1, <2>2 DEF Remembers
  <2>6. (IsReplacement(messages[1]) => Remembers(messages[1].native))'
    BY <2>4 DEF Remembers
  <2> QED
    BY <1>4, <2>1, <2>5, <2>6 DEF GoneIsRemembered
<1>14. FirstIsKept'
  <2>1. 1 \notin omitted'
    <3> SUFFICES ASSUME 1 \in evicted PROVE 1 \in text.users
      BY <1>2 DEF FirstIsKept
    <3>1. PICK i \in 1 .. kept - 1 : IsUser(ms[i]) /\ ms[i].id = 1
      BY EvictedUsers DEF evicted
    <3>2. i \in 1 .. Len(ms) /\ i + Shift \in DOMAIN messages /\ messages[i + Shift].id = 1
      BY <1>1, <1>6, <3>1
    <3>3. i + Shift = 1 /\ ~state.summary.written
      BY <3>2 DEF FirstIsKept
    <3>4. i = 1 /\ Shift = 0
      BY <1>1, <3>2, <3>3
    <3>5. ~Stands(messages[1])
      BY <3>2, <3>3 DEF OneStands
    <3>6. ~IsReplacement(ms[1]) /\ ms[1] \in Msg
      BY <1>1, <1>6, <3>2, <3>4, <3>5 DEF Stands
    <3>7. UsersOf(<<ms[1]>>) = {1}
      BY <3>1, <3>4, <3>6, OneUser
    <3> QED
      BY <1>4, <3>6, <3>7
  <2>2. ASSUME NEW i \in DOMAIN messages' PROVE messages'[i].id # 1
    <3>1. CASE i = 1
      BY <1>3, <1>5, <3>1
    <3>2. CASE i # 1
      <4> DEFINE k == (i - 2) + kept
      <4>1. i \in 2 .. Len(messages')
        BY <1>5, <3>2
      <4>2. k \in 1 .. Len(ms) /\ k + Shift # 1 /\ messages'[i] = ms[k]
        BY <1>7, <4>1
      <4> HIDE DEF k
      <4> QED
        BY <1>6, <4>2 DEF FirstIsKept
    <3> QED
      BY <3>1, <3>2
  <2>3. said' # 0
    <3>1. messages # <<>>
      BY <1>1
    <3> QED
      BY <3>1 DEF FirstIsKept
  <2> QED
    BY <2>1, <2>2, <2>3 DEF FirstIsKept
<1>15. WorkIsCounted'
  <2>1. state'.ops = state.ops \cup ops /\ state'.summary.ops = text.ops
    BY <1>2
  <2>2. state'.ops \subseteq text.ops
    BY <1>4, <2>1 DEF ListedOps
  <2>3. ASSUME NEW op \in Worked, op \notin state.ops \cup ops
        PROVE  \E i \in DOMAIN messages' : messages'[i].op = op
    <3>1. op \in {"read", "edit"} \X Files /\ op # NoOp
      <4>1. op \in {"read", "edit"} \X Files
        BY DEF Worked
      <4>2. op[1] # "none"
        BY <4>1
      <4>3. NoOp[1] = "none"
        BY DEF NoOp
      <4> QED
        BY <4>1, <4>2, <4>3
    <3>2. PICK j \in DOMAIN messages : messages[j].op = op
      BY <2>3 DEF WorkIsCounted
    <3> DEFINE k == j - Shift
    <3>3. k \in 1 .. Len(ms) /\ k + Shift = j
      BY <1>1, <1>9, <3>1, <3>2
    <3> HIDE DEF k
    <3>4. ms[k].op = op
      BY <1>6, <3>2, <3>3
    <3>5. k >= kept
      BY <1>1, <2>3, <3>1, <3>3, <3>4, EvictedOps
    <3> DEFINE i == (k + 2) - kept
    <3>6. i \in 2 .. Len(messages') /\ (i - 2) + kept = k
      BY <1>1, <1>5, <3>3, <3>5, SMTT(30)
    <3>7. i \in DOMAIN messages' /\ messages'[i] = ms[k]
      BY <1>1, <1>5, <3>6
    <3> QED
      BY <3>4, <3>7
  <2>4. Worked' = Worked
    BY DEF Worked
  <2> QED
    BY <2>1, <2>2, <2>3, <2>4 DEF WorkIsCounted
<1> QED
  BY <1>10, <1>11, <1>13, <1>14, <1>15

(* A compaction under any how, whether it is carried out or given up.      *)
LEMMA RunCompactionKeeps ==
  ASSUME CompactionInv, NEW how, NEW minimum \in Nat, RunCompaction(how, minimum),
         how \in {"required", "prefer", "skip"}, UNCHANGED <<said, asked, touched>>
  PROVE  CompactionInv'
<1> DEFINE ms == Reclaim(WithoutPrevious)
<1>1. PICK plan \in PlanMessages(WithoutPrevious, minimum), method \in Summarize(how) :
        \/ Skip(method)
        \/ /\ method \notin {"aborted", "cancelled"}
           /\ Apply(ms, plan, method,
                    IF how = "prefer" THEN ExtractFileOps(ms, plan) ELSE CollectFileOps(ms, plan))
  BY DEF RunCompaction
<1>2. Behind(ms) /\ Alike(ms, WithoutPrevious)
  BY ReclaimedIsBehind, WithoutPreviousIs, ReclaimIsAlike DEF CompactionInv
<1>3. Planned(ms, plan)
  BY <1>2, PlanIs DEF Planned, Alike
<1>4. CASE Skip(method)
  <2>1. Alike(messages', messages) /\ UNCHANGED <<state, omitted, forgotten>>
    BY <1>4, RestoredIsAlike DEF Skip, CompactionInv
  <2> QED
    BY <2>1, AlikeKeeps
<1> HIDE DEF ms
<1>5. CASE ~Skip(method)
  <2> DEFINE ops == IF how = "prefer" THEN ExtractFileOps(ms, plan) ELSE CollectFileOps(ms, plan)
  <2>1. Apply(ms, plan, method, ops) /\ method \in Methods
    BY <1>1, <1>5 DEF Summarize, Methods
  <2>2. CollectFileOps(ms, plan) \subseteq ops /\ ops \subseteq ListedOps(ms, plan)
    BY DEF CollectFileOps, ExtractFileOps, OpsOf, ListedOps
  <2> HIDE DEF ops
  <2> QED
    BY <1>2, <1>3, <2>1, <2>2, ApplyKeeps
<1> QED
  BY <1>4, <1>5

(* Every step keeps the invariant.                                            *)
LEMMA CompactionStep == CompactionInv /\ [CompactionNext]_compaction => CompactionInv'
<1> SUFFICES ASSUME CompactionInv, [CompactionNext]_compaction PROVE CompactionInv'
  OBVIOUS
<1>1. CASE Ask \/ Reply \/ Return
  BY <1>1, TalkKeeps
<1>2. CASE CompactOnThreshold \/ CompactOnOverflow \/ CompactSession
  <2>1. 0 \in Nat /\ Len(messages) + 1 \in Nat
    BY DEF CompactionInv, CompactionTypes
  <2>2. PICK how \in {"required", "prefer", "skip"}, minimum \in Nat :
          RunCompaction(how, minimum) /\ UNCHANGED <<said, asked, touched>>
    BY <1>2, <2>1 DEF CompactOnThreshold, CompactOnOverflow, CompactSession, MayCompact
  <2> QED
    BY <2>2, RunCompactionKeeps
<1>3. CASE UNCHANGED compaction
  BY <1>3 DEF compaction, CompactionInv, CompactionTypes, OneStands, GoneIsRemembered, FirstIsKept,
              WorkIsCounted, Remembers, Gone, Worked, UsersOf
<1> QED
  BY <1>1, <1>2, <1>3 DEF CompactionNext

(* However long a conversation, however often it is compacted, by whom and     *)
(* with what luck: one summary stands at its head, and it accounts for every    *)
(* request and every file that is gone (NothingIsLost, executor.rs:118,         *)
(* memory.rs:87, controller.rs:372).                                            *)
THEOREM NothingIsEverLost == CompactionSpec => []NothingIsLost
<1> QED
  BY InitIsAccounted, CompactionStep, InvIsEnough, PTL DEF CompactionSpec
==============================================================================
