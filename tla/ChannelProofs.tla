------------------------- MODULE ChannelProofs --------------------------------
(***************************************************************************)
(* What reaches the program from outside, and what it says back: one         *)
(* transport at a time and nothing acknowledged is dropped (FeishuChannel),  *)
(* a lease is worked on once and reported as it was (Automation), and an     *)
(* answer is posted and edited whole (StreamDelivery); for any number of     *)
(* revisions, messages, dispatchers, chats and units of text.                *)
(***************************************************************************)
EXTENDS MCChannels, TLAPS

Stage ==
  {"unborn", "new", "init", "connect", "receive", "acked", "lookup", "backoff", "dead"}

Generation ==
  [rev : Revisions \cup {NoRevision}, stage : Stage, cancelled : BOOLEAN,
   wire : Seq(Events \X Nat), cache : [Events -> SUBSET Nat], seen : SUBSET Events,
   current : Events \cup {NoEvent}]

Phase == {"reconcile", "stopping", "start", "waits", "shutdown", "ended"}

TypeOK ==
  /\ file \in Revisions \cup {NoRevision, Unreadable}
  /\ loaded \in Revisions \cup {NoRevision}
  /\ supervisor \in Phase
  /\ entry \in Nat /\ victim \in Nat /\ started \in Nat
  /\ gen \in [Generations -> Generation]
  /\ DOMAIN health = Revisions
  /\ acked \subseteq Events
  /\ handed \in [Events -> Nat]

\* The supervisor knows the task that lives: it runs or is being shut down,
\* never both.
KnownToSupervisor ==
  /\ entry <= started /\ victim <= started
  /\ supervisor \in {"stopping", "shutdown", "ended"} => entry = 0
  /\ supervisor \notin {"stopping", "shutdown"} => victim = 0
  /\ \A g \in Generations :
       /\ Alive(g) => g # 0 /\ g \in {entry, victim} /\ gen[g].rev \in Revisions
       /\ g > started => gen[g].stage = "unborn"

\* A task has an event in hand between acknowledging it and passing it on.
InHand ==
  \A g \in Generations : gen[g].current # NoEvent <=> gen[g].stage \in {"acked", "lookup"}

Settled(e) == handed[e] > 0 \/ e \in refused \cup cutOff

\* What a connection has seen before is settled, but for what it is looking up.
SeenIsSettled ==
  \A g \in Generations : \A e \in gen[g].seen :
    Settled(e) \/ (gen[g].stage = "lookup" /\ gen[g].current = e)

ConnectedIsShown ==
  \A g \in Generations : Receiving(g) => health[gen[g].rev] = "connected"

Inv ==
  /\ TypeOK /\ KnownToSupervisor /\ InHand /\ SeenIsSettled /\ ConnectedIsShown
  /\ AckedIsTaken

LEMMA OneLives ==
  ASSUME KnownToSupervisor, NEW g \in Generations, NEW h \in Generations,
         Alive(g), Alive(h)
  PROVE  g = h
  BY DEF KnownToSupervisor, Generations

LEMMA InvGivesOneTransport == Inv => OneTransport
  BY OneLives DEF Inv, OneTransport, ConnectedIsShown

LEMMA OfflineType ==
  ASSUME NEW rev \in Revisions \cup {NoRevision}, NEW stage \in Stage
  PROVE  /\ Offline(rev, stage) \in Generation
         /\ Offline(rev, stage).rev = rev /\ Offline(rev, stage).stage = stage
         /\ Offline(rev, stage).seen = {} /\ Offline(rev, stage).current = NoEvent
  <1>1. [e \in Events |-> {}] \in [Events -> SUBSET Nat] /\ <<>> \in Seq(Events \X Nat)
    OBVIOUS
  <1> QED BY <1>1 DEF Offline, Generation

LEMMA InitInv == Init => Inv
  <1> SUFFICES ASSUME Init PROVE Inv
    OBVIOUS
  <1>1. "unborn" \in Stage /\ NoRevision \in Revisions \cup {NoRevision}
    BY DEF Stage
  <1>2. \A g \in Generations :
          /\ gen[g] \in Generation /\ gen[g].stage = "unborn" /\ gen[g].seen = {}
          /\ gen[g].current = NoEvent
    BY <1>1, OfflineType DEF Init
  <1>3. TypeOK
    BY <1>2 DEF Init, TypeOK, Phase
  <1> QED
    BY <1>2, <1>3
       DEF Init, Inv, KnownToSupervisor, Alive, InHand, SeenIsSettled,
           ConnectedIsShown, Receiving, AckedIsTaken

-----------------------------------------------------------------------------
(* A step of one task that leaves what was acknowledged and seen in order.   *)
LEMMA TaskStepIsSafe ==
  ASSUME Inv, NEW g \in Generations, Alive(g), NEW new \in Generation,
         gen' = [gen EXCEPT ![g] = new],
         UNCHANGED <<config, supervision>>,
         new.rev = gen[g].rev, new.stage # "unborn",
         DOMAIN health' = Revisions,
         new.stage \in {"receive", "acked", "lookup"} => health'[new.rev] = "connected",
         new.current # NoEvent <=> new.stage \in {"acked", "lookup"},
         handed' \in [Events -> Nat], \A e \in Events : handed[e] <= handed'[e],
         refused \subseteq refused', cutOff \subseteq cutOff',
         \A e \in new.seen :
           (Settled(e))' \/ (new.stage = "lookup" /\ new.current = e),
         acked' \subseteq Events,
         \A e \in acked' : e \in acked \/ new.current = e,
         \A e \in Events : gen[g].current = e => (Settled(e))' \/ new.current = e
  PROVE  Inv'
  <1>1. \A h \in Generations : gen'[h] = IF h = g THEN new ELSE gen[h]
    BY DEF Inv, TypeOK
  <1>2. TypeOK'
    BY DEF Inv, TypeOK, config, supervision
  <1>3. KnownToSupervisor'
    BY <1>1 DEF Inv, KnownToSupervisor, Alive, config, supervision, Generations
  <1>4. InHand'
    BY <1>1 DEF Inv, InHand
  <1>5. \A e \in Events : Settled(e) => (Settled(e))'
    BY DEF Inv, TypeOK, Settled
  <1>6. SeenIsSettled'
    BY <1>1, <1>5 DEF Inv, SeenIsSettled, TypeOK, Generation
  <1>7. \A h \in Generations : h # g => ~Receiving(h)
    BY OneLives DEF Receiving, Alive, Inv
  <1>8. ConnectedIsShown'
    BY <1>1, <1>7 DEF ConnectedIsShown, Receiving
  <1>9. AckedIsTaken'
    <2> SUFFICES ASSUME NEW e \in acked'
                 PROVE  (Settled(e))' \/ \E h \in Generations : gen'[h].current = e
      BY DEF AckedIsTaken, Settled
    <2>1. CASE new.current = e
      BY <2>1, <1>1
    <2>2. CASE e \in acked /\ new.current # e
      <3>1. e \in Events /\ (Settled(e) \/ \E h \in Generations : gen[h].current = e)
        BY <2>2 DEF Inv, TypeOK, AckedIsTaken, Settled
      <3>2. ASSUME NEW h \in Generations, gen[h].current = e
            PROVE  (Settled(e))' \/ gen'[h].current = e
        BY <3>1, <3>2, <2>2, <1>1, ChannelConstants
      <3> QED BY <3>1, <3>2, <1>5
    <2> QED BY <2>1, <2>2
  <1> QED BY <1>2, <1>3, <1>4, <1>6, <1>8, <1>9 DEF Inv
(* A task dies with what it has in hand, and is gone.                        *)
LEMMA DyingIsSafe ==
  ASSUME Inv, NEW g \in Generations, Alive(g), Dies(g),
         UNCHANGED <<config, supervision, acked, handed, refused>>,
         DOMAIN health' = Revisions
  PROVE  Inv'
  <1> DEFINE off == Offline(gen[g].rev, "dead")
             new == [off EXCEPT !.cancelled = TRUE]
  <1>1. gen[g] \in Generation /\ "dead" \in Stage
    BY DEF Inv, TypeOK, Stage
  <1>2. /\ off \in Generation /\ off.rev = gen[g].rev /\ off.stage = "dead"
        /\ off.seen = {} /\ off.current = NoEvent
    BY <1>1, OfflineType DEF Generation
  <1>3. gen' = [gen EXCEPT ![g] = new]
    BY DEF Dies
  <1> HIDE DEF off
  <1>4. /\ new \in Generation /\ new.rev = gen[g].rev /\ new.stage = "dead"
        /\ new.seen = {} /\ new.current = NoEvent
    BY <1>2 DEF Generation
  <1>5. cutOff \subseteq cutOff' /\ \A e \in Events : gen[g].current = e => e \in cutOff'
    BY DEF Dies
  <1> HIDE DEF new
  <1>6. \A e \in Events : gen[g].current = e => (Settled(e))'
    BY <1>5 DEF Settled
  <1>7. handed' \in [Events -> Nat] /\ acked' = acked /\ acked' \subseteq Events
    BY DEF Inv, TypeOK
  <1>8. refused' = refused /\ \A e \in Events : handed[e] <= handed'[e]
    BY DEF Inv, TypeOK
  <1>9. UNCHANGED <<config, supervision>>
    OBVIOUS
  <1> QED BY <1>3, <1>4, <1>5, <1>6, <1>7, <1>8, <1>9, TaskStepIsSafe

(* A task that only moves to another stage, with nothing in hand.            *)
LEMMA MovingIsSafe ==
  ASSUME Inv, NEW g \in Generations, NEW from, NEW to \in Stage, Moves(g, from, to),
         from \in Stage \ {"unborn", "acked", "lookup", "dead"},
         to \notin {"unborn", "receive", "acked", "lookup"},
         DOMAIN health' = Revisions
  PROVE  Inv'
  <1> DEFINE new == [gen[g] EXCEPT !.stage = to]
  <1>1. gen[g] \in Generation /\ gen[g].stage = from
    BY DEF Inv, TypeOK, Moves
  <1>2. Alive(g) /\ gen[g].current = NoEvent
    BY <1>1 DEF Alive, Inv, InHand
  <1>3. gen' = [gen EXCEPT ![g] = new]
    BY <1>1 DEF Moves, Inv, TypeOK
  <1>4. /\ new \in Generation /\ new.rev = gen[g].rev /\ new.stage = to
        /\ new.seen = gen[g].seen /\ new.current = NoEvent
    BY <1>1, <1>2 DEF Generation
  <1>5. \A e \in Events : gen[g].current # e
    BY <1>2, ChannelConstants
  <1>6. UNCHANGED <<config, supervision, inbound>>
    BY DEF Moves
  <1> HIDE DEF new
  <1>7. \A e \in new.seen : (Settled(e))'
    BY <1>1, <1>2, <1>4, <1>5, <1>6 DEF Inv, SeenIsSettled, Settled, inbound, Generation
  <1>8. handed' \in [Events -> Nat] /\ acked' \subseteq Events
    BY <1>6 DEF Inv, TypeOK, inbound
  <1>9. \A e \in Events : handed[e] <= handed'[e]
    BY <1>6 DEF Inv, TypeOK, inbound
  <1> QED
    BY <1>2, <1>3, <1>4, <1>5, <1>6, <1>7, <1>8, <1>9, TaskStepIsSafe DEF inbound

LEMMA HealthIsKept ==
  ASSUME Inv, NEW g, NEW state
  PROVE  /\ SetHealth(g, state) => DOMAIN health' = Revisions
         /\ health' = health => DOMAIN health' = Revisions
  BY DEF SetHealth, Inv, TypeOK

LEMMA TaskMovesSafely ==
  ASSUME Inv, NEW g \in Generations,
         \/ TaskBegins(g) \/ Initialise(g) \/ ConnectFails(g) \/ Disconnect(g)
         \/ BackoffEnds(g)
  PROVE  Inv'
  <1> USE DEF Stage
  <1>1. CASE TaskBegins(g)
    BY <1>1, MovingIsSafe, HealthIsKept DEF TaskBegins
  <1>2. CASE Initialise(g)
    BY <1>2, MovingIsSafe, HealthIsKept DEF Initialise
  <1>3. CASE ConnectFails(g)
    BY <1>3, MovingIsSafe, HealthIsKept DEF ConnectFails
  <1>4. CASE Disconnect(g)
    BY <1>4, MovingIsSafe, HealthIsKept DEF Disconnect
  <1>5. CASE BackoffEnds(g)
    BY <1>5, MovingIsSafe, HealthIsKept DEF BackoffEnds
  <1> QED BY <1>1, <1>2, <1>3, <1>4, <1>5

LEMMA ConnectIsSafe ==
  ASSUME Inv, NEW g \in Generations, Connect(g)
  PROVE  Inv'
  <1> DEFINE off == Offline(gen[g].rev, "receive")
             new == [off EXCEPT !.cancelled = gen[g].cancelled]
  <1>1. /\ gen[g] \in Generation /\ gen[g].stage = "connect" /\ "receive" \in Stage
        /\ gen[g].rev \in Revisions
    BY DEF Connect, Inv, TypeOK, KnownToSupervisor, Alive, Stage
  <1>2. /\ off \in Generation /\ off.rev = gen[g].rev /\ off.stage = "receive"
        /\ off.seen = {} /\ off.current = NoEvent
    BY <1>1, OfflineType DEF Generation
  <1>3. gen' = [gen EXCEPT ![g] = new]
    BY DEF Connect
  <1> HIDE DEF off
  <1>4. /\ new \in Generation /\ new.rev = gen[g].rev /\ new.stage = "receive"
        /\ new.seen = {} /\ new.current = NoEvent
    BY <1>1, <1>2 DEF Generation
  <1>5. \A e \in Events : gen[g].current # e
    BY <1>1, ChannelConstants DEF Inv, InHand
  <1>6. UNCHANGED <<config, supervision, inbound>>
    BY DEF Connect
  <1>7. DOMAIN health' = Revisions /\ health'[gen[g].rev] = "connected"
    BY <1>1 DEF Connect, SetHealth
  <1> HIDE DEF new
  <1>8. handed' \in [Events -> Nat] /\ acked' \subseteq Events
    BY <1>6 DEF Inv, TypeOK, inbound
  <1>9. \A e \in Events : handed[e] <= handed'[e]
    BY <1>6 DEF Inv, TypeOK, inbound
  <1> QED
    BY <1>1, <1>3, <1>4, <1>5, <1>6, <1>7, <1>8, <1>9, TaskStepIsSafe DEF inbound, Alive

LEMMA PanicIsSafe ==
  ASSUME Inv, NEW g \in Generations, TaskHearsCancel(g) \/ TaskPanics(g)
  PROVE  Inv'
  BY DyingIsSafe, HealthIsKept DEF TaskHearsCancel, TaskPanics
-----------------------------------------------------------------------------
(* One connection. *)

\* Outside the steps of its own task, only the wire of a task changes.
LEMMA HeadOfWire ==
  ASSUME Inv, NEW g \in Generations, gen[g].wire # <<>>
  PROVE  /\ gen[g] \in Generation
         /\ Head(gen[g].wire)[1] \in Events /\ Head(gen[g].wire)[2] \in Nat
         /\ Tail(gen[g].wire) \in Seq(Events \X Nat)
  <1>1. gen[g] \in Generation /\ gen[g].wire \in Seq(Events \X Nat)
    BY DEF Inv, TypeOK, Generation
  <1>2. Head(gen[g].wire) \in Events \X Nat /\ Tail(gen[g].wire) \in Seq(Events \X Nat)
    BY <1>1
  <1> QED BY <1>1, <1>2

LEMMA SendIsSafe ==
  ASSUME Inv, NEW e \in Events, PlatformSends(e)
  PROVE  Inv'
  <1>1. PICK g \in Generations : Receiving(g) /\ gen' = [gen EXCEPT ![g].wire = @ \o Frames(e)]
    BY DEF PlatformSends
  <1> DEFINE new == [gen[g] EXCEPT !.wire = @ \o Frames(e)]
  <1>2. gen[g] \in Generation /\ Alive(g)
    BY <1>1 DEF Inv, TypeOK, Receiving, Alive
  <1>3. Frames(e) \in Seq(Events \X Nat)
    <2>1. Parts[e] \in Nat
      BY ChannelConstants
    <2>2. \A i \in 1 .. Parts[e] : <<e, i>> \in Events \X Nat
      OBVIOUS
    <2> QED BY <2>1, <2>2 DEF Frames
  <1>4. gen' = [gen EXCEPT ![g] = new]
    BY <1>1
  <1>5. gen[g].wire \o Frames(e) \in Seq(Events \X Nat)
    BY <1>2, <1>3 DEF Generation
  <1>6. /\ new \in Generation /\ new.rev = gen[g].rev /\ new.stage = gen[g].stage
        /\ new.seen = gen[g].seen /\ new.current = gen[g].current
    BY <1>2, <1>5 DEF Generation
  <1> HIDE DEF new
  <1>7. UNCHANGED <<config, supervision, health>> /\ UNCHANGED <<acked, handed, refused, cutOff>>
    BY DEF PlatformSends, inbound
  <1>8. DOMAIN health' = Revisions /\ handed' \in [Events -> Nat] /\ acked' \subseteq Events
    BY <1>7 DEF Inv, TypeOK
  <1>9. \A f \in Events : handed[f] <= handed'[f]
    BY <1>7 DEF Inv, TypeOK
  <1>a. \A f \in new.seen : (Settled(f))' \/ (new.stage = "lookup" /\ new.current = f)
    BY <1>6, <1>7 DEF Inv, SeenIsSettled, Settled
  <1>b. new.current # NoEvent <=> new.stage \in {"acked", "lookup"}
    BY <1>6 DEF Inv, InHand
  <1>c. new.stage \in {"receive", "acked", "lookup"} => health'[new.rev] = "connected"
    BY <1>6, <1>7 DEF Inv, ConnectedIsShown, Receiving
  <1>d. new.stage # "unborn"
    BY <1>2, <1>6 DEF Alive
  <1> QED
    BY <1>2, <1>4, <1>6, <1>7, <1>8, <1>9, <1>a, <1>b, <1>c, <1>d, TaskStepIsSafe

(* What a connection does with its own state while it stays connected.       *)
LEMMA ConnectedStepIsSafe ==
  ASSUME Inv, NEW g \in Generations, Receiving(g), NEW new \in Generation,
         gen' = [gen EXCEPT ![g] = new],
         UNCHANGED <<config, supervision, health>>,
         new.rev = gen[g].rev, new.stage \in {"receive", "acked", "lookup"},
         new.current # NoEvent <=> new.stage \in {"acked", "lookup"},
         handed' \in [Events -> Nat], \A e \in Events : handed[e] <= handed'[e],
         refused \subseteq refused', cutOff' = cutOff,
         \A e \in new.seen :
           (Settled(e))' \/ (new.stage = "lookup" /\ new.current = e),
         acked' \subseteq Events,
         \A e \in acked' : e \in acked \/ new.current = e,
         \A e \in Events : gen[g].current = e => (Settled(e))' \/ new.current = e
  PROVE  Inv'
  <1>1. Alive(g) /\ DOMAIN health' = Revisions /\ health'[new.rev] = "connected"
    BY DEF Receiving, Alive, Inv, TypeOK, ConnectedIsShown
  <1>2. UNCHANGED <<config, supervision>> /\ new.stage # "unborn"
    OBVIOUS
  <1>3. cutOff \subseteq cutOff'
    OBVIOUS
  <1> QED BY <1>1, <1>2, <1>3, TaskStepIsSafe

LEMMA ReceiveIsSafe ==
  ASSUME Inv, NEW g \in Generations, Receive(g)
  PROVE  Inv'
  <1> DEFINE e == Head(gen[g].wire)[1]
             parts == gen[g].cache[e] \cup {Head(gen[g].wire)[2]}
             whole == [gen[g] EXCEPT !.wire = Tail(@), !.cache[e] = {},
                                     !.stage = "acked", !.current = e]
             part == [gen[g] EXCEPT !.wire = Tail(@), !.cache[e] = parts]
  <1>1. /\ gen[g] \in Generation /\ gen[g].stage = "receive" /\ Receiving(g)
        /\ e \in Events /\ Head(gen[g].wire)[2] \in Nat
        /\ Tail(gen[g].wire) \in Seq(Events \X Nat)
    BY HeadOfWire DEF Receive, Receiving
  <1>2. parts \subseteq Nat /\ gen[g].cache \in [Events -> SUBSET Nat]
    BY <1>1 DEF Generation
  <1>3. /\ UNCHANGED <<config, supervision, health>> /\ UNCHANGED <<handed, refused, cutOff>>
        /\ handed' \in [Events -> Nat] /\ \A f \in Events : handed[f] <= handed'[f]
    BY DEF Receive, Inv, TypeOK
  <1>4. \A f \in Events : gen[g].current # f
    BY <1>1, ChannelConstants DEF Inv, InHand
  <1>5. \A f \in gen[g].seen : (Settled(f))'
    BY <1>1, <1>3 DEF Inv, SeenIsSettled, Settled
  <1>6. ASSUME gen' = [gen EXCEPT ![g].wire = Tail(@), ![g].cache[e] = {},
                                  ![g].stage = "acked", ![g].current = e],
               acked' = acked \cup {e}
        PROVE  Inv'
    <2>1. gen' = [gen EXCEPT ![g] = whole]
      BY <1>6
    <2>2. /\ whole \in Generation /\ whole.rev = gen[g].rev /\ whole.stage = "acked"
          /\ whole.seen = gen[g].seen /\ whole.current = e
      BY <1>1, <1>2 DEF Generation, Stage
    <2> HIDE DEF whole, e
    <2>3. acked' \subseteq Events
      BY <1>1, <1>6 DEF Inv, TypeOK
    <2>4. e # NoEvent
      BY <1>1, ChannelConstants
    <2>5. \A f \in acked' : f \in acked \/ whole.current = f
      BY <1>6, <2>2
    <2>6. /\ whole.current # NoEvent <=> whole.stage \in {"acked", "lookup"}
          /\ whole.stage \in {"receive", "acked", "lookup"}
          /\ \A f \in whole.seen :
               (Settled(f))' \/ (whole.stage = "lookup" /\ whole.current = f)
      BY <2>2, <2>4, <1>5
    <2>7. \A f \in Events : gen[g].current = f => (Settled(f))' \/ whole.current = f
      BY <1>4
    <2> QED
      BY <1>1, <1>3, <2>1, <2>2, <2>3, <2>5, <2>6, <2>7, ConnectedStepIsSafe
  <1>7. ASSUME gen' = [gen EXCEPT ![g].wire = Tail(@), ![g].cache[e] = parts],
               acked' = acked
        PROVE  Inv'
    <2>1. gen' = [gen EXCEPT ![g] = part]
      BY <1>7
    <2>2. /\ part \in Generation /\ part.rev = gen[g].rev /\ part.stage = "receive"
          /\ part.seen = gen[g].seen /\ part.current = gen[g].current
      BY <1>1, <1>2 DEF Generation
    <2> HIDE DEF part
    <2>3. part.current = NoEvent
      BY <1>1, <2>2 DEF Inv, InHand
    <2>4. acked' \subseteq Events
      BY <1>7 DEF Inv, TypeOK
    <2> QED BY <1>1, <1>3, <1>4, <1>5, <1>7, <2>1, <2>2, <2>3, <2>4, ConnectedStepIsSafe
  <1> QED BY <1>6, <1>7 DEF Receive

LEMMA ParseIsSafe ==
  ASSUME Inv, NEW g \in Generations, Parse(g)
  PROVE  Inv'
  <1>a. PICK e \in Events : e = gen[g].current
    BY DEF Parse, Inv, TypeOK, InHand, Generation
  <1> DEFINE accepted == e \in Accepted[gen[g].rev]
             new == [gen[g] EXCEPT
                       !.seen = @ \cup {e},
                       !.stage = IF accepted /\ Fresh(g) THEN "lookup" ELSE "receive",
                       !.current = IF accepted /\ Fresh(g) THEN e ELSE NoEvent]
  <1>1. gen[g] \in Generation /\ gen[g].stage = "acked" /\ Receiving(g)
    BY DEF Parse, Receiving, Inv, TypeOK
  <1>2. gen' = [gen EXCEPT ![g] = new]
    BY <1>1, <1>a DEF Parse
  <1>3. /\ new \in Generation /\ new.rev = gen[g].rev /\ new.seen = gen[g].seen \cup {e}
        /\ new.stage = IF accepted /\ Fresh(g) THEN "lookup" ELSE "receive"
        /\ new.current = IF accepted /\ Fresh(g) THEN e ELSE NoEvent
    BY <1>1 DEF Generation, Stage
  <1>4. /\ UNCHANGED <<config, supervision, health>> /\ UNCHANGED <<acked, handed, cutOff>>
        /\ refused' = IF accepted THEN refused ELSE refused \cup {e}
    BY <1>a DEF Parse
  <1>5. /\ handed' \in [Events -> Nat] /\ \A f \in Events : handed[f] <= handed'[f]
        /\ acked' \subseteq Events
    BY <1>4 DEF Inv, TypeOK
  <1>6. \A f \in gen[g].seen : (Settled(f))'
    BY <1>1, <1>4 DEF Inv, SeenIsSettled, Settled
  <1>7. (Settled(e))' \/ (accepted /\ Fresh(g))
    <2>1. CASE e \in gen[g].seen
      BY <2>1, <1>6
    <2>2. CASE ~accepted
      BY <2>2, <1>4 DEF Settled
    <2> QED BY <2>1, <2>2, <1>a DEF Fresh
  <1> HIDE DEF new, accepted
  <1>8. e # NoEvent
    BY <1>1, ChannelConstants
  <1>9. /\ new.current # NoEvent <=> new.stage \in {"acked", "lookup"}
        /\ new.stage \in {"receive", "acked", "lookup"}
    BY <1>3, <1>8
  <1>10. \A f \in new.seen : (Settled(f))' \/ (new.stage = "lookup" /\ new.current = f)
    BY <1>3, <1>6, <1>7
  <1>11. \A f \in Events : gen[g].current = f => (Settled(f))' \/ new.current = f
    BY <1>3, <1>7, <1>a
  <1>12. refused \subseteq refused'
    BY <1>4
  <1> QED
    BY <1>1, <1>2, <1>3, <1>4, <1>5, <1>9, <1>10, <1>11, <1>12, ConnectedStepIsSafe

LEMMA HandOverIsSafe ==
  ASSUME Inv, NEW g \in Generations, HandOver(g)
  PROVE  Inv'
  <1> DEFINE e == gen[g].current
             new == [gen[g] EXCEPT !.stage = "receive", !.current = NoEvent]
  <1>1. gen[g] \in Generation /\ gen[g].stage = "lookup" /\ Receiving(g) /\ e \in Events
    BY DEF HandOver, Receiving, Inv, TypeOK, InHand, Generation
  <1>2. gen' = [gen EXCEPT ![g] = new]
    BY <1>1 DEF HandOver
  <1>3. /\ new \in Generation /\ new.rev = gen[g].rev /\ new.seen = gen[g].seen
        /\ new.stage = "receive" /\ new.current = NoEvent
    BY <1>1 DEF Generation, Stage
  <1>4. /\ UNCHANGED <<config, supervision, health>> /\ UNCHANGED <<acked, refused, cutOff>>
        /\ handed' = [handed EXCEPT ![e] = @ + 1]
    BY DEF HandOver
  <1>5. /\ handed' \in [Events -> Nat] /\ \A f \in Events : handed[f] <= handed'[f]
        /\ handed'[e] > 0 /\ acked' \subseteq Events
    BY <1>1, <1>4 DEF Inv, TypeOK
  <1> HIDE DEF new
  <1>6. \A f \in Events : Settled(f) => (Settled(f))'
    BY <1>4, <1>5 DEF Settled, Inv, TypeOK
  <1>7. \A f \in new.seen : (Settled(f))'
    BY <1>1, <1>3, <1>5, <1>6 DEF Inv, SeenIsSettled, Settled, Generation
  <1>8. \A f \in Events : gen[g].current = f => (Settled(f))'
    BY <1>5 DEF Settled
  <1> QED
    BY <1>1, <1>2, <1>3, <1>4, <1>5, <1>7, <1>8, ConnectedStepIsSafe

LEMMA ForgettingIsSafe ==
  ASSUME Inv, NEW g \in Generations, CacheExpires(g) \/ DedupForgets(g)
  PROVE  Inv'
  <1>1. /\ gen[g] \in Generation /\ gen[g].stage = "receive" /\ Receiving(g)
        /\ gen[g].current = NoEvent
    BY DEF CacheExpires, DedupForgets, Receiving, Inv, TypeOK, InHand
  <1>2. /\ UNCHANGED <<config, supervision, health>>
        /\ UNCHANGED <<acked, handed, refused, cutOff>>
    BY DEF CacheExpires, DedupForgets, inbound
  <1>3. PICK new \in Generation :
          /\ gen' = [gen EXCEPT ![g] = new]
          /\ new.rev = gen[g].rev /\ new.stage = "receive" /\ new.current = NoEvent
          /\ new.seen \subseteq gen[g].seen
    <2>1. CASE CacheExpires(g)
      <3> DEFINE new == [gen[g] EXCEPT !.cache = [e \in Events |-> {}]]
      <3>1. [e \in Events |-> {}] \in [Events -> SUBSET Nat]
        OBVIOUS
      <3>2. gen' = [gen EXCEPT ![g] = new]
        BY <2>1 DEF CacheExpires
      <3>3. /\ new \in Generation /\ new.rev = gen[g].rev /\ new.stage = "receive"
            /\ new.current = NoEvent /\ new.seen = gen[g].seen
        BY <1>1, <3>1 DEF Generation
      <3> HIDE DEF new
      <3> QED BY <3>2, <3>3
    <2>2. CASE DedupForgets(g)
      <3> DEFINE new == [gen[g] EXCEPT !.seen = {}]
      <3>1. gen' = [gen EXCEPT ![g] = new]
        BY <2>2 DEF DedupForgets
      <3>2. /\ new \in Generation /\ new.rev = gen[g].rev /\ new.stage = "receive"
            /\ new.current = NoEvent /\ new.seen = {}
        BY <1>1 DEF Generation
      <3> HIDE DEF new
      <3> QED BY <3>1, <3>2
    <2> QED BY <2>1, <2>2
  <1>4. /\ handed' \in [Events -> Nat] /\ \A f \in Events : handed[f] <= handed'[f]
        /\ acked' \subseteq Events
    BY <1>2 DEF Inv, TypeOK
  <1>5. \A f \in new.seen : (Settled(f))'
    BY <1>1, <1>2, <1>3 DEF Inv, SeenIsSettled, Settled
  <1>6. \A f \in Events : gen[g].current # f
    BY <1>1, ChannelConstants
  <1> QED BY <1>1, <1>2, <1>3, <1>4, <1>5, <1>6, ConnectedStepIsSafe

-----------------------------------------------------------------------------
(* The supervisor. *)

(* What the supervisor does to the tasks' tokens changes nothing they do.    *)
LEMMA SupervisionIsSafe ==
  ASSUME Inv, TypeOK', KnownToSupervisor', UNCHANGED <<health, inbound>>,
         \A g \in Generations :
           /\ gen'[g].rev = gen[g].rev /\ gen'[g].stage = gen[g].stage
           /\ gen'[g].seen = gen[g].seen /\ gen'[g].current = gen[g].current
  PROVE  Inv'
  <1>1. InHand'
    BY DEF Inv, InHand
  <1>2. SeenIsSettled'
    BY DEF Inv, SeenIsSettled, Settled, inbound
  <1>3. ConnectedIsShown'
    BY DEF Inv, ConnectedIsShown, Receiving
  <1>4. AckedIsTaken'
    BY DEF Inv, AckedIsTaken, inbound
  <1> QED BY <1>1, <1>2, <1>3, <1>4 DEF Inv

LEMMA ShutdownIsSafe ==
  ASSUME Inv, NEW then \in {"stopping", "shutdown"}, Shutdown(then),
         supervisor \in {"reconcile", "waits"}
  PROVE  Inv'
  <1>1. /\ victim' = entry /\ entry' = 0 /\ supervisor' = then
        /\ UNCHANGED <<file, loaded, started, health, inbound>>
    BY DEF Shutdown, config
  <1>2. /\ gen' \in [Generations -> Generation]
        /\ \A g \in Generations :
             /\ gen'[g].rev = gen[g].rev /\ gen'[g].stage = gen[g].stage
             /\ gen'[g].seen = gen[g].seen /\ gen'[g].current = gen[g].current
    <2>1. CASE entry \in Generations
      <3> DEFINE new == [gen[entry] EXCEPT !.cancelled = TRUE]
      <3>1. gen[entry] \in Generation
        BY <2>1 DEF Inv, TypeOK
      <3>2. /\ new \in Generation /\ new.rev = gen[entry].rev /\ new.stage = gen[entry].stage
            /\ new.seen = gen[entry].seen /\ new.current = gen[entry].current
        BY <3>1 DEF Generation
      <3>3. gen' = [gen EXCEPT ![entry] = new]
        BY <2>1 DEF Shutdown, Generations
      <3> HIDE DEF new
      <3> QED BY <2>1, <3>2, <3>3 DEF Inv, TypeOK
    <2>2. CASE entry \notin Generations
      <3>1. gen' = gen
        BY <2>2 DEF Shutdown, Inv, TypeOK
      <3> QED BY <3>1 DEF Inv, TypeOK
    <2> QED BY <2>1, <2>2
  <1>3. TypeOK'
    BY <1>1, <1>2 DEF Inv, TypeOK, Phase, inbound
  <1>4. KnownToSupervisor'
    BY <1>1, <1>2 DEF Inv, TypeOK, KnownToSupervisor, Alive
  <1> QED BY <1>1, <1>2, <1>3, <1>4, SupervisionIsSafe

LEMMA StopEndsIsSafe ==
  ASSUME Inv, StopEnds
  PROVE  Inv'
  <1>1. /\ victim' = 0 /\ supervisor' \in {"start", "ended"}
        /\ UNCHANGED <<file, loaded, entry, started, gen, health, inbound>>
        /\ supervisor' = "ended" => entry = 0
        /\ entry = 0
    BY DEF StopEnds, config, Inv, KnownToSupervisor
  <1>2. \A g \in Generations : ~Alive(g)
    BY <1>1 DEF StopEnds, Inv, KnownToSupervisor, Alive
  <1>3. TypeOK'
    BY <1>1 DEF Inv, TypeOK, Phase, inbound
  <1>4. KnownToSupervisor'
    BY <1>1, <1>2 DEF Inv, TypeOK, KnownToSupervisor, Alive
  <1> QED BY <1>1, <1>3, <1>4, SupervisionIsSafe

LEMMA StopAbortsIsSafe ==
  ASSUME Inv, StopAborts
  PROVE  Inv'
  <1>1. CASE victim \in Generations
    BY <1>1, DyingIsSafe, HealthIsKept DEF StopAborts
  <1>2. CASE victim \notin Generations
    <2>1. gen' = gen /\ cutOff \subseteq cutOff'
          /\ UNCHANGED <<config, supervision, health, acked, handed, refused>>
      BY <1>2 DEF StopAborts, Dies, Inv, TypeOK
    <2>2. TypeOK' /\ KnownToSupervisor' /\ InHand'
      BY <2>1 DEF Inv, TypeOK, KnownToSupervisor, InHand, Alive, config, supervision
    <2>3. SeenIsSettled' /\ ConnectedIsShown' /\ AckedIsTaken'
      BY <2>1 DEF Inv, SeenIsSettled, Settled, ConnectedIsShown, Receiving, AckedIsTaken
    <2> QED BY <2>2, <2>3 DEF Inv
  <1> QED BY <1>1, <1>2

LEMMA StartIsSafe ==
  ASSUME Inv, StartDesired
  PROVE  Inv'
  <1>1. /\ supervisor = "start" /\ supervisor' = "waits" /\ victim = 0
        /\ UNCHANGED <<file, loaded, victim, health, inbound>>
    BY DEF StartDesired, config, Inv, KnownToSupervisor
  <1>2. CASE UNCHANGED <<started, entry, gen>>
    <2>1. TypeOK' /\ KnownToSupervisor'
      BY <1>1, <1>2 DEF Inv, TypeOK, Phase, KnownToSupervisor, Alive, inbound
    <2> QED BY <1>1, <1>2, <2>1, SupervisionIsSafe
  <1>3. ASSUME loaded # NoRevision, entry = 0, started' = started + 1, entry' = started',
               gen' = [gen EXCEPT ![started'] = Offline(loaded, "new")]
        PROVE  Inv'
    <2> DEFINE new == Offline(loaded, "new")
               n == started + 1
    <2>1. loaded \in Revisions /\ "new" \in Stage /\ started \in Nat
      BY <1>3 DEF Inv, TypeOK, Stage
    <2>2. /\ new \in Generation /\ new.rev = loaded /\ new.stage = "new" /\ new.seen = {}
          /\ new.current = NoEvent
      BY <2>1, OfflineType
    <2>3. gen' = [gen EXCEPT ![n] = new]
      BY <1>3
    <2> HIDE DEF new
    <2>4. \A g \in Generations : gen'[g] = IF g = n THEN new ELSE gen[g]
      BY <2>3 DEF Inv, TypeOK
    <2>5. \A g \in Generations : ~Alive(g)
      BY <1>1, <1>3 DEF Inv, KnownToSupervisor
    <2>6. TypeOK'
      <3>1. gen' \in [Generations -> Generation]
        BY <2>2, <2>3 DEF Inv, TypeOK
      <3>2. entry' \in Nat /\ started' \in Nat
        BY <1>3, <2>1
      <3> QED BY <1>1, <3>1, <3>2 DEF Inv, TypeOK, Phase, inbound
    <2>7. KnownToSupervisor'
      <3>1. entry' <= started' /\ victim' <= started' /\ victim' = 0 /\ n > 0
        BY <1>1, <1>3, <2>1
      <3>2. ASSUME NEW g \in Generations, (Alive(g))'
            PROVE  g # 0 /\ g = entry' /\ gen'[g].rev \in Revisions
        BY <3>2, <1>3, <2>1, <2>2, <2>4, <2>5, <3>1 DEF Alive
      <3>3. ASSUME NEW g \in Generations, g > started'
            PROVE  gen'[g].stage = "unborn"
        BY <3>3, <1>3, <2>1, <2>4 DEF Inv, KnownToSupervisor, Generations
      <3> QED BY <1>1, <3>1, <3>2, <3>3 DEF KnownToSupervisor
    <2>8. InHand'
      BY <2>2, <2>4 DEF Inv, InHand
    <2>9. SeenIsSettled'
      BY <1>1, <2>2, <2>4 DEF Inv, SeenIsSettled, Settled, inbound
    <2>10. ConnectedIsShown'
      BY <1>1, <2>2, <2>4, <2>5 DEF ConnectedIsShown, Receiving, Alive
    <2>11. AckedIsTaken'
      <3>1. \A g \in Generations : gen[g].current = NoEvent
        BY <2>5 DEF Inv, InHand, Alive
      <3>2. \A e \in acked : handed[e] > 0 \/ e \in refused \cup cutOff
        BY <3>1, ChannelConstants DEF Inv, TypeOK, AckedIsTaken
      <3> QED BY <1>1, <3>2 DEF AckedIsTaken, inbound
    <2> QED BY <2>6, <2>7, <2>8, <2>9, <2>10, <2>11 DEF Inv
  <1> QED BY <1>2, <1>3 DEF StartDesired

(* The steps that touch no task, and the process's own end.                  *)
LEMMA OtherStepsAreSafe ==
  ASSUME Inv, NothingObsolete \/ Tick \/ EditConfig \/ CancelProcess \/ UNCHANGED vars
  PROVE  Inv'
  <1>1. CASE NothingObsolete
    <2>1. TypeOK' /\ KnownToSupervisor'
      BY <1>1 DEF NothingObsolete, Inv, TypeOK, Phase, KnownToSupervisor, Alive, config, inbound
    <2> QED BY <1>1, <2>1, SupervisionIsSafe DEF NothingObsolete
  <1>2. CASE Tick
    <2>1. TypeOK' /\ KnownToSupervisor'
      BY <1>2 DEF Tick, Inv, TypeOK, Phase, KnownToSupervisor, Alive, inbound
    <2> QED BY <1>2, <2>1, SupervisionIsSafe DEF Tick
  <1>3. CASE EditConfig
    <2>1. TypeOK' /\ KnownToSupervisor'
      BY <1>3 DEF EditConfig, Inv, TypeOK, KnownToSupervisor, Alive, supervision, inbound
    <2> QED BY <1>3, <2>1, SupervisionIsSafe DEF EditConfig
  <1>4. CASE CancelProcess
    <2>2. ASSUME NEW g \in Generations
          PROVE  /\ gen'[g] \in Generation
                 /\ gen'[g].rev = gen[g].rev /\ gen'[g].stage = gen[g].stage
                 /\ gen'[g].seen = gen[g].seen /\ gen'[g].current = gen[g].current
      <3>1. gen[g] \in Generation
        BY DEF Inv, TypeOK
      <3>2. gen'[g] = [gen[g] EXCEPT !.cancelled = TRUE]
        BY <1>4 DEF CancelProcess
      <3> QED BY <3>1, <3>2 DEF Generation
    <2>3. gen' \in [Generations -> Generation]
      BY <1>4, <2>2 DEF CancelProcess
    <2>4. TypeOK' /\ KnownToSupervisor'
      BY <1>4, <2>2, <2>3
         DEF CancelProcess, Inv, TypeOK, KnownToSupervisor, Alive, config, supervision, inbound
    <2> QED BY <1>4, <2>2, <2>4, SupervisionIsSafe DEF CancelProcess
  <1>5. CASE UNCHANGED vars
    <2>1. UNCHANGED <<config, supervision, gen, health, inbound>>
      BY <1>5 DEF vars
    <2>2. TypeOK' /\ KnownToSupervisor'
      BY <2>1 DEF Inv, TypeOK, KnownToSupervisor, Alive, config, supervision, inbound
    <2> QED BY <2>1, <2>2, SupervisionIsSafe
  <1> QED BY <1>1, <1>2, <1>3, <1>4, <1>5

-----------------------------------------------------------------------------
LEMMA StepInv == Inv /\ [Next]_vars => Inv'
  <1> SUFFICES ASSUME Inv, [Next]_vars PROVE Inv'
    OBVIOUS
  <1>1. CASE Supervise
    <2>1. CASE RetireObsolete
      BY <2>1, ShutdownIsSafe DEF RetireObsolete
    <2>2. CASE SupervisorStops
      BY <2>2, ShutdownIsSafe DEF SupervisorStops
    <2> QED
      BY <1>1, <2>1, <2>2, OtherStepsAreSafe, StopEndsIsSafe, StopAbortsIsSafe, StartIsSafe
         DEF Supervise
  <1>2. ASSUME NEW g \in Generations,
               \/ Task(g) \/ ConnectFails(g) \/ Disconnect(g) \/ TaskPanics(g)
               \/ CacheExpires(g) \/ DedupForgets(g)
        PROVE  Inv'
    BY <1>2, TaskMovesSafely, ConnectIsSafe, PanicIsSafe, ReceiveIsSafe, ParseIsSafe,
       HandOverIsSafe, ForgettingIsSafe DEF Task
  <1>3. ASSUME NEW e \in Events, PlatformSends(e) PROVE Inv'
    BY <1>3, SendIsSafe
  <1> QED BY <1>1, <1>2, <1>3, OtherStepsAreSafe DEF Next

LEMMA AlwaysInv == Spec => []Inv
  BY InitInv, StepInv, PTL DEF Spec

(* Whatever is edited, fails or panics, two tasks of the channel never live   *)
(* together, and the health shown for a connection is its own (supervisor.rs, *)
(* channel_tasks.rs, adapter.rs).                                             *)
THEOREM OneTransportOnly == Spec => []OneTransport
  BY InvGivesOneTransport, AlwaysInv, PTL

(* An event the platform will not send again has become a message task, was   *)
(* refused by a filter, or was in hand when its task was stopped (ws.rs,      *)
(* message.rs), however its frames and their repetitions arrive.              *)
THEOREM AcknowledgedIsTaken == Spec => []AckedIsTaken
  <1>1. Inv => AckedIsTaken
    BY DEF Inv
  <1> QED BY <1>1, AlwaysInv, PTL
-----------------------------------------------------------------------------
(* Scheduled tasks: a lease is worked on once, and what is reported under it *)
(* is true, for any number of dispatchers, runs and chats.                   *)

Place ==
  {"polling", "confirming", "submitting", "running", "delivering", "reporting", "stopped"}

Status == {"", "needs_attention", "failed", "succeeded"}
Delivery == {"", "not_requested", "failed", "sent"}

DispatcherState ==
  [pc : Place, request : Dispatcher \X Nat, run : Run \cup {NoRun}, token : Nat,
   todo : SUBSET Target, status : Status, delivery : Delivery, tries : Nat]

RunRecord ==
  [state : {"due", "leased", "reported"}, token : Nat,
   request : {<<>>} \cup (Dispatcher \X Nat), status : Status, delivery : Delivery]

Effect == [started : Nat, reached : SUBSET Target]

LeaseTypes ==
  /\ at \in [Dispatcher -> DispatcherState]
  /\ run \in [Run -> RunRecord]
  /\ effect \in [Run -> Effect]

\* A dispatcher's requests bear its name, and it has work or none.
OwnRequests ==
  \A d \in Dispatcher :
    /\ at[d].request[1] = d
    /\ at[d].pc \in {"polling", "stopped"} <=> at[d].run = NoRun

Has(d, r) == at[d].run = r /\ at[d].token = run[r].token

\* Tokens are not foreseen, and who has the present one asked for it with an
\* id it uses no more.
HolderAsked ==
  \A r \in Run :
    /\ \A d \in Dispatcher :
         /\ at[d].run = r => at[d].token <= run[r].token
         /\ Has(d, r) => /\ run[r].request # <<>>
                         /\ run[r].request[1] = d
                         /\ run[r].request[2] < at[d].request[2]
    /\ run[r].request # <<>> => run[r].request[2] <= at[run[r].request[1]].request[2]
    /\ run[r].request = <<>> => \A d \in Dispatcher : at[d].run # r

\* A claim whose answer was lost has had no effect.
UnansweredIsFresh ==
  \A r \in Run, d \in Dispatcher :
    run[r].request = at[d].request => effect[r] = NoEffect /\ run[r].state # "reported"

\* What has been done under a lease agrees with where its holder is.
Progress(d, r) ==
  /\ at[d].pc \in {"confirming", "submitting"} => effect[r].started = 0
  /\ at[d].pc \in {"confirming", "submitting", "running"} => effect[r].reached = {}
  /\ at[d].pc # "reporting" => run[r].state # "reported"
  /\ at[d].pc = "delivering" /\ at[d].delivery # "failed" =>
       /\ at[d].delivery = "sent"
       /\ Target \ at[d].todo \subseteq effect[r].reached
  /\ at[d].pc = "delivering" => at[d].delivery # "not_requested"
  /\ at[d].pc = "reporting" =>
       /\ at[d].delivery = "sent" => effect[r].reached = Target
       /\ at[d].delivery = "not_requested" => effect[r].reached = {}

HolderProgress == \A d \in Dispatcher, r \in Run : Has(d, r) => Progress(d, r)

LeaseInv ==
  /\ LeaseTypes /\ OwnRequests /\ HolderAsked /\ UnansweredIsFresh /\ HolderProgress
  /\ OncePerLease /\ ReportIsTrue

LEMMA FreshType ==
  ASSUME NEW d \in Dispatcher, NEW n \in Nat, NEW place \in Place,
         NEW r \in Run \cup {NoRun}, NEW token \in Nat
  PROVE  /\ Anew(d, n, place, r, token) \in DispatcherState
         /\ Anew(d, n, place, r, token).request = <<d, n>>
         /\ Anew(d, n, place, r, token).run = r
         /\ Anew(d, n, place, r, token).pc = place
         /\ Anew(d, n, place, r, token).token = token
  <1>1. <<d, n>> \in Dispatcher \X Nat
    OBVIOUS
  <1> QED BY <1>1 DEF Anew, DispatcherState, Status, Delivery

LEMMA IdleType ==
  ASSUME NEW d \in Dispatcher, NEW n \in Nat
  PROVE  /\ Idle(d, n) \in DispatcherState
         /\ Idle(d, n).request = <<d, n>> /\ Idle(d, n).run = NoRun
         /\ Idle(d, n).pc = "polling"
  <1>1. "polling" \in Place /\ NoRun \in Run \cup {NoRun} /\ Nobody \in Nat
    BY DEF Place, Nobody
  <1>2. Idle(d, n) = Anew(d, n, "polling", NoRun, Nobody)
    BY DEF Idle
  <1>3. /\ Anew(d, n, "polling", NoRun, Nobody) \in DispatcherState
        /\ Anew(d, n, "polling", NoRun, Nobody).request = <<d, n>>
        /\ Anew(d, n, "polling", NoRun, Nobody).run = NoRun
        /\ Anew(d, n, "polling", NoRun, Nobody).pc = "polling"
    BY <1>1, FreshType
  <1> QED BY <1>2, <1>3

LEMMA LeaseInit ==
  ASSUME LeasesInit
  PROVE  LeaseInv
  <1>1. LeaseTypes
    <2>1. at \in [Dispatcher -> DispatcherState]
      BY IdleType DEF LeasesInit
    <2>2. run \in [Run -> RunRecord]
      BY DEF LeasesInit, RunRecord, Nobody, Status, Delivery
    <2>3. effect \in [Run -> Effect]
      BY DEF LeasesInit, Effect, NoEffect
    <2> QED BY <2>1, <2>2, <2>3 DEF LeaseTypes
  <1>2. \A d \in Dispatcher :
          at[d].pc = "polling" /\ at[d].run = NoRun /\ at[d].request = <<d, 0>>
    BY DEF LeasesInit, Idle, Anew
  <1>3. \A r \in Run : run[r].request = <<>> /\ run[r].state = "due" /\ effect[r] = NoEffect
    BY DEF LeasesInit
  <1> QED
    BY <1>1, <1>2, <1>3, NoRunIsNone
       DEF LeaseInv, OwnRequests, HolderAsked, UnansweredIsFresh, HolderProgress, Has,
           OncePerLease, ReportIsTrue, NoEffect

(* One lease has one holder.                                                 *)
LEMMA OneHolder ==
  ASSUME LeaseInv, NEW d \in Dispatcher, NEW e \in Dispatcher, NEW r \in Run, Has(d, r), Has(e, r)
  PROVE  d = e
  BY DEF LeaseInv, HolderAsked

(* A dispatcher goes back to its loop, in one way or another.                *)
LEMMA GivingUpIsSafe ==
  ASSUME LeaseInv, NEW d \in Dispatcher, NEW new \in DispatcherState,
         at' = [at EXCEPT ![d] = new],
         new.run = NoRun, new.pc \in {"polling", "stopped"},
         new.request = at[d].request,
         UNCHANGED <<run, effect>>
  PROVE  LeaseInv'
  <1>1. \A e \in Dispatcher : at'[e] = IF e = d THEN new ELSE at[e]
    BY DEF LeaseInv, LeaseTypes
  <1>2. LeaseTypes'
    BY DEF LeaseInv, LeaseTypes
  <1>3. OwnRequests'
    BY <1>1 DEF LeaseInv, OwnRequests
  <1>4. HolderAsked'
    BY <1>1, NoRunIsNone DEF LeaseInv, HolderAsked, Has
  <1>5. UnansweredIsFresh'
    BY <1>1 DEF LeaseInv, UnansweredIsFresh
  <1>6. HolderProgress'
    <2> SUFFICES ASSUME NEW e \in Dispatcher, NEW s \in Run, Has(e, s)'
                 PROVE  Progress(e, s)'
      BY DEF HolderProgress
    <2>1. at'[e] = at[e] /\ Has(e, s)
      BY <1>1, NoRunIsNone DEF Has
    <2> QED BY <2>1 DEF LeaseInv, HolderProgress, Progress
  <1>7. OncePerLease' /\ ReportIsTrue'
    BY DEF LeaseInv, OncePerLease, ReportIsTrue
  <1> QED BY <1>2, <1>3, <1>4, <1>5, <1>6, <1>7 DEF LeaseInv

LEMMA ReleasedType ==
  ASSUME LeaseInv, NEW d \in Dispatcher
  PROVE  /\ Released(d) \in DispatcherState
         /\ Released(d).run = NoRun /\ Released(d).pc = "polling"
         /\ Released(d).request = at[d].request
  <1>1. at[d].request = <<d, at[d].request[2]>> /\ at[d].request[2] \in Nat
    BY DEF LeaseInv, LeaseTypes, OwnRequests, DispatcherState
  <1> QED BY <1>1, IdleType DEF Released

LEMMA GiveUpIsSafe ==
  ASSUME LeaseInv, NEW d \in Dispatcher, GiveUp(d), UNCHANGED <<run, effect>>
  PROVE  LeaseInv'
  BY ReleasedType, GivingUpIsSafe DEF GiveUp

(* The holder works on: what the step changes agrees with where it goes.     *)
LEMMA WorkingIsSafe ==
  ASSUME LeaseInv, NEW d \in Dispatcher, at[d].run \in Run,
         NEW new \in DispatcherState, NEW done \in Effect,
         at' = [at EXCEPT ![d] = new],
         effect' = Noted(d, done),
         run' = run,
         new.request = at[d].request, new.run = at[d].run, new.token = at[d].token,
         new.pc \notin {"polling", "stopped"},
         Has(d, at[d].run) =>
           /\ done.started <= 1
           /\ run[at[d].run].state = "reported" => done = effect[at[d].run]
           /\ (Progress(d, at[d].run))'
  PROVE  LeaseInv'
  <1> DEFINE r == at[d].run
  <1>1. \A e \in Dispatcher : at'[e] = IF e = d THEN new ELSE at[e]
    BY DEF LeaseInv, LeaseTypes
  <1>2. \A s \in Run : effect'[s] = IF s = r /\ Has(d, r) THEN done ELSE effect[s]
    BY DEF LeaseInv, LeaseTypes, Noted, Has
  <1>3. LeaseTypes'
    BY DEF LeaseInv, LeaseTypes, Noted
  <1>4. OwnRequests'
    BY <1>1, NoRunIsNone DEF LeaseInv, OwnRequests
  <1>5. HolderAsked'
    BY <1>1 DEF LeaseInv, HolderAsked, Has
  <1>6. UnansweredIsFresh'
    <2> SUFFICES ASSUME NEW s \in Run, NEW e \in Dispatcher, run[s].request = at[e].request
                 PROVE  effect'[s] = NoEffect /\ run[s].state # "reported"
      BY <1>1 DEF UnansweredIsFresh
    <2>1. ~Has(d, s)
      BY DEF LeaseInv, HolderAsked, OwnRequests, LeaseTypes, DispatcherState
    <2> QED BY <1>2, <2>1 DEF LeaseInv, UnansweredIsFresh
  <1>7. HolderProgress'
    <2> SUFFICES ASSUME NEW e \in Dispatcher, NEW s \in Run, Has(e, s)'
                 PROVE  Progress(e, s)'
      BY DEF HolderProgress
    <2>1. Has(e, s)
      BY <1>1 DEF Has
    <2>2. CASE e = d
      BY <2>1, <2>2 DEF Has
    <2>3. CASE e # d
      <3>1. ~(s = r /\ Has(d, r))
        BY <2>1, <2>3, OneHolder
      <3> QED BY <2>1, <2>3, <3>1, <1>1, <1>2 DEF LeaseInv, HolderProgress, Progress
    <2> QED BY <2>2, <2>3
  <1>8. OncePerLease'
    BY <1>2 DEF LeaseInv, OncePerLease
  <1>9. ReportIsTrue'
    BY <1>2 DEF LeaseInv, ReportIsTrue
  <1> QED BY <1>3, <1>4, <1>5, <1>6, <1>7, <1>8, <1>9 DEF LeaseInv

-----------------------------------------------------------------------------
(* The id a dispatcher takes next has never been used.                       *)
LEMMA NextIsUnused ==
  ASSUME LeaseInv, NEW d \in Dispatcher, NEW s \in Run
  PROVE  run[s].request # <<d, at[d].request[2] + 1>>
  <1> SUFFICES ASSUME run[s].request = <<d, at[d].request[2] + 1>> PROVE FALSE
    OBVIOUS
  <1>1. at[d].request[2] \in Nat
    BY DEF LeaseInv, LeaseTypes, DispatcherState
  <1>2. run[s].request # <<>> /\ run[s].request[1] = d
        /\ run[s].request[2] = at[d].request[2] + 1
    OBVIOUS
  <1>3. run[s].request[2] <= at[d].request[2]
    BY <1>2 DEF LeaseInv, HolderAsked
  <1> QED BY <1>1, <1>2, <1>3

(* The cloud grants a due run: whoever held it before holds it no more.      *)
LEMMA GrantIsSafe ==
  ASSUME LeaseInv, NEW d \in Dispatcher, NEW r \in Run, NEW new \in DispatcherState,
         Grant(r, at[d].request),
         \A s \in Run : run[s].request # at[d].request,
         at' = [at EXCEPT ![d] = new],
         \/ new.run = NoRun /\ new.pc = "polling" /\ new.request = at[d].request
         \/ /\ new.run = r /\ new.token = run[r].token + 1 /\ new.pc = "confirming"
            /\ new.request = <<d, at[d].request[2] + 1>>
  PROVE  LeaseInv'
  <1>1. \A e \in Dispatcher : at'[e] = IF e = d THEN new ELSE at[e]
    BY DEF LeaseInv, LeaseTypes
  <1>2. /\ run'[r] \in RunRecord
        /\ run'[r].state = "leased" /\ run'[r].request = at[d].request
        /\ run'[r].token = run[r].token + 1
        /\ \A s \in Run : s # r => run'[s] = run[s]
        /\ run' \in [Run -> RunRecord]
    BY DEF Grant, LeaseInv, LeaseTypes, RunRecord, DispatcherState
  <1>3. \A s \in Run : effect'[s] = IF s = r THEN NoEffect ELSE effect[s]
    BY DEF Grant, LeaseInv, LeaseTypes
  <1>4. LeaseTypes'
    BY <1>2 DEF Grant, LeaseInv, LeaseTypes, NoEffect, Effect
  <1>5. at[d].request = <<d, at[d].request[2]>> /\ at[d].request[2] \in Nat
    BY DEF LeaseInv, LeaseTypes, OwnRequests, DispatcherState
  <1>6. OwnRequests'
    BY <1>1, <1>5, NoRunIsNone DEF LeaseInv, OwnRequests
  <1>7. \A e \in Dispatcher : Has(e, r)' => e = d /\ new.run = r
    BY <1>1, <1>2 DEF Has, LeaseInv, HolderAsked, LeaseTypes, RunRecord, DispatcherState
  <1>8. \A e \in Dispatcher, s \in Run : s # r /\ Has(e, s)' => Has(e, s) /\ at'[e] = at[e]
    BY <1>1, <1>2, NoRunIsNone DEF Has
  <1>a. \A e \in Dispatcher : /\ at[e].request[2] \in Nat
                             /\ at'[e].request[2] \in Nat
                             /\ at[e].request[2] <= at'[e].request[2]
    BY <1>1, <1>5 DEF LeaseInv, LeaseTypes, DispatcherState
  <1>b. run'[r].request # <<>> /\ run'[r].request[1] = d
        /\ run'[r].request[2] = at[d].request[2]
    BY <1>2, <1>5
  <1>9. HolderAsked'
    <2> SUFFICES ASSUME NEW s \in Run
                 PROVE  /\ \A e \in Dispatcher :
                             /\ at'[e].run = s => at'[e].token <= run'[s].token
                             /\ Has(e, s)' => /\ run'[s].request # <<>>
                                              /\ run'[s].request[1] = e
                                              /\ run'[s].request[2] < at'[e].request[2]
                        /\ run'[s].request # <<>> =>
                             run'[s].request[2] <= at'[run'[s].request[1]].request[2]
                        /\ run'[s].request = <<>> => \A e \in Dispatcher : at'[e].run # s
      BY DEF HolderAsked
    <2>1. CASE s = r
      <3>1. \A e \in Dispatcher : at'[e].run = r => at'[e].token <= run'[r].token
        BY <1>1, <1>2, NoRunIsNone DEF LeaseInv, HolderAsked, LeaseTypes, RunRecord, DispatcherState
      <3>2. \A e \in Dispatcher : Has(e, r)' => run'[r].request[2] < at'[e].request[2]
        BY <1>1, <1>5, <1>7, <1>b, NoRunIsNone
      <3> QED BY <2>1, <3>1, <3>2, <1>7, <1>a, <1>b
    <2>2. CASE s # r
      <3>1. run'[s] = run[s]
        BY <2>2, <1>2
      <3>2. \A e \in Dispatcher : at'[e].run = s => at'[e] = at[e]
        BY <2>2, <1>1, NoRunIsNone
      <3>3. run[s].request # <<>> => run[s].request[1] \in Dispatcher
                                     /\ run[s].request[2] \in Nat
        BY DEF LeaseInv, LeaseTypes, RunRecord
      <3>4. run[s].request # <<>> =>
              run'[s].request[2] <= at'[run'[s].request[1]].request[2]
        BY <3>1, <3>3, <1>a DEF LeaseInv, HolderAsked
      <3> QED BY <2>2, <3>1, <3>2, <3>4, <1>8 DEF LeaseInv, HolderAsked, Has
    <2> QED BY <2>1, <2>2
  <1>10. UnansweredIsFresh'
    <2> SUFFICES ASSUME NEW s \in Run, NEW e \in Dispatcher, run'[s].request = at'[e].request
                 PROVE  effect'[s] = NoEffect /\ run'[s].state # "reported"
      BY DEF UnansweredIsFresh
    <2>1. CASE s = r
      BY <2>1, <1>2, <1>3
    <2>2. CASE s # r
      <3>1. run[s].request = at[e].request
        BY <2>2, <1>1, <1>2, NextIsUnused
      <3> QED BY <2>2, <3>1, <1>2, <1>3 DEF LeaseInv, UnansweredIsFresh
    <2> QED BY <2>1, <2>2
  <1>11. HolderProgress'
    <2> SUFFICES ASSUME NEW e \in Dispatcher, NEW s \in Run, Has(e, s)'
                 PROVE  Progress(e, s)'
      BY DEF HolderProgress
    <2>1. CASE s = r
      BY <2>1, <1>1, <1>2, <1>3, <1>7, NoRunIsNone DEF Progress, NoEffect
    <2>2. CASE s # r
      BY <2>2, <1>2, <1>3, <1>8 DEF LeaseInv, HolderProgress, Progress
    <2> QED BY <2>1, <2>2
  <1>12. OncePerLease' /\ ReportIsTrue'
    BY <1>2, <1>3 DEF LeaseInv, OncePerLease, ReportIsTrue, NoEffect
  <1> QED BY <1>4, <1>6, <1>9, <1>10, <1>11, <1>12 DEF LeaseInv

(* A claim is repeated: the run it was granted before is handed out again.   *)
LEMMA RepeatIsSafe ==
  ASSUME LeaseInv, NEW d \in Dispatcher, NEW r \in Run, NEW new \in DispatcherState,
         run[r].request = at[d].request,
         at' = [at EXCEPT ![d] = new],
         new.run = r, new.token = run[r].token, new.pc = "confirming",
         new.request = <<d, at[d].request[2] + 1>>,
         UNCHANGED <<run, effect>>
  PROVE  LeaseInv'
  <1>1. \A e \in Dispatcher : at'[e] = IF e = d THEN new ELSE at[e]
    BY DEF LeaseInv, LeaseTypes
  <1>2. at[d].request = <<d, at[d].request[2]>> /\ at[d].request[2] \in Nat
    BY DEF LeaseInv, LeaseTypes, OwnRequests, DispatcherState
  <1>3. LeaseTypes'
    BY DEF LeaseInv, LeaseTypes
  <1>4. OwnRequests'
    BY <1>1, <1>2, NoRunIsNone DEF LeaseInv, OwnRequests
  <1>5. HolderAsked'
    BY <1>1, <1>2 DEF LeaseInv, HolderAsked, Has, LeaseTypes, RunRecord
  <1>6. \A s \in Run, e \in Dispatcher : run[s].request = at'[e].request =>
           run[s].request = at[e].request
    BY <1>1, NextIsUnused
  <1>7. UnansweredIsFresh'
    BY <1>6 DEF LeaseInv, UnansweredIsFresh
  <1>8. HolderProgress'
    <2> SUFFICES ASSUME NEW e \in Dispatcher, NEW s \in Run, Has(e, s)'
                 PROVE  Progress(e, s)'
      BY DEF HolderProgress
    <2>1. CASE e = d
      BY <2>1, <1>1 DEF Has, Progress, LeaseInv, UnansweredIsFresh, NoEffect
    <2>2. CASE e # d
      <3>1. at'[e] = at[e] /\ Has(e, s)
        BY <2>2, <1>1 DEF Has
      <3> QED BY <3>1 DEF LeaseInv, HolderProgress, Progress
    <2> QED BY <2>1, <2>2
  <1>9. OncePerLease' /\ ReportIsTrue'
    BY DEF LeaseInv, OncePerLease, ReportIsTrue
  <1> QED BY <1>3, <1>4, <1>5, <1>7, <1>8, <1>9 DEF LeaseInv
-----------------------------------------------------------------------------
(* A claim is granted, repeated or lost.                                     *)
LEMMA ClaimIsSafe ==
  ASSUME LeaseInv, NEW d \in Dispatcher, ClaimRun(d)
  PROVE  LeaseInv'
  <1> DEFINE n == at[d].request[2]
  <1>1. at[d].pc = "polling" /\ n \in Nat /\ n + 1 \in Nat /\ at[d].request = <<d, n>>
    BY DEF ClaimRun, LeaseInv, LeaseTypes, OwnRequests, DispatcherState
  <1>2. NextRequest(d, TRUE) = n + 1 /\ NextRequest(d, FALSE) = n
    BY DEF NextRequest
  <1>3. ASSUME NEW r \in Run, NEW token \in Nat
        PROVE  /\ Holding(d, r, token) \in DispatcherState
               /\ Holding(d, r, token).run = r /\ Holding(d, r, token).token = token
               /\ Holding(d, r, token).pc = "confirming"
               /\ Holding(d, r, token).request = <<d, n + 1>>
    <2>1. Holding(d, r, token) = Anew(d, n + 1, "confirming", r, token)
      BY <1>2 DEF Holding
    <2>2. "confirming" \in Place /\ r \in Run \cup {NoRun} /\ n + 1 \in Nat
      BY <1>1 DEF Place
    <2> HIDE DEF n
    <2> QED BY <2>1, <2>2, FreshType
  <1>4. /\ Idle(d, n) \in DispatcherState /\ Idle(d, n).request = at[d].request
        /\ Idle(d, n).run = NoRun /\ Idle(d, n).pc = "polling"
    BY <1>1, IdleType
  <1>5. ASSUME NEW r \in Run, Grant(r, at[d].request),
               \A s \in Run : run[s].request # at[d].request,
               \/ at' = [at EXCEPT ![d] = Holding(d, r, run'[r].token)]
               \/ at' = [at EXCEPT ![d] = Idle(d, n)]
        PROVE  LeaseInv'
    <2>1. run[r].token + 1 \in Nat /\ run'[r].token = run[r].token + 1
      BY <1>5 DEF Grant, LeaseInv, LeaseTypes, RunRecord
    <2>2. CASE at' = [at EXCEPT ![d] = Holding(d, r, run'[r].token)]
      <3>1. run'[r].token \in Nat
        BY <2>1
      <3> DEFINE new == Holding(d, r, run'[r].token)
      <3>2. /\ new \in DispatcherState /\ new.run = r /\ new.token = run[r].token + 1
            /\ new.pc = "confirming" /\ new.request = <<d, n + 1>>
        BY <3>1, <2>1, <1>3
      <3> HIDE DEF new
      <3>3. at' = [at EXCEPT ![d] = new]
        BY <2>2 DEF new
      <3> QED BY <3>2, <3>3, <1>5, GrantIsSafe
    <2>3. CASE at' = [at EXCEPT ![d] = Idle(d, n)]
      BY <2>3, <1>4, <1>5, GrantIsSafe
    <2> QED BY <2>2, <2>3, <1>5
  <1>6. ASSUME NEW r \in Run, run[r].request = at[d].request,
               at' = [at EXCEPT ![d] = Holding(d, r, run[r].token)],
               UNCHANGED <<run, effect>>
        PROVE  LeaseInv'
    <2>1. run[r].token \in Nat
      BY DEF LeaseInv, LeaseTypes, RunRecord
    <2> DEFINE new == Holding(d, r, run[r].token)
    <2>2. /\ new \in DispatcherState /\ new.run = r /\ new.token = run[r].token
          /\ new.pc = "confirming" /\ new.request = <<d, n + 1>>
      BY <2>1, <1>3
    <2> HIDE DEF new
    <2>3. at' = [at EXCEPT ![d] = new]
      BY <1>6 DEF new
    <2> QED BY <2>2, <2>3, <1>6, RepeatIsSafe
  <1>7. ASSUME at' = [at EXCEPT ![d] = Idle(d, n)], UNCHANGED <<run, effect>>
        PROVE  LeaseInv'
    BY <1>4, <1>7, GivingUpIsSafe
  <1>8. CASE /\ \A s \in Run : run[s].request # at[d].request
             /\ \E r \in Run :
                  /\ Grant(r, at[d].request)
                  /\ \/ at' = [at EXCEPT ![d] = Holding(d, r, run'[r].token)]
                     \/ at' = [at EXCEPT ![d] = Idle(d, n)]
    BY <1>5, <1>8
  <1>9. CASE /\ UNCHANGED <<run, effect>>
             /\ \E r \in Run : /\ run[r].request = at[d].request
                              /\ at' = [at EXCEPT ![d] = Holding(d, r, run[r].token)]
    BY <1>6, <1>9
  <1>a. CASE at' = [at EXCEPT ![d] = Idle(d, n)] /\ UNCHANGED <<run, effect>>
    BY <1>7, <1>a
  <1> QED BY <1>2, <1>8, <1>9, <1>a DEF ClaimRun

-----------------------------------------------------------------------------
(* Who works on a run has one.                                               *)
LEMMA WorkerHasRun ==
  ASSUME LeaseInv, NEW d \in Dispatcher, at[d].pc \notin {"polling", "stopped"}
  PROVE  /\ at[d] \in DispatcherState /\ at[d].run \in Run
         /\ effect[at[d].run] \in Effect
         /\ effect[at[d].run].started <= 1
         /\ effect = Noted(d, effect[at[d].run])
         /\ Has(d, at[d].run) => Progress(d, at[d].run)
  <1>1. at[d] \in DispatcherState /\ at[d].run \in Run
    BY DEF LeaseInv, LeaseTypes, OwnRequests, DispatcherState
  <1>2. effect[at[d].run] \in Effect /\ effect[at[d].run].started <= 1
    BY <1>1 DEF LeaseInv, LeaseTypes, OncePerLease
  <1>3. effect = Noted(d, effect[at[d].run])
    BY <1>1 DEF LeaseInv, LeaseTypes, Noted
  <1> QED BY <1>1, <1>2, <1>3 DEF LeaseInv, HolderProgress

LEMMA ConfirmIsSafe ==
  ASSUME LeaseInv, NEW d \in Dispatcher, Confirm(d)
  PROVE  LeaseInv'
  <1>1. CASE GiveUp(d)
    BY <1>1, GiveUpIsSafe DEF Confirm
  <1>2. CASE Goto(d, "submitting")
    <2> DEFINE new == [at[d] EXCEPT !.pc = "submitting"]
    <2>1. at[d].pc = "confirming" /\ UNCHANGED <<run, effect>> /\ at' = [at EXCEPT ![d] = new]
      BY <1>2, WorkerHasRun DEF Confirm, Goto
    <2>2. /\ new \in DispatcherState /\ new.pc = "submitting" /\ new.request = at[d].request
          /\ new.run = at[d].run /\ new.token = at[d].token
      BY <2>1, WorkerHasRun DEF DispatcherState, Place
    <2>3. at'[d] = new
      BY <2>1 DEF LeaseInv, LeaseTypes
    <2>4. Has(d, at[d].run) => (Progress(d, at[d].run))'
      BY <2>1, <2>2, <2>3, WorkerHasRun DEF Progress
    <2> QED BY <2>1, <2>2, <2>4, WorkerHasRun, WorkingIsSafe
  <1> QED BY <1>1, <1>2 DEF Confirm
LEMMA RenewIsSafe ==
  ASSUME LeaseInv, NEW d \in Dispatcher, Renew(d)
  PROVE  LeaseInv'
  BY GiveUpIsSafe DEF Renew

LEMMA StopIsSafe ==
  ASSUME LeaseInv, NEW d \in Dispatcher, Stop(d)
  PROVE  LeaseInv'
  <1> DEFINE n == at[d].request[2]
             new == Anew(d, n, "stopped", NoRun, Nobody)
  <1>1. n \in Nat /\ "stopped" \in Place /\ NoRun \in Run \cup {NoRun} /\ Nobody \in Nat
    BY DEF LeaseInv, LeaseTypes, DispatcherState, Place, Nobody
  <1>2. at[d].request = <<d, n>>
    BY DEF LeaseInv, LeaseTypes, OwnRequests, DispatcherState
  <1>3. at' = [at EXCEPT ![d] = new] /\ UNCHANGED <<run, effect>>
    BY DEF Stop
  <1> HIDE DEF n
  <1>4. /\ new \in DispatcherState /\ new.run = NoRun /\ new.pc = "stopped"
        /\ new.request = at[d].request
    BY <1>1, <1>2, FreshType
  <1> HIDE DEF new
  <1> QED BY <1>3, <1>4, GivingUpIsSafe

LEMMA ReportingIsSafe ==
  ASSUME LeaseInv, NEW d \in Dispatcher,
         NEW status \in Status, NEW delivery \in Delivery,
         Reporting(d, status, delivery), UNCHANGED <<run, effect>>,
         at[d].pc \in Working, at[d].pc # "reporting",
         Has(d, at[d].run) =>
           /\ delivery = "sent" => effect[at[d].run].reached = Target
           /\ delivery = "not_requested" => effect[at[d].run].reached = {}
  PROVE  LeaseInv'
  <1> DEFINE new == [at[d] EXCEPT !.pc = "reporting", !.status = status, !.delivery = delivery]
  <1>1. at[d].pc \notin {"polling", "stopped"}
    BY DEF Working
  <1>2. at' = [at EXCEPT ![d] = new]
    BY <1>1, WorkerHasRun DEF Reporting
  <1>3. /\ new \in DispatcherState /\ new.pc = "reporting" /\ new.request = at[d].request
        /\ new.run = at[d].run /\ new.token = at[d].token /\ new.delivery = delivery
    BY <1>1, WorkerHasRun DEF DispatcherState, Place
  <1>4. at'[d] = new
    BY <1>2 DEF LeaseInv, LeaseTypes
  <1>5. Has(d, at[d].run) => (Progress(d, at[d].run))'
    BY <1>1, <1>3, <1>4, WorkerHasRun DEF Progress
  <1> HIDE DEF new
  <1> QED BY <1>1, <1>2, <1>3, <1>5, WorkerHasRun, WorkingIsSafe

LEMMA SubmitIsSafe ==
  ASSUME LeaseInv, NEW d \in Dispatcher, Submit(d)
  PROVE  LeaseInv'
  <1>1. at[d].pc = "submitting" /\ run' = run
    BY DEF Submit
  <1>2. CASE Goto(d, "running") /\ effect' = Noted(d, [Now(d) EXCEPT !.started = @ + 1])
    <2> DEFINE new == [at[d] EXCEPT !.pc = "running"]
               done == [Now(d) EXCEPT !.started = @ + 1]
    <2>1. at' = [at EXCEPT ![d] = new]
      BY <1>2, <1>1, WorkerHasRun DEF Goto
    <2>2. /\ new \in DispatcherState /\ new.pc = "running" /\ new.request = at[d].request
          /\ new.run = at[d].run /\ new.token = at[d].token
      BY <1>1, WorkerHasRun DEF DispatcherState, Place
    <2>3. /\ done \in Effect /\ done.started = effect[at[d].run].started + 1
          /\ done.reached = effect[at[d].run].reached
      BY <1>1, WorkerHasRun DEF Now, Effect
    <2> HIDE DEF new, done
    <2>4. at'[d] = new /\ (Has(d, at[d].run) => effect'[at[d].run] = done)
      BY <2>1, <1>1, <1>2, WorkerHasRun DEF LeaseInv, LeaseTypes, Noted, Has, done
    <2>5. Has(d, at[d].run) => (Progress(d, at[d].run))'
      BY <1>1, <2>2, <2>3, <2>4, WorkerHasRun DEF Progress
    <2>6. Has(d, at[d].run) => done.started <= 1 /\ run[at[d].run].state # "reported"
      BY <1>1, <2>3, WorkerHasRun DEF Progress
    <2>7. effect' = Noted(d, done)
      BY <1>2 DEF done
    <2> QED BY <1>1, <2>1, <2>2, <2>3, <2>5, <2>6, <2>7, WorkerHasRun, WorkingIsSafe
  <1>3. CASE /\ UNCHANGED effect
             /\ \E status \in {"needs_attention", "failed"} :
                  Reporting(d, status, "not_requested")
    BY <1>1, <1>3, WorkerHasRun, ReportingIsSafe DEF Progress, Working, Status, Delivery
  <1> QED BY <1>2, <1>3 DEF Submit
LEMMA CollectIsSafe ==
  ASSUME LeaseInv, NEW d \in Dispatcher, Collect(d)
  PROVE  LeaseInv'
  <1>1. at[d].pc = "running" /\ UNCHANGED <<run, effect>>
    BY DEF Collect
  <1>2. ASSUME at' = [at EXCEPT ![d].pc = "delivering", ![d].todo = Target,
                                ![d].delivery = "sent"]
        PROVE  LeaseInv'
    <2> DEFINE new == [at[d] EXCEPT !.pc = "delivering", !.todo = Target, !.delivery = "sent"]
    <2>1. at' = [at EXCEPT ![d] = new]
      BY <1>1, <1>2, WorkerHasRun
    <2>2. /\ new \in DispatcherState /\ new.pc = "delivering" /\ new.request = at[d].request
          /\ new.run = at[d].run /\ new.token = at[d].token
          /\ new.todo = Target /\ new.delivery = "sent"
      BY <1>1, WorkerHasRun DEF DispatcherState, Place, Delivery
    <2> HIDE DEF new
    <2>3. at'[d] = new
      BY <2>1 DEF LeaseInv, LeaseTypes
    <2>4. Has(d, at[d].run) => (Progress(d, at[d].run))'
      BY <1>1, <2>2, <2>3, WorkerHasRun DEF Progress
    <2> QED BY <1>1, <2>1, <2>2, <2>4, WorkerHasRun, WorkingIsSafe
  <1>3. ASSUME NEW status \in {"succeeded", "failed"}, NEW delivery \in {"not_requested", "failed"},
               Reporting(d, status, delivery)
        PROVE  LeaseInv'
    <2>1. Has(d, at[d].run) => effect[at[d].run].reached = {}
      BY <1>1, WorkerHasRun DEF Progress
    <2>2. status \in Status /\ delivery \in Delivery
      BY DEF Status, Delivery
    <2> QED BY <1>1, <1>3, <2>1, <2>2, ReportingIsSafe DEF Working
  <1> QED BY <1>2, <1>3 DEF Collect

LEMMA DeliverIsSafe ==
  ASSUME LeaseInv, NEW d \in Dispatcher, Deliver(d)
  PROVE  LeaseInv'
  <1> DEFINE r == at[d].run
  <1>1. at[d].pc = "delivering" /\ run' = run
    BY DEF Deliver
  <1>2. PICK target \in at[d].todo, success \in BOOLEAN, arrived \in BOOLEAN :
          /\ success => arrived
          /\ at' = [at EXCEPT ![d].todo = @ \ {target}, ![d].delivery = Outcome(@, success)]
          /\ effect' = IF arrived
                       THEN Noted(d, [Now(d) EXCEPT !.reached = @ \cup {target}])
                       ELSE effect
    BY DEF Deliver
  <1> DEFINE new == [at[d] EXCEPT !.todo = @ \ {target}, !.delivery = Outcome(@, success)]
             done == IF arrived THEN [effect[r] EXCEPT !.reached = @ \cup {target}] ELSE effect[r]
  <1>3. at' = [at EXCEPT ![d] = new]
    BY <1>1, <1>2, WorkerHasRun
  <1>4. /\ new \in DispatcherState /\ new.pc = "delivering" /\ new.request = at[d].request
        /\ new.run = r /\ new.token = at[d].token
        /\ new.todo = at[d].todo \ {target}
        /\ new.delivery = IF success THEN at[d].delivery ELSE "failed"
    BY <1>1, WorkerHasRun DEF DispatcherState, Delivery, Outcome
  <1>5. /\ done \in Effect /\ done.started = effect[r].started
        /\ effect[r].reached \subseteq done.reached
        /\ arrived => target \in done.reached
    <2>1. target \in Target /\ effect[r] \in Effect
      BY <1>1, <1>2, WorkerHasRun DEF DispatcherState
    <2> QED BY <2>1 DEF Effect
  <1>6. effect' = Noted(d, done)
    BY <1>1, <1>2, WorkerHasRun DEF Now
  <1> HIDE DEF new, done
  <1>7. at'[d] = new /\ (Has(d, r) => effect'[r] = done)
    BY <1>1, <1>3, <1>6, WorkerHasRun DEF LeaseInv, LeaseTypes, Noted, Has
  <1>8. Has(d, r) => (Progress(d, r))'
    <2> SUFFICES ASSUME Has(d, r)
                 PROVE  (Progress(d, r))'
      OBVIOUS
    <2>1. Progress(d, r)
      BY <1>1, WorkerHasRun
    <2>2. new.delivery # "failed" =>
            new.delivery = "sent" /\ Target \ new.todo \subseteq done.reached
      BY <1>1, <1>2, <1>4, <1>5, <2>1 DEF Progress
    <2> QED BY <1>1, <1>4, <1>7, <2>1, <2>2 DEF Progress
  <1>9. Has(d, r) => done.started <= 1 /\ run[r].state # "reported"
    BY <1>1, <1>5, WorkerHasRun DEF Progress
  <1> QED BY <1>1, <1>3, <1>4, <1>5, <1>6, <1>8, <1>9, WorkerHasRun, WorkingIsSafe

LEMMA DeliveryEndsSafely ==
  ASSUME LeaseInv, NEW d \in Dispatcher, DeliveryEnds(d)
  PROVE  LeaseInv'
  <1>1. /\ at[d].pc = "delivering" /\ at[d].todo = {} /\ UNCHANGED <<run, effect>>
        /\ Reporting(d, "succeeded", at[d].delivery)
    BY DEF DeliveryEnds
  <1>2. at[d].delivery \in Delivery /\ "succeeded" \in Status
    BY <1>1, WorkerHasRun DEF DispatcherState, Status
  <1>3. Has(d, at[d].run) =>
          /\ at[d].delivery = "sent" => effect[at[d].run].reached = Target
          /\ at[d].delivery # "not_requested"
    BY <1>1, WorkerHasRun DEF Progress, Effect
  <1> QED BY <1>1, <1>2, <1>3, ReportingIsSafe DEF Working
-----------------------------------------------------------------------------
(* What is reported is what is known, and ends the lease for the cloud.      *)
LEMMA NextTryTo ==
  ASSUME LeaseInv, NEW d \in Dispatcher, at[d].pc = "reporting", NextTry(d)
  PROVE  \/ GiveUp(d)
         \/ \E new \in DispatcherState :
              /\ at' = [at EXCEPT ![d] = new] /\ new.pc = "reporting"
              /\ new.request = at[d].request /\ new.run = at[d].run
              /\ new.token = at[d].token /\ new.delivery = at[d].delivery
  <1> DEFINE new == [at[d] EXCEPT !.tries = @ + 1]
  <1>1. CASE at' = [at EXCEPT ![d].tries = @ + 1]
    <2>1. at' = [at EXCEPT ![d] = new]
      BY <1>1, WorkerHasRun
    <2>2. /\ new \in DispatcherState /\ new.pc = "reporting" /\ new.request = at[d].request
          /\ new.run = at[d].run /\ new.token = at[d].token /\ new.delivery = at[d].delivery
      BY WorkerHasRun DEF DispatcherState
    <2> HIDE DEF new
    <2> QED BY <2>1, <2>2
  <1> QED BY <1>1 DEF NextTry

LEMMA NextTryIsSafe ==
  ASSUME LeaseInv, NEW d \in Dispatcher, at[d].pc = "reporting", NextTry(d),
         UNCHANGED <<run, effect>>
  PROVE  LeaseInv'
  <1>1. CASE GiveUp(d)
    BY <1>1, GiveUpIsSafe
  <1>2. ASSUME NEW new \in DispatcherState,
               at' = [at EXCEPT ![d] = new], new.pc = "reporting",
               new.request = at[d].request, new.run = at[d].run,
               new.token = at[d].token, new.delivery = at[d].delivery
        PROVE  LeaseInv'
    <2>1. at'[d] = new
      BY <1>2 DEF LeaseInv, LeaseTypes
    <2>2. Has(d, at[d].run) => (Progress(d, at[d].run))'
      BY <2>1, <1>2, WorkerHasRun DEF Progress
    <2> QED BY <1>2, <2>2, WorkerHasRun, WorkingIsSafe
  <1> QED BY <1>1, <1>2, NextTryTo

LEMMA RecordIsSafe ==
  ASSUME LeaseInv, NEW d \in Dispatcher, at[d].pc = "reporting", Record(d),
         UNCHANGED effect,
         NEW new \in DispatcherState, at' = [at EXCEPT ![d] = new],
         new.request = at[d].request,
         \/ new.run = NoRun /\ new.pc = "polling"
         \/ /\ new.run = at[d].run /\ new.token = at[d].token /\ new.pc = "reporting"
            /\ new.delivery = at[d].delivery
  PROVE  LeaseInv'
  <1> DEFINE r == at[d].run
  <1>1. \A e \in Dispatcher : at'[e] = IF e = d THEN new ELSE at[e]
    BY DEF LeaseInv, LeaseTypes
  <1>2. r \in Run /\ Has(d, r) /\ run[r].state = "leased" /\ Progress(d, r)
    BY WorkerHasRun DEF Record, LeaseHolds, Has
  <1>3. /\ run' \in [Run -> RunRecord]
        /\ \A s \in Run : run'[s].token = run[s].token /\ run'[s].request = run[s].request
        /\ \A s \in Run : s # r => run'[s] = run[s]
        /\ run'[r].state = "reported" /\ run'[r].delivery = at[d].delivery
    BY <1>2, WorkerHasRun DEF Record, LeaseInv, LeaseTypes, RunRecord, DispatcherState
  <1>4. LeaseTypes'
    BY <1>3 DEF LeaseInv, LeaseTypes
  <1>5. OwnRequests'
    BY <1>1, <1>2, NoRunIsNone DEF LeaseInv, OwnRequests
  <1>6. \A e \in Dispatcher, s \in Run : Has(e, s)' => Has(e, s)
    BY <1>1, <1>3, NoRunIsNone DEF Has
  <1>7. HolderAsked'
    BY <1>1, <1>3, <1>6, NoRunIsNone DEF LeaseInv, HolderAsked
  <1>8. \A e \in Dispatcher : run[r].request # at[e].request
    BY <1>2 DEF LeaseInv, HolderAsked, OwnRequests, LeaseTypes, DispatcherState
  <1>9. UnansweredIsFresh'
    BY <1>1, <1>3, <1>8 DEF LeaseInv, UnansweredIsFresh
  <1>a. HolderProgress'
    <2> SUFFICES ASSUME NEW e \in Dispatcher, NEW s \in Run, Has(e, s)'
                 PROVE  Progress(e, s)'
      BY DEF HolderProgress
    <2>1. CASE s = r
      <3>1. e = d
        BY <2>1, <1>2, <1>6, OneHolder
      <3>2. at'[d] = new /\ new.run = r
        BY <3>1, <2>1, <1>1 DEF Has
      <3> QED BY <2>1, <3>1, <3>2, <1>2, NoRunIsNone DEF Progress
    <2>2. CASE s # r
      <3>1. e # d
        BY <2>2, <1>1, NoRunIsNone DEF Has
      <3>2. Progress(e, s)
        BY <1>6 DEF LeaseInv, HolderProgress
      <3> QED BY <2>2, <3>1, <3>2, <1>1, <1>3 DEF Progress
    <2> QED BY <2>1, <2>2
  <1>b. ReportIsTrue'
    BY <1>2, <1>3 DEF LeaseInv, ReportIsTrue, Progress
  <1>c. OncePerLease'
    BY DEF LeaseInv, OncePerLease
  <1> QED BY <1>4, <1>5, <1>7, <1>9, <1>a, <1>b, <1>c DEF LeaseInv

LEMMA ReportIsSafe ==
  ASSUME LeaseInv, NEW d \in Dispatcher, Report(d)
  PROVE  LeaseInv'
  <1>1. at[d].pc = "reporting" /\ effect' = effect
    BY DEF Report
  <1>2. CASE Record(d) /\ GiveUp(d)
    BY <1>1, <1>2, ReleasedType, RecordIsSafe DEF GiveUp
  <1>3. CASE Record(d) /\ NextTry(d)
    <2>1. CASE GiveUp(d)
      BY <2>1, <1>1, <1>3, <1>2
    <2> QED BY <1>1, <1>3, <2>1, NextTryTo, RecordIsSafe
  <1>4. CASE NextTry(d) /\ UNCHANGED run
    BY <1>1, <1>4, NextTryIsSafe
  <1> QED BY <1>2, <1>3, <1>4 DEF Report

LEMMA ExpireIsSafe ==
  ASSUME LeaseInv, NEW r \in Run, Expire(r)
  PROVE  LeaseInv'
  <1>1. /\ run' \in [Run -> RunRecord] /\ UNCHANGED <<at, effect>>
        /\ \A s \in Run : /\ run'[s].token = run[s].token
                          /\ run'[s].request = run[s].request
                          /\ run'[s].delivery = run[s].delivery
                          /\ run'[s].state = "reported" => run[s].state = "reported"
    BY DEF Expire, LeaseInv, LeaseTypes, RunRecord
  <1>2. \A e \in Dispatcher, s \in Run : Has(e, s)' <=> Has(e, s)
    BY <1>1 DEF Has
  <1>3. LeaseTypes' /\ OwnRequests'
    BY <1>1 DEF LeaseInv, LeaseTypes, OwnRequests
  <1>4. HolderAsked'
    BY <1>1, <1>2 DEF LeaseInv, HolderAsked
  <1>5. UnansweredIsFresh'
    BY <1>1 DEF LeaseInv, UnansweredIsFresh
  <1>6. HolderProgress'
    BY <1>1, <1>2 DEF LeaseInv, HolderProgress, Progress
  <1>7. OncePerLease' /\ ReportIsTrue'
    BY <1>1 DEF LeaseInv, OncePerLease, ReportIsTrue
  <1> QED BY <1>3, <1>4, <1>5, <1>6, <1>7 DEF LeaseInv

-----------------------------------------------------------------------------
LEMMA LeaseStep == LeaseInv /\ [LeasesNext]_leaseVars => LeaseInv'
  <1> SUFFICES ASSUME LeaseInv, [LeasesNext]_leaseVars PROVE LeaseInv'
    OBVIOUS
  <1>1. ASSUME NEW d \in Dispatcher, Handle(d) PROVE LeaseInv'
    BY <1>1, ClaimIsSafe, ConfirmIsSafe, RenewIsSafe, SubmitIsSafe, CollectIsSafe,
       DeliverIsSafe, DeliveryEndsSafely, ReportIsSafe DEF Handle
  <1>2. ASSUME NEW d \in Dispatcher, Stop(d) PROVE LeaseInv'
    BY <1>2, StopIsSafe
  <1>3. ASSUME NEW r \in Run, Expire(r) PROVE LeaseInv'
    BY <1>3, ExpireIsSafe
  <1>4. CASE UNCHANGED leaseVars
    <2>1. UNCHANGED <<at, run, effect>>
      BY <1>4 DEF leaseVars
    <2>2. LeaseTypes' /\ OwnRequests' /\ UnansweredIsFresh'
      BY <2>1 DEF LeaseInv, LeaseTypes, OwnRequests, UnansweredIsFresh
    <2>3. HolderAsked' /\ HolderProgress'
      BY <2>1 DEF LeaseInv, HolderAsked, HolderProgress, Has, Progress
    <2>4. OncePerLease' /\ ReportIsTrue'
      BY <2>1 DEF LeaseInv, OncePerLease, ReportIsTrue
    <2> QED BY <2>2, <2>3, <2>4 DEF LeaseInv
  <1> QED BY <1>1, <1>2, <1>3, <1>4 DEF LeasesNext

LEMMA LeaseAlways == LeasesSpec => []LeaseInv
  BY LeaseInit, LeaseStep, PTL DEF LeasesSpec

(* However many dispatchers share the executor id, whichever claims, leases   *)
(* or reports are lost: the agent starts at most once under a lease          *)
(* (dispatcher.rs claims, request ids and confirmation before work).         *)
THEOREM WorkedOnOnce == LeasesSpec => []OncePerLease
  <1>1. LeaseInv => OncePerLease
    BY DEF LeaseInv
  <1> QED BY <1>1, LeaseAlways, PTL

(* A recorded delivery says what happened to the chats (dispatcher.rs        *)
(* execute, deliver and finish), for every number of chats.                  *)
THEOREM ReportsAreTrue == LeasesSpec => []ReportIsTrue
  <1>1. LeaseInv => ReportIsTrue
    BY DEF LeaseInv
  <1> QED BY <1>1, LeaseAlways, PTL
-----------------------------------------------------------------------------
(* An answer delivered by posts and edits. *)

Messages ==
  [from : Nat, to : Nat, clean : BOOLEAN, edits : Nat, named : BOOLEAN, topic : BOOLEAN]

Sizes == MaxLen \in Nat /\ Reserve \in Nat /\ Reserve < MaxLen /\ MaxEdits \in Nat

\* What was too long, or was never shown; what was shown, unknown to the program.
Missing == wrong \cap {"too long", "final edit", "last post"} # {}
Repeated == wrong \cap {"unheard", "last edit"} # {}

Cursor ==
  /\ pc \in {"stream", "final", "done"}
  /\ text \in Nat /\ offset \in Nat /\ shown \in Nat /\ editCount \in Nat
  /\ offset <= shown /\ shown <= text
  /\ chat \in Seq(Messages)
  /\ msg \in 0 .. Len(chat)
  /\ msg # 0 => /\ chat[msg].from = offset
                /\ MaxEdits = 0 \/ editCount < MaxEdits
  /\ msg = 0 /\ pc = "stream" => shown = offset

\* Up to the offset everything is in the chat, and what follows it in the
\* message that is being edited.
Covers(n) == \A unit \in 1 .. n : \E i \in DOMAIN chat : unit \in D!Units(chat[i])

ShownSoFar ==
  ~Missing /\ pc # "done" =>
    /\ Covers(offset)
    /\ msg # 0 => chat[msg].to = shown /\ shown - offset <= MaxLen - Reserve

Apart == \A i, j \in DOMAIN chat : i # j => D!Units(chat[i]) \cap D!Units(chat[j]) = {}

\* The messages before end where the present one starts.
OnceSoFar ==
  ~Repeated =>
    /\ Apart
    /\ pc # "done" => \A i \in DOMAIN chat : chat[i].to <= IF i = msg THEN shown ELSE offset

AnswerInv == Cursor /\ ShownSoFar /\ OnceSoFar /\ D!AnswerIsWhole

\* A post adds a message that starts at the offset.
Posted(d) ==
  /\ chat' \in Seq(Messages) /\ Len(chat') = Len(chat) + 1
  /\ \A i \in DOMAIN chat : i \in DOMAIN chat' /\ chat'[i] = chat[i]
  /\ \A i \in DOMAIN chat' : i \in DOMAIN chat \/ i = Len(chat) + 1
  /\ Len(chat) + 1 \in DOMAIN chat'
  /\ chat'[Len(chat) + 1].from = offset /\ chat'[Len(chat) + 1].to = offset + d

\* An edit moves the end of the message.
Edited(d) ==
  /\ chat' \in Seq(Messages) /\ Len(chat') = Len(chat) /\ DOMAIN chat' = DOMAIN chat
  /\ \A i \in DOMAIN chat : i # msg => chat'[i] = chat[i]
  /\ chat'[msg].from = chat[msg].from /\ chat'[msg].to = offset + d

LEMMA PostsAdd ==
  ASSUME Cursor, NEW d \in Nat, NEW clean \in BOOLEAN,
         (\E named \in BOOLEAN : D!Posts(d, clean, named)) \/ D!PostsUnheard(d, clean),
         replyTo \in BOOLEAN
  PROVE  Posted(d)
  <1>1. PICK named \in BOOLEAN, topic \in BOOLEAN :
          chat' = Append(chat, D!Message(d, clean, named, topic))
    BY DEF D!Posts, D!PostsUnheard, D!ReplyText, D!SendText
  <1>2. D!Message(d, clean, named, topic) \in Messages
    BY DEF D!Message, Messages, Cursor
  <1>3. D!Message(d, clean, named, topic).from = offset
        /\ D!Message(d, clean, named, topic).to = offset + d
    BY DEF D!Message
  <1> QED BY <1>1, <1>2, <1>3 DEF Posted, Cursor

LEMMA EditsMove ==
  ASSUME Cursor, msg # 0, NEW d \in Nat, NEW clean \in BOOLEAN, D!Edits(d, clean)
  PROVE  Edited(d)
  <1>1. chat' = [chat EXCEPT ![msg] = [chat[msg] EXCEPT !.to = offset + d, !.clean = clean,
                                                        !.edits = @ + 1]]
    BY DEF D!Edits, Cursor
  <1>2. msg \in DOMAIN chat /\ chat[msg] \in Messages /\ offset + d \in Nat
    BY DEF Cursor
  <1> DEFINE new == [chat[msg] EXCEPT !.to = offset + d, !.clean = clean, !.edits = @ + 1]
  <1>3. new \in Messages /\ new.from = chat[msg].from /\ new.to = offset + d
    <2>1. chat[msg].edits + 1 \in Nat
      BY <1>2 DEF Messages
    <2> QED BY <1>2, <2>1 DEF Messages
  <1>4. chat' = [chat EXCEPT ![msg] = new]
    BY <1>1
  <1> HIDE DEF new
  <1> QED BY <1>2, <1>3, <1>4 DEF Edited, Cursor
LEMMA Lengths ==
  ASSUME Sizes, offset \in Nat, NEW length \in Nat, offset <= length
  PROVE  /\ D!Display(length) \in Nat /\ D!FinalText(length) \in Nat
         /\ D!Display(length) <= length - offset /\ D!FinalText(length) <= length - offset
         /\ \A k \in Nat : k <= length - offset /\ k <= MaxLen - Reserve => k <= D!Display(length)
         /\ "too long" \notin D!Hides(length, MaxLen - Reserve) =>
              D!Display(length) = length - offset /\ length - offset <= MaxLen - Reserve
         /\ "too long" \notin D!Hides(length, MaxLen) => D!FinalText(length) = length - offset
         /\ D!FinalText(length) = 0 => length = offset
         /\ D!Hides(length, MaxLen - Reserve) \subseteq {"too long"}
         /\ D!Hides(length, MaxLen) \subseteq {"too long"}
  <1> DEFINE rest == length - offset
             room == MaxLen - Reserve
  <1>1. rest \in Nat /\ room \in Nat /\ room > 0 /\ MaxLen \in Nat /\ MaxLen > 0
    BY DEF Sizes
  <1>2. /\ D!Display(length) = IF rest > room THEN room ELSE rest
        /\ D!FinalText(length) = IF rest > MaxLen THEN MaxLen ELSE rest
    BY DEF D!Display, D!FinalText, D!AtMost
  <1>3. /\ D!Hides(length, room) = IF rest > room THEN {"too long"} ELSE {}
        /\ D!Hides(length, MaxLen) = IF rest > MaxLen THEN {"too long"} ELSE {}
    BY DEF D!Hides
  <1>4. /\ "too long" \notin D!Hides(length, room) => ~(rest > room)
        /\ "too long" \notin D!Hides(length, MaxLen) => ~(rest > MaxLen)
        /\ D!Hides(length, room) \subseteq {"too long"}
        /\ D!Hides(length, MaxLen) \subseteq {"too long"}
    BY <1>3
  <1>5. D!FinalText(length) = 0 => length = offset
    <2>1. rest = 0 => length = offset
      OBVIOUS
    <2> HIDE DEF rest
    <2> QED BY <1>1, <1>2, <2>1
  <1> HIDE DEF rest, room
  <1>6. /\ D!Display(length) \in Nat /\ D!FinalText(length) \in Nat
        /\ D!Display(length) <= rest /\ D!FinalText(length) <= rest
        /\ \A k \in Nat : k <= rest /\ k <= room => k <= D!Display(length)
        /\ ~(rest > room) => D!Display(length) = rest /\ rest <= room
        /\ ~(rest > MaxLen) => D!FinalText(length) = rest
    BY <1>1, <1>2
  <1> QED BY <1>4, <1>5, <1>6 DEF rest, room

CoversNow(n) == \A unit \in 1 .. n : \E i \in DOMAIN chat' : unit \in D!Units(chat'[i])

LEMMA MessageFacts ==
  ASSUME Cursor
  PROVE  /\ \A i \in DOMAIN chat : chat[i].from \in Nat /\ chat[i].to \in Nat
         /\ msg # 0 => msg \in DOMAIN chat
         /\ Len(chat) \in Nat /\ \A i \in DOMAIN chat : i \in 1 .. Len(chat)
         /\ Len(chat) + 1 \notin DOMAIN chat
  <1>1. /\ chat \in Seq(Messages) /\ msg \in 0 .. Len(chat)
    BY DEF Cursor
  <1>2. \A m \in Messages : m.from \in Nat /\ m.to \in Nat
    BY DEF Messages
  <1>3. /\ Len(chat) \in Nat /\ DOMAIN chat = 1 .. Len(chat)
        /\ \A i \in DOMAIN chat : chat[i] \in Messages
    BY <1>1
  <1> QED BY <1>1, <1>2, <1>3

LEMMA PostCovers ==
  ASSUME Cursor, NEW d \in Nat, Posted(d), Covers(offset), NEW n \in Nat, n <= offset + d
  PROVE  CoversNow(n)
  <1> SUFFICES ASSUME NEW unit \in 1 .. n
               PROVE  \E i \in DOMAIN chat' : unit \in D!Units(chat'[i])
    BY DEF CoversNow
  <1>0. offset \in Nat
    BY DEF Cursor
  <1>1. CASE unit \in 1 .. offset
    BY <1>1 DEF Covers, Posted
  <1>2. CASE unit \notin 1 .. offset
    <2>1. unit \in (offset + 1) .. (offset + d)
      BY <1>0, <1>2
    <2> QED BY <2>1 DEF Posted, D!Units
  <1> QED BY <1>1, <1>2

LEMMA EditCovers ==
  ASSUME Cursor, msg # 0, NEW d \in Nat, Edited(d), Covers(offset), NEW n \in Nat,
         n <= offset + d
  PROVE  CoversNow(n)
  <1> SUFFICES ASSUME NEW unit \in 1 .. n
               PROVE  \E i \in DOMAIN chat' : unit \in D!Units(chat'[i])
    BY DEF CoversNow
  <1>0. offset \in Nat /\ chat[msg].from = offset /\ msg \in DOMAIN chat /\ chat[msg].to \in Nat
    BY MessageFacts DEF Cursor
  <1>1. CASE unit \in 1 .. offset
    <2>1. PICK i \in DOMAIN chat : unit \in D!Units(chat[i])
      BY <1>1 DEF Covers
    <2>2. i # msg
      BY <1>0, <1>1, <2>1 DEF D!Units
    <2> QED BY <2>1, <2>2 DEF Edited
  <1>2. CASE unit \notin 1 .. offset
    <2>1. unit \in (offset + 1) .. (offset + d)
      BY <1>0, <1>2
    <2> QED BY <1>0, <2>1 DEF Edited, D!Units
  <1> QED BY <1>1, <1>2

LEMMA MessageCovers ==
  ASSUME Cursor, msg # 0, Covers(offset), chat[msg].to = shown
  PROVE  Covers(shown)
  <1> SUFFICES ASSUME NEW unit \in 1 .. shown
               PROVE  \E i \in DOMAIN chat : unit \in D!Units(chat[i])
    BY DEF Covers
  <1>0. /\ offset \in Nat /\ shown \in Nat /\ chat[msg].from = offset /\ msg \in DOMAIN chat
    BY MessageFacts DEF Cursor
  <1>1. CASE unit \in 1 .. offset
    BY <1>1 DEF Covers
  <1>2. CASE unit \notin 1 .. offset
    <2>1. unit \in (offset + 1) .. shown
      BY <1>0, <1>2
    <2> QED BY <1>0, <2>1 DEF D!Units
  <1> QED BY <1>1, <1>2

ApartNow ==
  \A i, j \in DOMAIN chat' : i # j => D!Units(chat'[i]) \cap D!Units(chat'[j]) = {}

LEMMA PostApart ==
  ASSUME Cursor, NEW d \in Nat, Posted(d), Apart, \A i \in DOMAIN chat : chat[i].to <= offset
  PROVE  ApartNow
  <1> SUFFICES ASSUME NEW i \in DOMAIN chat', NEW j \in DOMAIN chat', i # j,
                      NEW unit \in D!Units(chat'[i]) \cap D!Units(chat'[j])
               PROVE  FALSE
    BY DEF ApartNow
  <1>0. offset \in Nat
    BY DEF Cursor
  <1>1. CASE i \in DOMAIN chat /\ j \in DOMAIN chat
    BY <1>1 DEF Posted, Apart
  <1>2. ASSUME NEW k \in DOMAIN chat, unit \in D!Units(chat'[k]),
               unit \in D!Units(chat'[Len(chat) + 1])
        PROVE  FALSE
    <2>1. unit <= offset /\ unit >= offset + 1 /\ unit \in Nat
      BY <1>0, <1>2, MessageFacts DEF Posted, D!Units
    <2> QED BY <1>0, <2>1
  <1> QED BY <1>1, <1>2 DEF Posted

LEMMA EditApart ==
  ASSUME Cursor, msg # 0, NEW d \in Nat, Edited(d), Apart,
         \A i \in DOMAIN chat : i # msg => chat[i].to <= offset
  PROVE  ApartNow
  <1> SUFFICES ASSUME NEW i \in DOMAIN chat', NEW j \in DOMAIN chat', i # j,
                      NEW unit \in D!Units(chat'[i]) \cap D!Units(chat'[j])
               PROVE  FALSE
    BY DEF ApartNow
  <1>0. offset \in Nat /\ chat[msg].from = offset
    BY DEF Cursor
  <1>1. CASE i # msg /\ j # msg
    BY <1>1 DEF Edited, Apart
  <1>2. ASSUME NEW k \in DOMAIN chat, k # msg, unit \in D!Units(chat'[k]),
               unit \in D!Units(chat'[msg])
        PROVE  FALSE
    <2>1. unit <= offset /\ unit >= offset + 1 /\ unit \in Nat
      BY <1>0, <1>2, MessageFacts DEF Edited, D!Units
    <2> QED BY <1>0, <2>1
  <1> QED BY <1>1, <1>2 DEF Edited
LEMMA NextPart ==
  ASSUME AnswerInv, pc = "stream", pc' = pc, NEW from \in Nat, offset' = from, shown' = from,
         msg' = 0, editCount' = editCount, text' \in Nat, from <= text',
         chat' \in Seq(Messages),
         ~Missing' => CoversNow(from),
         ~Repeated' => ApartNow /\ \A i \in DOMAIN chat' : chat'[i].to <= from
  PROVE  AnswerInv'
  <1>1. Cursor'
    <2>1. Len(chat') \in Nat
      OBVIOUS
    <2> QED BY <2>1 DEF AnswerInv, Cursor
  <1>2. ShownSoFar'
    BY DEF ShownSoFar, Covers, CoversNow
  <1>3. OnceSoFar'
    <2>1. ASSUME ~Repeated', NEW i \in DOMAIN chat'
          PROVE  chat'[i].to <= IF i = msg' THEN shown' ELSE offset'
      BY <2>1
    <2>2. ~Repeated' => Apart'
      BY DEF Apart, ApartNow
    <2> QED BY <2>1, <2>2 DEF OnceSoFar
  <1>4. D!AnswerIsWhole'
    BY DEF D!AnswerIsWhole
  <1> QED BY <1>1, <1>2, <1>3, <1>4 DEF AnswerInv

\* What holds of the message that is being edited.
LEMMA EditedMessage ==
  ASSUME AnswerInv, pc # "done", msg # 0
  PROVE  /\ msg \in DOMAIN chat /\ chat[msg].from = offset
         /\ offset \in Nat /\ shown \in Nat /\ text \in Nat /\ offset <= shown /\ shown <= text
         /\ ~Missing => /\ Covers(offset) /\ chat[msg].to = shown
                        /\ shown - offset <= MaxLen - Reserve
         /\ ~Repeated => /\ Apart /\ chat[msg].to <= shown
                         /\ \A i \in DOMAIN chat : i # msg => chat[i].to <= offset
  <1>1. msg \in DOMAIN chat
    BY MessageFacts DEF AnswerInv
  <1> QED BY <1>1 DEF AnswerInv, Cursor, ShownSoFar, OnceSoFar

\* The ends of the messages after an edit.
LEMMA EndsAfterEdit ==
  ASSUME AnswerInv, pc # "done", msg # 0, ~Repeated, NEW d \in Nat, Edited(d),
         NEW from \in Nat, offset + d <= from
  PROVE  \A i \in DOMAIN chat' : chat'[i].to <= from
  <1> SUFFICES ASSUME NEW i \in DOMAIN chat' PROVE chat'[i].to <= from
    OBVIOUS
  <1>1. CASE i = msg
    BY <1>1 DEF Edited
  <1>2. CASE i # msg
    <2>1. i \in DOMAIN chat /\ chat'[i] = chat[i] /\ chat[i].to <= offset /\ offset \in Nat
      BY <1>2, EditedMessage DEF Edited
    <2>2. chat[i].to \in Nat
      BY <2>1, MessageFacts DEF AnswerInv
    <2> QED BY <2>1, <2>2
  <1> QED BY <1>1, <1>2

LEMMA EditFailsStep ==
  ASSUME AnswerInv, Sizes, pc = "stream", pc' = pc, msg # 0, NEW length \in Nat,
         text <= length, text' = length, D!EditFails(length)
  PROVE  AnswerInv'
  <1>0. /\ msg \in DOMAIN chat /\ offset \in Nat /\ shown \in Nat /\ text \in Nat
        /\ offset <= shown /\ shown <= text /\ Cursor
    BY EditedMessage DEF AnswerInv
  <1>1. offset' = shown /\ shown' = shown /\ msg' = 0 /\ editCount' = editCount
    BY DEF D!EditFails, D!NextMessage
  <1>2. shown <= length /\ offset <= length
    BY <1>0
  <1>3. CASE chat' = chat /\ wrong' = wrong \cup {"edit"}
    <2>1. Missing' = Missing /\ Repeated' = Repeated
      BY <1>3 DEF Missing, Repeated
    <2>2. ~Missing => CoversNow(shown)
      BY <1>0, <1>3, EditedMessage, MessageCovers DEF Covers, CoversNow
    <2>3. ~Repeated => ApartNow /\ \A i \in DOMAIN chat' : chat'[i].to <= shown
      <3>1. ~Repeated => \A i \in DOMAIN chat : chat[i].to <= shown
        <4>1. \A i \in DOMAIN chat : chat[i].to \in Nat
          BY <1>0, MessageFacts
        <4> QED BY <1>0, <4>1, EditedMessage
      <3> QED BY <1>3, <3>1, EditedMessage DEF Apart, ApartNow
    <2>4. chat' \in Seq(Messages)
      BY <1>0, <1>3 DEF Cursor
    <2> QED BY <1>0, <1>1, <1>2, <2>1, <2>2, <2>3, <2>4, NextPart
  <1>4. CASE D!Edits(D!Display(length), FALSE) /\ wrong' = wrong \cup {"edit", "unheard"}
    <2> DEFINE d == D!Display(length)
    <2>1. /\ d \in Nat
          /\ \A k \in Nat : k <= length - offset /\ k <= MaxLen - Reserve => k <= d
      BY <1>0, <1>2, Lengths
    <2> HIDE DEF d
    <2>2. Edited(d)
      BY <1>0, <1>4, <2>1, EditsMove DEF d
    <2>3. Missing' = Missing /\ Repeated'
      BY <1>4 DEF Missing, Repeated
    <2>4. ~Missing => CoversNow(shown)
      <3> SUFFICES ASSUME ~Missing PROVE CoversNow(shown)
        OBVIOUS
      <3>1. shown - offset \in Nat /\ shown - offset <= length - offset
            /\ shown - offset <= MaxLen - Reserve
        BY <1>0, <1>2, EditedMessage
      <3>2. shown - offset <= d
        BY <2>1, <3>1
      <3>3. shown <= offset + d
        BY <1>0, <2>1, <3>2
      <3> QED BY <1>0, <2>1, <2>2, <3>3, EditedMessage, EditCovers
    <2>5. chat' \in Seq(Messages)
      BY <2>2 DEF Edited
    <2> QED BY <1>0, <1>1, <1>2, <2>3, <2>4, <2>5, NextPart
  <1> QED BY <1>3, <1>4 DEF D!EditFails, D!Fault, D!platform

LEMMA FinaliseStep ==
  ASSUME AnswerInv, Sizes, pc = "stream", pc' = pc, msg # 0, NEW length \in Nat,
         text <= length, text' = length, D!Finalise(length)
  PROVE  AnswerInv'
  <1>0. /\ msg \in DOMAIN chat /\ offset \in Nat /\ shown \in Nat /\ text \in Nat
        /\ offset <= shown /\ shown <= text /\ Cursor
    BY EditedMessage DEF AnswerInv
  <1>1. offset' = length /\ shown' = length /\ msg' = 0 /\ editCount' = editCount
    BY DEF D!Finalise, D!NextMessage
  <1>2. shown <= length /\ offset <= length
    BY <1>0
  <1>3. CASE chat' = chat /\ wrong' = wrong \cup {"final edit"}
    <2>1. Missing' /\ Repeated' = Repeated
      BY <1>3 DEF Missing, Repeated
    <2>3. ~Repeated => ApartNow /\ \A i \in DOMAIN chat' : chat'[i].to <= length
      <3>1. ~Repeated => \A i \in DOMAIN chat : chat[i].to <= length
        <4>1. \A i \in DOMAIN chat : chat[i].to \in Nat
          BY <1>0, MessageFacts
        <4> QED BY <1>0, <1>2, <4>1, EditedMessage
      <3> QED BY <1>3, <3>1, EditedMessage DEF Apart, ApartNow
    <2>4. chat' \in Seq(Messages)
      BY <1>0, <1>3 DEF Cursor
    <2> QED BY <1>0, <1>1, <1>2, <2>1, <2>3, <2>4, NextPart
  <1>4. CASE D!Edits(D!FinalText(length), TRUE) /\ wrong' = wrong \cup D!Hides(length, MaxLen)
    <2> DEFINE d == D!FinalText(length)
    <2>1. /\ d \in Nat /\ d <= length - offset
          /\ "too long" \notin D!Hides(length, MaxLen) => d = length - offset
          /\ D!Hides(length, MaxLen) \subseteq {"too long"}
      BY <1>0, <1>2, Lengths
    <2> HIDE DEF d
    <2>2. Edited(d)
      BY <1>0, <1>4, <2>1, EditsMove DEF d
    <2>3. /\ Missing => Missing'
          /\ ~Missing' => "too long" \notin D!Hides(length, MaxLen)
          /\ Repeated' = Repeated
      BY <1>4, <2>1 DEF Missing, Repeated
    <2>4. /\ d \in Nat /\ offset \in Nat /\ d <= length - offset
          /\ ~Missing' => d = length - offset
      BY <1>0, <2>1, <2>3
    <2>5. ~Missing' => CoversNow(length)
      <3> SUFFICES ASSUME ~Missing' PROVE CoversNow(length)
        OBVIOUS
      <3>1. length <= offset + d
        BY <2>4
      <3> QED BY <1>0, <2>1, <2>2, <2>3, <3>1, EditedMessage, EditCovers
    <2>6. ~Repeated' => ApartNow /\ \A i \in DOMAIN chat' : chat'[i].to <= length
      <3>1. offset + d <= length
        BY <2>4
      <3> QED BY <1>0, <2>1, <2>2, <2>3, <3>1, EditedMessage, EditApart, EndsAfterEdit
    <2>7. chat' \in Seq(Messages)
      BY <2>2 DEF Edited
    <2> QED BY <1>0, <1>1, <1>2, <2>5, <2>6, <2>7, NextPart
  <1> QED BY <1>3, <1>4 DEF D!Finalise, D!Fault, D!platform
LEMMA EditSucceedsStep ==
  ASSUME AnswerInv, Sizes, pc = "stream", pc' = pc, msg # 0, NEW length \in Nat,
         text <= length, text' = length, ~D!LastEditLeft, D!EditSucceeds(length)
  PROVE  AnswerInv'
  <1>0. /\ msg \in DOMAIN chat /\ offset \in Nat /\ shown \in Nat /\ text \in Nat
        /\ offset <= shown /\ shown <= text /\ Cursor
    BY EditedMessage DEF AnswerInv
  <1>1. /\ offset' = offset /\ shown' = length /\ msg' = msg /\ editCount' = editCount + 1
        /\ wrong' = wrong \cup D!Hides(length, MaxLen - Reserve)
    BY DEF D!EditSucceeds, D!Fault
  <1>2. shown <= length /\ offset <= length
    BY <1>0
  <1> DEFINE d == D!Display(length)
  <1>3. /\ d \in Nat /\ d <= length - offset
        /\ "too long" \notin D!Hides(length, MaxLen - Reserve) =>
              d = length - offset /\ length - offset <= MaxLen - Reserve
        /\ D!Hides(length, MaxLen - Reserve) \subseteq {"too long"}
    BY <1>0, <1>2, Lengths
  <1>4. Edited(d)
    BY <1>0, <1>3, EditsMove DEF D!EditSucceeds
  <1> HIDE DEF d
  <1>5. /\ Missing => Missing'
        /\ ~Missing' => "too long" \notin D!Hides(length, MaxLen - Reserve)
        /\ Repeated' = Repeated
    BY <1>1, <1>3 DEF Missing, Repeated
  <1>6. /\ d \in Nat /\ offset \in Nat /\ d <= length - offset
        /\ ~Missing' => d = length - offset /\ length - offset <= MaxLen - Reserve
    BY <1>0, <1>3, <1>5
  <1>7. /\ chat' \in Seq(Messages) /\ DOMAIN chat' = DOMAIN chat /\ Len(chat') = Len(chat)
        /\ chat'[msg].from = offset /\ chat'[msg].to = offset + d
        /\ \A i \in DOMAIN chat : i # msg => chat'[i] = chat[i]
    BY <1>4, EditedMessage DEF Edited
  <1>8. Cursor'
    <2>1. MaxEdits = 0 \/ editCount + 1 < MaxEdits
      <3>1. MaxEdits \in Nat /\ editCount \in Nat
        BY <1>0 DEF Sizes, Cursor
      <3> QED BY <3>1 DEF D!LastEditLeft
    <2>2. msg' \in 0 .. Len(chat') /\ msg' # 0
      BY <1>0, <1>1, <1>7 DEF Cursor
    <2>3. editCount' \in Nat /\ text' \in Nat /\ offset' \in Nat /\ shown' \in Nat
          /\ offset' <= shown' /\ shown' <= text'
      BY <1>0, <1>1, <1>2 DEF Cursor
    <2> QED BY <1>1, <1>7, <2>1, <2>2, <2>3 DEF Cursor
  <1>9. ShownSoFar'
    <2> SUFFICES ASSUME ~Missing'
                 PROVE  /\ CoversNow(offset)
                        /\ chat'[msg].to = length /\ length - offset <= MaxLen - Reserve
      BY <1>1 DEF ShownSoFar, Covers, CoversNow
    <2>1. offset <= offset + d
      BY <1>6
    <2>2. CoversNow(offset)
      BY <1>0, <1>4, <1>5, <1>6, <2>1, EditedMessage, EditCovers
    <2>3. offset + d = length
      BY <1>6
    <2> QED BY <1>6, <1>7, <2>2, <2>3
  <1>10. OnceSoFar'
    <2> SUFFICES ASSUME ~Repeated'
                 PROVE  /\ ApartNow
                        /\ \A i \in DOMAIN chat : chat'[i].to <= IF i = msg THEN length ELSE offset
      BY <1>1, <1>7 DEF OnceSoFar, Apart, ApartNow
    <2>1. ApartNow
      BY <1>0, <1>4, <1>5, <1>6, EditedMessage, EditApart
    <2>2. offset + d <= length
      BY <1>6
    <2> QED BY <1>5, <1>7, <2>1, <2>2, EditedMessage
  <1> QED BY <1>8, <1>9, <1>10 DEF AnswerInv, D!AnswerIsWhole

LEMMA EditSteps ==
  ASSUME AnswerInv, Sizes, pc = "stream", pc' = pc, msg # 0, NEW length \in Nat,
         text <= length, text' = length, D!TryEditCounted(length)
  PROVE  AnswerInv'
  BY EditFailsStep, FinaliseStep, EditSucceedsStep DEF D!TryEditCounted

\* The text grows, or a tool is at work, and nothing is shown of it.
LEMMA NothingShownStep ==
  ASSUME AnswerInv, pc' \in {pc, "final"}, pc # "done", text' \in Nat, text <= text',
         UNCHANGED <<offset, shown, msg, editCount, chat, wrong>>
  PROVE  AnswerInv'
  <1>1. Cursor'
    BY DEF AnswerInv, Cursor
  <1>2. Missing' = Missing /\ Repeated' = Repeated /\ pc' # "done"
    BY DEF Missing, Repeated
  <1>3. ShownSoFar'
    BY <1>2 DEF AnswerInv, ShownSoFar, Covers
  <1>4. OnceSoFar'
    BY <1>2 DEF AnswerInv, OnceSoFar, Apart
  <1> QED BY <1>1, <1>2, <1>3, <1>4 DEF AnswerInv, D!AnswerIsWhole

\* The first post of a message, which may be taken without the program knowing.
LEMMA SendInitialStep ==
  ASSUME AnswerInv, Sizes, pc = "stream", pc' = pc, msg = 0, NEW length \in Nat,
         text <= length, text' = length, replyTo \in BOOLEAN, D!SendInitial(length)
  PROVE  AnswerInv'
  <1>0. /\ offset \in Nat /\ text \in Nat /\ shown = offset /\ offset <= length /\ Cursor
        /\ editCount \in Nat
    BY DEF AnswerInv, Cursor
  <1> DEFINE d == D!Display(length)
  <1>1. /\ d \in Nat /\ d <= length - offset
        /\ "too long" \notin D!Hides(length, MaxLen - Reserve) =>
              d = length - offset /\ length - offset <= MaxLen - Reserve
        /\ D!Hides(length, MaxLen - Reserve) \subseteq {"too long"}
    BY <1>0, Lengths
  <1>2. CASE UNCHANGED <<D!cursor, D!platform, wrong>>
    BY <1>0, <1>2, NothingShownStep DEF D!cursor, D!platform
  <1>3. CASE /\ D!PostsUnheard(d, FALSE) /\ D!Fault({"unheard"}) /\ UNCHANGED D!cursor
    <2>1. Posted(d)
      BY <1>0, <1>1, <1>3, PostsAdd
    <2> HIDE DEF d
    <2>2. /\ UNCHANGED <<offset, shown, msg, editCount>> /\ wrong' = wrong \cup {"unheard"}
          /\ chat' \in Seq(Messages)
      BY <1>3, <2>1 DEF D!cursor, D!Fault, Posted
    <2>3. Missing' = Missing /\ Repeated'
      BY <2>2 DEF Missing, Repeated
    <2>4. Cursor'
      BY <1>0, <2>2 DEF Cursor
    <2>5. ShownSoFar'
      <3> SUFFICES ASSUME ~Missing PROVE CoversNow(offset)
        BY <2>2, <2>3 DEF ShownSoFar, Covers, CoversNow
      <3>1. Covers(offset)
        BY DEF AnswerInv, ShownSoFar
      <3>2. offset <= offset + d
        <4>1. offset \in Nat /\ d \in Nat
          BY <1>0, <1>1
        <4> QED BY <4>1
      <3> QED BY <1>0, <1>1, <2>1, <3>1, <3>2, PostCovers
    <2> QED BY <2>3, <2>4, <2>5 DEF AnswerInv, OnceSoFar, D!AnswerIsWhole
  <1>4. CASE \E named \in BOOLEAN :
               /\ D!Posts(d, FALSE, named) /\ msg' = Len(chat) + 1
               /\ editCount' = 0 /\ shown' = length /\ offset' = offset
               /\ D!Fault(D!Hides(length, MaxLen - Reserve)
                            \cup (IF named THEN {} ELSE {"no id"}))
    <2>1. Posted(d)
      BY <1>0, <1>1, <1>4, PostsAdd
    <2>2. /\ Missing => Missing'
          /\ ~Missing' => "too long" \notin D!Hides(length, MaxLen - Reserve)
          /\ Repeated' = Repeated
      BY <1>1, <1>4 DEF Missing, Repeated, D!Fault
    <2>3. /\ d \in Nat /\ offset \in Nat /\ d <= length - offset
          /\ ~Missing' => d = length - offset /\ length - offset <= MaxLen - Reserve
      BY <1>0, <1>1, <2>2
    <2> HIDE DEF d
    <2>4. /\ msg' = Len(chat) + 1 /\ msg' # 0 /\ editCount' = 0 /\ shown' = length
          /\ offset' = offset /\ chat' \in Seq(Messages) /\ Len(chat') = Len(chat) + 1
          /\ Len(chat) \in Nat
          /\ chat'[msg'].from = offset /\ chat'[msg'].to = offset + d
      <3>1. Len(chat) \in Nat /\ msg' = Len(chat) + 1
        BY <1>0, <1>4, MessageFacts
      <3>2. msg' # 0
        BY <3>1
      <3> QED BY <1>4, <2>1, <3>1, <3>2 DEF Posted
    <2>5. Cursor'
      <3>1. MaxEdits = 0 \/ 0 < MaxEdits
        BY DEF Sizes
      <3>2. msg' \in 0 .. Len(chat')
        BY <2>4
      <3> QED BY <1>0, <2>4, <3>1, <3>2 DEF Cursor
    <2>6. ShownSoFar'
      <3> SUFFICES ASSUME ~Missing'
                   PROVE  /\ CoversNow(offset)
                          /\ chat'[msg'].to = length /\ length - offset <= MaxLen - Reserve
        BY <2>4 DEF ShownSoFar, Covers, CoversNow
      <3>1. Covers(offset)
        BY <2>2 DEF AnswerInv, ShownSoFar
      <3>2. offset <= offset + d /\ offset + d = length
        BY <2>3
      <3>3. CoversNow(offset)
        BY <1>0, <2>1, <2>3, <3>1, <3>2, PostCovers
      <3> QED BY <2>3, <2>4, <3>2, <3>3
    <2>7. OnceSoFar'
      <3> SUFFICES ASSUME ~Repeated'
                   PROVE  /\ ApartNow
                          /\ \A i \in DOMAIN chat' :
                               chat'[i].to <= IF i = msg' THEN length ELSE offset
        BY <2>4 DEF OnceSoFar, Apart, ApartNow
      <3>1. Apart /\ \A i \in DOMAIN chat : chat[i].to <= offset
        <4>1. \A i \in DOMAIN chat : i # 0
          BY <1>0, MessageFacts
        <4> QED BY <1>0, <2>2, <4>1 DEF AnswerInv, OnceSoFar
      <3>2. ApartNow
        BY <1>0, <2>1, <2>3, <3>1, PostApart
      <3>3. offset + d <= length
        BY <2>3
      <3> QED BY <2>1, <2>4, <3>1, <3>2, <3>3 DEF Posted
    <2> QED BY <2>5, <2>6, <2>7 DEF AnswerInv, D!AnswerIsWhole
  <1> QED BY <1>2, <1>3, <1>4 DEF D!SendInitial
LEMMA FinalDeliveryStep ==
  ASSUME AnswerInv, Sizes, replyTo \in BOOLEAN, D!FinalDelivery
  PROVE  AnswerInv'
  <1> DEFINE d == D!FinalText(text)
  <1>1. /\ pc = "final" /\ pc' = "done"
        /\ UNCHANGED <<text, offset, shown, msg, editCount>>
        /\ \/ d = 0 /\ chat' = chat /\ wrong' = wrong
           \/ /\ d # 0 /\ D!EditsAtEnd /\ D!Edits(d, TRUE)
              /\ wrong' = wrong \cup D!Hides(text, MaxLen)
           \/ d # 0 /\ ~D!EditsAtEnd /\ D!LastPost
    BY DEF D!FinalDelivery, D!Fault, D!cursor, D!platform
  <1>2. /\ Cursor /\ offset \in Nat /\ text \in Nat /\ offset <= text
        /\ (D!EditsAtEnd <=> msg # 0)
    BY <1>1 DEF AnswerInv, Cursor, D!EditsAtEnd
  <1>3. /\ d \in Nat
        /\ "too long" \notin D!Hides(text, MaxLen) => d = text - offset
        /\ d = 0 => text = offset
        /\ D!Hides(text, MaxLen) \subseteq {"too long"}
    BY <1>2, Lengths
  <1> HIDE DEF d
  <1>4. ~Missing => Covers(offset)
    BY <1>1 DEF AnswerInv, ShownSoFar
  <1>5. ~Repeated => /\ Apart
                     /\ \A i \in DOMAIN chat : i # msg => chat[i].to <= offset
    BY <1>1 DEF AnswerInv, OnceSoFar
  <1> SUFFICES /\ chat' \in Seq(Messages) /\ Len(chat') >= Len(chat) /\ Len(chat') \in Nat
               /\ msg # 0 => chat'[msg].from = offset
               /\ ~Missing' => CoversNow(text)
               /\ ~Repeated' => ApartNow
    <2>1. msg \in 0 .. Len(chat) /\ Len(chat) \in Nat
      BY <1>2, MessageFacts DEF Cursor
    <2>2. Cursor'
      BY <1>1, <1>2, <2>1 DEF Cursor
    <2>3. D!AnswerIsWhole'
      BY <1>1 DEF D!AnswerIsWhole, CoversNow, ApartNow, D!Shows, Missing, Repeated
    <2> QED BY <1>1, <2>2, <2>3 DEF AnswerInv, ShownSoFar, OnceSoFar, Apart, ApartNow
  <1>6. CASE d = 0 /\ chat' = chat /\ wrong' = wrong
    <2>1. Missing' = Missing /\ Repeated' = Repeated /\ text = offset
      BY <1>3, <1>6 DEF Missing, Repeated
    <2>2. chat' \in Seq(Messages) /\ Len(chat) \in Nat /\ (msg # 0 => chat'[msg].from = offset)
      BY <1>2, <1>6, MessageFacts DEF Cursor
    <2> QED BY <1>4, <1>5, <1>6, <2>1, <2>2 DEF Covers, CoversNow, Apart, ApartNow
  <1>7. CASE /\ msg # 0 /\ D!Edits(d, TRUE)
             /\ wrong' = wrong \cup D!Hides(text, MaxLen)
    <2>1. Edited(d)
      BY <1>2, <1>3, <1>7, EditsMove
    <2>2. /\ Missing => Missing'
          /\ ~Missing' => "too long" \notin D!Hides(text, MaxLen)
          /\ Repeated' = Repeated
      BY <1>3, <1>7 DEF Missing, Repeated
    <2>3. d \in Nat /\ offset \in Nat /\ text \in Nat /\ (~Missing' => d = text - offset)
      BY <1>2, <1>3, <2>2
    <2>4. ~Missing' => text <= offset + d
      BY <2>3
    <2>5. Len(chat) \in Nat
      BY <1>2, MessageFacts
    <2>6. chat' \in Seq(Messages) /\ Len(chat') = Len(chat) /\ chat'[msg].from = offset
      BY <1>2, <1>7, <2>1 DEF Edited, Cursor
    <2>7. ~Missing' => CoversNow(text)
      BY <1>2, <1>4, <1>7, <2>1, <2>2, <2>3, <2>4, EditCovers
    <2>8. ~Repeated' => ApartNow
      BY <1>2, <1>5, <1>7, <2>1, <2>2, <2>3, EditApart
    <2> QED BY <2>5, <2>6, <2>7, <2>8
  <1>8. CASE msg = 0 /\ D!LastPost
    <2>1. \A i \in DOMAIN chat : i # msg
      BY <1>2, <1>8, MessageFacts
    <2>2. CASE D!platform' = D!platform /\ D!Fault({"last post"})
      <3>1. Missing' /\ Repeated' = Repeated /\ chat' = chat
        BY <2>2 DEF Missing, Repeated, D!Fault, D!platform
      <3>2. chat \in Seq(Messages) /\ Len(chat) \in Nat
        BY <1>2, MessageFacts DEF Cursor
      <3> QED BY <1>5, <1>8, <3>1, <3>2 DEF Apart, ApartNow
    <2>3. CASE /\ (\E named \in BOOLEAN : D!Posts(d, TRUE, named)) \/ D!PostsUnheard(d, TRUE)
               /\ D!Fault(D!Hides(text, MaxLen))
      <3>1. Posted(d)
        BY <1>2, <1>3, <2>3, PostsAdd
      <3>2. /\ Missing => Missing'
            /\ ~Missing' => "too long" \notin D!Hides(text, MaxLen)
            /\ Repeated' = Repeated
        BY <1>3, <2>3 DEF Missing, Repeated, D!Fault
      <3>3. d \in Nat /\ offset \in Nat /\ text \in Nat /\ (~Missing' => d = text - offset)
        BY <1>2, <1>3, <3>2
      <3>4. ~Missing' => text <= offset + d
        BY <3>3
      <3>5. ~Missing' => CoversNow(text)
        BY <1>2, <1>4, <3>1, <3>2, <3>3, <3>4, PostCovers
      <3>6. ~Repeated' => ApartNow
        BY <1>2, <1>5, <2>1, <3>1, <3>2, <3>3, PostApart
      <3>7. Len(chat) \in Nat
        BY <1>2, MessageFacts
      <3>8. chat' \in Seq(Messages) /\ Len(chat') = Len(chat) + 1
        BY <3>1 DEF Posted
      <3> QED BY <1>8, <3>5, <3>6, <3>7, <3>8
    <2> QED BY <1>8, <2>2, <2>3 DEF D!LastPost, d
  <1> QED BY <1>1, <1>2, <1>6, <1>7, <1>8

LEMMA FinalEditFailsStep ==
  ASSUME AnswerInv, Sizes, D!FinalEditFails
  PROVE  AnswerInv'
  <1> DEFINE d == D!FinalText(text)
  <1>1. /\ pc = "final" /\ pc' = pc /\ msg # 0 /\ msg' = 0
        /\ UNCHANGED <<text, offset, shown, editCount>>
        /\ wrong' = wrong \cup {"last edit"}
        /\ chat' = chat \/ D!Edits(d, TRUE)
    BY DEF D!FinalEditFails, D!EditsAtEnd, D!Fault, D!platform
  <1>2. Cursor /\ offset \in Nat /\ text \in Nat /\ offset <= text
    BY DEF AnswerInv, Cursor
  <1>3. d \in Nat
    BY <1>2, Lengths
  <1> HIDE DEF d
  <1>4. Missing' = Missing /\ Repeated'
    BY <1>1 DEF Missing, Repeated
  <1>5. ~Missing => Covers(offset)
    BY <1>1 DEF AnswerInv, ShownSoFar
  <1>6. chat' \in Seq(Messages) /\ Len(chat') \in Nat /\ (~Missing => CoversNow(offset))
    <2>1. CASE chat' = chat
      BY <1>2, <1>5, <2>1, MessageFacts DEF Covers, CoversNow, Cursor
    <2>2. CASE D!Edits(d, TRUE)
      <3>1. Edited(d)
        BY <1>1, <1>2, <1>3, <2>2, EditsMove
      <3>2. offset <= offset + d
        BY <1>2, <1>3
      <3>3. Len(chat) \in Nat
        BY <1>2, MessageFacts
      <3>4. ~Missing => CoversNow(offset)
        BY <1>1, <1>2, <1>3, <1>5, <3>1, <3>2, EditCovers
      <3> QED BY <3>1, <3>3, <3>4 DEF Edited
    <2> QED BY <1>1, <2>1, <2>2
  <1>7. Cursor'
    <2>1. 0 \in 0 .. Len(chat') /\ chat' \in Seq(Messages)
      BY <1>6
    <2>2. msg' = 0 /\ pc' = "final"
      BY <1>1
    <2>3. /\ text \in Nat /\ offset \in Nat /\ shown \in Nat /\ editCount \in Nat
          /\ offset <= shown /\ shown <= text
      BY <1>2 DEF Cursor
    <2> QED BY <1>1, <2>1, <2>2, <2>3 DEF Cursor
  <1>8. ShownSoFar'
    BY <1>1, <1>4, <1>6 DEF ShownSoFar, Covers, CoversNow
  <1> QED BY <1>1, <1>4, <1>7, <1>8 DEF AnswerInv, OnceSoFar, D!AnswerIsWhole

\* The sink replies into a topic or it does not.
Replies == replyTo \in BOOLEAN

LEMMA RepliesStep ==
  ASSUME Replies, [D!Next]_D!vars PROVE Replies'
  BY DEF Replies, D!Next, D!vars, D!platform, D!Delta, D!ToolEvent, D!RunEnds, D!FinalDelivery,
         D!FinalEditFails, D!ShowsProgress, D!SendInitial, D!TryEditCounted, D!Finalise,
         D!EditFails, D!EditSucceeds, D!LastPost, D!Posts, D!PostsUnheard, D!ReplyText,
         D!SendText, D!Edits

LEMMA AnswerInit ==
  ASSUME D!Init PROVE AnswerInv /\ Replies
  <1>1. /\ chat = <<>> /\ chat \in Seq(Messages) /\ Len(chat) = 0 /\ msg = 0
        /\ DOMAIN chat = {} /\ pc = "stream"
        /\ text = 0 /\ offset = 0 /\ shown = 0 /\ editCount = 0
    BY DEF D!Init
  <1>2. Cursor
    BY <1>1 DEF Cursor
  <1>3. ShownSoFar /\ OnceSoFar
    BY <1>1 DEF ShownSoFar, OnceSoFar, Covers, Apart
  <1> QED BY <1>1, <1>2, <1>3 DEF AnswerInv, D!AnswerIsWhole, D!Init, Replies

LEMMA AnswerStep ==
  ASSUME AnswerInv, Replies, Sizes, [D!Next]_D!vars
  PROVE  AnswerInv'
  <1>0. text \in Nat
    BY DEF AnswerInv, Cursor
  <1>1. CASE D!Delta
    <2>1. /\ pc = "stream" /\ pc' = pc /\ text' = text + 1
          /\ \/ D!ShowsProgress(text + 1)
             \/ UNCHANGED <<offset, shown, msg, editCount, chat, wrong>>
      BY <1>1 DEF D!Delta, D!cursor, D!platform
    <2>2. text + 1 \in Nat /\ text <= text + 1
      BY <1>0
    <2>3. CASE D!ShowsProgress(text + 1)
      BY <2>1, <2>2, <2>3, EditSteps, SendInitialStep DEF D!ShowsProgress, Replies
    <2>4. CASE UNCHANGED <<offset, shown, msg, editCount, chat, wrong>>
      BY <2>1, <2>2, <2>4, NothingShownStep
    <2> QED BY <2>1, <2>3, <2>4
  <1>2. CASE D!ToolEvent
    <2>1. /\ pc = "stream" /\ pc' = pc /\ text' = text /\ text <= text
          /\ \/ msg # 0 /\ D!TryEditCounted(text)
             \/ UNCHANGED <<offset, shown, msg, editCount, chat, wrong>>
      BY <1>0, <1>2 DEF D!ToolEvent, D!cursor, D!platform
    <2> QED BY <1>0, <2>1, EditSteps, NothingShownStep
  <1>3. CASE D!RunEnds
    <2>1. /\ pc = "stream" /\ pc' = "final" /\ text' = text /\ text <= text
          /\ UNCHANGED <<offset, shown, msg, editCount, chat, wrong>>
      BY <1>0, <1>3 DEF D!RunEnds, D!cursor, D!platform
    <2> QED BY <1>0, <2>1, NothingShownStep
  <1>4. CASE UNCHANGED D!vars
    BY <1>4 DEF D!vars, D!cursor, D!platform, AnswerInv, Cursor, ShownSoFar, OnceSoFar, Covers,
                Apart, Missing, Repeated, D!AnswerIsWhole, D!Shows
  <1>5. CASE D!FinalDelivery \/ D!FinalEditFails
    BY <1>5, FinalDeliveryStep, FinalEditFailsStep DEF Replies
  <1> QED BY <1>1, <1>2, <1>3, <1>4, <1>5 DEF D!Next

\* However many events, refused posts and refused edits an answer meets, and
\* wherever a message is full and the next one goes on: its messages show all of
\* the text, unless it outgrew a message or a result the code ignores was a
\* failure, and nothing twice, unless an answer of the platform was lost or the
\* last edit refused (gateway/delivery/stream.rs).
THEOREM AnswersAreWhole ==
  ASSUME Sizes
  PROVE  D!Spec => []AnswerIsWhole
  <1>1. AnswerInv => AnswerIsWhole
    BY DEF AnswerInv, AnswerIsWhole
  <1> QED BY <1>1, AnswerInit, AnswerStep, RepliesStep, PTL DEF D!Spec
=============================================================================
