---------------------------- MODULE FeishuChannel ----------------------------
(***************************************************************************)
(* The inbound side of the gateway: the supervisor that keeps the channel   *)
(* task of the configured revision running (app, gateway/supervisor.rs and  *)
(* channel_tasks.rs), the task's loop of connecting, receiving and backing  *)
(* off (channels/feishu/adapter.rs), and one connection's frames, parts,    *)
(* acknowledgements and deduplication (ws.rs, message.rs).  The platform is *)
(* external: it sends what is not acknowledged again, on any connection.    *)
(*                                                                         *)
(* A generation is one spawned channel task.  Between two awaits a task     *)
(* runs undisturbed; at an await it can be cancelled, or aborted.           *)
(***************************************************************************)
EXTENDS Naturals, Sequences

CONSTANTS
  Events,        \* messages users write to the bot
  Parts,         \* in how many frames the platform sends each
  Accepted,      \* what a revision's filters (allow_from, mention_only) let through
  Credential,    \* the app id and secret of each revision
  NoRevision,    \* the channel is not configured
  Unreadable,    \* the configuration file cannot be loaded
  MaxConfigEdits, MaxTroubles, MaxSends, MaxLapses   \* bound the model

Revisions == DOMAIN Accepted
Generations == 1..(MaxConfigEdits + MaxTroubles + 1)
NoEvent == "no event"

ASSUME ChannelConstants ==
  /\ Parts \in [Events -> Nat]
  /\ NoEvent \notin Events
  /\ MaxConfigEdits \in Nat /\ MaxTroubles \in Nat

VARIABLES
  file,        \* what the configuration file says
  loaded,      \* the supervisor's configuration
  supervisor,  \* "reconcile", "stopping", "start", "waits", "shutdown", "ended"
  entry,       \* the generation in `running`, 0 for none
  victim,      \* the generation being shut down, 0 for none
  started,     \* how many generations there have been
  gen,         \* each generation: its revision, stage, cancel token, connection
  health,      \* gateway/health.rs, by credentials
  cancelled,   \* the process is shutting down
  acked,       \* events the platform considers delivered
  handed,      \* how often each event became a message task
  refused,     \* History: events the filters of a revision refused
  cutOff,      \* History: events in hand when their task was stopped
  sends, edits, troubles, lapses

config == <<file, loaded, edits>>
supervision == <<supervisor, entry, victim, started>>
inbound == <<acked, handed, refused, cutOff>>
bounds == <<sends, troubles, lapses>>
vars == <<config, supervision, gen, health, cancelled, inbound, bounds>>

Offline(rev, stage) ==
  [rev |-> rev, stage |-> stage, cancelled |-> FALSE, wire |-> <<>>,
   cache |-> [e \in Events |-> {}], seen |-> {}, current |-> NoEvent]

Init ==
  /\ file \in Revisions \cup {NoRevision} /\ loaded = file
  /\ supervisor = "reconcile" /\ entry = 0 /\ victim = 0 /\ started = 0
  /\ gen = [g \in Generations |-> Offline(NoRevision, "unborn")]
  /\ health = [r \in Revisions |-> "connecting"]
  /\ cancelled = FALSE
  /\ acked = {} /\ handed = [e \in Events |-> 0]
  /\ refused = {} /\ cutOff = {}
  /\ sends = [e \in Events |-> 0]
  /\ edits = 0 /\ troubles = 0 /\ lapses = 0

Alive(g) == gen[g].stage \notin {"unborn", "dead"}
Receiving(g) == gen[g].stage \in {"receive", "acked", "lookup"}

\* Health is kept by credentials: revisions that share them share it.
SetHealth(g, state) ==
  health' = [r \in Revisions |->
               IF Credential[r] = Credential[gen[g].rev] THEN state ELSE health[r]]

-----------------------------------------------------------------------------
(* The supervisor. *)

\* Mutant: a revision that changed is left to run.
Obsolete_Finished(g) == gen[g].stage = "dead"

Obsolete(g) == gen[g].stage = "dead" \/ gen[g].rev # loaded

Shutdown(then) ==
  /\ victim' = entry /\ entry' = 0
  /\ gen' = IF entry = 0 THEN gen ELSE [gen EXCEPT ![entry].cancelled = TRUE]
  /\ supervisor' = then
  /\ UNCHANGED <<config, started, health, cancelled, inbound, bounds>>

RetireObsolete ==
  /\ supervisor = "reconcile"
  /\ \E g \in Generations : g = entry /\ Obsolete(g)
  /\ Shutdown("stopping")

NothingObsolete ==
  /\ supervisor = "reconcile"
  /\ \A g \in Generations : g = entry => ~Obsolete(g)
  /\ supervisor' = "start"
  /\ UNCHANGED <<config, entry, victim, started, gen, health, cancelled, inbound, bounds>>

\* Mutant: the shutdown does not wait for the task.
StopEnds_AtOnce ==
  /\ supervisor \in {"stopping", "shutdown"}
  /\ victim' = 0
  /\ supervisor' = IF supervisor = "stopping" THEN "start" ELSE "ended"
  /\ UNCHANGED <<config, entry, started, gen, health, cancelled, inbound, bounds>>

StopEnds ==
  /\ supervisor \in {"stopping", "shutdown"}
  /\ victim # 0 => gen[victim].stage = "dead"
  /\ victim' = 0
  /\ supervisor' = IF supervisor = "stopping" THEN "start" ELSE "ended"
  /\ UNCHANGED <<config, entry, started, gen, health, cancelled, inbound, bounds>>

Dies(g) ==
  /\ gen' = [gen EXCEPT ![g] = [Offline(gen[g].rev, "dead") EXCEPT !.cancelled = TRUE]]
  /\ cutOff' = cutOff \cup ({gen[g].current} \cap Events)

\* The grace of two seconds is over: the task is aborted and says nothing.
StopAborts ==
  /\ supervisor \in {"stopping", "shutdown"}
  /\ victim # 0 /\ Alive(victim)
  /\ Dies(victim)
  /\ UNCHANGED <<config, supervision, health, cancelled, acked, handed, refused, bounds>>

StartDesired ==
  /\ supervisor = "start"
  /\ supervisor' = "waits"
  /\ IF ~cancelled /\ loaded # NoRevision /\ entry = 0
       THEN /\ started' = started + 1
            /\ entry' = started'
            /\ gen' = [gen EXCEPT ![started'] = Offline(loaded, "new")]
       ELSE UNCHANGED <<started, entry, gen>>
  /\ UNCHANGED <<config, victim, health, cancelled, inbound, bounds>>

\* A configuration that cannot be loaded keeps the transports as they are.
Tick ==
  /\ supervisor = "waits" /\ ~cancelled
  /\ file # Unreadable
  /\ loaded' = file
  /\ supervisor' = "reconcile"
  /\ UNCHANGED <<file, edits, entry, victim, started, gen, health, cancelled,
                 inbound, bounds>>

SupervisorStops ==
  /\ supervisor = "waits" /\ cancelled
  /\ Shutdown("shutdown")

EditConfig ==
  /\ edits < MaxConfigEdits
  /\ edits' = edits + 1
  /\ file' \in (Revisions \cup {NoRevision, Unreadable}) \ {file}
  /\ UNCHANGED <<loaded, supervision, gen, health, cancelled, inbound, bounds>>

\* The children's tokens are cancelled with the process's.
CancelProcess ==
  /\ ~cancelled
  /\ cancelled' = TRUE
  /\ gen' = [g \in Generations |-> [gen[g] EXCEPT !.cancelled = TRUE]]
  /\ UNCHANGED <<config, supervision, health, inbound, bounds>>

-----------------------------------------------------------------------------
(* The channel task. *)

Moves(g, from, to) ==
  /\ gen[g].stage = from
  /\ gen' = [gen EXCEPT ![g].stage = to]
  /\ UNCHANGED <<config, supervision, cancelled, inbound, sends, lapses>>

Trouble == troubles < MaxTroubles /\ troubles' = troubles + 1

TaskBegins(g) ==
  /\ Moves(g, "new", "init") /\ SetHealth(g, "connecting") /\ UNCHANGED troubles

\* The bot's id is fetched until it is there.
Initialise(g) ==
  \/ Moves(g, "init", "connect") /\ UNCHANGED <<health, troubles>>
  \/ Moves(g, "init", "init") /\ Trouble /\ SetHealth(g, "retrying")

\* Every connection starts with no parts and no memory of what was seen.
Connect(g) ==
  /\ gen[g].stage = "connect"
  /\ gen' = [gen EXCEPT ![g] = [Offline(gen[g].rev, "receive") EXCEPT
                                  !.cancelled = gen[g].cancelled]]
  /\ SetHealth(g, "connected")
  /\ UNCHANGED <<config, supervision, cancelled, inbound, bounds>>

ConnectFails(g) ==
  /\ Moves(g, "connect", "backoff") /\ Trouble /\ SetHealth(g, "retrying")

\* A clean close leaves the health as it is; an error or the heartbeat's
\* timeout shows.
Disconnect(g) ==
  /\ Moves(g, "receive", "backoff") /\ Trouble
  /\ \/ SetHealth(g, "retrying")
     \/ UNCHANGED health

BackoffEnds(g) == Moves(g, "backoff", "connect") /\ UNCHANGED <<health, troubles>>

\* Whatever the task awaits, it is dropped there.
TaskHearsCancel(g) ==
  /\ Alive(g) /\ gen[g].stage # "new" /\ gen[g].cancelled
  /\ Dies(g)
  /\ SetHealth(g, "stopped")
  /\ UNCHANGED <<config, supervision, cancelled, acked, handed, refused, bounds>>

TaskPanics(g) ==
  /\ Alive(g) /\ gen[g].stage # "new"
  /\ Trouble
  /\ Dies(g)
  /\ UNCHANGED <<config, supervision, health, cancelled, acked, handed, refused,
                 sends, lapses>>

-----------------------------------------------------------------------------
(* One connection. *)

Frames(e) == [i \in 1..Parts[e] |-> <<e, i>>]

PlatformSends(e) ==
  /\ e \notin acked /\ sends[e] < MaxSends
  /\ sends' = [sends EXCEPT ![e] = @ + 1]
  /\ \E g \in Generations :
       /\ Receiving(g)
       /\ gen' = [gen EXCEPT ![g].wire = @ \o Frames(e)]
  /\ UNCHANGED <<config, supervision, health, cancelled, inbound, troubles, lapses>>

Complete(e, parts) == parts = 1..Parts[e]

\* Mutant: every frame is acknowledged.
Receive_AcksParts(g) ==
  /\ gen[g].stage = "receive" /\ gen[g].wire # <<>>
  /\ LET e == Head(gen[g].wire)[1]
         parts == gen[g].cache[e] \cup {Head(gen[g].wire)[2]}
     IN /\ gen' = [gen EXCEPT ![g].wire = Tail(@),
                     ![g].cache[e] = IF Complete(e, parts) THEN {} ELSE parts,
                     ![g].stage = IF Complete(e, parts) THEN "acked" ELSE @,
                     ![g].current = IF Complete(e, parts) THEN e ELSE @]
        /\ acked' = acked \cup {e}
  /\ UNCHANGED <<config, supervision, health, cancelled, handed, refused, cutOff, bounds>>

\* A frame of several is kept until the last is there; only then is the event
\* acknowledged, and before it is looked at.
Receive(g) ==
  /\ gen[g].stage = "receive" /\ gen[g].wire # <<>>
  /\ LET e == Head(gen[g].wire)[1]
         parts == gen[g].cache[e] \cup {Head(gen[g].wire)[2]}
     IN IF Complete(e, parts)
          THEN /\ gen' = [gen EXCEPT ![g].wire = Tail(@), ![g].cache[e] = {},
                                     ![g].stage = "acked", ![g].current = e]
               /\ acked' = acked \cup {e}
          ELSE /\ gen' = [gen EXCEPT ![g].wire = Tail(@), ![g].cache[e] = parts]
               /\ UNCHANGED acked
  /\ UNCHANGED <<config, supervision, health, cancelled, handed, refused, cutOff, bounds>>

\* check_and_insert.
Fresh(g) == gen[g].current \notin gen[g].seen

\* parse_event: the allow list, the deduplication, then the other filters.
Parse(g) ==
  /\ gen[g].stage = "acked"
  /\ LET e == gen[g].current
         accepted == e \in Accepted[gen[g].rev]
     IN /\ gen' = [gen EXCEPT
              ![g].seen = @ \cup {e},
              ![g].stage = IF accepted /\ Fresh(g) THEN "lookup" ELSE "receive",
              ![g].current = IF accepted /\ Fresh(g) THEN e ELSE NoEvent]
        /\ refused' = IF accepted THEN refused ELSE refused \cup {e}
  /\ UNCHANGED <<config, supervision, health, cancelled, acked, handed, cutOff, bounds>>

\* handle_message: the loop waits for the topic's id, which may not come; the
\* rest is a task of its own that nothing here stops.
HandOver(g) ==
  /\ gen[g].stage = "lookup"
  /\ handed' = [handed EXCEPT ![gen[g].current] = @ + 1]
  /\ gen' = [gen EXCEPT ![g].stage = "receive", ![g].current = NoEvent]
  /\ UNCHANGED <<config, supervision, health, cancelled, acked, refused, cutOff, bounds>>

\* Parts older than five minutes go.
CacheExpires(g) ==
  /\ gen[g].stage = "receive" /\ lapses < MaxLapses
  /\ lapses' = lapses + 1
  /\ gen' = [gen EXCEPT ![g].cache = [e \in Events |-> {}]]
  /\ UNCHANGED <<config, supervision, health, cancelled, inbound, sends, troubles>>

\* What was seen half an hour ago is new again.
DedupForgets(g) ==
  /\ gen[g].stage = "receive" /\ lapses < MaxLapses
  /\ lapses' = lapses + 1
  /\ gen' = [gen EXCEPT ![g].seen = {}]
  /\ UNCHANGED <<config, supervision, health, cancelled, inbound, sends, troubles>>

-----------------------------------------------------------------------------

Supervise ==
  \/ RetireObsolete \/ NothingObsolete \/ StopEnds \/ StopAborts
  \/ StartDesired \/ Tick \/ SupervisorStops

Task(g) ==
  \/ TaskBegins(g) \/ Initialise(g) \/ Connect(g) \/ BackoffEnds(g)
  \/ TaskHearsCancel(g) \/ Receive(g) \/ Parse(g) \/ HandOver(g)

Next ==
  \/ Supervise \/ EditConfig \/ CancelProcess
  \/ \E g \in Generations :
       \/ Task(g) \/ ConnectFails(g) \/ Disconnect(g) \/ TaskPanics(g)
       \/ CacheExpires(g) \/ DedupForgets(g)
  \/ \E e \in Events : PlatformSends(e)

\* Tasks are scheduled, timers fire, and the platform answers a request (the
\* client sets no timeout of its own). Nobody has to write or edit.
Fairness ==
  /\ WF_vars(Supervise)
  /\ \A g \in Generations : WF_vars(Task(g))

Spec == Init /\ [][Next]_vars /\ Fairness

-----------------------------------------------------------------------------

\* Two connections of one app would split its messages between two revisions of
\* the filters: an old task is gone before the next one starts.  So the status
\* the settings page shows for the credentials of a live connection is that
\* connection's own: no earlier task's last word comes after it.
OneTransport ==
  \A g \in Generations :
    /\ Alive(g) => \A h \in Generations : Alive(h) => g = h
    /\ Receiving(g) => health[gen[g].rev] = "connected"

\* The platform never sends an acknowledged event again, so one that was
\* accepted has become a message task or is on its way to it, unless the channel
\* itself was stopped with the event in hand. Parts lost with a connection or
\* expired were never acknowledged.
AckedIsTaken ==
  \A e \in acked :
    \/ handed[e] > 0
    \/ e \in refused \cup cutOff
    \/ \E g \in Generations : gen[g].current = e

\* Whatever failed on the way, the configured revision ends up connected, and an
\* unconfigured channel ends up stopped.
ReachesRevision ==
  <>[](\/ cancelled
       \/ file = Unreadable
       \/ file = NoRevision /\ \A g \in Generations : ~Alive(g)
       \/ \E g \in Generations : gen[g].rev = file /\ Receiving(g))
=============================================================================
