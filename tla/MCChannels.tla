------------------------------ MODULE MCChannels ------------------------------
(***************************************************************************)
(* What comes from outside and what is said back, one at a time (`side`):   *)
(* the task of a channel with one message in two frames, which the filters  *)
(* of the second revision refuse (both revisions have the same credentials); *)
(* the dispatchers of scheduled tasks; an answer shown in a chat.            *)
(***************************************************************************)
EXTENDS FeishuChannel, Automation

CONSTANTS MaxText, MinInitial, MaxLen, Reserve, MaxEdits, MaxToolEvents

VARIABLES
  side,
  pc, canEdit, replyTo, text, offset, shown, msg, editCount, continuation,
  toolEvents, chat, wrong

showing == <<pc, canEdit, replyTo, text, offset, shown, msg, editCount, continuation,
             toolEvents, chat, wrong>>

D == INSTANCE StreamDelivery WITH edits <- editCount, faults <- wrong

MCParts == [e \in {"message"} |-> 2]
MCAccepted == <<{"message"}, {}>>
MCCredential == <<"app", "app">>

(* No channel is configured and its supervisor has ended.                    *)
ChannelIsIdle ==
  /\ file = NoRevision /\ loaded = file
  /\ supervisor = "ended" /\ entry = 0 /\ victim = 0 /\ started = 0
  /\ gen = [g \in Generations |-> Offline(NoRevision, "unborn")]
  /\ health = [r \in Revisions |-> "connecting"]
  /\ cancelled = TRUE
  /\ acked = {} /\ handed = [e \in Events |-> 0]
  /\ refused = {} /\ cutOff = {}
  /\ sends = [e \in Events |-> 0]
  /\ edits = 0 /\ troubles = 0 /\ lapses = 0

(* Every run is reported and every dispatcher stopped.                       *)
LeasesAreIdle ==
  /\ at = [d \in Dispatcher |-> Anew(d, 0, "stopped", NoRun, Nobody)]
  /\ run = [r \in Run |-> [state |-> "reported", token |-> Nobody, request |-> <<>>,
                           status |-> "failed", delivery |-> "not_requested"]]
  /\ effect = [r \in Run |-> NoEffect]
  /\ faults = 0 /\ expiries = 0

PartsInit ==
  /\ side \in {"channel", "leases", "showing"}
  /\ IF side = "channel" THEN Init ELSE ChannelIsIdle
  /\ IF side = "leases" THEN LeasesInit ELSE LeasesAreIdle
  /\ D!Init
  /\ side # "showing" => ~canEdit /\ ~replyTo

PartsNext ==
  /\ \/ side = "channel" /\ Next /\ UNCHANGED <<leaseVars, showing>>
     \/ side = "leases" /\ LeasesNext /\ UNCHANGED <<vars, showing>>
     \/ side = "showing" /\ D!Next /\ UNCHANGED <<vars, leaseVars>>
  /\ UNCHANGED side

PartsSpec ==
  /\ PartsInit /\ [][PartsNext]_<<side, vars, leaseVars, showing>>
  /\ Fairness /\ LeasesFairness

\* An answer is shown whole, and nothing of it twice (gateway/delivery/stream.rs).
AnswerIsWhole == D!AnswerIsWhole
=============================================================================
