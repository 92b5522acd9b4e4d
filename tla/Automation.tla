------------------------------ MODULE Automation ------------------------------
(***************************************************************************)
(* Scheduled tasks (app/src/automation): every dispatcher claims a due run   *)
(* from the cloud, works on it under a lease that it renews, delivers the    *)
(* result to the task's channel and reports it.                              *)
(*                                                                         *)
(* The dispatchers of one user share their executor id; each is one loop     *)
(* that handles one run at a time.  The cloud is external: it hands a due    *)
(* run to one lease at a time, answers a repeated request id with the run it *)
(* chose before, and refuses a token that is no longer the run's.  A request *)
(* may be lost on its way (the cloud never saw it) or on its way back.       *)
(***************************************************************************)
EXTENDS Naturals

CONSTANTS
  Dispatcher,
  Run,
  Target,       \* chats the task's delivery target resolves to
  Mortal,       \* dispatchers whose process may be stopped
  MaxFaults,    \* bound: requests lost in either direction
  MaxExpiries   \* bound: leases that run out although somebody renews them

NoRun == "no run"
Nobody == 0
ReportTries == 3

ASSUME BoundsAreNaturals == {MaxFaults, MaxExpiries} \subseteq Nat

ASSUME NoRunIsNone == NoRun \notin Run

VARIABLES
  at,         \* per dispatcher: where it stands and what it holds
  run,        \* per run, the cloud's record: state, lease, report
  effect,     \* ghost, per run, under its present lease: how often the agent
              \* was started, and the chats that got the result
  faults,     \* requests lost so far
  expiries    \* leases that ran out although somebody renewed them

leaseVars == <<at, run, effect, faults, expiries>>

Anew(d, serial, pc, r, token) ==
  [pc |-> pc, request |-> <<d, serial>>, run |-> r, token |-> token,
   todo |-> {}, status |-> "", delivery |-> "", tries |-> 0]

Idle(d, serial) == Anew(d, serial, "polling", NoRun, Nobody)

NoEffect == [started |-> 0, reached |-> {}]

LeasesInit ==
  /\ at = [d \in Dispatcher |-> Idle(d, 0)]
  /\ run = [r \in Run |-> [state |-> "due", token |-> Nobody, request |-> <<>>,
                           status |-> "", delivery |-> ""]]
  /\ effect = [r \in Run |-> NoEffect]
  /\ faults = 0 /\ expiries = 0

-----------------------------------------------------------------------------
(* Requests. An exchange is answered, lost on its way back, or on its way. *)
Answered == faults' = faults
Lost == faults < MaxFaults /\ faults' = faults + 1

Goto(d, place) == at' = [at EXCEPT ![d].pc = place]

\* Back to the loop, with the request id it has.
Released(d) == Idle(d, at[d].request[2])
GiveUp(d) == at' = [at EXCEPT ![d] = Released(d)]

\* Mutant: one id for good.
NextRequest_Kept(d, answered) == at[d].request[2]

\* A request id is used until the cloud has answered it. Nothing due is an
\* answer too, but an id the cloud has granted nothing to is as good as new.
NextRequest(d, answered) ==
  IF answered THEN at[d].request[2] + 1 ELSE at[d].request[2]

-----------------------------------------------------------------------------
(* Claiming. *)
Grant(r, request) ==
  /\ run[r].state = "due"
  /\ run' = [run EXCEPT ![r].state = "leased", ![r].request = request,
                        ![r].token = @ + 1]
  /\ effect' = [effect EXCEPT ![r] = NoEffect]

Holding(d, r, token) == Anew(d, NextRequest(d, TRUE), "confirming", r, token)

\* What the cloud does with a claim, and what the dispatcher learns of it.
ClaimRun(d) ==
  /\ at[d].pc = "polling"
  /\ LET request == at[d].request
         again == {r \in Run : run[r].request = request}
     IN \/ /\ again = {}
           /\ \E r \in Run :
                /\ Grant(r, request)
                /\ \/ /\ Answered
                      /\ at' = [at EXCEPT ![d] = Holding(d, r, run'[r].token)]
                   \/ /\ Lost
                      /\ at' = [at EXCEPT ![d] = Idle(d, NextRequest(d, FALSE))]
        \/ /\ \E r \in again : at' = [at EXCEPT ![d] = Holding(d, r, run[r].token)]
           /\ Answered
           /\ UNCHANGED <<run, effect>>
        \/ /\ Lost
           /\ at' = [at EXCEPT ![d] = Idle(d, NextRequest(d, FALSE))]
           /\ UNCHANGED <<run, effect>>
  /\ UNCHANGED expiries

-----------------------------------------------------------------------------
(* The lease (lease.rs). Work is frozen while a heartbeat is on its way. *)
LeaseHolds(d) ==
  run[at[d].run].state = "leased" /\ run[at[d].run].token = at[d].token

\* No agent, no tool before the lease is confirmed once.
Confirm(d) ==
  /\ at[d].pc = "confirming"
  /\ \/ LeaseHolds(d) /\ Answered /\ Goto(d, "submitting")
     \/ ~LeaseHolds(d) /\ Answered /\ GiveUp(d)
     \/ Lost /\ GiveUp(d)
  /\ UNCHANGED <<run, effect, expiries>>

Working == {"submitting", "running", "delivering", "reporting"}

\* A renewal that fails, whatever the reason, ends the work: the run's stream
\* is dropped, which aborts the run, and nothing is delivered or reported.
Renew(d) ==
  /\ at[d].pc \in Working
  /\ \/ ~LeaseHolds(d) /\ Answered
     \/ Lost
  /\ GiveUp(d)
  /\ UNCHANGED <<run, effect, expiries>>

-----------------------------------------------------------------------------
(* The work (dispatcher.rs, execute). *)
\* What is done under a lease that is no longer the run's is another lease's.
Now(d) == effect[at[d].run]
Noted(d, new) ==
  IF run[at[d].run].token = at[d].token
  THEN [effect EXCEPT ![at[d].run] = new] ELSE effect

Reporting(d, status, delivery) ==
  at' = [at EXCEPT ![d].pc = "reporting", ![d].status = status,
                   ![d].delivery = delivery]

\* The instruction becomes a headless run, or is refused: the fixed model is
\* gone, the session is not admitted, it was a command.
Submit(d) ==
  /\ at[d].pc = "submitting"
  /\ \/ /\ Goto(d, "running")
        /\ effect' = Noted(d, [Now(d) EXCEPT !.started = @ + 1])
     \/ /\ \E status \in {"needs_attention", "failed"} :
             Reporting(d, status, "not_requested")
        /\ UNCHANGED effect
  /\ UNCHANGED <<run, faults, expiries>>

\* The run ends with a text, or with an error, no text or a timeout.
Collect(d) ==
  /\ at[d].pc = "running"
  /\ \/ at' = [at EXCEPT ![d].pc = "delivering", ![d].todo = Target,
                         ![d].delivery = "sent"]
     \/ Reporting(d, "succeeded", "not_requested")
     \/ Reporting(d, "succeeded", "failed")   \* the channel does not resolve
     \/ Reporting(d, "failed", "not_requested")
  /\ UNCHANGED <<run, effect, faults, expiries>>

\* Mutant: the last chat decides.
Outcome_OfLast(before, success) == IF success THEN "sent" ELSE "failed"

\* One failure among several chats fails the delivery.
Outcome(before, success) == IF success THEN before ELSE "failed"

\* Every chat is tried once, in turn; a send that fails may still have arrived.
Deliver(d) ==
  /\ at[d].pc = "delivering" /\ at[d].todo # {}
  /\ \E chat \in at[d].todo, success \in BOOLEAN, arrived \in BOOLEAN :
       /\ success => arrived
       /\ at' = [at EXCEPT ![d].todo = @ \ {chat},
                           ![d].delivery = Outcome(@, success)]
       /\ effect' = IF arrived
                    THEN Noted(d, [Now(d) EXCEPT !.reached = @ \cup {chat}])
                    ELSE effect
  /\ UNCHANGED <<run, faults, expiries>>

DeliveryEnds(d) ==
  /\ at[d].pc = "delivering" /\ at[d].todo = {}
  /\ Reporting(d, "succeeded", at[d].delivery)
  /\ UNCHANGED <<run, effect, faults, expiries>>

\* finish: three tries, whatever the reason they fail for.
Record(d) ==
  /\ LeaseHolds(d)
  /\ run' = [run EXCEPT ![at[d].run].state = "reported",
                        ![at[d].run].status = at[d].status,
                        ![at[d].run].delivery = at[d].delivery]

NextTry(d) ==
  IF at[d].tries + 1 = ReportTries THEN GiveUp(d)
  ELSE at' = [at EXCEPT ![d].tries = @ + 1]

Report(d) ==
  /\ at[d].pc = "reporting"
  /\ \/ Record(d) /\ Answered /\ GiveUp(d)
     \/ Record(d) /\ Lost /\ NextTry(d)
     \/ ~LeaseHolds(d) /\ Answered /\ NextTry(d) /\ UNCHANGED run
     \/ Lost /\ NextTry(d) /\ UNCHANGED run
  /\ UNCHANGED <<effect, expiries>>

-----------------------------------------------------------------------------
\* Shutdown is seen before everything else: nothing is reported any more.
Stop(d) ==
  /\ d \in Mortal /\ at[d].pc # "stopped"
  /\ at' = [at EXCEPT ![d] = Anew(d, at[d].request[2], "stopped", NoRun, Nobody)]
  /\ UNCHANGED <<run, effect, faults, expiries>>

Held(r) ==
  \E d \in Dispatcher : at[d].run = r /\ at[d].token = run[r].token

\* The cloud takes a run back when its lease is not renewed; while somebody
\* works on it, only if the renewals come late.
Expire(r) ==
  /\ run[r].state = "leased"
  /\ run' = [run EXCEPT ![r].state = "due"]
  /\ \/ ~Held(r) /\ UNCHANGED expiries
     \/ Held(r) /\ expiries < MaxExpiries /\ expiries' = expiries + 1
  /\ UNCHANGED <<at, effect, faults>>

Handle(d) ==
  \/ ClaimRun(d) \/ Confirm(d) \/ Renew(d) \/ Submit(d) \/ Collect(d)
  \/ Deliver(d) \/ DeliveryEnds(d) \/ Report(d)

LeasesNext ==
  \/ \E d \in Dispatcher : Handle(d) \/ Stop(d)
  \/ \E r \in Run : Expire(r)

\* Every loop goes on, timeouts end every request and run, and the cloud takes
\* back what nobody renews.
LeasesFairness ==
  /\ \A d \in Dispatcher :
       WF_leaseVars(ClaimRun(d) \/ Confirm(d) \/ Submit(d) \/ Collect(d)
               \/ Deliver(d) \/ DeliveryEnds(d) \/ Report(d))
  /\ \A r \in Run : WF_leaseVars(~Held(r) /\ Expire(r))

LeasesSpec == LeasesInit /\ [][LeasesNext]_leaseVars /\ LeasesFairness

-----------------------------------------------------------------------------
\* A lease is worked on once. Claims are repeated when their answer is lost,
\* and the id that makes the repetition harmless must be neither kept after
\* its answer nor replaced before it. No run starts unconfirmed.
OncePerLease == \A r \in Run : effect[r].started <= 1

\* What the cloud is told of a delivery is true: sent means every chat has it,
\* not requested means none has.
ReportIsTrue ==
  \A r \in Run : run[r].state = "reported" =>
    LET got == effect[r].reached
    IN /\ run[r].delivery = "sent" => got = Target
       /\ run[r].delivery = "not_requested" => got = {}

\* Once requests get through, every due run is reported: no claim, lease or
\* report that was lost leaves a run behind.
EveryRunIsReported == \A r \in Run : <>[](run[r].state = "reported")
==============================================================================
