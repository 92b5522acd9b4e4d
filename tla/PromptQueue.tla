---------------------------- MODULE PromptQueue ----------------------------
(***************************************************************************)
(* The two editable lanes of queued prompts (engine, agent/queue.rs) as    *)
(* the clients of a run use them through RunControl and RunQueues (app,    *)
(* agent/run/control.rs and queue.rs).  Each operation holds one lane's    *)
(* lock, so it is one action; send_follow_up_now takes two locks and is    *)
(* two.  The engine drains the lanes, in AgentLoop.                        *)
(*                                                                         *)
(* A client edits what it has listed: view is the entry it looked at last, *)
(* with the version it will present.                                       *)
(***************************************************************************)
EXTENDS Naturals, SequencesExt

CONSTANTS
  Prompt,       (* Ids of the messages the clients may queue.               *)
  NoEntry,      (* No entry has been listed.                                *)
  MaxVersion    (* Entries past it are not edited: bounds the model.        *)

VARIABLES
  lanes,        (* RunQueues: the entries of either lane.                   *)
  moving,       (* An entry between the locks of send_follow_up_now.        *)
  view,         (* What the client has listed.                              *)
  text,         (* The text of each prompt as last accepted; 0: not queued. *)
  removed       (* Prompts that a client took back.                         *)

queueVars == <<lanes, moving, view, text, removed>>

Lane == {"steering", "follow_up"}

Entry == [id : Prompt, version : Nat, text : Nat]

QueueInit ==
  /\ lanes = [l \in Lane |-> <<>>]
  /\ moving = {}
  /\ view = NoEntry
  /\ text = [p \in Prompt |-> 0]
  /\ removed = {}

Bumped(e) == [e EXCEPT !.version = @ + 1]

(* The places of the prompt a client names, under the version it expects.  *)
Found(l, id) == {i \in DOMAIN lanes[l] : lanes[l][i].id = id}
Matches(l, e) == {i \in Found(l, e.id) : lanes[l][i].version = e.version}

-----------------------------------------------------------------------------
Enqueue(l, p) ==
  /\ text[p] = 0
  /\ text' = [text EXCEPT ![p] = 1]
  /\ lanes' = [lanes EXCEPT ![l] = Append(@, [id |-> p, version |-> 0, text |-> 1])]
  /\ UNCHANGED <<moving, view, removed>>

List(l) ==
  /\ \E i \in DOMAIN lanes[l] :
       /\ view # lanes[l][i]
       /\ view' = lanes[l][i]
  /\ UNCHANGED <<lanes, moving, text, removed>>

(* The client replaces the text it has listed by a new one.                *)
Update(l) ==
  /\ view # NoEntry /\ view.version < MaxVersion
  /\ \E i \in Matches(l, view) :
       /\ lanes' = [lanes EXCEPT ![l][i] = [Bumped(@) EXCEPT !.text = text[view.id] + 1]]
       /\ text' = [text EXCEPT ![view.id] = @ + 1]
  /\ UNCHANGED <<moving, view, removed>>

(* Without an expected version a removal takes the entry as it is.         *)
RemoveEntry(l) ==
  /\ view # NoEntry
  /\ \E i \in Found(l, view.id) :
       lanes' = [lanes EXCEPT ![l] = RemoveAt(@, i)]
  /\ removed' = removed \cup {view.id}
  /\ UNCHANGED <<moving, view, text>>

MoveBy(l, up) ==
  /\ view # NoEntry /\ view.version < MaxVersion
  /\ \E i \in Matches(l, view) :
       LET target == IF up THEN i - 1 ELSE i + 1 IN
       /\ target \in DOMAIN lanes[l]
       /\ lanes' = [lanes EXCEPT ![l][i] = Bumped(lanes[l][target]),
                                 ![l][target] = Bumped(lanes[l][i])]
  /\ UNCHANGED <<moving, view, text, removed>>

SendNowRemoves ==
  /\ view # NoEntry /\ moving = {}
  /\ \E i \in Found("follow_up", view.id) :
       /\ lanes' = [lanes EXCEPT !["follow_up"] = RemoveAt(@, i)]
       /\ moving' = {lanes["follow_up"][i]}
  /\ UNCHANGED <<view, text, removed>>

SendNowPushes ==
  /\ \E e \in moving :
       lanes' = [lanes EXCEPT !["steering"] = Append(@, Bumped(e))]
  /\ moving' = {}
  /\ UNCHANGED <<view, text, removed>>

Clear(l) ==
  /\ lanes[l] # <<>>
  /\ removed' = removed \cup {lanes[l][i].id : i \in DOMAIN lanes[l]}
  /\ lanes' = [lanes EXCEPT ![l] = <<>>]
  /\ UNCHANGED <<moving, view, text>>

Edits ==
  \/ \E l \in Lane :
       \/ List(l)
       \/ Update(l)
       \/ RemoveEntry(l)
       \/ \E up \in BOOLEAN : MoveBy(l, up)
       \/ Clear(l)
  \/ SendNowRemoves
  \/ SendNowPushes

(* drain_messages with QueueMode::OneAtATime, the mode of every agent.     *)
Drained(l) == IF lanes[l] = <<>> THEN <<>> ELSE <<Head(lanes[l])>>

(* Mutant: the entry is copied and stays in its lane.                      *)
DrainFrom_Copies(l) == l \in Lane /\ lanes' = lanes

DrainFrom(l) == lanes' = [lanes EXCEPT ![l] = IF @ = <<>> THEN @ ELSE Tail(@)]

=============================================================================
