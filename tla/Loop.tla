-------------------------------- MODULE Loop --------------------------------
(***************************************************************************)
(* The loop of module Tui with the channel between it and what feeds it    *)
(* (crates/hormos-tui/src/lib.rs): keys and replies wait in one bounded    *)
(* queue, so a key is handled in a later state than the one its user saw.  *)
(* A task that finds the channel full waits, and tokio gives places in the *)
(* order they were asked for: the messages beyond Capacity are those of    *)
(* the tasks that wait.  The keyboard thread only tries, and tries again   *)
(* (InputReader): it gets a place when the channel has one to spare.       *)
(***************************************************************************)
EXTENDS Tui

CONSTANT Capacity

ASSUME CapacityAssumption == Capacity \in Nat \ {0}
ASSUME NoneSlotAssumption == None \notin Slot

VARIABLE channel   \* the messages, the oldest first

loopVars == <<vars, channel>>

(* The keys that may call the engine. *)
Callers == {"a", "R", "i", "s", "r"}

(* A key, with a history of its own.  aim: the container that was under    *)
(* the cursor when it was typed, then where each key typed before it and   *)
(* handled since has put the cursor.  missed: while the key waited, a      *)
(* reply was handled that left its aim off the list.                       *)
Typed(k) == [key |-> k, aim |-> selected, missed |-> FALSE, slot |-> None]
Posted(s) == [key |-> None, slot |-> s]

(* The messages that still wait, once one more key or reply is handled. *)
AfterKey(messages) ==
  [i \in DOMAIN messages |->
     IF messages[i].key = None THEN messages[i]
     ELSE [messages[i] EXCEPT !.aim = selected']]
AfterReply(messages) ==
  [i \in DOMAIN messages |->
     IF messages[i].key = None THEN messages[i]
     ELSE [messages[i] EXCEPT
             !.missed = @ \/ messages[i].aim \notin VisibleIds(containers', filter')]]

----------------------------------------------------------------------------
LoopInit == Init /\ channel = <<>>

(* read_loop sends a key.  Bound: a slot is left for the call it may ask   *)
(* for, behind those of the keys that wait.                                *)
Type(k) ==
  /\ ~shouldQuit
  /\ Len(channel) < Capacity
  /\ k \in Callers =>
       Cardinality({i \in DOMAIN channel : channel[i].key \in Callers})
         < Cardinality({s \in Slot : calls[s] = Free})
  /\ channel' = Append(channel, Typed(k))
  /\ UNCHANGED vars

(* Faulty variant: a task that finds the channel full drops its message. *)
PostLossy(s) ==
  /\ Answer(s)
  /\ channel' = IF Len(channel) < Capacity THEN Append(channel, Posted(s)) ELSE channel

(* dispatch: the task of slot s gets its reply and sends it. *)
Post(s) ==
  /\ Answer(s)
  /\ channel' = Append(channel, Posted(s))

(* run: the oldest message is handled; a key may have no effect here. *)
Recv ==
  /\ ~shouldQuit
  /\ channel # <<>>
  /\ LET message == Head(channel)
     IN IF message.key = None
          THEN Deliver(message.slot) /\ channel' = AfterReply(Tail(channel))
          ELSE /\ \/ Press(message.key)
                  \/ ~ENABLED Press(message.key) /\ UNCHANGED vars
               /\ channel' = AfterKey(Tail(channel))

Drop == DropTasks /\ channel' = <<>>

Around ==
  /\ (\E command \in late : LateEffect(command)) \/ (\E id \in Container : Outside(id))
  /\ UNCHANGED channel

LoopNext ==
  \/ \E k \in Pressed : Type(k)
  \/ \E s \in Slot : Post(s)
  \/ Recv \/ Drop \/ Around

LoopSpec == LoopInit /\ [][LoopNext]_loopVars

----------------------------------------------------------------------------
(* Until the loop is left, each reply waits in the queue once: a task that *)
(* finds the channel full loses nothing, and no reply is handled twice     *)
(* (lib.rs:94-98).                                                         *)
RepliesQueued ==
  ~shouldQuit =>
    \A s \in Slot :
      Cardinality({i \in DOMAIN channel : channel[i].slot = s})
        = IF calls[s].reply # None THEN 1 ELSE 0

(* The replies that were queued before `s` or `r`, however many lists they *)
(* bring, never change what the key acts on: it acts on the container that *)
(* was under the cursor when it was typed or, if its user typed other keys *)
(* before it that still waited, on the one those keys left under the       *)
(* cursor - on the list shown when they were handled, which may not be the *)
(* one their user saw.  Only a list without that container redirects the   *)
(* key to a neighbour, as the engine gives of a container that is          *)
(* restarting (docs/tui.md:132-134, app.rs:11-12).                         *)
ActsOnAim ==
  [][\A k \in {"s", "r"}, c \in Command :
       ActAccepted(k, c) => LET key == Head(channel) IN key.missed \/ c.id = key.aim]_loopVars
=============================================================================
