-------------------------------- MODULE Tui --------------------------------
(***************************************************************************)
(* The main loop of the terminal interface (crates/hormos-tui/src/lib.rs): *)
(* it feeds `App` with keys and replies, and hands each command to a tokio *)
(* task of its own, which calls the engine and sends the reply back.       *)
(* Tasks are independent: their calls reach the engine, and their replies  *)
(* reach the loop, in any order.                                           *)
(*                                                                         *)
(* The engine is external.  It is reduced to the state of each container,  *)
(* which the calls and other clients change.  A call that fails (refused,  *)
(* unreachable, or cut by the deadline of DockerRuntime::guard) answers    *)
(* Err; the deadline only drops Hormos's side of the request, so an action *)
(* the engine had received may still take effect later (`late`).           *)
(***************************************************************************)
EXTENDS App

CONSTANTS
  Slot,      \* bound: the calls that can be in flight together
  MaxLate    \* bound: the abandoned actions the engine is still working on

ASSUME SlotAssumption == Slot # {} /\ MaxLate \in Nat
ASSUME NoneAssumption == None \notin Reply /\ None \notin Key

VARIABLES
  calls,     \* calls[s]: the task in slot s, its command and its reply
  engine,    \* engine[id]: the state of the container in the engine
  late,      \* actions Hormos gave up on and the engine has not finished
  asked      \* history: the container the open detail panel was asked for

taskVars == <<calls, engine, late>>
vars == <<appVars, taskVars, asked>>

EngineState == {"unborn", "stopped", "running", "removed"}
Free == [command |-> NoCommand, reply |-> None]
Sent(c) == [command |-> c, reply |-> None]

InFlight(kind) == {s \in Slot : calls[s].command.kind = kind}
Waiting(s) == calls[s] # Free /\ calls[s].reply = None
ActsOn(id) == {s \in InFlight("Act") : calls[s].command.id = id}

Known(id) == engine[id] \in {"stopped", "running"}
After(verb) == IF verb = "Stop" THEN "stopped" ELSE "running"

(* What the engine may answer to list_containers(all) now. *)
Snapshot(all) ==
  {list \in Listing :
     /\ {list[i].id : i \in DOMAIN list} =
          {id \in Container : engine[id] = "running" \/ (all /\ Known(id))}
     /\ \A i \in DOMAIN list :
          list[i].running = (engine[list[i].id] = "running")}

(* dispatch: a task of its own for the command, or nothing for NoCommand. *)
Dispatch(c) ==
  \/ c = NoCommand /\ UNCHANGED calls
  \/ /\ c # NoCommand
     /\ \E s \in Slot : calls[s] = Free /\ calls' = [calls EXCEPT ![s] = Sent(c)]

(* run: the first refresh is dispatched before the loop starts. *)
Init ==
  /\ AppInit
  /\ \E s \in Slot :
       calls = [t \in Slot |-> IF t = s THEN Sent(Refresh(FALSE)) ELSE Free]
  /\ engine \in [Container -> {"unborn", "stopped", "running"}]
  /\ late = {}
  /\ asked = None

----------------------------------------------------------------------------
(* One turn of the loop: update, then dispatch; it ends on shouldQuit. *)
Press(k) ==
  /\ ~shouldQuit
  /\ \E c \in Command \cup {NoCommand} :
       /\ OnKey(k, c)
       /\ Dispatch(c)
       /\ asked' = IF mode'.name # "Details" THEN None
                   ELSE IF c.kind = "Inspect" THEN c.id ELSE asked
  /\ UNCHANGED <<engine, late>>

(* Faulty variant: a failed refresh is tried again on its own. *)
DeliverRetrying(s) ==
  /\ ~shouldQuit
  /\ calls[s].reply # None
  /\ calls[s].command.kind = "Refresh"
  /\ OnContainers(calls[s].reply)
  /\ calls' = [calls EXCEPT ![s] =
                 IF calls[s].reply.ok THEN Free ELSE Sent(calls[s].command)]
  /\ UNCHANGED <<engine, late, asked>>

Deliver(s) ==
  /\ ~shouldQuit
  /\ calls[s].reply # None
  /\ LET command == calls[s].command
         reply == calls[s].reply
     IN \/ /\ command.kind = "Refresh"
           /\ OnContainers(reply)
           /\ calls' = [calls EXCEPT ![s] = Free]
        \/ /\ command.kind = "Inspect"
           /\ OnDetails(reply, command.id)
           /\ calls' = [calls EXCEPT ![s] = Free]
        \/ /\ command.kind = "Act"
           /\ \E c \in Command \cup {NoCommand} :
                /\ OnActed(reply, command.id, c)
                /\ calls' = [calls EXCEPT ![s] =
                               IF c = NoCommand THEN Free ELSE Sent(c)]
  /\ asked' = IF mode'.name # "Details" THEN None ELSE asked
  /\ UNCHANGED <<engine, late>>

(* The runtime is dropped when run returns: unfinished tasks disappear.    *)
(* An action already sent may still be carried out by the engine.          *)
DropTasks ==
  /\ shouldQuit
  /\ \E s \in Slot : calls[s] # Free
  /\ calls' = [s \in Slot |-> Free]
  /\ \E kept \in SUBSET {calls[s].command : s \in {t \in InFlight("Act") : Waiting(t)}} :
       /\ Cardinality(late \cup kept) <= MaxLate
       /\ late' = late \cup kept
  /\ UNCHANGED <<appVars, engine, asked>>

----------------------------------------------------------------------------
(* The engine carries out a call and its reply is on the way back. *)
Answered(s, reply) == calls' = [calls EXCEPT ![s].reply = reply]

EngineLists(s) ==
  /\ Waiting(s)
  /\ calls[s].command.kind = "Refresh"
  /\ \E list \in Snapshot(calls[s].command.all) : Answered(s, Listed(list))
  /\ UNCHANGED <<appVars, engine, late, asked>>

EngineInspects(s) ==
  /\ Waiting(s)
  /\ calls[s].command.kind = "Inspect"
  /\ Answered(s, IF Known(calls[s].command.id) THEN Done ELSE Failed)
  /\ UNCHANGED <<appVars, engine, late, asked>>

(* Starting a running container, or stopping a stopped one, succeeds (304). *)
EngineActs(s) ==
  /\ Waiting(s)
  /\ calls[s].command.kind = "Act"
  /\ LET command == calls[s].command
     IN IF Known(command.id)
          THEN /\ engine' = [engine EXCEPT ![command.id] = After(command.verb)]
               /\ Answered(s, Done)
          ELSE Answered(s, Failed) /\ UNCHANGED engine
  /\ UNCHANGED <<appVars, late, asked>>

CallFails(s) ==
  /\ Waiting(s)
  /\ Answered(s, Failed)
  /\ \/ UNCHANGED late
     \/ /\ calls[s].command.kind = "Act"
        /\ late' = late \cup {calls[s].command}
        /\ Cardinality(late') <= MaxLate
  /\ UNCHANGED <<appVars, engine, asked>>

(* The engine finishes, or drops, an action Hormos no longer waits for. *)
LateEffect(command) ==
  /\ command \in late
  /\ late' = late \ {command}
  /\ \/ UNCHANGED engine
     \/ /\ Known(command.id)
        /\ engine' = [engine EXCEPT ![command.id] = After(command.verb)]
  /\ UNCHANGED <<appVars, calls, asked>>

(* Another client creates, starts, stops or removes a container; the       *)
(* identifier of a removed container is never used again.                  *)
Outside(id) ==
  /\ \/ engine[id] = "unborn" /\ engine' = [engine EXCEPT ![id] = "stopped"]
     \/ /\ Known(id)
        /\ \E st \in {"stopped", "running", "removed"} \ {engine[id]} :
             engine' = [engine EXCEPT ![id] = st]
  /\ UNCHANGED <<appVars, calls, late, asked>>

Answer(s) ==
  EngineLists(s) \/ EngineInspects(s) \/ EngineActs(s) \/ CallFails(s)

Next ==
  \/ \E k \in Pressed : Press(k)
  \/ \E s \in Slot : Deliver(s) \/ Answer(s)
  \/ DropTasks
  \/ \E command \in late : LateEffect(command)
  \/ \E id \in Container : Outside(id)

Spec == Init /\ [][Next]_vars

(* Every call ends: each one runs under a deadline (docker/timeouts.rs).   *)
(* The loop takes what it receives; nothing forces the user to type, other *)
(* clients to act, or the engine to finish what nobody waits for.          *)
Fairness == \A s \in Slot : WF_vars(Answer(s)) /\ WF_vars(Deliver(s))
FairSpec == Spec /\ Fairness

----------------------------------------------------------------------------
Call == [command : Command \cup {NoCommand}, reply : Reply \cup {None}]

(* Every variable keeps its type. *)
TypeOK ==
  /\ AppTypeOK
  /\ calls \in [Slot -> Call]
  /\ engine \in [Container -> EngineState]
  /\ late \subseteq Command
  /\ asked \in Container \cup {None}

(* A container is marked busy exactly while one action on it is in flight, *)
(* and never two: the mark is what refuses the second `s` or `r`           *)
(* (app.rs:13-14), and it is cleared only by that action's own reply.      *)
BusyWhileActing ==
  ~shouldQuit =>
    /\ busy = {calls[s].command.id : s \in InFlight("Act")}
    /\ \A s, t \in InFlight("Act") :
         calls[s].command.id = calls[t].command.id => s = t

(* "chargement..." is never shown without a refresh that will remove it.   *)
LoadingHasRefresh == loading /\ ~shouldQuit => InFlight("Refresh") # {}

(* An empty detail panel always has an inspect in flight that will fill or *)
(* close it, even when it was closed and reopened while calls crossed.     *)
EmptyPanelHasInspect ==
  mode = Details(None) /\ ~shouldQuit => InFlight("Inspect") # {}

(* No traffic without the user (docs/tui.md, no polling): once keys stop,  *)
(* calls die out - a reply to an action asks for one refresh, a reply to a *)
(* refresh for nothing, not even after a failure.                          *)
QuietWhenIdle ==
  <>[][~\E k \in Pressed : Press(k)]_vars =>
    <>[](shouldQuit \/ \A s \in Slot : calls[s] = Free)

(* Every loading ends, unless the user quits. *)
LoadingEnds == loading ~> ~loading \/ shouldQuit

(* What the documentation also says, and the loop does not guarantee.      *)

(* `i` shows the detail of the container that was selected (docs/tui.md).  *)
PanelShowsAsked ==
  mode.name = "Details" /\ mode.shown # None => mode.shown = asked

(* `a` alternates "running" and "all" (docs/tui.md:25), and the header     *)
(* says which (ui.rs:67-71): once every refresh has been answered, without *)
(* a failure, "running" shows no stopped container.                        *)
ListMatchesScope ==
  InFlight("Refresh") = {} /\ ~failure /\ ~showAll =>
    \A i \in DOMAIN containers : containers[i].running

(* The promise of ActionGate, read off the busy marks and the calls. *)
GateOf ==
  [id \in Container |->
     IF id \notin busy THEN "idle"
     ELSE IF ActsOn(id) = {} THEN "lost"
     ELSE IF \E s \in ActsOn(id) : Waiting(s) THEN "working"
     ELSE "answered"]

Gate == INSTANCE ActionGate WITH closed <- shouldQuit, gate <- GateOf

(* The loop, its tasks and the engine keep that promise. *)
GateSpec == Gate!Spec
=============================================================================
