----------------------------- MODULE TuiProofs -----------------------------
(***************************************************************************)
(* Proofs about `Tui`, for any containers, any number of calls in flight   *)
(* and any keys: types, the cursor, and the three links between what the   *)
(* interface shows (busy, loading, empty panel) and the calls in flight.   *)
(* The conjunction is inductive as it stands: each mark is set in the step *)
(* that dispatches the call, and cleared in the step that takes its reply. *)
(***************************************************************************)
EXTENDS Loop, AppProofs

LEMMA CommandKinds ==
  /\ NoCommand.kind = "None"
  /\ \A c \in Command :
       /\ c.kind \in {"Refresh", "Inspect", "Act"}
       /\ c.kind \in {"Inspect", "Act"} => c.id \in Container
  /\ \A all : Refresh(all).kind = "Refresh"
  /\ \A id : Inspect(id).kind = "Inspect" /\ Inspect(id).id = id
  /\ \A id, verb : Act(id, verb).kind = "Act" /\ Act(id, verb).id = id
BY DEF Command, NoCommand, Refresh, Inspect, Act

(* What a key may do to the marks, and the command it returns with them.   *)
LEMMA KeyMarks ==
  ASSUME NEW k, NEW c, OnKey(k, c)
  PROVE  /\ \/ c.kind = "Act" /\ c.id \notin busy /\ busy' = busy \cup {c.id}
            \/ c.kind \in {"None", "Refresh", "Inspect"} /\ busy' = busy
         /\ loading' = loading \/ c.kind = "Refresh"
         /\ mode' = Details(None) => mode = Details(None) \/ c.kind = "Inspect"
<1>1. CASE Interrupt(k, c) \/ ClosePanel(k, c) \/ Quit(k, c)
  BY <1>1, CommandKinds DEF Interrupt, ClosePanel, Quit, Browse, Details
<1>2. CASE MoveSelection(k, c) \/ Jump(k, c)
  BY <1>2, CommandKinds DEF MoveSelection, Jump
<1>3. CASE ToggleAll(k, c) \/ Reload(k, c) \/ OpenDetails(k, c)
  BY <1>3, CommandKinds DEF ToggleAll, Reload, OpenDetails
<1>4. CASE ActRefused(k, c) \/ ActAccepted(k, c)
  BY <1>4, CommandKinds DEF ActRefused, ActAccepted
<1>5. CASE OpenFilter(k, c) \/ OpenHelp(k, c)
  BY <1>5, CommandKinds DEF OpenFilter, OpenHelp, Filtering, Help, Details
<1>6. CASE CancelFilter(k, c) \/ AcceptFilter(k, c) \/ EditFilter(k, c)
  BY <1>6, CommandKinds DEF CancelFilter, AcceptFilter, EditFilter, Browse,
     Details
<1>7. QED
  BY <1>1, <1>2, <1>3, <1>4, <1>5, <1>6 DEF OnKey

----------------------------------------------------------------------------
(* The inductive invariant. *)
Marks == BusyWhileActing /\ LoadingHasRefresh /\ EmptyPanelHasInspect
TuiInv == TypeOK /\ AppInv /\ Marks

LEMMA FreeCall == Free \in Call /\ Free.command.kind = "None"
BY CommandKinds DEF Free, Call

LEMMA SentCall ==
  ASSUME NEW c \in Command
  PROVE  Sent(c) \in Call /\ Sent(c).command = c
BY DEF Sent, Call

LEMMA InitInv == Init => TuiInv
<1> SUFFICES ASSUME Init PROVE TuiInv
  OBVIOUS
<1>1. AppInv
  BY AppInitInv DEF Init
<1>2. PICK s \in Slot :
        calls = [t \in Slot |-> IF t = s THEN Sent(Refresh(FALSE)) ELSE Free]
  BY DEF Init
<1>3. Refresh(FALSE) \in Command
  <2>1. \A all \in BOOLEAN : Refresh(all) \in Command
    BY DEF Command
  <2>2. QED
    BY <2>1, Zenon
<1>4. calls \in [Slot -> Call]
  BY <1>2, <1>3, SentCall, FreeCall
<1>5. TypeOK
  BY <1>1, <1>4 DEF AppInv, TypeOK, Init, EngineState
<1>6. /\ \A t \in Slot : calls[t].command.kind \in {"Refresh", "None"}
      /\ calls[s].command.kind = "Refresh"
  BY <1>2, <1>3, SentCall, FreeCall, CommandKinds
<1>7. busy = {} /\ mode = Browse
  BY DEF Init, AppInit
<1>8. Marks
  BY <1>6, <1>7 DEF Marks, BusyWhileActing, LoadingHasRefresh,
     EmptyPanelHasInspect, InFlight, Browse, Details
<1>9. QED
  BY <1>1, <1>5, <1>8 DEF TuiInv

(* A step that keeps every command in its slot, and the interface, keeps   *)
(* the marks: the answers of the engine are such steps.                    *)
LEMMA SameCommandsSameMarks ==
  ASSUME TuiInv, UNCHANGED appVars,
         \A s \in Slot : calls'[s].command = calls[s].command
  PROVE  Marks'
<1>1. \A kind : InFlight(kind)' = InFlight(kind)
  BY DEF InFlight
<1>2. UNCHANGED <<busy, loading, mode, shouldQuit>>
  BY DEF appVars
<1>3. QED
  BY <1>1, <1>2 DEF TuiInv, Marks, BusyWhileActing, LoadingHasRefresh,
     EmptyPanelHasInspect, InFlight

LEMMA SameAppInv ==
  ASSUME AppInv, UNCHANGED appVars
  PROVE  AppInv'
BY DEF appVars, AppInv, AppTypeOK, OnVisibleRow, Rows, VisibleIds

(* An answer leaves the commands in their slots and calls well typed. *)
LEMMA AnsweredCalls ==
  ASSUME TypeOK, NEW s \in Slot, NEW reply \in Reply, Answered(s, reply)
  PROVE  /\ calls' \in [Slot -> Call]
         /\ \A t \in Slot : calls'[t].command = calls[t].command
BY DEF TypeOK, Answered, Call

LEMMA AnswerReplies ==
  ASSUME TypeOK, NEW s \in Slot, Answer(s)
  PROVE  \E reply \in Reply : Answered(s, reply)
<1>1. Failed \in Reply /\ Done \in Reply
  BY EmptyListing DEF Reply, Done
<1>2. CASE EngineLists(s)
  BY <1>2 DEF EngineLists, Snapshot, Reply
<1>3. CASE EngineInspects(s)
  BY <1>1, <1>3 DEF EngineInspects
<1>4. CASE EngineActs(s)
  BY <1>1, <1>4 DEF EngineActs
<1>5. CASE CallFails(s)
  BY <1>1, <1>5 DEF CallFails
<1>6. QED
  BY <1>2, <1>3, <1>4, <1>5 DEF Answer

LEMMA ActsAreCommands ==
  ASSUME TypeOK, NEW s \in InFlight("Act")
  PROVE  calls[s].command \in Command
BY CommandKinds DEF TypeOK, InFlight, Call

LEMMA AnswerInv ==
  ASSUME TuiInv, NEW s \in Slot, Answer(s)
  PROVE  TuiInv'
<1>1. TypeOK
  BY DEF TuiInv
<1>2. PICK reply \in Reply : Answered(s, reply)
  BY <1>1, AnswerReplies
<1>3. /\ calls' \in [Slot -> Call]
      /\ \A t \in Slot : calls'[t].command = calls[t].command
  BY <1>1, <1>2, AnsweredCalls
<1>4. UNCHANGED appVars /\ UNCHANGED asked
  BY DEF Answer, EngineLists, EngineInspects, EngineActs, CallFails
<1>5. engine' \in [Container -> EngineState]
  BY <1>1 DEF TypeOK, Answer, EngineLists, EngineInspects, EngineActs,
     CallFails, After, EngineState
<1>6. late' \subseteq Command
  <2>1. calls[s].command.kind = "Act" => calls[s].command \in Command
    BY <1>1, ActsAreCommands DEF InFlight
  <2>2. QED
    BY <1>1, <2>1 DEF TypeOK, Answer, EngineLists, EngineInspects, EngineActs,
       CallFails
<1>7. AppInv'
  BY <1>4, SameAppInv DEF TuiInv
<1>8. Marks'
  BY <1>3, <1>4, SameCommandsSameMarks
<1>9. QED
  BY <1>1, <1>3, <1>4, <1>5, <1>6, <1>7, <1>8 DEF TuiInv, TypeOK, AppInv

(* A key that returns no command leaves the calls alone; one that returns  *)
(* a command puts it in a free slot.                                       *)
LEMMA PressInv ==
  ASSUME TuiInv, NEW k \in Pressed, Press(k)
  PROVE  TuiInv'
<1>1. TypeOK /\ AppInv /\ Marks /\ ~shouldQuit
  BY DEF TuiInv, Press
<1>2. PICK c \in Command \cup {NoCommand} :
        /\ OnKey(k, c)
        /\ Dispatch(c)
        /\ asked' = IF mode'.name # "Details" THEN None
                    ELSE IF c.kind = "Inspect" THEN c.id ELSE asked
  BY DEF Press
<1>3. AppInv'
  BY <1>1, <1>2, KeyKeepsInv
<1>4. /\ \/ c.kind = "Act" /\ c.id \notin busy /\ busy' = busy \cup {c.id}
         \/ c.kind \in {"None", "Refresh", "Inspect"} /\ busy' = busy
      /\ loading' = loading \/ c.kind = "Refresh"
      /\ mode' = Details(None) => mode = Details(None) \/ c.kind = "Inspect"
  BY <1>2, KeyMarks
<1>5. asked' \in Container \cup {None}
  BY <1>1, <1>2, CommandKinds DEF TypeOK
<1>6. CASE c = NoCommand
  <2>1. UNCHANGED calls /\ busy' = busy /\ loading' = loading
    BY <1>2, <1>4, <1>6, CommandKinds DEF Dispatch
  <2>2. Marks'
    BY <1>1, <1>4, <1>6, <2>1, CommandKinds DEF Marks, BusyWhileActing,
       LoadingHasRefresh, EmptyPanelHasInspect, InFlight
  <2>3. QED
    BY <1>1, <1>3, <1>5, <2>1, <2>2 DEF TuiInv, TypeOK, AppInv, Press
<1>7. CASE c # NoCommand
  <2>1. c \in Command
    BY <1>7
  <2>2. PICK s \in Slot : calls[s] = Free /\ calls' = [calls EXCEPT ![s] = Sent(c)]
    BY <1>2, <1>7 DEF Dispatch
  <2>3. calls' \in [Slot -> Call]
    BY <1>1, <2>1, <2>2, SentCall DEF TypeOK
  <2>4. /\ calls'[s].command = c
        /\ calls[s].command.kind = "None"
        /\ \A t \in Slot \ {s} : calls'[t] = calls[t]
    BY <1>1, <2>1, <2>2, SentCall, FreeCall DEF TypeOK
  <2>5. BusyWhileActing'
    <3>1. busy = {calls[t].command.id : t \in InFlight("Act")}
      BY <1>1 DEF Marks, BusyWhileActing
    <3>2. CASE c.kind = "Act"
      <4>1. InFlight("Act")' = InFlight("Act") \cup {s} /\ s \notin InFlight("Act")
        BY <2>4, <3>2 DEF InFlight
      <4>2. \A t \in InFlight("Act") : calls'[t].command.id = calls[t].command.id
        BY <2>4, <4>1 DEF InFlight
      <4>3. busy' = busy \cup {c.id} /\ c.id \notin busy
        BY <1>4, <3>2
      <4>4. busy' = {calls'[t].command.id : t \in InFlight("Act")'}
        BY <2>4, <3>1, <4>1, <4>2, <4>3
      <4>5. \A t, u \in InFlight("Act")' :
              calls'[t].command.id = calls'[u].command.id => t = u
        BY <1>1, <2>4, <3>1, <4>1, <4>2, <4>3 DEF Marks, BusyWhileActing
      <4>6. QED
        BY <4>4, <4>5 DEF BusyWhileActing
    <3>3. CASE c.kind # "Act"
      <4>1. InFlight("Act")' = InFlight("Act") /\ s \notin InFlight("Act")
        BY <2>4, <3>3 DEF InFlight
      <4>2. \A t \in InFlight("Act") : calls'[t].command.id = calls[t].command.id
        BY <2>4, <4>1 DEF InFlight
      <4>3. busy' = busy
        BY <1>4, <3>3
      <4>4. QED
        BY <1>1, <4>1, <4>2, <4>3 DEF Marks, BusyWhileActing
    <3>4. QED
      BY <3>2, <3>3
  <2>6. LoadingHasRefresh' /\ EmptyPanelHasInspect'
    BY <1>1, <1>4, <2>4 DEF Marks, LoadingHasRefresh, EmptyPanelHasInspect,
       InFlight
  <2>7. QED
    BY <1>1, <1>3, <1>5, <2>3, <2>5, <2>6 DEF TuiInv, TypeOK, AppInv, Marks,
       Press
<1>8. QED
  BY <1>6, <1>7

----------------------------------------------------------------------------
(* The reply of a call is a reply, and its command is one that was sent.   *)
LEMMA DeliveredCall ==
  ASSUME TypeOK, NEW s \in Slot, calls[s].reply # None
  PROVE  /\ calls[s] \in Call
         /\ calls[s].reply \in Reply
         /\ calls[s].command.kind # "None" => calls[s].command \in Command
BY CommandKinds DEF TypeOK, Call

(* Taking the reply of a call that is not an action frees its slot and     *)
(* leaves the actions in flight, and their containers, as they were.       *)
LEMMA FreedSlot ==
  ASSUME TypeOK, NEW s \in Slot, calls' = [calls EXCEPT ![s] = Free]
  PROVE  /\ calls' \in [Slot -> Call]
         /\ \A kind : kind # "None" => InFlight(kind)' = InFlight(kind) \ {s}
         /\ \A t \in Slot \ {s} : calls'[t] = calls[t]
BY FreeCall DEF TypeOK, InFlight

LEMMA SameActs ==
  ASSUME BusyWhileActing, ~shouldQuit, busy' = busy,
         InFlight("Act")' = InFlight("Act"),
         \A t \in InFlight("Act") : calls'[t] = calls[t]
  PROVE  BusyWhileActing'
BY DEF BusyWhileActing

LEMMA DeliverRefresh ==
  ASSUME TuiInv, NEW s \in Slot, ~shouldQuit, calls[s].reply # None,
         calls[s].command.kind = "Refresh", OnContainers(calls[s].reply),
         calls' = [calls EXCEPT ![s] = Free]
  PROVE  calls' \in [Slot -> Call] /\ AppInv' /\ Marks'
<1>1. TypeOK /\ AppInv /\ Marks
  BY DEF TuiInv
<1>2. AppInv'
  BY <1>1, DeliveredCall, ContainersKeepInv
<1>3. /\ calls' \in [Slot -> Call]
      /\ \A kind : kind # "None" => InFlight(kind)' = InFlight(kind) \ {s}
      /\ \A t \in Slot \ {s} : calls'[t] = calls[t]
  BY <1>1, FreedSlot
<1>4. s \notin InFlight("Act") /\ s \notin InFlight("Inspect")
  BY DEF InFlight
<1>5. busy' = busy /\ mode' = mode /\ shouldQuit' = shouldQuit /\ ~loading'
  BY DEF OnContainers
<1>6. BusyWhileActing'
  BY <1>1, <1>3, <1>4, <1>5, SameActs DEF Marks
<1>7. EmptyPanelHasInspect'
  BY <1>1, <1>3, <1>4, <1>5 DEF Marks, EmptyPanelHasInspect, Details
<1>8. QED
  BY <1>2, <1>3, <1>5, <1>6, <1>7 DEF Marks, LoadingHasRefresh

LEMMA DeliverInspect ==
  ASSUME TuiInv, NEW s \in Slot, ~shouldQuit, calls[s].reply # None,
         calls[s].command.kind = "Inspect",
         OnDetails(calls[s].reply, calls[s].command.id),
         calls' = [calls EXCEPT ![s] = Free]
  PROVE  calls' \in [Slot -> Call] /\ AppInv' /\ Marks'
<1>1. TypeOK /\ AppInv /\ Marks
  BY DEF TuiInv
<1>2. calls[s].command.id \in Container /\ calls[s].reply \in Reply
  BY <1>1, DeliveredCall, CommandKinds
<1>3. AppInv'
  BY <1>1, <1>2, OtherRepliesKeepInv
<1>4. /\ calls' \in [Slot -> Call]
      /\ \A kind : kind # "None" => InFlight(kind)' = InFlight(kind) \ {s}
      /\ \A t \in Slot \ {s} : calls'[t] = calls[t]
  BY <1>1, FreedSlot
<1>5. s \notin InFlight("Act") /\ s \notin InFlight("Refresh")
  BY DEF InFlight
<1>6. busy' = busy /\ loading' = loading /\ shouldQuit' = shouldQuit
  BY DEF OnDetails
<1>7. BusyWhileActing' /\ LoadingHasRefresh'
  <2>1. BusyWhileActing'
    BY <1>1, <1>4, <1>5, <1>6, SameActs DEF Marks
  <2>2. LoadingHasRefresh'
    BY <1>1, <1>4, <1>5, <1>6 DEF Marks, LoadingHasRefresh
  <2>3. QED
    BY <2>1, <2>2
<1>8. mode' # Details(None)
  BY <1>2, ContainerAssumption DEF OnDetails, Details, Browse
<1>9. QED
  BY <1>3, <1>4, <1>7, <1>8 DEF Marks, EmptyPanelHasInspect

(* The reply of an action clears the mark of its container, the only one   *)
(* the action held, and puts a refresh in the slot it leaves.              *)
LEMMA DeliverAct ==
  ASSUME TuiInv, NEW s \in Slot, ~shouldQuit, calls[s].reply # None,
         calls[s].command.kind = "Act", NEW c \in Command \cup {NoCommand},
         OnActed(calls[s].reply, calls[s].command.id, c),
         calls' = [calls EXCEPT ![s] = IF c = NoCommand THEN Free ELSE Sent(c)]
  PROVE  calls' \in [Slot -> Call] /\ AppInv' /\ Marks'
<1> DEFINE id == calls[s].command.id
<1>1. TypeOK /\ AppInv /\ Marks
  BY DEF TuiInv
<1>2. id \in Container /\ calls[s].reply \in Reply
  BY <1>1, DeliveredCall, CommandKinds
<1>3. AppInv'
  BY <1>1, <1>2, OtherRepliesKeepInv
<1>4. c.kind = "Refresh" /\ c \in Command
  BY CommandKinds DEF OnActed
<1>5. calls' = [calls EXCEPT ![s] = Sent(c)]
  BY <1>4, CommandKinds
<1>6. calls' \in [Slot -> Call]
  BY <1>1, <1>4, <1>5, SentCall DEF TypeOK
<1>7. /\ calls'[s].command = c
      /\ \A t \in Slot \ {s} : calls'[t] = calls[t]
  BY <1>1, <1>4, <1>5, SentCall DEF TypeOK
<1>8. /\ s \in InFlight("Act")
      /\ InFlight("Act")' = InFlight("Act") \ {s}
      /\ s \in InFlight("Refresh")'
      /\ InFlight("Inspect")' = InFlight("Inspect")
  BY <1>4, <1>7 DEF InFlight
<1>9. busy' = busy \ {id} /\ mode' = mode /\ shouldQuit' = shouldQuit
  BY DEF OnActed
<1>10. BusyWhileActing'
  <2>1. /\ busy = {calls[t].command.id : t \in InFlight("Act")}
        /\ \A t, u \in InFlight("Act") :
             calls[t].command.id = calls[u].command.id => t = u
    BY <1>1 DEF Marks, BusyWhileActing
  <2>2. \A t \in InFlight("Act")' : calls'[t] = calls[t]
    BY <1>7, <1>8 DEF InFlight
  <2>3. \A t \in InFlight("Act") \ {s} : calls[t].command.id # id
    BY <1>8, <2>1
  <2>4. busy' = {calls[t].command.id : t \in InFlight("Act") \ {s}}
    BY <1>8, <1>9, <2>1, <2>3
  <2>5. busy' = {calls'[t].command.id : t \in InFlight("Act")'}
    BY <1>8, <2>2, <2>4
  <2>6. \A t, u \in InFlight("Act")' :
          calls'[t].command.id = calls'[u].command.id => t = u
    BY <1>8, <2>1, <2>2
  <2>7. QED
    BY <2>5, <2>6 DEF BusyWhileActing
<1>11. LoadingHasRefresh'
  BY <1>8 DEF LoadingHasRefresh
<1>12. EmptyPanelHasInspect'
  BY <1>1, <1>8, <1>9 DEF Marks, EmptyPanelHasInspect, Details
<1>13. QED
  BY <1>3, <1>6, <1>10, <1>11, <1>12 DEF Marks

LEMMA DeliverInv ==
  ASSUME TuiInv, NEW s \in Slot, Deliver(s)
  PROVE  TuiInv'
<1>1. ~shouldQuit /\ calls[s].reply # None
  BY DEF Deliver
<1>2. calls' \in [Slot -> Call] /\ AppInv' /\ Marks'
  BY <1>1, DeliverRefresh, DeliverInspect, DeliverAct DEF Deliver
<1>3. asked' \in Container \cup {None} /\ UNCHANGED <<engine, late>>
  BY DEF Deliver, TuiInv, TypeOK
<1>4. QED
  BY <1>2, <1>3 DEF TuiInv, TypeOK, AppInv

(* Once the user has quit no mark is looked at any more. *)
LEMMA DropTasksInv == TuiInv /\ DropTasks => TuiInv'
<1> SUFFICES ASSUME TuiInv, DropTasks PROVE TuiInv'
  OBVIOUS
<1>1. UNCHANGED appVars /\ UNCHANGED <<engine, asked>> /\ shouldQuit
  BY DEF DropTasks
<1>2. AppInv'
  BY <1>1, SameAppInv DEF TuiInv
<1>3. calls' \in [Slot -> Call]
  BY FreeCall DEF DropTasks
<1>4. late' \subseteq Command
  <2>1. {calls[s].command : s \in {t \in InFlight("Act") : Waiting(t)}}
          \subseteq Command
    BY ActsAreCommands DEF TuiInv
  <2>2. QED
    BY <2>1 DEF DropTasks, TuiInv, TypeOK
<1>5. shouldQuit'
  BY <1>1 DEF appVars
<1>6. QED
  BY <1>1, <1>2, <1>3, <1>4, <1>5 DEF TuiInv, TypeOK, AppInv, Marks,
     BusyWhileActing, LoadingHasRefresh, EmptyPanelHasInspect

(* The engine's own moves change neither the interface nor the calls. *)
LEMMA EngineMovesInv ==
  ASSUME TuiInv, UNCHANGED <<appVars, calls, asked>>,
         engine' \in [Container -> EngineState], late' \subseteq Command
  PROVE  TuiInv'
<1>1. AppInv'
  BY SameAppInv DEF TuiInv
<1>2. Marks'
  BY SameCommandsSameMarks
<1>3. QED
  BY <1>1, <1>2 DEF TuiInv, TypeOK, AppInv

LEMMA NextInv == TuiInv /\ [Next]_vars => TuiInv'
<1> SUFFICES ASSUME TuiInv, [Next]_vars PROVE TuiInv'
  OBVIOUS
<1>1. ASSUME NEW k \in Pressed, Press(k) PROVE TuiInv'
  BY <1>1, PressInv
<1>2. ASSUME NEW s \in Slot, Deliver(s) PROVE TuiInv'
  BY <1>2, DeliverInv
<1>3. ASSUME NEW s \in Slot, Answer(s) PROVE TuiInv'
  BY <1>3, AnswerInv
<1>4. CASE DropTasks
  BY <1>4, DropTasksInv
<1>5. ASSUME NEW command \in late, LateEffect(command) PROVE TuiInv'
  BY <1>5, EngineMovesInv DEF LateEffect, After, EngineState, TuiInv, TypeOK
<1>6. ASSUME NEW id \in Container, Outside(id) PROVE TuiInv'
  BY <1>6, EngineMovesInv DEF Outside, EngineState, TuiInv, TypeOK
<1>7. CASE UNCHANGED vars
  BY <1>7, EngineMovesInv DEF vars, taskVars, TuiInv, TypeOK
<1>8. QED
  BY <1>1, <1>2, <1>3, <1>4, <1>5, <1>6, <1>7 DEF Next

(* In every reachable state the types hold, the cursor is on a visible     *)
(* row, the busy marks are exactly the actions in flight, one per          *)
(* container, and neither "chargement..." nor an empty detail panel is     *)
(* shown without a call that will remove it (app.rs:372-457, lib.rs:71-122).*)
THEOREM TuiInvariant ==
  Spec => [](TypeOK /\ SelectionVisible /\ BusyWhileActing
               /\ LoadingHasRefresh /\ EmptyPanelHasInspect)
<1>1. TuiInv => TypeOK /\ SelectionVisible /\ BusyWhileActing
                  /\ LoadingHasRefresh /\ EmptyPanelHasInspect
  BY DEF TuiInv, Marks, AppInv, AppTypeOK, OnVisibleRow, SelectionVisible
<1>2. QED
  BY <1>1, InitInv, NextInv, PTL DEF Spec

(* An empty detail panel has an inspect in flight that will fill or close  *)
(* it, also when it was closed and opened again (app.rs:323-327, 393-412). *)
COROLLARY EmptyPanelsFill == Spec => []EmptyPanelHasInspect
BY TuiInvariant, PTL

----------------------------------------------------------------------------
(* The safety of ActionGate.  After `q` the marks are no longer exact, but *)
(* an action in flight still has its own container, marked busy.           *)
OneActEach ==
  \A s \in InFlight("Act") :
    /\ calls[s].command.id \in busy
    /\ \A t \in InFlight("Act") : calls[t].command.id = calls[s].command.id => s = t

LEMMA OpenOneActEach == BusyWhileActing /\ ~shouldQuit => OneActEach
BY DEF BusyWhileActing, OneActEach

(* A key that quits returns no command. *)
LEMMA KeyQuits ==
  ASSUME NEW k, NEW c, OnKey(k, c)
  PROVE  \/ shouldQuit' = shouldQuit
         \/ shouldQuit' = TRUE /\ c = NoCommand /\ busy' = busy
<1>1. CASE Interrupt(k, c) \/ Quit(k, c)
  BY <1>1 DEF Interrupt, Quit
<1>2. CASE ~(Interrupt(k, c) \/ Quit(k, c))
  BY <1>2 DEF OnKey, ClosePanel, MoveSelection, Jump, ToggleAll, Reload, OpenDetails,
     ActRefused, ActAccepted, OpenFilter, OpenHelp, CancelFilter, AcceptFilter, EditFilter
<1>3. QED
  BY <1>1, <1>2

LEMMA SameActsEach ==
  ASSUME OneActEach, busy' = busy,
         \A s \in Slot : calls'[s].command = calls[s].command
  PROVE  OneActEach'
<1>1. InFlight("Act")' = InFlight("Act")
  BY DEF InFlight
<1>2. \A s \in InFlight("Act") : s \in Slot
  BY DEF InFlight
<1>3. QED
  BY <1>1, <1>2 DEF OneActEach

LEMMA OneActEachInv ==
  ASSUME TuiInv, TuiInv', OneActEach, [Next]_vars
  PROVE  OneActEach'
<1>1. CASE ~shouldQuit'
  BY <1>1, OpenOneActEach DEF TuiInv, Marks, BusyWhileActing, OneActEach
<1>2. CASE shouldQuit'
  <2>1. ASSUME NEW k \in Pressed, Press(k) PROVE OneActEach'
    <3>1. PICK c \in Command \cup {NoCommand} : OnKey(k, c) /\ Dispatch(c) /\ ~shouldQuit
      BY <2>1 DEF Press
    <3>2. \/ shouldQuit' = shouldQuit
          \/ shouldQuit' = TRUE /\ c = NoCommand /\ busy' = busy
      BY <3>1, KeyQuits
    <3>3. c = NoCommand /\ busy' = busy
      BY <1>2, <3>1, <3>2, Zenon
    <3>4. calls' = calls
      BY <3>1, <3>3 DEF Dispatch
    <3>5. QED
      BY <3>3, <3>4, SameActsEach
  <2>2. ASSUME NEW s \in Slot, Deliver(s) PROVE OneActEach'
    BY <1>2, <2>2 DEF Deliver, OnContainers, OnDetails, OnActed
  <2>3. ASSUME NEW s \in Slot, Answer(s) PROVE OneActEach'
    <3>1. PICK reply \in Reply : Answered(s, reply)
      BY <2>3, AnswerReplies DEF TuiInv
    <3>2. \A t \in Slot : calls'[t].command = calls[t].command
      BY <3>1, AnsweredCalls DEF TuiInv
    <3>3. busy' = busy
      BY <2>3 DEF Answer, EngineLists, EngineInspects, EngineActs, CallFails, appVars
    <3>4. QED
      BY <3>2, <3>3, SameActsEach
  <2>4. CASE DropTasks
    <3>1. InFlight("Act")' = {}
      BY <2>4, FreeCall DEF DropTasks, InFlight
    <3>2. QED
      BY <3>1 DEF OneActEach
  <2>5. CASE UNCHANGED <<busy, calls>>
    BY <2>5, SameActsEach
  <2>6. QED
    BY <2>1, <2>2, <2>3, <2>4, <2>5
       DEF Next, LateEffect, Outside, vars, taskVars, appVars
<1>3. QED
  BY <1>1, <1>2

(* A gate stays as it is when its mark, its actions and their replies do. *)
LEMMA SameGate ==
  ASSUME NEW id \in Container, id \in busy' <=> id \in busy,
         \A t \in Slot : /\ t \in ActsOn(id)' <=> t \in ActsOn(id)
                         /\ t \in ActsOn(id) => calls'[t] = calls[t]
  PROVE  GateOf'[id] = GateOf[id]
<1>1. ActsOn(id) \subseteq Slot /\ ActsOn(id)' \subseteq Slot
  BY DEF ActsOn, InFlight
<1>2. ActsOn(id)' = ActsOn(id)
  BY <1>1
<1>3. \A t \in ActsOn(id) : Waiting(t)' <=> Waiting(t)
  BY <1>1 DEF Waiting
<1>4. QED
  BY <1>2, <1>3 DEF GateOf

(* The gate of one container moves, the others stay. *)
LEMMA OneGateMoves ==
  ASSUME NEW id \in Container, NEW from, NEW to,
         GateOf[id] = from, GateOf'[id] = to,
         \A other \in Container \ {id} : GateOf'[other] = GateOf[other],
         shouldQuit' = shouldQuit
  PROVE  Gate!Move(id, from, to)
<1>1. GateOf' = [GateOf EXCEPT ![id] = to]
  BY DEF GateOf
<1>2. QED
  BY <1>1 DEF Gate!Move

LEMMA NoGateMoves ==
  ASSUME \A id \in Container : GateOf'[id] = GateOf[id]
  PROVE  GateOf' = GateOf
BY DEF GateOf

GateStep == [Gate!Next]_(Gate!vars)

LEMMA PressGate ==
  ASSUME TuiInv, NEW k \in Pressed, Press(k)
  PROVE  GateStep
<1>1. TypeOK /\ ~shouldQuit
  BY DEF TuiInv, Press
<1>2. PICK c \in Command \cup {NoCommand} : OnKey(k, c) /\ Dispatch(c)
  BY DEF Press
<1>3. \/ c.kind = "Act" /\ c.id \notin busy /\ busy' = busy \cup {c.id}
      \/ c.kind \in {"None", "Refresh", "Inspect"} /\ busy' = busy
  BY <1>2, KeyMarks
<1>4. CASE c = NoCommand
  <2>1. calls' = calls /\ busy' = busy
    BY <1>2, <1>3, <1>4, CommandKinds DEF Dispatch
  <2>2. \A id \in Container : ActsOn(id)' = ActsOn(id)
    BY <2>1 DEF ActsOn, InFlight
  <2>3. GateOf' = GateOf
    BY <2>1, <2>2, SameGate, NoGateMoves
  <2>4. shouldQuit' = shouldQuit \/ shouldQuit' = TRUE
    BY <1>1, <1>2, KeyQuits
  <2>5. QED
    BY <1>1, <2>3, <2>4 DEF GateStep, Gate!Next, Gate!Close, Gate!vars
<1>5. CASE c # NoCommand
  <2>1. PICK s \in Slot : calls[s] = Free /\ calls' = [calls EXCEPT ![s] = Sent(c)]
    BY <1>2, <1>5 DEF Dispatch
  <2>2. /\ c \in Command
        /\ calls'[s].command = c /\ calls'[s].reply = None
        /\ calls[s].command.kind = "None"
        /\ \A t \in Slot \ {s} : calls'[t] = calls[t]
    BY <1>1, <1>5, <2>1, FreeCall DEF TypeOK, Sent
  <2>3. shouldQuit' = shouldQuit
    <3>1. \/ shouldQuit' = shouldQuit
          \/ shouldQuit' = TRUE /\ c = NoCommand /\ busy' = busy
      BY <1>2, KeyQuits
    <3>2. QED
      BY <1>5, <3>1, Zenon
  <2>4. ASSUME NEW id \in Container, c.kind # "Act" \/ id # c.id
        PROVE  GateOf'[id] = GateOf[id]
    <3>1. id \in busy' <=> id \in busy
      BY <1>3, <2>4
    <3>2. \A t \in Slot : /\ t \in ActsOn(id)' <=> t \in ActsOn(id)
                          /\ t \in ActsOn(id) => calls'[t] = calls[t]
      BY <2>2, <2>4 DEF ActsOn, InFlight
    <3>3. QED
      BY <3>1, <3>2, SameGate
  <2>5. CASE c.kind # "Act"
    BY <2>3, <2>4, <2>5, NoGateMoves DEF GateStep, Gate!vars
  <2>6. CASE c.kind = "Act"
    <3>1. c.id \in Container /\ c.id \notin busy /\ c.id \in busy'
      BY <1>3, <2>2, <2>6, CommandKinds
    <3>2. GateOf[c.id] = "idle"
      BY <3>1 DEF GateOf
    <3>3. s \in ActsOn(c.id)' /\ Waiting(s)'
      <4>1. Waiting(s)' <=> calls'[s] # Free /\ calls'[s].reply = None
        BY DEF Waiting
      <4>2. calls'[s] # Free
        BY <2>2, <2>6, FreeCall
      <4>3. QED
        BY <2>2, <2>6, <4>1, <4>2 DEF ActsOn, InFlight
    <3>4. GateOf'[c.id] = "working"
      BY <3>1, <3>3 DEF GateOf
    <3>5. Gate!Move(c.id, "idle", "working")
      BY <2>3, <2>4, <3>1, <3>2, <3>4, OneGateMoves
    <3>6. QED
      BY <1>1, <3>1, <3>5 DEF GateStep, Gate!Next, Gate!Request
  <2>7. QED
    BY <2>5, <2>6
<1>6. QED
  BY <1>4, <1>5

LEMMA DeliverGate ==
  ASSUME TuiInv, OneActEach, NEW s \in Slot, Deliver(s)
  PROVE  GateStep
<1> DEFINE command == calls[s].command
<1>1. TypeOK /\ ~shouldQuit /\ calls[s].reply # None
  BY DEF TuiInv, Deliver
<1>2. \A t \in Slot \ {s} : calls'[t] = calls[t]
  BY <1>1 DEF Deliver, TypeOK
<1>3. calls'[s].command.kind # "Act"
  BY <1>1, FreeCall, CommandKinds DEF Deliver, OnActed, TypeOK, Sent
<1>4. shouldQuit' = shouldQuit
  BY DEF Deliver, OnContainers, OnDetails, OnActed
<1>5. ASSUME NEW id \in Container, command.kind # "Act" \/ id # command.id,
             id \in busy' <=> id \in busy
      PROVE  GateOf'[id] = GateOf[id]
  <2>1. \A t \in Slot : /\ t \in ActsOn(id)' <=> t \in ActsOn(id)
                        /\ t \in ActsOn(id) => calls'[t] = calls[t]
    BY <1>2, <1>3, <1>5 DEF ActsOn, InFlight
  <2>2. QED
    BY <1>5, <2>1, SameGate
<1>6. CASE command.kind # "Act"
  <2>1. busy' = busy
    BY <1>6 DEF Deliver, OnContainers, OnDetails
  <2>2. QED
    BY <1>4, <1>5, <1>6, <2>1, NoGateMoves DEF GateStep, Gate!vars
<1>7. CASE command.kind = "Act"
  <2>1. busy' = busy \ {command.id}
    BY <1>7 DEF Deliver, OnActed
  <2>2. s \in InFlight("Act") /\ s \in ActsOn(command.id)
    BY <1>7 DEF InFlight, ActsOn
  <2>3. command.id \in busy /\ command.id \in Container
    BY <1>1, <2>2 DEF OneActEach, TypeOK, AppTypeOK
  <2>4. ActsOn(command.id) = {s}
    BY <2>2 DEF OneActEach, ActsOn
  <2>5. GateOf[command.id] = "answered"
    BY <1>1, <2>3, <2>4 DEF GateOf, Waiting
  <2>6. GateOf'[command.id] = "idle"
    BY <2>1, <2>3 DEF GateOf
  <2>7. \A other \in Container \ {command.id} : GateOf'[other] = GateOf[other]
    BY <1>5, <2>1
  <2>8. Gate!Move(command.id, "answered", "idle")
    BY <1>4, <2>3, <2>5, <2>6, <2>7, OneGateMoves
  <2>9. QED
    BY <1>1, <2>3, <2>8 DEF GateStep, Gate!Next, Gate!Report
<1>8. QED
  BY <1>6, <1>7

LEMMA AnswerGate ==
  ASSUME TuiInv, OneActEach, NEW s \in Slot, Answer(s)
  PROVE  GateStep
<1> DEFINE command == calls[s].command
<1>1. TypeOK /\ Waiting(s)
  BY DEF TuiInv, Answer, EngineLists, EngineInspects, EngineActs, CallFails
<1>2. PICK reply \in Reply : Answered(s, reply)
  BY <1>1, AnswerReplies
<1>3. /\ \A t \in Slot : calls'[t].command = calls[t].command
      /\ \A t \in Slot \ {s} : calls'[t] = calls[t]
      /\ calls'[s].reply = reply
  BY <1>1, <1>2 DEF Answered, TypeOK, Call
<1>4. UNCHANGED <<busy, shouldQuit>>
  BY DEF Answer, EngineLists, EngineInspects, EngineActs, CallFails, appVars
<1>5. \A id : ActsOn(id)' = ActsOn(id)
  BY <1>3 DEF ActsOn, InFlight
<1>6. ASSUME NEW id \in Container, command.kind # "Act" \/ id # command.id
      PROVE  GateOf'[id] = GateOf[id]
  <2>1. \A t \in Slot : t \in ActsOn(id) => calls'[t] = calls[t]
    BY <1>3, <1>6 DEF ActsOn, InFlight
  <2>2. QED
    BY <1>4, <1>5, <2>1, SameGate
<1>7. CASE command.kind # "Act"
  BY <1>4, <1>6, <1>7, NoGateMoves DEF GateStep, Gate!vars
<1>8. CASE command.kind = "Act"
  <2>1. s \in InFlight("Act") /\ s \in ActsOn(command.id)
    BY <1>8 DEF InFlight, ActsOn
  <2>2. command.id \in busy /\ command.id \in Container
    BY <1>1, <2>1 DEF OneActEach, TypeOK, AppTypeOK
  <2>3. ActsOn(command.id) = {s}
    BY <2>1 DEF OneActEach, ActsOn
  <2>4. GateOf[command.id] = "working"
    BY <1>1, <2>2, <2>3 DEF GateOf
  <2>5. ~Waiting(s)'
    <3>1. reply # None
      BY NoneAssumption
    <3>2. QED
      BY <1>3, <3>1 DEF Waiting
  <2>6. GateOf'[command.id] = "answered"
    BY <1>4, <1>5, <2>2, <2>3, <2>5 DEF GateOf
  <2>7. Gate!Move(command.id, "working", "answered")
    BY <1>4, <1>6, <2>2, <2>4, <2>6, OneGateMoves
  <2>8. QED
    BY <2>2, <2>7 DEF GateStep, Gate!Next, Gate!Finish
<1>9. QED
  BY <1>7, <1>8

LEMMA DropTasksGate ==
  ASSUME DropTasks
  PROVE  GateStep
<1>1. shouldQuit /\ UNCHANGED <<busy, shouldQuit>>
  BY DEF DropTasks, appVars
<1>2. \A id : ActsOn(id)' = {}
  BY FreeCall DEF DropTasks, ActsOn, InFlight
<1>3. GateOf' = [id \in Container |-> IF GateOf[id] = "idle" THEN "idle" ELSE "lost"]
  BY <1>1, <1>2 DEF GateOf
<1>4. QED
  BY <1>1, <1>3 DEF GateStep, Gate!Next, Gate!Abandon

(* Whatever the containers, the calls in flight and the keys: a container  *)
(* takes one action at a time, whose result is reported before the next.   *)
THEOREM GateSafety == Spec => Gate!Safety
<1>1. Init => Gate!Init
  BY DEF Init, AppInit, GateOf, Gate!Init
<1>2. Init => TuiInv /\ OneActEach
  BY InitInv, OpenOneActEach DEF TuiInv, Marks, Init, AppInit
<1>3. TuiInv /\ OneActEach /\ [Next]_vars => (TuiInv /\ OneActEach)'
  BY NextInv, OneActEachInv
<1>4. TuiInv /\ OneActEach /\ [Next]_vars => GateStep
  <2> SUFFICES ASSUME TuiInv, OneActEach, [Next]_vars PROVE GateStep
    OBVIOUS
  <2>1. CASE UNCHANGED <<appVars, calls>>
    <3>1. UNCHANGED <<busy, shouldQuit, calls>>
      BY <2>1 DEF appVars
    <3>2. \A id \in Container : ActsOn(id)' = ActsOn(id)
      BY <3>1 DEF ActsOn, InFlight
    <3>3. GateOf' = GateOf
      BY <3>1, <3>2, SameGate, NoGateMoves
    <3>4. QED
      BY <3>1, <3>3 DEF GateStep, Gate!vars
  <2>2. QED
    BY <2>1, PressGate, DeliverGate, AnswerGate, DropTasksGate
       DEF Next, LateEffect, Outside, vars, taskVars
<1>5. QED
  BY <1>1, <1>2, <1>3, <1>4, PTL DEF Spec, Gate!Safety, GateStep

----------------------------------------------------------------------------
(* The loop with its channel.  A message is a key or the place of a reply. *)
KeyMessage ==
  [key : Pressed, aim : Container \cup {None}, missed : BOOLEAN, slot : {None}]
ReplyMessage == [key : {None}, slot : Slot]
LoopMessage == KeyMessage \cup ReplyMessage

LoopInv == TuiInv /\ channel \in Seq(LoopMessage)

LEMMA KeyOrReply ==
  ASSUME NEW m \in LoopMessage
  PROVE  IF m.key = None THEN m \in ReplyMessage /\ m.slot \in Slot
         ELSE m \in KeyMessage /\ m.key \in Pressed
BY PressedAssumption, NoneAssumption DEF LoopMessage, KeyMessage, ReplyMessage

(* What becomes of one waiting message when a key, or a reply, is handled. *)
Follow(m) == IF m.key = None THEN m ELSE [m EXCEPT !.aim = selected']
Overtake(m) ==
  IF m.key = None THEN m
  ELSE [m EXCEPT !.missed = @ \/ m.aim \notin VisibleIds(containers', filter')]

LEMMA FollowMessage ==
  ASSUME NEW m \in LoopMessage, selected' \in Container \cup {None}
  PROVE  /\ Follow(m) \in LoopMessage
         /\ Follow(m).key = m.key /\ Follow(m).slot = m.slot
         /\ m.key # None => Follow(m).aim = selected'
<1>1. CASE m.key = None
  BY <1>1 DEF Follow
<1>2. CASE m.key # None
  <2>1. m \in KeyMessage
    BY <1>2, KeyOrReply
  <2>2. Follow(m) = [m EXCEPT !.aim = selected']
    BY <1>2 DEF Follow
  <2>3. /\ Follow(m) \in KeyMessage
        /\ Follow(m).key = m.key /\ Follow(m).slot = m.slot
        /\ Follow(m).aim = selected'
    BY <2>1, <2>2 DEF KeyMessage
  <2>4. QED
    BY <2>3 DEF LoopMessage
<1>3. QED
  BY <1>1, <1>2

LEMMA OvertakeMessage ==
  ASSUME NEW m \in LoopMessage
  PROVE  /\ Overtake(m) \in LoopMessage
         /\ Overtake(m).key = m.key /\ Overtake(m).slot = m.slot
         /\ m.key # None =>
              /\ Overtake(m).aim = m.aim
              /\ Overtake(m).missed
                   <=> m.missed \/ m.aim \notin VisibleIds(containers', filter')
<1>1. CASE m.key = None
  BY <1>1 DEF Overtake
<1>2. CASE m.key # None
  <2> DEFINE gone == m.aim \notin VisibleIds(containers', filter')
  <2>1. m \in KeyMessage
    BY <1>2, KeyOrReply
  <2>2. Overtake(m) = [m EXCEPT !.missed = m.missed \/ gone]
    BY <1>2 DEF Overtake
  <2>3. (m.missed \/ gone) \in BOOLEAN
    BY <2>1 DEF KeyMessage
  <2> HIDE DEF gone
  <2>4. /\ Overtake(m) \in KeyMessage
        /\ Overtake(m).key = m.key /\ Overtake(m).slot = m.slot
        /\ Overtake(m).aim = m.aim
        /\ Overtake(m).missed = (m.missed \/ gone)
    BY <2>1, <2>2, <2>3 DEF KeyMessage
  <2>5. QED
    BY <2>4 DEF LoopMessage, gone
<1>3. QED
  BY <1>1, <1>2

(* When the oldest message is taken, the others move up by one place. *)
LEMMA MovedUp ==
  ASSUME channel \in Seq(LoopMessage), channel # <<>>,
         \/ channel' = AfterKey(Tail(channel))
         \/ channel' = AfterReply(Tail(channel)),
         selected' \in Container \cup {None}
  PROVE  /\ channel' \in Seq(LoopMessage)
         /\ DOMAIN channel = 1..Len(channel) /\ Len(channel) \in Nat \ {0}
         /\ DOMAIN channel' = 1..(Len(channel) - 1)
         /\ \A i \in DOMAIN channel' :
              /\ i + 1 \in DOMAIN channel /\ channel[i + 1] \in LoopMessage
              /\ channel'[i].key = channel[i + 1].key
              /\ channel'[i].slot = channel[i + 1].slot
              /\ channel' = AfterKey(Tail(channel)) => channel'[i] = Follow(channel[i + 1])
              /\ channel' = AfterReply(Tail(channel)) => channel'[i] = Overtake(channel[i + 1])
<1> DEFINE rest == Tail(channel)
           n == Len(channel) - 1
<1>1. /\ rest \in Seq(LoopMessage) /\ n \in Nat /\ Len(channel) = n + 1
      /\ DOMAIN channel = 1..Len(channel) /\ DOMAIN rest = 1..n
      /\ \A i \in 1..n : /\ rest[i] = channel[i + 1] /\ i + 1 \in DOMAIN channel
                        /\ rest[i] \in LoopMessage
  OBVIOUS
<1>2. /\ AfterKey(rest) = [i \in 1..n |-> Follow(rest[i])]
      /\ AfterReply(rest) = [i \in 1..n |-> Overtake(rest[i])]
  BY <1>1 DEF AfterKey, AfterReply, Follow, Overtake
<1>3. \A i \in 1..n :
        /\ Follow(rest[i]) \in LoopMessage /\ Overtake(rest[i]) \in LoopMessage
        /\ Follow(rest[i]).key = rest[i].key /\ Follow(rest[i]).slot = rest[i].slot
        /\ Overtake(rest[i]).key = rest[i].key /\ Overtake(rest[i]).slot = rest[i].slot
  BY <1>1, FollowMessage, OvertakeMessage
<1> HIDE DEF rest, n
<1>4. CASE channel' = AfterKey(rest)
  <2>1. channel' = [i \in 1..n |-> Follow(rest[i])]
    BY <1>2, <1>4
  <2>2. /\ channel' \in Seq(LoopMessage) /\ DOMAIN channel' = 1..n
        /\ \A i \in 1..n : /\ channel'[i] = Follow(rest[i])
                          /\ channel'[i].key = rest[i].key /\ channel'[i].slot = rest[i].slot
    BY <1>1, <1>3, <2>1
  <2>3. channel' = AfterReply(rest) => \A i \in 1..n : channel'[i] = Overtake(rest[i])
    BY <1>2
  <2>4. QED
    BY <1>1, <2>2, <2>3 DEF rest, n
<1>5. CASE channel' = AfterReply(rest)
  <2>1. channel' = [i \in 1..n |-> Overtake(rest[i])]
    BY <1>2, <1>5
  <2>2. /\ channel' \in Seq(LoopMessage) /\ DOMAIN channel' = 1..n
        /\ \A i \in 1..n : /\ channel'[i] = Overtake(rest[i])
                          /\ channel'[i].key = rest[i].key /\ channel'[i].slot = rest[i].slot
    BY <1>1, <1>3, <2>1
  <2>3. channel' = AfterKey(rest) => \A i \in 1..n : channel'[i] = Follow(rest[i])
    BY <1>2
  <2>4. QED
    BY <1>1, <2>2, <2>3 DEF rest, n
<1>6. QED
  BY <1>4, <1>5 DEF rest

(* Every step of the loop with its channel is one of the loop of Tui, or   *)
(* leaves it alone: what is proved of Tui holds with the channel.          *)
LEMMA LoopMoves ==
  ASSUME LoopInv, [LoopNext]_loopVars
  PROVE  [Next]_vars
<1>1. CASE Recv
  <2>1. Head(channel) \in LoopMessage
    BY <1>1 DEF Recv, LoopInv
  <2>2. CASE Head(channel).key = None
    BY <1>1, <2>1, <2>2, KeyOrReply DEF Recv, Next
  <2>3. CASE Head(channel).key # None
    <3>1. Press(Head(channel).key) \/ UNCHANGED vars
      BY <1>1, <2>3 DEF Recv
    <3>2. QED
      BY <2>1, <2>3, <3>1, KeyOrReply DEF Next
  <2>4. QED
    BY <2>2, <2>3
<1>2. QED
  BY <1>1 DEF LoopNext, Type, Post, Drop, Around, Next, loopVars

LEMMA LoopStep ==
  ASSUME LoopInv, [LoopNext]_loopVars
  PROVE  LoopInv'
<1>1. channel \in Seq(LoopMessage) /\ TuiInv'
  BY LoopMoves, NextInv DEF LoopInv
<1>2. ASSUME NEW k \in Pressed, Type(k)
      PROVE  channel' \in Seq(LoopMessage)
  <2>1. Typed(k) \in LoopMessage
    BY DEF Typed, LoopMessage, KeyMessage, LoopInv, TuiInv, TypeOK, AppTypeOK
  <2>2. QED
    BY <1>1, <1>2, <2>1 DEF Type
<1>3. ASSUME NEW s \in Slot, Post(s)
      PROVE  channel' \in Seq(LoopMessage)
  <2>1. Posted(s) \in LoopMessage
    BY DEF Posted, LoopMessage, ReplyMessage
  <2>2. QED
    BY <1>1, <1>3, <2>1 DEF Post
<1>4. ASSUME Recv PROVE channel' \in Seq(LoopMessage)
  <2>1. selected' \in Container \cup {None}
    BY <1>1 DEF TuiInv, TypeOK, AppTypeOK
  <2>2. QED
    BY <1>1, <1>4, <2>1, MovedUp DEF Recv
<1>5. Drop \/ Around \/ UNCHANGED loopVars => channel' \in Seq(LoopMessage)
  <2>1. <<>> \in Seq(LoopMessage)
    OBVIOUS
  <2>2. Drop \/ Around \/ UNCHANGED loopVars => channel' = <<>> \/ channel' = channel
    BY DEF Drop, Around, loopVars
  <2>3. QED
    BY <1>1, <2>1, <2>2
<1>6. channel' \in Seq(LoopMessage)
  BY <1>2, <1>3, <1>4, <1>5 DEF LoopNext
<1>7. QED
  BY <1>1, <1>6 DEF LoopInv

LEMMA LoopInitInv == LoopInit => LoopInv
BY InitInv DEF LoopInit, LoopInv

LEMMA LoopNextInv == LoopInv /\ [LoopNext]_loopVars => LoopInv'
BY LoopStep

----------------------------------------------------------------------------
(* The queue holds each reply once: what RepliesQueued counts, said of the *)
(* places in the queue.                                                    *)
QueueInv ==
  ~shouldQuit =>
    /\ \A i \in DOMAIN channel :
         channel[i].slot # None => calls[channel[i].slot].reply # None
    /\ \A i, j \in DOMAIN channel :
         channel[i].slot # None /\ channel[i].slot = channel[j].slot => i = j
    /\ \A s \in Slot :
         calls[s].reply # None => \E i \in DOMAIN channel : channel[i].slot = s

LEMMA MessageSlot ==
  ASSUME NEW m \in LoopMessage
  PROVE  /\ m.slot \in Slot \cup {None}
         /\ m.key = None <=> m.slot # None
BY KeyOrReply, NoneSlotAssumption, PressedAssumption, NoneAssumption
   DEF KeyMessage, ReplyMessage

(* One more message at the end of the queue. *)
LEMMA AppendedMessage ==
  ASSUME channel \in Seq(LoopMessage), NEW m \in LoopMessage,
         channel' = Append(channel, m)
  PROVE  /\ Len(channel) \in Nat
         /\ DOMAIN channel = 1..Len(channel)
         /\ DOMAIN channel' = DOMAIN channel \cup {Len(channel) + 1}
         /\ \A i \in DOMAIN channel :
              i # Len(channel) + 1 /\ channel'[i] = channel[i]
         /\ channel'[Len(channel) + 1] = m
OBVIOUS

(* Steps that move no message and no reply. *)
LEMMA SameQueue ==
  ASSUME QueueInv, UNCHANGED <<channel, shouldQuit>>,
         \A s \in Slot \cup {None} : calls'[s].reply = calls[s].reply,
         channel \in Seq(LoopMessage)
  PROVE  QueueInv'
<1>1. \A i \in DOMAIN channel : channel[i].slot \in Slot \cup {None}
  BY MessageSlot
<1>2. QED
  BY <1>1 DEF QueueInv

LEMMA TypeQueue ==
  ASSUME LoopInv, QueueInv, NEW k \in Pressed, Type(k)
  PROVE  QueueInv'
<1>1. Typed(k) \in LoopMessage
  BY DEF Typed, LoopMessage, KeyMessage, LoopInv, TuiInv, TypeOK, AppTypeOK
<1>2. channel' = Append(channel, Typed(k)) /\ Typed(k).slot = None
  BY DEF Type, Typed
<1>3. UNCHANGED <<calls, shouldQuit>>
  BY DEF Type, vars, appVars, taskVars
<1>4. QED
  BY <1>1, <1>2, <1>3, AppendedMessage DEF LoopInv, QueueInv

LEMMA PostQueue ==
  ASSUME LoopInv, QueueInv, NEW s \in Slot, Post(s)
  PROVE  QueueInv'
<1>1. TypeOK /\ channel \in Seq(LoopMessage)
  BY DEF LoopInv, TuiInv
<1>2. Posted(s) \in LoopMessage /\ Posted(s).slot = s
  BY DEF Posted, LoopMessage, ReplyMessage
<1>3. Answer(s) /\ channel' = Append(channel, Posted(s))
  BY DEF Post
<1>4. PICK reply \in Reply : Answered(s, reply)
  BY <1>1, <1>3, AnswerReplies
<1>5. calls[s].reply = None /\ UNCHANGED shouldQuit
  BY <1>3 DEF Answer, EngineLists, EngineInspects, EngineActs, CallFails,
     Waiting, appVars
<1>6. /\ calls'[s].reply # None
      /\ \A t \in Slot \ {s} : calls'[t] = calls[t]
  BY <1>1, <1>4, NoneAssumption DEF Answered, TypeOK, Call
<1>7. ~shouldQuit => \A i \in DOMAIN channel : channel[i].slot # s
  BY <1>5, NoneSlotAssumption DEF QueueInv
<1>8. \A i \in DOMAIN channel : channel[i].slot \in Slot \cup {None}
  BY <1>1, MessageSlot
<1>9. QED
  BY <1>1, <1>2, <1>3, <1>5, <1>6, <1>7, <1>8, AppendedMessage, NoneSlotAssumption
     DEF QueueInv

(* The oldest message is taken: what it held of slot s is settled. *)
LEMMA TakenQueue ==
  ASSUME QueueInv, ~shouldQuit, channel \in Seq(LoopMessage), channel # <<>>,
         \/ channel' = AfterKey(Tail(channel))
         \/ channel' = AfterReply(Tail(channel)),
         selected' \in Container \cup {None},
         \A s \in Slot : IF s = Head(channel).slot THEN calls'[s].reply = None
                         ELSE calls'[s].reply = calls[s].reply
  PROVE  QueueInv'
<1>1. /\ DOMAIN channel = 1..Len(channel) /\ Len(channel) \in Nat \ {0}
      /\ DOMAIN channel' = 1..(Len(channel) - 1)
      /\ \A i \in DOMAIN channel' :
           i + 1 \in DOMAIN channel /\ channel'[i].slot = channel[i + 1].slot
  BY MovedUp
<1>2. Head(channel) = channel[1] /\ 1 \in DOMAIN channel
  BY <1>1
<1>3. \A i \in DOMAIN channel : channel[i].slot \in Slot \cup {None}
  BY MessageSlot
<1>4. ASSUME NEW i \in DOMAIN channel', channel'[i].slot # None
      PROVE  calls'[channel'[i].slot].reply # None
  <2>1. channel[i + 1].slot # channel[1].slot
    BY <1>1, <1>2, <1>4 DEF QueueInv
  <2>2. QED
    BY <1>1, <1>2, <1>3, <1>4, <2>1 DEF QueueInv
<1>5. ASSUME NEW i \in DOMAIN channel', NEW j \in DOMAIN channel',
             channel'[i].slot # None, channel'[i].slot = channel'[j].slot
      PROVE  i = j
  <2>1. i + 1 = j + 1
    BY <1>1, <1>5 DEF QueueInv
  <2>2. QED
    BY <1>1, <2>1
<1>6. ASSUME NEW s \in Slot, calls'[s].reply # None
      PROVE  \E i \in DOMAIN channel' : channel'[i].slot = s
  <2>1. PICK i \in DOMAIN channel : channel[i].slot = s
    BY <1>6 DEF QueueInv
  <2>2. i # 1
    BY <1>2, <1>6, <2>1
  <2>3. i - 1 \in DOMAIN channel' /\ channel'[i - 1].slot = channel[(i - 1) + 1].slot
    BY <1>1, <2>2
  <2>4. (i - 1) + 1 = i
    BY <1>1
  <2>5. QED
    BY <2>1, <2>3, <2>4
<1>7. QED
  BY <1>4, <1>5, <1>6 DEF QueueInv

(* What handling a message does to the replies. *)
LEMMA PressReplies ==
  ASSUME TypeOK, NEW k, Press(k)
  PROVE  \A s \in Slot : calls'[s].reply = calls[s].reply
<1>1. PICK c \in Command \cup {NoCommand} : Dispatch(c)
  BY DEF Press
<1>2. QED
  BY <1>1 DEF Dispatch, TypeOK, Sent, Free

LEMMA DeliverReplies ==
  ASSUME TypeOK, NEW s \in Slot, Deliver(s)
  PROVE  /\ calls'[s].reply = None
         /\ \A t \in Slot \ {s} : calls'[t].reply = calls[t].reply
<1>1. \E call : calls' = [calls EXCEPT ![s] = call] /\ call.reply = None
  <2>1. Free.reply = None /\ \A c : Sent(c).reply = None
    BY DEF Free, Sent
  <2>2. ASSUME NEW c, calls' = [calls EXCEPT ![s] = IF c = NoCommand THEN Free ELSE Sent(c)]
        PROVE  \E call : calls' = [calls EXCEPT ![s] = call] /\ call.reply = None
    <3> WITNESS IF c = NoCommand THEN Free ELSE Sent(c)
    <3> QED
      BY <2>1, <2>2
  <2>3. CASE calls' = [calls EXCEPT ![s] = Free]
    BY <2>1, <2>3
  <2>4. QED
    BY <2>2, <2>3 DEF Deliver
<1>2. QED
  BY <1>1 DEF TypeOK

LEMMA RecvQueue ==
  ASSUME LoopInv, QueueInv, Recv, LoopInv'
  PROVE  QueueInv'
<1>1. /\ TypeOK /\ channel \in Seq(LoopMessage) /\ channel # <<>> /\ ~shouldQuit
      /\ \/ channel' = AfterKey(Tail(channel))
         \/ channel' = AfterReply(Tail(channel))
      /\ selected' \in Container \cup {None}
  BY DEF LoopInv, TuiInv, TypeOK, AppTypeOK, Recv
<1>2. Head(channel) \in LoopMessage
  BY <1>1
<1>3. CASE Head(channel).key = None
  <2>1. Head(channel).slot \in Slot /\ Deliver(Head(channel).slot)
    BY <1>2, <1>3, KeyOrReply DEF Recv
  <2>2. QED
    BY <1>1, <2>1, DeliverReplies, TakenQueue
<1>4. CASE Head(channel).key # None
  <2>1. Head(channel).slot = None /\ None \notin Slot
    BY <1>2, <1>4, MessageSlot, NoneSlotAssumption
  <2>2. Press(Head(channel).key) \/ UNCHANGED vars
    BY <1>4 DEF Recv
  <2>3. \A s \in Slot : calls'[s].reply = calls[s].reply
    BY <1>1, <2>2, PressReplies DEF vars, taskVars
  <2>4. QED
    BY <1>1, <2>1, <2>3, TakenQueue
<1>5. QED
  BY <1>3, <1>4

LEMMA QueueNext == LoopInv /\ QueueInv /\ [LoopNext]_loopVars => QueueInv'
<1> SUFFICES ASSUME LoopInv, QueueInv, [LoopNext]_loopVars PROVE QueueInv'
  OBVIOUS
<1>1. CASE Drop
  BY <1>1 DEF Drop, DropTasks, appVars, QueueInv
<1>2. CASE Around
  BY <1>2, SameQueue DEF Around, LateEffect, Outside, appVars, LoopInv
<1>3. CASE UNCHANGED loopVars
  BY <1>3, SameQueue DEF loopVars, vars, taskVars, appVars, LoopInv
<1>4. QED
  BY <1>1, <1>2, <1>3, LoopStep, TypeQueue, PostQueue, RecvQueue DEF LoopNext

LEMMA QueueInit == LoopInit => QueueInv
<1> SUFFICES ASSUME LoopInit PROVE QueueInv
  OBVIOUS
<1>1. channel = <<>>
  BY DEF LoopInit
<1>2. \A s \in Slot : calls[s].reply = None
  BY DEF LoopInit, Init, Free, Sent
<1>3. QED
  BY <1>1, <1>2 DEF QueueInv

(* Counting the places. *)
LEMMA QueueCounts == channel \in Seq(LoopMessage) /\ QueueInv => RepliesQueued
<1> SUFFICES ASSUME channel \in Seq(LoopMessage), QueueInv, ~shouldQuit, NEW s \in Slot
             PROVE  Cardinality({i \in DOMAIN channel : channel[i].slot = s})
                      = IF calls[s].reply # None THEN 1 ELSE 0
  BY DEF RepliesQueued
<1> DEFINE places == {i \in DOMAIN channel : channel[i].slot = s}
<1>1. s # None
  BY NoneSlotAssumption
<1>2. CASE calls[s].reply = None
  <2>1. places = {}
    BY <1>1, <1>2 DEF QueueInv
  <2>2. QED
    BY <1>2, <2>1, FS_EmptySet
<1>3. CASE calls[s].reply # None
  <2>1. PICK i \in DOMAIN channel : channel[i].slot = s
    BY <1>3 DEF QueueInv
  <2>2. \A j \in DOMAIN channel : channel[j].slot = s => j = i
    BY <1>1, <2>1 DEF QueueInv
  <2>3. places = {i}
    BY <2>1, <2>2
  <2>4. QED
    BY <1>3, <2>3, FS_Singleton
<1>4. QED
  BY <1>2, <1>3

(* Whatever the calls in flight and the capacity, as long as the loop      *)
(* runs: a call that was answered has exactly one message in the queue,    *)
(* any other has none; no reply is lost or handled twice (lib.rs:73-100).  *)
THEOREM RepliesAreQueued == LoopSpec => []RepliesQueued
<1>1. LoopInv /\ QueueInv => RepliesQueued
  BY QueueCounts DEF LoopInv
<1>2. QED
  BY <1>1, LoopInitInv, LoopNextInv, QueueInit, QueueNext, PTL DEF LoopSpec

----------------------------------------------------------------------------
(* Unless a list without it went by, the aim of every key that waits is    *)
(* under the cursor.                                                       *)
KeyInv ==
  \A i \in DOMAIN channel :
    channel[i].key # None => channel[i].missed \/ channel[i].aim = selected

(* A container that stays visible keeps the cursor. *)
LEMMA StaysSelected ==
  ASSUME NEW s \in Slot, Deliver(s), selected \in VisibleIds(containers', filter')
  PROVE  selected' = selected
<1>1. CASE UNCHANGED selected
  BY <1>1
<1>2. CASE OnContainers(calls[s].reply)
  <2>1. CASE UNCHANGED selected
    BY <2>1
  <2>2. CASE /\ containers' = calls[s].reply.list /\ filter' = filter
             /\ selected' = Reconciled(calls[s].reply.list, filter,
                                       IndexOf(containers, filter, selected))
    BY <2>2 DEF Reconciled, VisibleIds
  <2>3. QED
    BY <1>2, <2>1, <2>2 DEF OnContainers
<1>3. QED
  BY <1>1, <1>2 DEF Deliver, OnDetails, OnActed

LEMMA SameKeys ==
  ASSUME KeyInv, UNCHANGED <<channel, selected>>
  PROVE  KeyInv'
BY DEF KeyInv

LEMMA RecvKeys ==
  ASSUME LoopInv, KeyInv, Recv, LoopInv'
  PROVE  KeyInv'
<1>1. /\ channel \in Seq(LoopMessage) /\ channel # <<>> /\ Head(channel) \in LoopMessage
      /\ selected' \in Container \cup {None}
  BY DEF LoopInv, TuiInv, TypeOK, AppTypeOK, Recv
<1>2. SUFFICES ASSUME NEW i \in DOMAIN channel', channel'[i].key # None
               PROVE  channel'[i].missed \/ channel'[i].aim = selected'
  BY DEF KeyInv
<1> DEFINE m == channel[i + 1]
<1>3. /\ i + 1 \in DOMAIN channel /\ m \in LoopMessage /\ m.key # None
      /\ channel' = AfterKey(Tail(channel)) => channel'[i] = Follow(m)
      /\ channel' = AfterReply(Tail(channel)) => channel'[i] = Overtake(m)
  BY <1>1, <1>2, MovedUp DEF Recv
<1>4. m.missed \/ m.aim = selected
  BY <1>3 DEF KeyInv
<1> HIDE DEF m
<1>5. CASE Head(channel).key = None
  <2>1. Deliver(Head(channel).slot) /\ channel'[i] = Overtake(m)
    BY <1>3, <1>5 DEF Recv
  <2>2. Head(channel).slot \in Slot
    BY <1>1, <1>5, KeyOrReply
  <2>3. selected \in VisibleIds(containers', filter') => selected' = selected
    BY <2>1, <2>2, StaysSelected
  <2>4. /\ channel'[i].aim = m.aim
        /\ channel'[i].missed
             <=> m.missed \/ m.aim \notin VisibleIds(containers', filter')
    BY <1>3, <2>1, OvertakeMessage
  <2>5. QED
    BY <1>4, <2>3, <2>4
<1>6. CASE Head(channel).key # None
  <2>1. channel'[i] = Follow(m)
    BY <1>3, <1>6 DEF Recv
  <2>2. QED
    BY <1>1, <1>3, <2>1, FollowMessage
<1>7. QED
  BY <1>5, <1>6

LEMMA KeyNext == LoopInv /\ KeyInv /\ [LoopNext]_loopVars => KeyInv'
<1> SUFFICES ASSUME LoopInv, KeyInv, [LoopNext]_loopVars PROVE KeyInv'
  OBVIOUS
<1>1. channel \in Seq(LoopMessage)
  BY DEF LoopInv
<1>2. ASSUME NEW k \in Pressed, Type(k) PROVE KeyInv'
  <2>1. Typed(k) \in LoopMessage
    BY DEF Typed, LoopMessage, KeyMessage, LoopInv, TuiInv, TypeOK, AppTypeOK
  <2>2. channel' = Append(channel, Typed(k)) /\ Typed(k).aim = selected
    BY <1>2 DEF Type, Typed
  <2>3. UNCHANGED selected
    BY <1>2 DEF Type, vars, appVars
  <2>4. QED
    BY <1>1, <2>1, <2>2, <2>3, AppendedMessage DEF KeyInv
<1>3. ASSUME NEW s \in Slot, Post(s) PROVE KeyInv'
  <2>1. Posted(s) \in LoopMessage /\ Posted(s).key = None
    BY DEF Posted, LoopMessage, ReplyMessage
  <2>2. channel' = Append(channel, Posted(s)) /\ UNCHANGED selected
    BY <1>3 DEF Post, Answer, EngineLists, EngineInspects, EngineActs, CallFails,
       appVars
  <2>3. QED
    BY <1>1, <2>1, <2>2, AppendedMessage DEF KeyInv
<1>4. CASE Drop
  BY <1>4 DEF Drop, KeyInv
<1>5. CASE Around
  BY <1>5, SameKeys DEF Around, LateEffect, Outside, appVars
<1>6. CASE UNCHANGED loopVars
  BY <1>6, SameKeys DEF loopVars, vars, appVars
<1>7. QED
  BY <1>2, <1>3, <1>4, <1>5, <1>6, LoopStep, RecvKeys DEF LoopNext

(* Only the handling of a key marks a container busy. *)
LEMMA OnlyKeysMark ==
  ASSUME LoopInv, [LoopNext]_loopVars, NEW id \in busy', id \notin busy
  PROVE  Recv /\ Head(channel).key # None
<1>1. CASE Recv
  <2>1. CASE Head(channel).key = None
    <3>1. Head(channel).slot \in Slot /\ Deliver(Head(channel).slot)
      BY <1>1, <2>1, KeyOrReply DEF Recv, LoopInv
    <3>2. busy' \subseteq busy
      BY <3>1 DEF Deliver, OnContainers, OnDetails, OnActed
    <3>3. QED
      BY <3>2
  <2>2. QED
    BY <1>1, <2>1
<1>2. CASE UNCHANGED busy
  BY <1>2
<1>3. QED
  BY <1>1, <1>2
     DEF LoopNext, Type, Post, Drop, Around, Answer, EngineLists, EngineInspects,
         EngineActs, CallFails, DropTasks, LateEffect, Outside, loopVars, vars, appVars

(* Whatever the containers, the capacity, and the keys and replies that    *)
(* wait before them: `s` and `r` act on the container under the cursor     *)
(* when they were typed, or under the cursor once the last key typed       *)
(* before them was handled; a reply redirects them only with a list that   *)
(* lacks that container (docs/tui.md:132-134, app.rs:11-12).               *)
THEOREM KeysActOnAim == LoopSpec => ActsOnAim
<1>1. LoopInit => KeyInv
  BY DEF LoopInit, KeyInv
<1>2. ASSUME LoopInv, KeyInv, [LoopNext]_loopVars,
             NEW k \in {"s", "r"}, NEW c \in Command, ActAccepted(k, c)
      PROVE  LET key == Head(channel) IN key.missed \/ c.id = key.aim
  <2>1. selected \in busy' /\ selected \notin busy /\ c.id = selected
    BY <1>2, CommandKinds DEF ActAccepted
  <2>2. Recv /\ Head(channel).key # None
    BY <1>2, <2>1, OnlyKeysMark
  <2>3. Head(channel) = channel[1] /\ 1 \in DOMAIN channel
    BY <1>2, <2>2 DEF Recv, LoopInv
  <2>4. QED
    BY <1>2, <2>1, <2>2, <2>3 DEF KeyInv
<1>3. LoopInv /\ KeyInv /\ [LoopNext]_loopVars =>
        [\A k \in {"s", "r"}, c \in Command :
           ActAccepted(k, c) =>
             LET key == Head(channel) IN key.missed \/ c.id = key.aim]_loopVars
  BY <1>2
<1>4. QED
  BY <1>1, <1>3, LoopInitInv, LoopNextInv, KeyNext, PTL DEF LoopSpec, ActsOnAim
=============================================================================
