----------------------------- MODULE ActionGate -----------------------------
(***************************************************************************)
(* What the terminal interface promises about lifecycle actions, seen from *)
(* the keyboard (docs/tui.md, app.rs:13-14): a container takes one action  *)
(* at a time, its result is reported once, and only then does it take      *)
(* another one.  Quitting closes the gates; what was pending is lost to    *)
(* the interface.                                                          *)
(***************************************************************************)
CONSTANT Container
VARIABLES gate, closed

vars == <<gate, closed>>

Init == gate = [id \in Container |-> "idle"] /\ closed = FALSE

Move(id, from, to) ==
  /\ gate[id] = from
  /\ gate' = [gate EXCEPT ![id] = to]
  /\ UNCHANGED closed

Request(id) == ~closed /\ Move(id, "idle", "working")
Finish(id) == Move(id, "working", "answered")
Report(id) == ~closed /\ Move(id, "answered", "idle")

Close == ~closed /\ closed' = TRUE /\ UNCHANGED gate

Abandon ==
  /\ closed
  /\ gate' = [id \in Container |-> IF gate[id] = "idle" THEN "idle" ELSE "lost"]
  /\ UNCHANGED closed

Next == Close \/ Abandon \/ \E id \in Container : Request(id) \/ Finish(id) \/ Report(id)

(* While the interface is open, an action finishes and is reported. *)
Fairness ==
  \A id \in Container : WF_gate(~closed /\ Finish(id)) /\ WF_gate(Report(id))

Safety == Init /\ [][Next]_vars
Spec == Safety /\ Fairness
=============================================================================
