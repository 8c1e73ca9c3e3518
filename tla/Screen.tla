------------------------------- MODULE Screen -------------------------------
(***************************************************************************)
(* What the terminal shows of `App` (crates/hormos-tui/src/ui.rs), after   *)
(* each message the loop handles and each change of size: the body (table, *)
(* error screen, or one of two explanations of an empty list), the footer, *)
(* and the panel drawn over them.  All of it is computed from the state of *)
(* `App` and the size of the terminal, so the behaviours are those of App. *)
(* Wording, colours and column widths are left out, except where the user *)
(* reads in them what a key will do: the highlighted row, its state, its   *)
(* busy mark.  What a row or a panel loses to a narrow column is left out. *)
(***************************************************************************)
EXTENDS App, Integers

CONSTANT
  Areas   \* bound: the sizes of the terminal

Rectangle == [x : Nat, y : Nat, width : Nat, height : Nat]

ASSUME AreasAssumption == Areas \subseteq Rectangle

MinWidth == 60
MinHeight == 12
TooSmall(area) == area.width < MinWidth \/ area.height < MinHeight

----------------------------------------------------------------------------
(* row: what a line of the table says of a container. *)
Row(container) ==
  [id |-> container.id, green |-> container.running, pending |-> container.id \in busy]

(* visible(): the rows of the table, in the order of the list. *)
RowAt(list, f, n) == CHOOSE i \in Rows(list, f) : Index(list, f, i) = n - 1
Retained(list, f) ==
  [n \in 1..Cardinality(Rows(list, f)) |-> list[RowAt(list, f, n)]]
Visible == Retained(containers, filter)

Smaller(m, n) == IF m < n THEN m ELSE n

(* Faulty variant: the highlight is the position in the unfiltered list. *)
HighlightUnfiltered == Smaller(Focused, Len(Visible))

(* The line that render_table highlights: selected_index, from 1. *)
Highlight == CHOOSE i \in DOMAIN Visible : Visible[i].id = selected
Highlighted == Row(Visible[Highlight])

(* render_table, without a row to draw. *)
EmptyTable == IF filter = <<>> THEN "noContainer" ELSE "noMatch"

(* Faulty variant: an error takes the place of the table. *)
BodyErrorFirst(area) ==
  CASE TooSmall(area) -> "tooSmall"
    [] failure -> "error"
    [] OTHER -> IF Visible = <<>> THEN EmptyTable ELSE "table"

(* render: the widget drawn in the middle of the screen.  render_too_small *)
(* takes the whole of a screen below the minimum.                          *)
Body(area) ==
  CASE TooSmall(area) -> "tooSmall"
    [] ~TooSmall(area) /\ Visible # <<>> -> "table"
    [] OTHER -> IF failure THEN "error" ELSE EmptyTable

(* render_footer *)
Footer(area) ==
  CASE TooSmall(area) -> "hidden"
    [] ~TooSmall(area) /\ mode.name = "Filter" -> "filterBar"
    [] OTHER -> IF status = "none" THEN "hints" ELSE status

(* render_help, render_details: the size a panel asks for, and the lines   *)
(* it must have.  The help is not wrapped.  The detail is: its lines take  *)
(* as many rows as their text is long, and it promises none of them.       *)
HelpPanel == [lines |-> 10, width |-> 64, height |-> 14]
DetailsPanel == [lines |-> 0, width |-> 72, height |-> 12]
NoPanel == [lines |-> 0, width |-> 0, height |-> 0]

(* render: the panel drawn last, over the rest. *)
Panel(area) ==
  CASE TooSmall(area) -> NoPanel
    [] ~TooSmall(area) /\ mode.name = "Help" -> HelpPanel
    [] ~TooSmall(area) /\ mode.name = "Details" -> DetailsPanel
    [] OTHER -> NoPanel

(* Faulty variant: the panel is not bounded by the area. *)
CenteredUnbounded(r, width, height) ==
  [x |-> r.x + (r.width - width) \div 2, y |-> r.y + (r.height - height) \div 2,
   width |-> width, height |-> height]

(* centered *)
Centered(r, width, height) ==
  LET w == Smaller(width, r.width)
      h == Smaller(height, r.height)
  IN [x |-> r.x + (r.width - w) \div 2, y |-> r.y + (r.height - h) \div 2,
      width |-> w, height |-> h]

----------------------------------------------------------------------------
(* A panel is drawn inside the terminal, the detail as well as the help -  *)
(* ratatui panics on a cell outside of it, and a u16 below zero wraps -    *)
(* and the help has a row, inside its border, for each key it explains, on *)
(* the smallest screen too (ui.rs:19-23, 232-262, 305-320).  The end of    *)
(* its widest line, and of a long detail, may be cut.                      *)
PanelFits ==
  \A area \in Areas :
    LET panel == Panel(area)
        drawn == Centered(area, panel.width, panel.height)
    IN /\ drawn \in Rectangle
       /\ drawn.x + drawn.width <= area.x + area.width
       /\ drawn.y + drawn.height <= area.y + area.height
       /\ panel.lines > 0 => panel.lines <= drawn.height - 2

(* On a terminal that shows the list, what `s` and `r` do is what the      *)
(* highlighted line announces: the table is drawn, under no panel, and     *)
(* they act on the container of that line, only if it is not shown as      *)
(* pending, and `s` stops it exactly if it is shown as running             *)
(* (docs/tui.md:29-36).  Below 60 by 12 nothing is shown and the keys act  *)
(* all the same (ui.rs:37-40): of that the property says nothing.          *)
KeyActsOnHighlight ==
  [][\A k \in {"s", "r"}, c \in Command :
       ActAccepted(k, c) =>
         /\ \A area \in Areas :
              ~TooSmall(area) => Body(area) = "table" /\ Panel(area) = NoPanel
         /\ c.id = Highlighted.id
         /\ ~Highlighted.pending
         /\ k = "s" => (c.verb = "Stop" <=> Highlighted.green)]_appVars

(* A passing error does not empty the screen (docs/tui.md:62-63): where    *)
(* the table is drawn, a failed refresh leaves it and the line it          *)
(* highlights where they were, and says so in the footer unless the filter *)
(* bar is open.                                                            *)
TransientErrorKeepsTable ==
  [][OnContainers(Failed) =>
       \A area \in Areas :
         Body(area) = "table" =>
           /\ Body(area)' = "table" /\ Highlight' = Highlight
           /\ Footer(area)' \in {"error", "filterBar"}]_appVars
=============================================================================
