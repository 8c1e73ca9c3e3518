---------------------------- MODULE ScreenProofs ----------------------------
(***************************************************************************)
(* What is drawn, for every size of terminal and every state of `App`: the *)
(* panels stay inside the screen and the help has room for its lines, a    *)
(* passing error leaves the table where it was, and, where a table is      *)
(* drawn, its highlighted line is that of the container the keys act on.   *)
(***************************************************************************)
EXTENDS Screen, AppProofs

(* Half of what is left on a line, on each side of what is centred. *)
LEMMA HalfFits ==
  ASSUME NEW m \in Nat, NEW n \in Nat
  PROVE  LET w == Smaller(n, m)
         IN w \in Nat /\ w <= m /\ (m - w) \div 2 \in Nat /\ (m - w) \div 2 + w <= m
<1> DEFINE w == Smaller(n, m)
<1>1. w \in Nat /\ w <= m
  BY DEF Smaller
<1> HIDE DEF w
<1>2. \A k \in Nat : k \div 2 \in Nat /\ k \div 2 <= k
  OBVIOUS
<1>3. m - w \in Nat
  BY <1>1
<1>4. QED
  BY <1>1, <1>2, <1>3 DEF w

LEMMA CenteredInside ==
  ASSUME NEW r \in Rectangle, NEW width \in Nat, NEW height \in Nat
  PROVE  LET drawn == Centered(r, width, height)
         IN /\ drawn \in Rectangle
            /\ drawn.x + drawn.width <= r.x + r.width
            /\ drawn.y + drawn.height <= r.y + r.height
            /\ drawn.height = Smaller(height, r.height)
<1> DEFINE w == Smaller(width, r.width)
           h == Smaller(height, r.height)
           dx == (r.width - w) \div 2
           dy == (r.height - h) \div 2
<1>1. r.x \in Nat /\ r.y \in Nat /\ r.width \in Nat /\ r.height \in Nat
  BY DEF Rectangle
<1>2. w \in Nat /\ dx \in Nat /\ dx + w <= r.width
  BY <1>1, HalfFits
<1>3. h \in Nat /\ dy \in Nat /\ dy + h <= r.height
  BY <1>1, HalfFits
<1>4. Centered(r, width, height) = [x |-> r.x + dx, y |-> r.y + dy, width |-> w, height |-> h]
  BY DEF Centered
<1> HIDE DEF w, h, dx, dy
<1>5. /\ r.x + dx \in Nat /\ r.y + dy \in Nat
      /\ r.x + dx + w <= r.x + r.width /\ r.y + dy + h <= r.y + r.height
  BY <1>1, <1>2, <1>3
<1>6. QED
  BY <1>2, <1>3, <1>4, <1>5 DEF Rectangle, h

(* Whatever the terminal, a panel is drawn inside it; if it is not refused *)
(* as too small, the help has a row for each of its lines.                 *)
THEOREM PanelsFit == AppSpec => []PanelFits
<1>1. PanelFits
  <2> SUFFICES ASSUME NEW area \in Areas
               PROVE  LET panel == Panel(area)
                          drawn == Centered(area, panel.width, panel.height)
                      IN /\ drawn \in Rectangle
                         /\ drawn.x + drawn.width <= area.x + area.width
                         /\ drawn.y + drawn.height <= area.y + area.height
                         /\ panel.lines > 0 => panel.lines <= drawn.height - 2
    BY DEF PanelFits
  <2> DEFINE panel == Panel(area)
  <2>1. area \in Rectangle /\ area.height \in Nat
    BY AreasAssumption DEF Rectangle
  <2>2. panel \in {HelpPanel, DetailsPanel, NoPanel} /\ (panel = HelpPanel => ~TooSmall(area))
    BY DEF Panel, HelpPanel, DetailsPanel, NoPanel
  <2>3. panel.width \in Nat /\ panel.height \in Nat
    BY <2>2 DEF HelpPanel, DetailsPanel, NoPanel
  <2>4. panel.lines > 0 => panel.lines <= Smaller(panel.height, area.height) - 2
    <3>1. CASE panel = HelpPanel
      <4>1. area.height >= 12
        BY <2>1, <2>2, <3>1 DEF TooSmall, MinHeight
      <4>2. QED
        BY <2>1, <3>1, <4>1 DEF HelpPanel, Smaller
    <3>2. CASE panel \in {DetailsPanel, NoPanel}
      BY <3>2 DEF DetailsPanel, NoPanel
    <3>3. QED
      BY <2>2, <3>1, <3>2
  <2> HIDE DEF panel
  <2>5. LET drawn == Centered(area, panel.width, panel.height)
        IN /\ drawn \in Rectangle
           /\ drawn.x + drawn.width <= area.x + area.width
           /\ drawn.y + drawn.height <= area.y + area.height
           /\ panel.lines > 0 => panel.lines <= drawn.height - 2
    BY <2>1, <2>3, <2>4, CenteredInside
  <2>6. QED
    BY <2>5 DEF panel
<1>2. QED
  BY <1>1, PTL

(* A failed refresh changes neither the table nor the line it highlights.  *)
THEOREM ErrorsKeepTable == AppSpec => TransientErrorKeepsTable
<1> DEFINE Kept(area) ==
      Body(area) = "table" =>
        /\ Body(area)' = "table" /\ Highlight' = Highlight
        /\ Footer(area)' \in {"error", "filterBar"}
<1>1. ASSUME OnContainers(Failed), NEW area \in Areas PROVE Kept(area)
  <2> SUFFICES ASSUME Body(area) = "table"
               PROVE  /\ Body(area)' = "table" /\ Highlight' = Highlight
                      /\ Footer(area)' \in {"error", "filterBar"}
    OBVIOUS
  <2>1. UNCHANGED <<containers, filter, selected>> /\ status' = "error"
    BY <1>1 DEF OnContainers, Failed
  <2>2. Visible' = Visible
    BY <2>1 DEF Visible
  <2>3. ~TooSmall(area) /\ Visible # <<>>
    BY DEF Body, EmptyTable
  <2>4. Body(area)' = "table" /\ Highlight' = Highlight
    BY <2>1, <2>2, <2>3 DEF Body, Highlight
  <2>5. Footer(area)' \in {"error", "filterBar"}
    BY <2>1, <2>3 DEF Footer
  <2>6. QED
    BY <2>4, <2>5
<1>2. OnContainers(Failed) => \A area \in Areas : Kept(area)
  BY <1>1
<1>3. QED
  BY <1>2, PTL DEF TransientErrorKeepsTable

----------------------------------------------------------------------------
(* RowAt inverts Index: the rows drawn are the visible containers, each    *)
(* once.                                                                   *)
LEMMA RowAtIsRow ==
  ASSUME NEW l \in Listing, NEW f \in Seq(Char), NEW n \in 1..Cardinality(Rows(l, f))
  PROVE  RowAt(l, f, n) \in Rows(l, f) /\ Retained(l, f)[n] = l[RowAt(l, f, n)]
<1>1. n - 1 \in Nat /\ n - 1 < Cardinality(Rows(l, f))
  BY RowsFinite
<1>2. \E i \in Rows(l, f) : Index(l, f, i) = n - 1
  BY <1>1, RowExists
<1>3. QED
  BY <1>2 DEF RowAt, Retained

LEMMA IndexIsInjective ==
  ASSUME NEW l \in Listing, NEW f \in Seq(Char),
         NEW i \in Rows(l, f), NEW j \in Rows(l, f), i < j
  PROVE  Index(l, f, i) < Index(l, f, j)
<1> DEFINE A(k) == {h \in Rows(l, f) : h < k}
<1>1. Rows(l, f) \subseteq Nat /\ IsFiniteSet(Rows(l, f))
  BY RowsFinite
<1>2. A(i) \subseteq A(j) /\ i \in A(j) /\ i \notin A(i)
  BY <1>1
<1>3. IsFiniteSet(A(j))
  BY <1>1, FS_Subset
<1>4. A(i) # A(j)
  BY <1>2
<1> HIDE DEF A
<1>5. Cardinality(A(i)) < Cardinality(A(j))
  BY <1>2, <1>3, <1>4, FS_Subset, FS_CardinalityType
<1>6. QED
  BY <1>5 DEF A, Index

LEMMA RetainedRows ==
  ASSUME NEW l \in Listing, NEW f \in Seq(Char), NEW i \in Rows(l, f)
  PROVE  \E n \in DOMAIN Retained(l, f) : Retained(l, f)[n] = l[i]
<1> DEFINE n == Index(l, f, i) + 1
<1>1. n \in 1..Cardinality(Rows(l, f)) /\ n - 1 = Index(l, f, i)
  <2>1. /\ Index(l, f, i) \in 0..(Cardinality(Rows(l, f)) - 1)
        /\ Cardinality(Rows(l, f)) \in Nat
    BY RowsFinite DEF Last
  <2>2. QED
    BY <2>1
<1>2. DOMAIN Retained(l, f) = 1..Cardinality(Rows(l, f))
  BY DEF Retained
<1>3. Rows(l, f) \subseteq Nat
  BY RowsFinite
<1>4. \A j \in Rows(l, f) : Index(l, f, j) = Index(l, f, i) => j = i
  <2> SUFFICES ASSUME NEW j \in Rows(l, f), Index(l, f, j) = Index(l, f, i), j # i
               PROVE  FALSE
    OBVIOUS
  <2>1. Index(l, f, i) \in Nat /\ i \in Nat /\ j \in Nat
    BY <1>3, RowsFinite
  <2>2. QED
    BY <2>1, IndexIsInjective
<1>5. RowAt(l, f, n) = i
  BY <1>1, <1>4 DEF RowAt
<1>6. QED
  BY <1>1, <1>2, <1>5, RowAtIsRow

(* The line that is highlighted is that of the container under the cursor, *)
(* the one whose state `s` looks at.                                       *)
LEMMA HighlightIsFocused ==
  ASSUME AppInv, selected # None
  PROVE  Visible # <<>> /\ Visible[Highlight] = containers[Focused]
         /\ containers[Focused].id = selected /\ containers[Focused] \in Summary
<1>1. containers \in Listing /\ filter \in Seq(Char) /\ selected \in VisibleIds(containers, filter)
  BY DEF AppInv, AppTypeOK, OnVisibleRow
<1>2. PICK i \in Rows(containers, filter) : containers[i].id = selected
  BY <1>1 DEF VisibleIds
<1>3. i \in DOMAIN containers
  BY <1>2 DEF Rows
<1>4. Focused = i
  BY <1>1, <1>2, <1>3 DEF Focused, Listing
<1>5. PICK n \in DOMAIN Visible : Visible[n] = containers[i]
  BY <1>1, <1>2, RetainedRows DEF Visible
<1>6. Highlight \in DOMAIN Visible /\ Visible[Highlight].id = selected
  BY <1>2, <1>5 DEF Highlight
<1>7. Visible[Highlight] = containers[RowAt(containers, filter, Highlight)]
      /\ RowAt(containers, filter, Highlight) \in DOMAIN containers
  BY <1>1, <1>6, RowAtIsRow DEF Visible, Retained, Rows
<1>8. RowAt(containers, filter, Highlight) = i
  BY <1>1, <1>2, <1>3, <1>6, <1>7 DEF Listing
<1>9. Visible # <<>>
  BY <1>5
<1>10. containers[i] \in Summary
  BY <1>1, <1>3, ListingDomain
<1>11. QED
  BY <1>2, <1>4, <1>7, <1>8, <1>9, <1>10

(* For any containers, lists, filters and sizes of the terminal that show  *)
(* the list: `s` and `r` do to the container of the highlighted line what  *)
(* that line announces, and no panel hides it.                             *)
THEOREM KeysActOnHighlight == AppSpec => KeyActsOnHighlight
<1> DEFINE Shown ==
      \A area \in Areas : ~TooSmall(area) => Body(area) = "table" /\ Panel(area) = NoPanel
    Announced ==
      \A k \in {"s", "r"}, c \in Command :
        ActAccepted(k, c) =>
          /\ Shown
          /\ c.id = Highlighted.id
          /\ ~Highlighted.pending
          /\ k = "s" => (c.verb = "Stop" <=> Highlighted.green)
<1>1. ASSUME AppInv PROVE Announced
  <2> SUFFICES ASSUME NEW k \in {"s", "r"}, NEW c \in Command, ActAccepted(k, c)
               PROVE  /\ Shown
                      /\ c.id = Highlighted.id
                      /\ ~Highlighted.pending
                      /\ k = "s" => (c.verb = "Stop" <=> Highlighted.green)
    OBVIOUS
  <2>1. selected # None /\ selected \notin busy /\ c = Act(selected, Verbs(k)) /\ mode = Browse
    BY DEF ActAccepted
  <2>2. /\ Visible # <<>> /\ Visible[Highlight] = containers[Focused]
        /\ containers[Focused].id = selected /\ containers[Focused] \in Summary
    BY <1>1, <2>1, HighlightIsFocused
  <2>3. /\ Highlighted.id = selected /\ Highlighted.pending = (selected \in busy)
        /\ Highlighted.green = containers[Focused].running
    BY <2>2 DEF Highlighted, Row
  <2>4. c.id = selected /\ c.verb = Verbs(k)
    BY <2>1 DEF Act
  <2>5. k = "s" => (Verbs(k) = "Stop" <=> containers[Focused].running)
    BY <2>2 DEF Verbs, Summary
  <2>6. Shown
    <3>1. mode.name = "Browse"
      BY <2>1 DEF Browse
    <3>2. QED
      BY <2>2, <3>1 DEF Body, Panel
  <2>7. QED
    BY <2>1, <2>2, <2>3, <2>4, <2>5, <2>6
<1>2. AppInv => [Announced]_appVars
  BY <1>1
<1>3. AppTypeOK /\ SelectionVisible => AppInv
  BY DEF AppInv, SelectionVisible, OnVisibleRow
<1>4. QED
  BY <1>2, <1>3, AppInvariant, PTL DEF KeyActsOnHighlight
=============================================================================
