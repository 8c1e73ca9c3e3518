----------------------------- MODULE AppProofs -----------------------------
(***************************************************************************)
(* Proofs about `App`: every field keeps its type, and the cursor is on a  *)
(* visible row, whatever the containers, the filters and the replies.      *)
(*                                                                         *)
(* The argument rests on one fact about the visible list, RowExists: each  *)
(* index between 0 and the last one is the index of exactly the kind of    *)
(* row the code fetches with visible().get(index).  Induction over data is *)
(* replaced by the least element of a set of positions.                    *)
(***************************************************************************)
EXTENDS App, FiniteSetTheorems, SequenceTheorems, WellFoundedInduction, TLAPS

Less == {p \in Nat \X Nat : p[1] < p[2]}

(* A non-empty set of naturals has a least element. *)
LEMMA LeastElement ==
  ASSUME NEW T \in SUBSET Nat, T # {}
  PROVE  \E x \in T : \A y \in T : x <= y
<1>1. IsWellFoundedOn(Less, Nat)
  BY NatLessThanWellFounded DEF Less, OpToRel
<1>2. PICK x \in T : \A y \in T : ~(<<y, x>> \in Less)
  BY <1>1, WFMin
<1>3. ASSUME NEW y \in T, y < x PROVE FALSE
  BY <1>2, <1>3 DEF Less
<1>4. QED
  BY <1>2, <1>3

(* A listing is a sequence of summaries, so its domain is an interval. *)
LEMMA ListingDomain ==
  ASSUME NEW l \in Listing
  PROVE  \E n \in Nat : l \in [1..n -> Summary]
<1>1. Cardinality(Container) \in Nat
  BY ContainerAssumption, FS_CardinalityType
<1>2. QED
  BY <1>1 DEF Listing

(* The visible rows are finitely many positions; the rows above a position *)
(* and the last index are numbers; an index is at most the last one.       *)
LEMMA RowsFinite ==
  ASSUME NEW l \in Listing, NEW f \in Seq(Char)
  PROVE  /\ Rows(l, f) \subseteq DOMAIN l
         /\ Rows(l, f) \subseteq Nat
         /\ IsFiniteSet(Rows(l, f))
         /\ Cardinality(Rows(l, f)) \in Nat
         /\ Rows(l, f) # {} => Last(l, f) \in Nat
         /\ \A i \in Nat : Index(l, f, i) \in Nat
         /\ \A i \in Rows(l, f) : Index(l, f, i) \in 0..Last(l, f)
<1> DEFINE R == Rows(l, f)
           Above(i) == {j \in R : j < i}
<1>1. PICK n \in Nat : l \in [1..n -> Summary]
  BY ListingDomain
<1>2. R \subseteq DOMAIN l /\ R \subseteq 1..n
  BY <1>1 DEF Rows
<1>3. IsFiniteSet(1..n)
  BY <1>1, FS_Interval
<1>4. IsFiniteSet(R) /\ Cardinality(R) \in Nat
  BY <1>2, <1>3, FS_Subset, FS_CardinalityType
<1>5. ASSUME R # {} PROVE Cardinality(R) - 1 \in Nat
  <2>1. Cardinality(R) # 0
    BY <1>4, <1>5, FS_EmptySet
  <2>2. QED
    BY <2>1, <1>4
<1>6. ASSUME NEW i \in Nat PROVE Index(l, f, i) \in Nat
  <2>1. Above(i) \subseteq R
    OBVIOUS
  <2>2. IsFiniteSet(Above(i))
    BY <2>1, <1>4, FS_Subset
  <2>3. QED
    BY <2>2, FS_CardinalityType DEF Index
<1>7. ASSUME NEW i \in R PROVE Index(l, f, i) \in 0..Last(l, f)
  <2>1. IsFiniteSet(R \ {i}) /\ Cardinality(R \ {i}) = Cardinality(R) - 1
    BY <1>4, FS_RemoveElement
  <2>2. Above(i) \in SUBSET (R \ {i})
    BY <1>2
  <2>3. Cardinality(Above(i)) <= Cardinality(R \ {i})
    BY <2>1, <2>2, FS_Subset
  <2>4. Cardinality(Above(i)) \in Nat
    BY <1>2, <1>6 DEF Index
  <2>5. QED
    BY <2>1, <2>3, <2>4, <1>4 DEF Index, Last
<1>8. R \subseteq Nat
  BY <1>1, <1>2
<1>9. R # {} => Last(l, f) \in Nat
  BY <1>5 DEF Last
<1> HIDE DEF R
<1>10. QED
  BY <1>2, <1>4, <1>6, <1>7, <1>8, <1>9 DEF R

(* Every index up to the last one is the index of a visible row. *)
LEMMA RowExists ==
  ASSUME NEW l \in Listing, NEW f \in Seq(Char), NEW n \in Nat,
         n < Cardinality(Rows(l, f))
  PROVE  \E i \in Rows(l, f) : Index(l, f, i) = n
<1> DEFINE R == Rows(l, f)
           T == {i \in Nat : Index(l, f, i) > n}
<1>1. PICK k \in Nat : l \in [1..k -> Summary]
  BY ListingDomain
<1>2. R \subseteq 1..k /\ IsFiniteSet(R)
  BY <1>1, RowsFinite DEF Rows
<1>3. \A i \in Nat : Index(l, f, i) \in Nat
  BY RowsFinite
<1>4. k + 1 \in T
  <2>1. {j \in R : j < k + 1} = R
    BY <1>1, <1>2
  <2>2. Index(l, f, k + 1) = Cardinality(R)
    BY <2>1 DEF Index
  <2>3. QED
    BY <2>2, <1>1
<1>5. PICK x \in T : \A y \in T : x <= y
  <2>1. T \in SUBSET Nat /\ T # {}
    BY <1>4
  <2> HIDE DEF T
  <2>2. QED
    BY <2>1, LeastElement
<1>6. x # 0
  <2>1. {j \in R : j < 0} = {}
    BY <1>2
  <2>2. Index(l, f, 0) = 0
    BY <2>1, FS_EmptySet DEF Index
  <2>3. QED
    BY <2>2, <1>5
<1> DEFINE i == x - 1
<1>7. i \in Nat /\ i \notin T
  BY <1>5, <1>6
<1>8. Index(l, f, i) <= n /\ Index(l, f, x) > n
  BY <1>3, <1>5, <1>7
<1>9. i \in R
  <2>1. SUFFICES ASSUME i \notin R PROVE FALSE
    OBVIOUS
  <2>2. {j \in R : j < x} = {j \in R : j < i}
    BY <2>1, <1>2, <1>5, <1>7
  <2>3. Index(l, f, x) = Index(l, f, i)
    BY <2>2 DEF Index
  <2>4. QED
    BY <2>3, <1>3, <1>5, <1>7, <1>8
<1>10. Index(l, f, x) = Index(l, f, i) + 1
  <2>1. {j \in R : j < x} = {j \in R : j < i} \cup {i}
    BY <1>2, <1>5, <1>7, <1>9
  <2>2. i \notin {j \in R : j < i}
    BY <1>7
  <2>3. IsFiniteSet({j \in R : j < i})
    BY <1>2, FS_Subset
  <2>4. QED
    BY <2>1, <2>2, <2>3, FS_AddElement DEF Index
<1>11. Index(l, f, i) = n
  BY <1>3, <1>5, <1>7, <1>8, <1>10
<1>12. QED
  BY <1>9, <1>11

(* Visible identifiers are containers, so none of them is None. *)
LEMMA VisibleContainers ==
  ASSUME NEW l \in Listing, NEW f \in Seq(Char)
  PROVE  /\ VisibleIds(l, f) \subseteq Container
         /\ None \notin VisibleIds(l, f)
         /\ VisibleIds(l, f) = {} <=> Rows(l, f) = {}
<1>1. PICK k \in Nat : l \in [1..k -> Summary]
  BY ListingDomain
<1>2. \A i \in Rows(l, f) : l[i].id \in Container
  BY <1>1 DEF Rows, Summary
<1>3. QED
  BY <1>2, ContainerAssumption DEF VisibleIds

(* What SelectionVisible asks of the cursor s over the list l, filter f. *)
OnVisibleRow(l, f, s) ==
  /\ s = None <=> Rows(l, f) = {}
  /\ s # None => s \in VisibleIds(l, f)

(* visible().get(n) lands on a visible row as long as n is in range. *)
LEMMA NthIsVisible ==
  ASSUME NEW l \in Listing, NEW f \in Seq(Char), NEW n \in Nat,
         Rows(l, f) # {} => n < Cardinality(Rows(l, f))
  PROVE  OnVisibleRow(l, f, Nth(l, f, n))
<1>1. CASE Rows(l, f) = {}
  BY <1>1 DEF OnVisibleRow, Nth
<1>2. CASE Rows(l, f) # {}
  <2>1. \E i \in Rows(l, f) : Index(l, f, i) = n
    BY <1>2, RowExists
  <2>2. PICK i \in Rows(l, f) : Nth(l, f, n) = l[i].id
    BY <2>1 DEF Nth
  <2>3. Nth(l, f, n) \in VisibleIds(l, f)
    BY <2>2 DEF VisibleIds
  <2>4. QED
    BY <1>2, <2>3, VisibleContainers DEF OnVisibleRow
<1>3. QED
  BY <1>1, <1>2

(* selected_index().unwrap_or(0) is always in range. *)
LEMMA IndexOfInRange ==
  ASSUME NEW l \in Listing, NEW f \in Seq(Char), NEW id
  PROVE  /\ IndexOf(l, f, id) \in Nat
         /\ Rows(l, f) # {} => IndexOf(l, f, id) <= Last(l, f)
<1>1. CASE id \in VisibleIds(l, f)
  <2>1. PICK i \in Rows(l, f) : IndexOf(l, f, id) = Index(l, f, i)
    BY <1>1 DEF VisibleIds, IndexOf
  <2>2. QED
    BY <2>1, RowsFinite
<1>2. CASE id \notin VisibleIds(l, f)
  BY <1>2, RowsFinite DEF IndexOf
<1>3. QED
  BY <1>1, <1>2

(* reconcile_selection puts the cursor on a visible row if there is one. *)
LEMMA ReconciledIsVisible ==
  ASSUME NEW l \in Listing, NEW f \in Seq(Char), NEW previous \in Nat
  PROVE  OnVisibleRow(l, f, Reconciled(l, f, previous))
<1>1. CASE Rows(l, f) = {}
  BY <1>1 DEF OnVisibleRow, Reconciled
<1>2. CASE Rows(l, f) # {} /\ selected \in VisibleIds(l, f)
  BY <1>2, VisibleContainers DEF OnVisibleRow, Reconciled
<1>3. CASE Rows(l, f) # {} /\ selected \notin VisibleIds(l, f)
  <2> DEFINE n == IF previous < Last(l, f) THEN previous ELSE Last(l, f)
  <2>1. n \in Nat /\ n < Cardinality(Rows(l, f))
    <3>1. /\ Last(l, f) \in Nat
          /\ Cardinality(Rows(l, f)) \in Nat
          /\ Last(l, f) = Cardinality(Rows(l, f)) - 1
      BY <1>3, RowsFinite DEF Last
    <3>2. QED
      BY <3>1
  <2>2. OnVisibleRow(l, f, Nth(l, f, n))
    <3> HIDE DEF n
    <3>1. QED
      BY <2>1, NthIsVisible
  <2>3. QED
    BY <1>3, <2>2 DEF Reconciled
<1>4. QED
  BY <1>1, <1>2, <1>3

(* The cursor of OnVisibleRow is a container or None. *)
LEMMA CursorType ==
  ASSUME NEW l \in Listing, NEW f \in Seq(Char), NEW s, OnVisibleRow(l, f, s)
  PROVE  s \in Container \cup {None}
BY VisibleContainers DEF OnVisibleRow

----------------------------------------------------------------------------
AppInv == AppTypeOK /\ OnVisibleRow(containers, filter, selected)

LEMMA EmptyListing == <<>> \in Listing
<1>1. <<>> \in [1..0 -> Summary]
  OBVIOUS
<1>2. 0 \in 0..Cardinality(Container)
  BY ContainerAssumption, FS_CardinalityType
<1>3. QED
  BY <1>1, <1>2 DEF Listing

LEMMA AppInitInv == AppInit => AppInv
<1> SUFFICES ASSUME AppInit PROVE AppInv
  OBVIOUS
<1>1. <<>> \in Listing /\ <<>> \in Seq(Char)
  BY EmptyListing, EmptySeq
<1>2. Rows(<<>>, <<>>) = {}
  BY DEF Rows
<1>3. Browse \in Mode
  BY DEF Mode, Browse
<1>4. AppTypeOK
  BY <1>1, <1>3 DEF AppInit, AppTypeOK
<1>5. QED
  BY <1>2, <1>4 DEF AppInit, AppInv, OnVisibleRow

(* The keys that move the cursor along the visible rows. *)
LEMMA MoveKeepsInv ==
  ASSUME AppInv, NEW k, NEW c, MoveSelection(k, c) \/ Jump(k, c)
  PROVE  AppInv'
<1>1. containers \in Listing /\ filter \in Seq(Char)
  BY DEF AppInv, AppTypeOK
<1>2. PICK n \in Nat : /\ selected' = Nth(containers, filter, n)
                       /\ Rows(containers, filter) # {} =>
                            n < Cardinality(Rows(containers, filter))
  <2>1. Rows(containers, filter) # {} =>
          /\ Last(containers, filter) \in Nat
          /\ Last(containers, filter) < Cardinality(Rows(containers, filter))
          /\ Cardinality(Rows(containers, filter)) \in Nat
    <3>1. Rows(containers, filter) # {} =>
            /\ Last(containers, filter) \in Nat
            /\ Cardinality(Rows(containers, filter)) \in Nat
            /\ Last(containers, filter) = Cardinality(Rows(containers, filter)) - 1
      BY <1>1, RowsFinite DEF Last
    <3>2. QED
      BY <3>1
  <2>2. /\ IndexOf(containers, filter, selected) \in Nat
        /\ Rows(containers, filter) # {} =>
             IndexOf(containers, filter, selected) <= Last(containers, filter)
    BY <1>1, IndexOfInRange
  <2>3. CASE MoveSelection(k, c)
    BY <2>1, <2>2, <2>3 DEF MoveSelection
  <2>4. CASE Jump(k, c)
    BY <2>1, <2>4 DEF Jump
  <2>5. QED
    BY <2>3, <2>4
<1>3. OnVisibleRow(containers, filter, selected')
  BY <1>1, <1>2, NthIsVisible
<1>4. selected' \in Container \cup {None}
  BY <1>1, <1>3, CursorType
<1>5. UNCHANGED <<containers, showAll, filter, mode, status, busy, loading,
                  failure, shouldQuit>>
  BY DEF MoveSelection, Jump
<1>6. QED
  BY <1>3, <1>4, <1>5 DEF AppInv, AppTypeOK, OnVisibleRow, Rows, VisibleIds

(* The keys of the filter bar that change the filter. *)
LEMMA FilterKeepsInv ==
  ASSUME AppInv, NEW k, NEW c, CancelFilter(k, c) \/ EditFilter(k, c)
  PROVE  AppInv'
<1>1. containers \in Listing /\ filter \in Seq(Char) /\ mode \in Mode
  BY DEF AppInv, AppTypeOK
<1>2. filter' \in Seq(Char)
  <2>1. CASE CancelFilter(k, c)
    BY <1>1, <2>1 DEF CancelFilter, Mode
  <2>2. CASE EditFilter(k, c) /\ k = "Backspace"
    <3>1. Popped(filter) \in Seq(Char)
      <4>1. CASE filter = <<>>
        BY <4>1 DEF Popped
      <4>2. CASE filter # <<>>
        <5>1. 1 \in 1..(Len(filter) + 1) /\ Len(filter) - 1 \in 0..Len(filter)
          BY <1>1, <4>2, EmptySeq, LenProperties
        <5>2. QED
          BY <1>1, <4>2, <5>1, SubSeqProperties DEF Popped
      <4>3. QED
        BY <4>1, <4>2
    <3>2. QED
      BY <1>1, <2>2, <3>1, AppendProperties, CharAssumption DEF EditFilter
  <2>3. CASE EditFilter(k, c) /\ k # "Backspace"
    BY <1>1, <2>3, AppendProperties, CharAssumption DEF EditFilter
  <2>4. QED
    BY <2>1, <2>2, <2>3
<1>3. PICK previous \in Nat : selected' = Reconciled(containers, filter', previous)
  <2>1. CASE CancelFilter(k, c)
    <3>1. IndexOf(containers, filter', selected) \in Nat
      BY <1>1, <1>2, IndexOfInRange
    <3>2. QED
      BY <2>1, <3>1 DEF CancelFilter
  <2>2. CASE EditFilter(k, c)
    BY <2>2 DEF EditFilter
  <2>3. QED
    BY <2>1, <2>2
<1>4. OnVisibleRow(containers, filter', selected')
  BY <1>1, <1>2, <1>3, ReconciledIsVisible
<1>5. selected' \in Container \cup {None}
  BY <1>1, <1>2, <1>4, CursorType
<1>6. mode' \in Mode
  BY <1>1 DEF CancelFilter, EditFilter, Mode, Browse
<1>7. UNCHANGED <<containers, showAll, status, busy, loading, failure,
                  shouldQuit>>
  BY DEF CancelFilter, EditFilter
<1>8. QED
  BY <1>2, <1>4, <1>5, <1>6, <1>7 DEF AppInv, AppTypeOK, OnVisibleRow, Rows,
     VisibleIds

(* The other keys touch neither the list, nor the filter, nor the cursor. *)
LEMMA OtherKeysKeepInv ==
  ASSUME AppInv, NEW k, NEW c,
         \/ Interrupt(k, c) \/ ClosePanel(k, c) \/ Quit(k, c)
         \/ ToggleAll(k, c) \/ Reload(k, c) \/ OpenDetails(k, c)
         \/ ActRefused(k, c) \/ ActAccepted(k, c) \/ OpenFilter(k, c)
         \/ OpenHelp(k, c) \/ AcceptFilter(k, c)
  PROVE  AppInv'
<1>1. UNCHANGED <<containers, selected, filter>>
  BY DEF Interrupt, ClosePanel, Quit, ToggleAll, Reload, OpenDetails,
     ActRefused, ActAccepted, OpenFilter, OpenHelp, AcceptFilter
<1>2. AppTypeOK
  BY DEF AppInv
<1>3. mode' \in Mode
  BY <1>2 DEF AppTypeOK, Mode, Browse, Help, Filtering, Details, Interrupt,
     ClosePanel, Quit, ToggleAll, Reload, OpenDetails, ActRefused, ActAccepted,
     OpenFilter, OpenHelp, AcceptFilter
<1>4. busy' \subseteq Container
  BY <1>2 DEF AppTypeOK, Interrupt, ClosePanel, Quit, ToggleAll, Reload,
     OpenDetails, ActRefused, ActAccepted, OpenFilter, OpenHelp, AcceptFilter
<1>5. status' \in {"none", "info", "error"}
  BY <1>2 DEF AppTypeOK, Interrupt, ClosePanel, Quit, ToggleAll, Reload,
     OpenDetails, ActRefused, ActAccepted, OpenFilter, OpenHelp, AcceptFilter
<1>6. /\ showAll' \in BOOLEAN /\ loading' \in BOOLEAN
      /\ failure' \in BOOLEAN /\ shouldQuit' \in BOOLEAN
  BY <1>2 DEF AppTypeOK, Interrupt, ClosePanel, Quit, ToggleAll, Reload,
     OpenDetails, ActRefused, ActAccepted, OpenFilter, OpenHelp, AcceptFilter
<1>7. QED
  BY <1>1, <1>2, <1>3, <1>4, <1>5, <1>6 DEF AppInv, AppTypeOK, OnVisibleRow,
     Rows, VisibleIds

LEMMA KeyKeepsInv ==
  ASSUME AppInv, NEW k, NEW c, OnKey(k, c)
  PROVE  AppInv'
BY MoveKeepsInv, FilterKeepsInv, OtherKeysKeepInv DEF OnKey

(* Replies: any well-formed list, any outcome. *)
LEMMA ContainersKeepInv ==
  ASSUME AppInv, NEW reply \in Reply, OnContainers(reply)
  PROVE  AppInv'
<1>1. AppTypeOK
  BY DEF AppInv
<1>2. CASE reply.ok
  <2>1. PICK list \in Listing : reply = Listed(list)
    BY <1>2 DEF Reply, Failed
  <2>2. containers' = list /\ list \in Listing
    BY <1>2, <2>1 DEF OnContainers, Listed
  <2>3. IndexOf(containers, filter, selected) \in Nat
    BY <1>1, IndexOfInRange DEF AppTypeOK
  <2>4. OnVisibleRow(containers', filter, selected')
    BY <1>1, <1>2, <2>1, <2>2, <2>3, ReconciledIsVisible
       DEF OnContainers, Listed, AppTypeOK
  <2>5. selected' \in Container \cup {None}
    BY <1>1, <2>2, <2>4, CursorType DEF AppTypeOK
  <2>6. QED
    BY <1>1, <1>2, <2>2, <2>4, <2>5 DEF OnContainers, AppInv, AppTypeOK,
       OnVisibleRow, Rows, VisibleIds
<1>3. CASE ~reply.ok
  BY <1>1, <1>3 DEF OnContainers, AppInv, AppTypeOK, OnVisibleRow, Rows,
     VisibleIds
<1>4. QED
  BY <1>2, <1>3

LEMMA OtherRepliesKeepInv ==
  ASSUME AppInv, NEW reply \in Reply, NEW id \in Container, NEW c,
         OnDetails(reply, id) \/ OnActed(reply, id, c)
  PROVE  AppInv'
<1>1. UNCHANGED <<containers, selected, filter, showAll, failure, shouldQuit>>
  BY DEF OnDetails, OnActed
<1>2. AppTypeOK
  BY DEF AppInv
<1>3. Details(id) \in Mode /\ Browse \in Mode
  BY DEF Mode, Details, Browse
<1>4. mode' \in Mode
  BY <1>2, <1>3 DEF AppTypeOK, OnDetails, OnActed
<1>5. status' \in {"none", "info", "error"}
  BY <1>2 DEF AppTypeOK, OnDetails, OnActed
<1>6. busy' \subseteq Container /\ loading' \in BOOLEAN
  BY <1>2 DEF AppTypeOK, OnDetails, OnActed
<1>7. QED
  BY <1>1, <1>2, <1>4, <1>5, <1>6 DEF AppInv, AppTypeOK, OnVisibleRow, Rows, VisibleIds

(* The fields keep their types and the cursor stays on a visible row. *)
THEOREM AppInvariant == AppSpec => [](AppTypeOK /\ SelectionVisible)
<1>1. AppInit => AppInv
  BY AppInitInv
<1>2. AppInv /\ [AppNext]_appVars => AppInv'
  <2> SUFFICES ASSUME AppInv, [AppNext]_appVars PROVE AppInv'
    OBVIOUS
  <2>1. CASE UNCHANGED appVars
    BY <2>1 DEF appVars, AppInv, AppTypeOK, OnVisibleRow, Rows, VisibleIds
  <2>2. ASSUME NEW k \in Pressed, NEW c \in Command \cup {NoCommand}, OnKey(k, c)
        PROVE  AppInv'
    BY <2>2, KeyKeepsInv
  <2>3. ASSUME NEW reply \in Reply, OnContainers(reply)
        PROVE  AppInv'
    BY <2>3, ContainersKeepInv
  <2>4. ASSUME NEW reply \in {Done, Failed}, NEW id \in Container,
               OnDetails(reply, id)
        PROVE  AppInv'
    BY <2>4, EmptyListing, OtherRepliesKeepInv DEF Reply, Done
  <2>5. ASSUME NEW reply \in {Done, Failed}, NEW id \in busy,
               NEW c \in Command \cup {NoCommand}, OnActed(reply, id, c)
        PROVE  AppInv'
    BY <2>5, EmptyListing, OtherRepliesKeepInv DEF Reply, Done, AppInv, AppTypeOK
  <2>6. QED
    BY <2>1, <2>2, <2>3, <2>4, <2>5 DEF AppNext
<1>3. AppInv => AppTypeOK /\ SelectionVisible
  BY DEF AppInv, SelectionVisible, OnVisibleRow
<1>4. QED
  BY <1>1, <1>2, <1>3, PTL DEF AppSpec

(* Every field of App keeps its type, whatever keys and replies come. *)
COROLLARY AppTypes == AppSpec => []AppTypeOK
BY AppInvariant, PTL

(* The row that visible().get(n) returns has index n. *)
LEMMA NthHasIndex ==
  ASSUME NEW l \in Listing, NEW f \in Seq(Char), NEW n \in Nat,
         n < Cardinality(Rows(l, f))
  PROVE  IndexOf(l, f, Nth(l, f, n)) = n
<1> DEFINE i == CHOOSE i \in Rows(l, f) : Index(l, f, i) = n
<1>1. i \in Rows(l, f) /\ Index(l, f, i) = n
  BY RowExists
<1>2. Nth(l, f, n) = l[i].id /\ l[i].id \in VisibleIds(l, f)
  BY <1>1 DEF Nth, VisibleIds
<1>3. \A j \in Rows(l, f) : l[j].id = l[i].id <=> j = i
  BY <1>1 DEF Rows, Listing
<1>4. IndexOf(l, f, Nth(l, f, n)) = Index(l, f, CHOOSE j \in Rows(l, f) : l[j].id = l[i].id)
  BY <1>2 DEF IndexOf
<1> HIDE DEF i
<1>5. (CHOOSE j \in Rows(l, f) : l[j].id = l[i].id) = i
  BY <1>1, <1>3
<1>6. QED
  BY <1>1, <1>4, <1>5

(* A new list leaves the cursor on its container, or, when it is gone, at  *)
(* its index or at the new last row.                                       *)
LEMMA ReconciledIndex ==
  ASSUME NEW l \in Listing, NEW f \in Seq(Char), NEW previous \in Nat,
         selected \notin VisibleIds(l, f), Rows(l, f) # {}
  PROVE  \/ IndexOf(l, f, Reconciled(l, f, previous)) = previous
         \/ /\ IndexOf(l, f, Reconciled(l, f, previous)) = Last(l, f)
            /\ previous > Last(l, f)
<1> DEFINE n == IF previous < Last(l, f) THEN previous ELSE Last(l, f)
<1>1. /\ Last(l, f) \in Nat /\ Cardinality(Rows(l, f)) \in Nat
      /\ Last(l, f) = Cardinality(Rows(l, f)) - 1
  BY RowsFinite DEF Last
<1>2. n \in Nat /\ n < Cardinality(Rows(l, f))
  BY <1>1
<1>3. Reconciled(l, f, previous) = Nth(l, f, n)
  BY DEF Reconciled
<1> HIDE DEF n
<1>4. IndexOf(l, f, Reconciled(l, f, previous)) = n
  BY <1>2, <1>3, NthHasIndex
<1>5. n = previous \/ (n = Last(l, f) /\ previous > Last(l, f))
  BY <1>1 DEF n
<1>6. QED
  BY <1>4, <1>5

(* Selection by identifier, for any lists and any filter. *)
THEOREM SelectionFollows == AppSpec => SelectionFollowsIdentifier
<1> DEFINE Follows ==
      (containers' # containers /\ selected # None) =>
        \/ selected' = selected
        \/ /\ selected \notin VisibleIds(containers', filter')
           /\ \/ selected' = None
              \/ IndexOf(containers', filter', selected') =
                   IndexOf(containers, filter, selected)
              \/ /\ IndexOf(containers', filter', selected') =
                      Last(containers', filter')
                 /\ IndexOf(containers, filter, selected) >
                      Last(containers', filter')
<1>1. ASSUME AppTypeOK, NEW reply \in Reply, OnContainers(reply) PROVE Follows
  <2>1. CASE ~reply.ok
    BY <1>1, <2>1 DEF OnContainers
  <2>2. CASE reply.ok
    <3>1. PICK list \in Listing : reply = Listed(list)
      BY <2>2 DEF Reply, Failed
    <3> DEFINE previous == IndexOf(containers, filter, selected)
    <3>2. /\ containers' = list /\ filter' = filter /\ filter \in Seq(Char)
          /\ containers \in Listing
          /\ selected' = Reconciled(list, filter, previous)
      BY <1>1, <2>2, <3>1 DEF OnContainers, Listed, AppTypeOK
    <3>3. previous \in Nat
      BY <3>2, IndexOfInRange
    <3>4. CASE selected \in VisibleIds(list, filter) /\ Rows(list, filter) # {}
      BY <3>2, <3>4 DEF Reconciled
    <3>5. CASE Rows(list, filter) = {}
      BY <3>2, <3>5, VisibleContainers DEF Reconciled
    <3>6. CASE selected \notin VisibleIds(list, filter) /\ Rows(list, filter) # {}
      BY <3>2, <3>3, <3>6, ReconciledIndex
    <3>7. QED
      BY <3>4, <3>5, <3>6
  <2>3. QED
    BY <2>1, <2>2
<1>2. ASSUME AppTypeOK, [AppNext]_appVars PROVE [Follows]_appVars
  <2>1. CASE UNCHANGED containers
    BY <2>1
  <2>2. CASE ~UNCHANGED containers
    <3>1. ASSUME NEW k, NEW c, OnKey(k, c) PROVE UNCHANGED containers
      BY <3>1 DEF OnKey, Interrupt, ClosePanel, Quit, MoveSelection, Jump, ToggleAll,
         Reload, OpenDetails, ActRefused, ActAccepted, OpenFilter, OpenHelp,
         CancelFilter, AcceptFilter, EditFilter
    <3>2. PICK reply \in Reply : OnContainers(reply)
      BY <1>2, <2>2, <3>1 DEF AppNext, OnDetails, OnActed, appVars
    <3> HIDE DEF Follows
    <3>3. QED
      BY <1>1, <1>2, <3>2
  <2>3. QED
    BY <2>1, <2>2
<1>3. QED
  BY <1>2, AppInvariant, PTL DEF AppSpec, SelectionFollowsIdentifier
=============================================================================
