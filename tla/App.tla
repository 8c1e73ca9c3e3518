-------------------------------- MODULE App --------------------------------
(***************************************************************************)
(* The state of the terminal interface and its transition function, as in  *)
(* crates/hormos-tui/src/app.rs.  `App` is pure: `update` takes a message  *)
(* (a key, or the reply of a call to the engine) and returns at most one   *)
(* command, which the main loop executes elsewhere.  Here "update(m)       *)
(* returns c" is an action On...(m, c) that relates the message, the state *)
(* before, the state after and the command c; NoCommand stands for Rust's  *)
(* None.  Module Tui puts this state machine inside the main loop.         *)
(*                                                                         *)
(* Left out: the text of statuses, errors and details.  A container is     *)
(* reduced to its identifier, whether it is running (the only thing `s`    *)
(* looks at) and the filters it matches.  A key that no branch of on_key   *)
(* handles, and Resized, change nothing and are stuttering steps.          *)
(***************************************************************************)
EXTENDS Naturals, FiniteSets, Sequences

CONSTANTS
  Container,   \* identifiers of the containers the engine may know
  None,        \* Rust's None, where an identifier may be missing
  Char,        \* the characters of the keyboard
  Pressed,     \* bound: the keys the user presses
  FilterChar,  \* bound: the characters tried in the filter bar
  MaxFilter,   \* bound: the longest filter typed
  Needle       \* Needle[id]: the non-empty filters found in id, name or image

ASSUME ContainerAssumption == IsFiniteSet(Container) /\ None \notin Container
ASSUME CharAssumption == FilterChar \subseteq Char /\ MaxFilter \in Nat
ASSUME NeedleAssumption == Needle \in [Container -> SUBSET Seq(Char)]

VARIABLES containers, selected, showAll, filter, mode, status, busy,
          loading, failure, shouldQuit

appVars == <<containers, selected, showAll, filter, mode, status, busy,
             loading, failure, shouldQuit>>

Key == {"Ctrl-C", "Esc", "Enter", "Backspace", "Up", "Down", "Home", "End"}
         \cup Char
Verb == {"Start", "Stop", "Restart"}

ASSUME PressedAssumption == Pressed \subseteq Key

Summary == [id : Container, running : BOOLEAN]

(* A list as the engine returns it: any order, no identifier twice. *)
Listing ==
  {l \in UNION {[1..n -> Summary] : n \in 0..Cardinality(Container)} :
     \A i, j \in DOMAIN l : l[i].id = l[j].id => i = j}

Mode == [name : {"Browse", "Help"}]
          \cup [name : {"Filter"}, previous : Seq(Char)]
          \cup [name : {"Details"}, shown : Container \cup {None}]

Browse == [name |-> "Browse"]
Help == [name |-> "Help"]
Filtering(previous) == [name |-> "Filter", previous |-> previous]
Details(shown) == [name |-> "Details", shown |-> shown]

Refresh(all) == [kind |-> "Refresh", all |-> all]
Inspect(id) == [kind |-> "Inspect", id |-> id]
Act(id, verb) == [kind |-> "Act", id |-> id, verb |-> verb]
Command == {Refresh(all) : all \in BOOLEAN}
             \cup {Inspect(id) : id \in Container}
             \cup {Act(id, verb) : id \in Container, verb \in Verb}
NoCommand == [kind |-> "None"]

(* The engine's reply to a call: Ok or Err, with the list of a refresh. *)
Listed(list) == [ok |-> TRUE, list |-> list]
Done == Listed(<<>>)
Failed == [ok |-> FALSE, list |-> <<>>]
Reply == {Listed(list) : list \in Listing} \cup {Failed}

(* new *)
AppInit ==
  /\ containers = <<>>
  /\ selected = None
  /\ showAll = FALSE
  /\ filter = <<>>
  /\ mode = Browse
  /\ status = "none"
  /\ busy = {}
  /\ loading = TRUE
  /\ failure = FALSE
  /\ shouldQuit = FALSE

----------------------------------------------------------------------------
(* The visible list.  The code filters the list into a vector; here it is  *)
(* the set of the positions of l that the filter f retains, and the index  *)
(* of a row is the number of retained rows above it.                       *)

Matches(id, f) == f = <<>> \/ f \in Needle[id]

Rows(l, f) == {i \in DOMAIN l : Matches(l[i].id, f)}
VisibleIds(l, f) == {l[i].id : i \in Rows(l, f)}
Index(l, f, i) == Cardinality({j \in Rows(l, f) : j < i})

(* visible().get(n): the row that has n visible rows above it. *)
Nth(l, f, n) ==
  IF \E i \in Rows(l, f) : Index(l, f, i) = n
    THEN l[CHOOSE i \in Rows(l, f) : Index(l, f, i) = n].id
    ELSE None

(* selected_index().unwrap_or(0) of the identifier id. *)
IndexOf(l, f, id) ==
  IF id \in VisibleIds(l, f)
    THEN Index(l, f, CHOOSE i \in Rows(l, f) : l[i].id = id)
    ELSE 0

Last(l, f) == Cardinality(Rows(l, f)) - 1

(* Faulty variant: the selection is remembered by index. *)
ReconciledByIndex(l, f, previous) ==
  IF Rows(l, f) = {} THEN None
  ELSE Nth(l, f, IF previous < Last(l, f) THEN previous ELSE Last(l, f))

(* reconcile_selection: what `selected` becomes for the list l, filter f. *)
Reconciled(l, f, previous) ==
  IF Rows(l, f) = {} THEN None
  ELSE IF selected \in VisibleIds(l, f) THEN selected
  ELSE Nth(l, f, IF previous < Last(l, f) THEN previous ELSE Last(l, f))

Focused == CHOOSE i \in DOMAIN containers : containers[i].id = selected

----------------------------------------------------------------------------
(* on_key.  Ctrl+C quits from every mode. *)
Interrupt(k, c) ==
  /\ k = "Ctrl-C"
  /\ shouldQuit' = TRUE
  /\ c = NoCommand
  /\ UNCHANGED <<containers, selected, showAll, filter, mode, status, busy,
                 loading, failure>>

ClosePanel(k, c) ==
  /\ mode.name \in {"Help", "Details"}
  /\ k \in {"Esc", "q", "?", "i"}
  /\ mode' = Browse
  /\ c = NoCommand
  /\ UNCHANGED <<containers, selected, showAll, filter, status, busy,
                 loading, failure, shouldQuit>>

(* on_browse_key *)
Quit(k, c) ==
  /\ mode = Browse
  /\ k \in {"q", "Esc"}
  /\ shouldQuit' = TRUE
  /\ c = NoCommand
  /\ UNCHANGED <<containers, selected, showAll, filter, mode, status, busy,
                 loading, failure>>

(* move_selection: one row up or down, clamped to the visible rows. *)
MoveSelection(k, c) ==
  /\ mode = Browse
  /\ Rows(containers, filter) # {}
  /\ LET current == IndexOf(containers, filter, selected)
         last == Last(containers, filter)
     IN \/ /\ k \in {"Up", "k"}
           /\ selected' = Nth(containers, filter,
                              IF current = 0 THEN 0 ELSE current - 1)
        \/ /\ k \in {"Down", "j"}
           /\ selected' = Nth(containers, filter,
                              IF current < last THEN current + 1 ELSE last)
  /\ c = NoCommand
  /\ UNCHANGED <<containers, showAll, filter, mode, status, busy, loading,
                 failure, shouldQuit>>

(* select_at the first or the last visible row. *)
Jump(k, c) ==
  /\ mode = Browse
  /\ \/ k = "Home" /\ selected' = Nth(containers, filter, 0)
     \/ /\ k = "End"
        /\ selected' = Nth(containers, filter,
                           IF Rows(containers, filter) = {} THEN 0
                           ELSE Last(containers, filter))
  /\ c = NoCommand
  /\ UNCHANGED <<containers, showAll, filter, mode, status, busy, loading,
                 failure, shouldQuit>>

ToggleAll(k, c) ==
  /\ mode = Browse
  /\ k = "a"
  /\ showAll' = ~showAll
  /\ loading' = TRUE
  /\ c = Refresh(~showAll)
  /\ UNCHANGED <<containers, selected, filter, mode, status, busy, failure,
                 shouldQuit>>

Reload(k, c) ==
  /\ mode = Browse
  /\ k = "R"
  /\ loading' = TRUE
  /\ c = Refresh(showAll)
  /\ UNCHANGED <<containers, selected, showAll, filter, mode, status, busy,
                 failure, shouldQuit>>

OpenDetails(k, c) ==
  /\ mode = Browse
  /\ k = "i"
  /\ selected # None
  /\ mode' = Details(None)
  /\ c = Inspect(selected)
  /\ UNCHANGED <<containers, selected, showAll, filter, status, busy,
                 loading, failure, shouldQuit>>

(* `s` (start or stop, after the displayed state) and `r`, then act():     *)
(* a busy container refuses, an idle one becomes busy.                     *)
Verbs(k) ==
  CASE k = "s" -> IF containers[Focused].running THEN "Stop" ELSE "Start"
    [] k = "r" -> "Restart"

ActRefused(k, c) ==
  /\ mode = Browse
  /\ k \in {"s", "r"}
  /\ selected \in busy
  /\ status' = "info"
  /\ c = NoCommand
  /\ UNCHANGED <<containers, selected, showAll, filter, mode, busy, loading,
                 failure, shouldQuit>>

(* Faulty variant: the busy mark is set but never looked at. *)
ActAcceptedTwice(k, c) ==
  /\ mode = Browse
  /\ k \in {"s", "r"}
  /\ selected # None
  /\ busy' = busy \cup {selected}
  /\ status' = "info"
  /\ c = Act(selected, Verbs(k))
  /\ UNCHANGED <<containers, selected, showAll, filter, mode, loading,
                 failure, shouldQuit>>

ActAccepted(k, c) ==
  /\ mode = Browse
  /\ k \in {"s", "r"}
  /\ selected # None
  /\ selected \notin busy
  /\ busy' = busy \cup {selected}
  /\ status' = "info"
  /\ c = Act(selected, Verbs(k))
  /\ UNCHANGED <<containers, selected, showAll, filter, mode, loading,
                 failure, shouldQuit>>

OpenFilter(k, c) ==
  /\ mode = Browse
  /\ k = "/"
  /\ mode' = Filtering(filter)
  /\ c = NoCommand
  /\ UNCHANGED <<containers, selected, showAll, filter, status, busy,
                 loading, failure, shouldQuit>>

OpenHelp(k, c) ==
  /\ mode = Browse
  /\ k = "?"
  /\ mode' = Help
  /\ c = NoCommand
  /\ UNCHANGED <<containers, selected, showAll, filter, status, busy,
                 loading, failure, shouldQuit>>

(* on_filter_key *)
Popped(f) == IF f = <<>> THEN f ELSE SubSeq(f, 1, Len(f) - 1)

CancelFilter(k, c) ==
  /\ mode.name = "Filter"
  /\ k = "Esc"
  /\ filter' = mode.previous
  /\ mode' = Browse
  /\ selected' = Reconciled(containers, mode.previous,
                            IndexOf(containers, mode.previous, selected))
  /\ c = NoCommand
  /\ UNCHANGED <<containers, showAll, status, busy, loading, failure,
                 shouldQuit>>

AcceptFilter(k, c) ==
  /\ mode.name = "Filter"
  /\ k = "Enter"
  /\ mode' = Browse
  /\ c = NoCommand
  /\ UNCHANGED <<containers, selected, showAll, filter, status, busy,
                 loading, failure, shouldQuit>>

(* Faulty variants: control keys reach the filter; the selection stays on *)
(* a row the new filter hides.                                            *)
EditFilterWithControlKeys(k, c) ==
  /\ mode.name = "Filter"
  /\ k \notin {"Esc", "Enter"}
  /\ Len(filter) < MaxFilter
  /\ filter' = Append(filter, k)
  /\ selected' = Reconciled(containers, filter', 0)
  /\ c = NoCommand
  /\ UNCHANGED <<containers, showAll, mode, status, busy, loading, failure,
                 shouldQuit>>

EditFilterKeepsSelection(k, c) ==
  /\ mode.name = "Filter"
  /\ k \in FilterChar
  /\ Len(filter) < MaxFilter
  /\ filter' = Append(filter, k)
  /\ c = NoCommand
  /\ UNCHANGED <<containers, selected, showAll, mode, status, busy, loading,
                 failure, shouldQuit>>

EditFilter(k, c) ==
  /\ mode.name = "Filter"
  /\ \/ k = "Backspace" /\ filter' = Popped(filter)
     \/ /\ k \in FilterChar
        /\ Len(filter) < MaxFilter
        /\ filter' = Append(filter, k)
  /\ selected' = Reconciled(containers, filter', 0)
  /\ c = NoCommand
  /\ UNCHANGED <<containers, showAll, mode, status, busy, loading, failure,
                 shouldQuit>>

OnKey(k, c) ==
  \/ Interrupt(k, c)   \/ ClosePanel(k, c)   \/ Quit(k, c)
  \/ MoveSelection(k, c) \/ Jump(k, c)       \/ ToggleAll(k, c)
  \/ Reload(k, c)      \/ OpenDetails(k, c)  \/ ActRefused(k, c)
  \/ ActAccepted(k, c) \/ OpenFilter(k, c)   \/ OpenHelp(k, c)
  \/ CancelFilter(k, c) \/ AcceptFilter(k, c) \/ EditFilter(k, c)

----------------------------------------------------------------------------
(* Faulty variants: an error leaves "loading" on; a new list clears the   *)
(* busy marks.                                                            *)
OnContainersStaysLoading(reply) ==
  /\ \/ /\ reply.ok
        /\ loading' = FALSE
        /\ containers' = reply.list
        /\ failure' = FALSE
        /\ selected' = Reconciled(reply.list, filter,
                                  IndexOf(containers, filter, selected))
        /\ UNCHANGED status
     \/ /\ ~reply.ok
        /\ failure' = TRUE
        /\ status' = "error"
        /\ UNCHANGED <<containers, selected, loading>>
  /\ UNCHANGED <<showAll, filter, mode, busy, shouldQuit>>

OnContainersClearsBusy(reply) ==
  /\ loading' = FALSE
  /\ busy' = {}
  /\ containers' = IF reply.ok THEN reply.list ELSE containers
  /\ failure' = ~reply.ok
  /\ selected' = IF reply.ok
                   THEN Reconciled(reply.list, filter,
                                   IndexOf(containers, filter, selected))
                   ELSE selected
  /\ status' = IF reply.ok THEN status ELSE "error"
  /\ UNCHANGED <<showAll, filter, mode, shouldQuit>>

(* on_containers: a failed refresh keeps the previous list. *)
OnContainers(reply) ==
  /\ loading' = FALSE
  /\ \/ /\ reply.ok
        /\ containers' = reply.list
        /\ failure' = FALSE
        /\ selected' = Reconciled(reply.list, filter,
                                  IndexOf(containers, filter, selected))
        /\ UNCHANGED status
     \/ /\ ~reply.ok
        /\ failure' = TRUE
        /\ status' = "error"
        /\ UNCHANGED <<containers, selected>>
  /\ UNCHANGED <<showAll, filter, mode, busy, shouldQuit>>

(* Faulty variant: an error leaves the empty panel open. *)
OnDetailsErrorKeepsPanel(reply, id) ==
  /\ mode' = IF mode.name = "Details" /\ reply.ok THEN Details(id) ELSE mode
  /\ status' = IF reply.ok THEN status ELSE "error"
  /\ UNCHANGED <<containers, selected, showAll, filter, busy, loading,
                 failure, shouldQuit>>

(* on_details: a late reply never reopens a closed panel. *)
OnDetails(reply, id) ==
  /\ mode' = IF mode.name # "Details" THEN mode
             ELSE IF reply.ok THEN Details(id) ELSE Browse
  /\ status' = IF reply.ok THEN status ELSE "error"
  /\ UNCHANGED <<containers, selected, showAll, filter, busy, loading,
                 failure, shouldQuit>>

(* Faulty variant: a failed action asks for no refresh. *)
OnActedRefreshesOnSuccess(reply, id, c) ==
  /\ busy' = busy \ {id}
  /\ status' = IF reply.ok THEN "info" ELSE "error"
  /\ loading' = TRUE
  /\ c = IF reply.ok THEN Refresh(showAll) ELSE NoCommand
  /\ UNCHANGED <<containers, selected, showAll, filter, mode, failure,
                 shouldQuit>>

(* on_acted: whatever the outcome, the list is asked for again. *)
OnActed(reply, id, c) ==
  /\ busy' = busy \ {id}
  /\ status' = IF reply.ok THEN "info" ELSE "error"
  /\ loading' = TRUE
  /\ c = Refresh(showAll)
  /\ UNCHANGED <<containers, selected, showAll, filter, mode, failure,
                 shouldQuit>>

----------------------------------------------------------------------------
(* `App` alone, fed with any key and any reply its commands can produce:   *)
(* the main loop stops calling update once shouldQuit is set.              *)
AppNext ==
  /\ ~shouldQuit
  /\ \/ \E k \in Pressed, c \in Command \cup {NoCommand} : OnKey(k, c)
     \/ \E reply \in Reply : OnContainers(reply)
     \/ \E reply \in {Done, Failed}, id \in Container : OnDetails(reply, id)
     \/ \E reply \in {Done, Failed}, id \in busy :
          \E c \in Command \cup {NoCommand} : OnActed(reply, id, c)

AppSpec == AppInit /\ [][AppNext]_appVars

----------------------------------------------------------------------------
(* Every field keeps its type. *)
AppTypeOK ==
  /\ containers \in Listing
  /\ selected \in Container \cup {None}
  /\ showAll \in BOOLEAN
  /\ filter \in Seq(Char)
  /\ mode \in Mode
  /\ status \in {"none", "info", "error"}
  /\ busy \subseteq Container
  /\ loading \in BOOLEAN
  /\ failure \in BOOLEAN
  /\ shouldQuit \in BOOLEAN

(* The cursor is always on a row the user can see: nothing is selected     *)
(* exactly when no row is visible, whatever was typed, filtered, cancelled *)
(* or reloaded before.  `i`, `s` and `r` act on `selected` without looking *)
(* at the visible rows, so this is what makes them act on a visible row.   *)
SelectionVisible ==
  /\ selected = None <=> Rows(containers, filter) = {}
  /\ selected # None => selected \in VisibleIds(containers, filter)

(* Selection by identifier (app.rs:11-12): a new list never moves the      *)
(* cursor off a container that is still visible; when the container is     *)
(* gone, the cursor keeps its index, bounded by the new last row.          *)
SelectionFollowsIdentifier ==
  [][(containers' # containers /\ selected # None) =>
       \/ selected' = selected
       \/ /\ selected \notin VisibleIds(containers', filter')
          /\ \/ selected' = None
             \/ IndexOf(containers', filter', selected') =
                  IndexOf(containers, filter, selected)
             \/ /\ IndexOf(containers', filter', selected') =
                     Last(containers', filter')
                /\ IndexOf(containers, filter, selected) >
                     Last(containers', filter')]_appVars

=============================================================================
