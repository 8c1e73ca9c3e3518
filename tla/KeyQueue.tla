------------------------------ MODULE KeyQueue ------------------------------
(***************************************************************************)
(* What the keyboard reader, the channel and the main loop promise         *)
(* together (crates/hormos-tui event.rs, lib.rs): the events taken from    *)
(* the terminal are handled one by one, in the order they were typed, none *)
(* lost and none twice, and none is left behind while the loop runs.       *)
(***************************************************************************)
EXTENDS Naturals, Sequences

VARIABLES
  pending,   \* the events taken and not yet handled, oldest first
  open       \* the loop still runs

vars == <<pending, open>>

Init == pending = <<>> /\ open = TRUE

(* An event, whichever it is, is taken behind the others. *)
Take ==
  /\ Len(pending') = Len(pending) + 1
  /\ \A i \in 1..Len(pending) : pending'[i] = pending[i]
  /\ UNCHANGED open

(* The oldest is handled; it may be the one that ends the loop. *)
Handle ==
  /\ open
  /\ pending # <<>>
  /\ pending' = Tail(pending)
  /\ open' \in BOOLEAN

(* The loop ends for another reason, and what is pending is dropped. *)
Close == open /\ open' = FALSE /\ UNCHANGED pending

Next == Take \/ Handle \/ Close

Safety == Init /\ [][Next]_vars

Spec == Safety /\ WF_vars(Handle)
=============================================================================
