------------------------------- MODULE MCLoop -------------------------------
(* The loop and its channel: a cursor key and one that acts wait behind    *)
(* lists, one of which does not show the container aimed at, and replies   *)
(* find the channel full.  Safety only, so containers and slots are        *)
(* interchangeable.                                                        *)
EXTENDS Loop, TLC

CONSTANTS c1, c2, s1, s2, s3

MCContainer == {c1, c2}
MCSlots == {s1, s2, s3}
MCChar == {"q", "k", "j", "a", "R", "i", "s", "r", "/", "?"}
MCKeys == {"q", "j", "s"}
MCFilterChar == {"a"}
MCNeedle == [c \in Container |-> {}]
MCSymmetry == Permutations(MCContainer) \cup Permutations(MCSlots)

\* Bounds: containers start and stop but stay known (a list of those that
\* run drops them all the same), one action is in flight at a time, and the
\* keys that wait together are at most a `j` and an `s`, in any order.
WaitingKeys == {channel[i].key : i \in DOMAIN channel} \ {None}
MCBound ==
  /\ \A id \in Container : Known(id)
  /\ Cardinality(InFlight("Act")) <= 1
  /\ \A i, j \in DOMAIN channel :
       channel[i].key # None /\ channel[i].key = channel[j].key => i = j
  /\ "q" \in WaitingKeys => WaitingKeys = {"q"}
=============================================================================
