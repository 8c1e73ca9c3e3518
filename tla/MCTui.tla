------------------------------- MODULE MCTui -------------------------------
(* The loop with its tasks and the engine: two containers, and the keys    *)
(* that call the engine, open and close the panels or quit.                *)
EXTENDS Tui

CONSTANTS c1, c2, s1, s2, s3

MCContainer == {c1, c2}
MCOneContainer == {c1}
MCTwoSlots == {s1, s2}
MCThreeSlots == {s1, s2, s3}
MCChar == {"q", "k", "j", "a", "R", "i", "s", "r", "/", "?"}
MCLiveKeys == {"q", "a", "i", "R", "s"}
MCScopeKeys == {"a"}
MCMixupKeys == {"i", "j", "?"}
MCFilterChar == {"a"}
MCNeedle == [c \in Container |-> IF c = c2 THEN {} ELSE {<<"a">>}]
=============================================================================
