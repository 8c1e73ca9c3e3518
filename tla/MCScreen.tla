------------------------------ MODULE MCScreen ------------------------------
(* `App` and its screen: three containers, the keys that move the cursor,  *)
(* change the filter or the list, open and close a panel or act, every      *)
(* reply, and terminals just too small, just large enough, and larger than *)
(* any panel.                                                              *)
EXTENDS Screen, TLC

CONSTANTS c1, c2, c3

MCContainer == {c1, c2, c3}
MCChar == {"q", "k", "j", "a", "R", "i", "s", "r", "x", "/", "?"}
MCPressed == {"Ctrl-C", "Esc", "Enter", "Backspace", "Up", "j", "Home", "End",
              "i", "x", "s", "r", "/", "?"}
MCFilterChar == {"x"}
\* c1 and c3 match "x": filtering hides the row in the middle.
MCNeedle == [c \in MCContainer |-> IF c = c2 THEN {} ELSE {<<"x">>}]
Sized(w, h) == [x |-> 0, y |-> 0, width |-> w, height |-> h]
MCAreas == {Sized(59, 40), Sized(120, 11), Sized(60, 12), Sized(73, 13), Sized(120, 40)}
\* Bound: one container is busy at a time.
MCBound == Cardinality(busy) <= 1
MCSymmetry == Permutations({c1, c3})
=============================================================================
