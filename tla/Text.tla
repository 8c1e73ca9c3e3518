-------------------------------- MODULE Text --------------------------------
(***************************************************************************)
(* Two filters between the user and the engine: the references Hormos puts *)
(* in the path of a request (hormos-core reference.rs), and what the       *)
(* engine returns before a terminal prints it (display.rs, the cells of    *)
(* the CLI and of the TUI).  A character is a member of a class; a string  *)
(* is a sequence of characters, so lengths count characters, not bytes.    *)
(***************************************************************************)
EXTENDS Naturals, Sequences

CONSTANTS
  Alnum, Mark,      \* letters and digits; "_", "." and "-"
  Space, Control,   \* what trim removes; C0, DEL and C1
  Printable,        \* every other character, "/" and "?" among them
  Replacement, Ellipsis,
  MaxReferenceLen, ShortIdLen

Char == Alnum \cup Mark \cup Space \cup Control \cup Printable

ASSUME ClassAssumption ==
  /\ (Alnum \cup Mark) \cap (Space \cup Control \cup Printable) = {}
  /\ Replacement \in Printable /\ Ellipsis \in Printable
  /\ Printable \cap Control = {}
ASSUME LengthAssumption == MaxReferenceLen \in Nat \ {0} /\ ShortIdLen \in Nat \ {0}

(* Faulty variant: what may follow the first character is not looked at. *)
VerdictFirstOnly(v) ==
  IF v = <<>> THEN "empty"
  ELSE IF Len(v) > MaxReferenceLen THEN "long"
  ELSE IF v[1] \notin Alnum THEN "first"
  ELSE "valid"

(* ContainerRef::new: the first check that fails, or "valid". *)
Verdict(v) ==
  IF v = <<>> THEN "empty"
  ELSE IF \A i \in DOMAIN v : v[i] \in Space THEN "blank"
  ELSE IF Len(v) > MaxReferenceLen THEN "long"
  ELSE IF v[1] \notin Alnum THEN "first"
  ELSE IF \E i \in DOMAIN v : v[i] \notin Alnum \cup Mark THEN "other"
  ELSE "valid"

(* sanitize *)
Sanitize(v) == [i \in DOMAIN v |-> IF v[i] \in Control THEN Replacement ELSE v[i]]

(* Faulty variant: the ellipsis is added to the characters kept. *)
TruncatedOneOver(v, max) ==
  LET s == Sanitize(v)
  IN IF Len(s) <= max THEN s ELSE Append(SubSeq(s, 1, max), Ellipsis)

(* sanitize_truncated; saturating_sub gives 0 for max = 0. *)
Truncated(v, max) ==
  LET s == Sanitize(v)
      keep == IF max = 0 THEN 0 ELSE max - 1
  IN IF Len(s) <= max THEN s ELSE Append(SubSeq(s, 1, keep), Ellipsis)

(* Faulty variant: the identifier is cut like any other cell. *)
ShortIdMarked(v) == Truncated(v, ShortIdLen)

(* short_id of the CLI and the TUI: no ellipsis, so that it can be pasted. *)
ShortId(v) ==
  LET s == Sanitize(v)
  IN SubSeq(s, 1, IF Len(s) < ShortIdLen THEN Len(s) ELSE ShortIdLen)

----------------------------------------------------------------------------
Clean(v) == \A i \in DOMAIN v : v[i] \notin Control

(* A reference that was accepted is one segment of a path, and is printed  *)
(* as it is in error messages (error.rs:33-35): cleaning it would change   *)
(* nothing, nor shorten it below the longest one accepted.                 *)
AcceptedIsPrintable(v) ==
  Verdict(v) = "valid" =>
    /\ \A i \in DOMAIN v : v[i] \notin Space \cup Printable
    /\ Sanitize(v) = v
    /\ Truncated(v, MaxReferenceLen) = v

(* Whatever the engine returns, a cell holds no control character, fits    *)
(* its column, and is the beginning of the value, marked when it is cut.   *)
CellIsClean(v, max) ==
  LET cell == Truncated(v, max)
  IN /\ Clean(cell) /\ Clean(ShortId(v))
     /\ max > 0 => Len(cell) <= max
     /\ cell = Sanitize(v) \/ cell[Len(cell)] = Ellipsis
     /\ \A i \in DOMAIN cell : i = Len(cell) \/ cell[i] = Sanitize(v)[i]

(* The identifier a table shows can be typed back: it is accepted as a     *)
(* reference whenever the full identifier is.                              *)
ShortIdIsAReference(v) == Verdict(v) = "valid" => Verdict(ShortId(v)) = "valid"
=============================================================================
