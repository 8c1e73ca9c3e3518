------------------------------- MODULE MCText -------------------------------
(* Every string of at most MaxLen characters, built one at a time, and     *)
(* every column width from 0 to MaxLen; and, for each string that may be   *)
(* the name of a container, what the engine's answers about it become.     *)
EXTENDS Mapping

CONSTANT MaxLen
ASSUME MaxLenAssumption == MaxLen \in Nat
VARIABLES value, width

Init == value = <<>> /\ width \in 0..MaxLen /\ MappingInit

Extend ==
  /\ container = Missing
  /\ Len(value) < MaxLen
  /\ \E c \in Char : value' = Append(value, c)
  /\ UNCHANGED <<width, mappingVars>>

Name ==
  /\ width = 0 /\ Verdict(value) = "valid"
  /\ Create(value)
  /\ UNCHANGED <<value, width>>

Next == Extend \/ Name \/ (MappingNext /\ UNCHANGED <<value, width>>)
Spec == Init /\ [][Next]_<<value, width, mappingVars>>

(* The properties of Text, of the string built and of the width chosen. *)
AcceptedPrintable == AcceptedIsPrintable(value)
CellsClean == CellIsClean(value, width)
ShortIdsAccepted == ShortIdIsAReference(value)

MCAlnum == {"a"}
MCMark == {"-"}
MCSpace == {" ", "LF"}
MCControl == {"LF"}
MCPrintable == {"/", "U+FFFD", "..."}
\* Shorter and longer than a short identifier.
MCIdentifiers == {<<"a">>, <<"a", "a", "a">>}
=============================================================================
