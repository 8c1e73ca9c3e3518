SPECIFICATION Spec
CONSTANTS
  Alnum <- MCAlnum
  Mark <- MCMark
  Space <- MCSpace
  Control <- MCControl
  Printable <- MCPrintable
  Replacement = "U+FFFD"
  Ellipsis = "..."
  MaxReferenceLen = 4
  ShortIdLen = 2
  MaxLen = 5
  ColumnMax = 3
  Slash = "/"
  Missing = Missing
  Identifiers <- MCIdentifiers
CHECK_DEADLOCK FALSE
INVARIANTS AcceptedPrintable CellsClean ShortIdsAccepted  StateNotInvented
