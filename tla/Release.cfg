SPECIFICATION ReleaseSpec
CONSTANTS
  MaxVersion = 2
  Edition = {1, 2}
  MaxCommits = 5
CHECK_DEADLOCK FALSE
INVARIANTS TagsReleased OneReleasePerVersion
PROPERTIES MainOnlyAdvances ImplementsLedger
