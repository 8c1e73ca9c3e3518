SPECIFICATION ReleaseSpec
CONSTANTS
  MaxVersion = 1
  Edition = {1}
  MaxCommits = 3
CHECK_DEADLOCK FALSE
INVARIANT NoSecondCommit
