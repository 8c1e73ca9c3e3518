SPECIFICATION FairSpec
CONSTANTS
  MaxVersion = 1
  Edition = {1}
  MaxCommits = 4
  Payloads = 1
  Signed = 2
  Run = {1, 2}
CHECK_DEADLOCK FALSE
INVARIANTS AggregateMatches AssetsOfTag
PROPERTIES AssetsImmutable RerunsFinish
