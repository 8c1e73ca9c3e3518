SPECIFICATION Spec
CONSTANTS
  Tick = 5
  Trials <- MCTrials
INVARIANTS CliTypeOK InvalidOpensNoSocket DesignatedSocketOnly WithinDeadlines SuccessHolds
