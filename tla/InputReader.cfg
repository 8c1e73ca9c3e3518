SPECIFICATION FairSpec
CONSTANTS
  Capacity = 2
  MaxTyped = 3
CHECK_DEADLOCK FALSE
INVARIANTS InputTypeOK EventsInOrder NoEventLost TerminalHeldWhileReading
PROPERTIES NeverParksAgain ShutdownEnds ImplementsKeyQueue
