SPECIFICATION FairSpec
CONSTANTS
  Capacity = 1
  MaxTyped = 1
CHECK_DEADLOCK FALSE
PROPERTY ReaderDeathEndsLoop
