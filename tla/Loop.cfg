SPECIFICATION LoopSpec
CONSTANTS
  c1 = c1
  c2 = c2
  s1 = s1
  s2 = s2
  s3 = s3
  None = None
  Container <- MCContainer
  Slot <- MCSlots
  MaxLate = 0
  Capacity = 3
  Char <- MCChar
  Pressed <- MCKeys
  FilterChar <- MCFilterChar
  MaxFilter = 1
  Needle <- MCNeedle
SYMMETRY MCSymmetry
CONSTRAINT MCBound
CHECK_DEADLOCK FALSE
INVARIANT RepliesQueued
PROPERTY ActsOnAim
