SPECIFICATION Spec
CONSTANTS
  c1 = c1
  c2 = c2
  s1 = s1
  s2 = s2
  s3 = s3
  None = None
  Container <- MCOneContainer
  Slot <- MCThreeSlots
  MaxLate = 0
  Char <- MCChar
  Pressed <- MCScopeKeys
  FilterChar <- MCFilterChar
  MaxFilter = 1
  Needle <- MCNeedle
CHECK_DEADLOCK FALSE
INVARIANT ListMatchesScope
