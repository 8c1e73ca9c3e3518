SPECIFICATION FairSpec
CONSTANTS
  c1 = c1
  c2 = c2
  s1 = s1
  s2 = s2
  s3 = s3
  None = None
  Container <- MCOneContainer
  Slot <- MCTwoSlots
  MaxLate = 1
  Char <- MCChar
  Pressed <- MCLiveKeys
  FilterChar <- MCFilterChar
  MaxFilter = 1
  Needle <- MCNeedle
CHECK_DEADLOCK FALSE
INVARIANTS LoadingHasRefresh EmptyPanelHasInspect
PROPERTIES GateSpec QuietWhenIdle LoadingEnds
