SPECIFICATION AppSpec
CONSTANTS
  c1 = c1
  c2 = c2
  c3 = c3
  None = None
  Container <- MCContainer
  Char <- MCChar
  Pressed <- MCPressed
  FilterChar <- MCFilterChar
  MaxFilter = 1
  Needle <- MCNeedle
  Areas <- MCAreas
SYMMETRY MCSymmetry
CONSTRAINT MCBound
CHECK_DEADLOCK FALSE
INVARIANTS AppTypeOK SelectionVisible PanelFits
PROPERTIES SelectionFollowsIdentifier KeyActsOnHighlight TransientErrorKeepsTable
