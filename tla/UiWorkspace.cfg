INIT MCInit
NEXT MCNext
CONSTANTS
  Calls = {c1, c2}
  MaxId = 4
  MaxEdits = 3
  MaxRows = 2
  MaxSends = 2
  None = None
SYMMETRY Symmetry
CHECK_DEADLOCK FALSE
INVARIANTS
  EditsSurvive
  CleanMeansSaved
  ToggleHitsTheClicked
  ResendRepeats
