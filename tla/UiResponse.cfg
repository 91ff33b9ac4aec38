\* A user who chooses what two consumers answer, and saves.
CONSTANTS
  Count = 2
  HeaderNames = {"", "k"}
  HeaderValues = {"", "v"}
  Bodies = {"", " ", "p"}
  MaxRows = 1
  MaxTurns = 4
SPECIFICATION ResponseSpec
INVARIANT ChosenModeIsSaved
CHECK_DEADLOCK FALSE
