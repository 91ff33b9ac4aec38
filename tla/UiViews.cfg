INIT MCInit
NEXT MCNext
CONSTANTS
  MaxEdits = 3
  MaxDialogs = 4
  Count = 2
  HeaderNames = {"", "k"}
  HeaderValues = {"", "v"}
  Bodies = {"", " ", "p"}
  MaxRows = 2
  MaxTurns = 4
  MaxEntries = 3
  MaxSwitches = 2
  MaxMoves = 3
  MaxMessages = 2
  MaxChanges = 3
  MaxEvents = 3
  Sends = {s1, s2}
  Names = {n1}
  MaxId = 2
  MaxSends = 2
  None = None
SYMMETRY Symmetry
INVARIANTS EachIsListedOnce FormSavesWhatIsMeant HistoryIsAsPromised NavigationSettles EachIsAnswered AnswersAreFiled ResponseIsOfSelected SendingIsUnderWay RowsAreKept FaultIsNamed PayloadIsMeant
PROPERTIES ImportKeeps ReferencesKeep
CHECK_DEADLOCK FALSE
