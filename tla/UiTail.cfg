CONSTANTS
  NumConsumers = 1
  Polls <- TwoPolls
  Timer <- timer
  NumFetches = 2
  KeepLast = {1, 2}
  Buffer = 1
  MaxMessages = 1
  MaxEvents = 1
  None = None
  timer = timer
  direct = direct
SPECIFICATION Spec
CHECK_DEADLOCK FALSE
PROPERTY FinishedTailIsFetched
