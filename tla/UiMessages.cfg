CONSTANTS
  NumConsumers = 1
  Polls <- TwoPolls
  Timer <- timer
  NumFetches = 2
  KeepLast = {1, 2}
  Buffer = 1
  MaxMessages = 2
  MaxEvents = 2
  None = None
  timer = timer
  direct = direct
SPECIFICATION Spec
CHECK_DEADLOCK FALSE
INVARIANTS
  EachMessageOnePlace
PROPERTY CapturedIsCollected
