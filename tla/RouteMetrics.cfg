\* Three callers and the sampler on one key; two handlers and two drains on a
\* buffer of two.
SPECIFICATION MCSpec
CONSTANTS
  Keys = {k1}
  Tasks = {t1, t2, t3}
  MaxTime = 2
  MaxCount = 2
  None = None
  Pushers = {p1, p2}
  Readers = {r1, r2}
  Capacity = 2
  MaxPushed = 4
CHECK_DEADLOCK FALSE
INVARIANTS
  SamplesFollowCounters
  EachMessageOnce
  PushesKeepTheLast
PROPERTIES
  CallsReturn
