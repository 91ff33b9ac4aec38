\* Two calls at a time on two consumers.
SPECIFICATION FairSpec
CONSTANTS
  k1 = k1
  k2 = k2
  s1 = s1
  s2 = s2
  Clients = {c1, c2}
  Consumers = {k1, k2}
  Settings = {s1, s2}
  Enabled = {s1}
  Submitted <- SmallSubmitted
  None = None
  Torn = Torn
INVARIANTS
  EveryTaskIsTracked
  RunningFollowsConfig
  CopiesAgree
PROPERTIES
  SlotSpec
  CallsReturn
