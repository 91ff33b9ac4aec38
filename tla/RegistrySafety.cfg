SPECIFICATION Spec
CONSTANTS
  Instances = {i1}
  Readers = {r1}
  Newer = {}
  NewerParses = TRUE
  Windows = FALSE
  IoErrors = TRUE
  Prompt = FALSE
  Ttl = 2
  MaxListing = 1
  Absent = Absent
INVARIANTS
  ReleasedStaysGone
  CrashedRowsExpire
  FreshPeersAreListed
