SPECIFICATION FairSpec
CONSTANTS
  Instances = {i1}
  Readers = {r1}
  Newer = {}
  NewerParses = TRUE
  Windows = TRUE
  IoErrors = FALSE
  Prompt = TRUE
  Ttl = 1
  MaxListing = 1
  Absent = Absent
PROPERTIES
  RunningIsAdvertised
  RemainsAreReclaimed
