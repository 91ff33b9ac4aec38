\* Two concurrent calls, two routes, one name; no symmetry, as liveness is checked.
SPECIFICATION FairSpec
CONSTANTS
  Clients = {c1, c2}
  Names = {n1}
  Runs = {r1, r2}
  KeepLast = {0, 1}
  DefaultCapacity = 2
  MaxMessages = 1
  None = None
INVARIANTS
  NoOrphanRoute
  ReservationIsExclusive
  QuiescentNameIsClean
PROPERTIES
  SlotSpec
  NamesAreReleased
