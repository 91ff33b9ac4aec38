\* One caller, two names, three routes.
SPECIFICATION Spec
CONSTANTS
  Clients = {c1}
  Names = {n1, n2}
  Runs = {r1, r2, r3}
  KeepLast = {0, 2}
  DefaultCapacity = 2
  MaxMessages = 2
  None = None
SYMMETRY Symmetry
INVARIANTS
  TotalsAreTrue
  CapturedAreOwn
