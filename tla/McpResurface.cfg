\* Two concurrent calls on one name, capturing.
SPECIFICATION Spec
CONSTANTS
  Clients = {c1, c2}
  Names = {n1}
  Runs = {r1, r2}
  KeepLast = {1}
  DefaultCapacity = 2
  MaxMessages = 1
  None = None
SYMMETRY Symmetry
INVARIANT CapturedAreOwn
