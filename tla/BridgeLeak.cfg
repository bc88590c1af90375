CONSTANTS
  Request = {r1, r2}
  QueueLimit = 1
  Capacity = 1
  MaxStreams = 2
SPECIFICATION Spec
INVARIANTS NoLeakedSession
SYMMETRY Symmetry
