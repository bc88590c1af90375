CONSTANTS
  Callers = {c1, c2}
  Capacity = 2
  MaxId = 3
  MaxStreams = 1
SPECIFICATION Spec
INVARIANTS TypeOK PermitsConserved
PROPERTIES ImplementsPool

SYMMETRY Symmetry
