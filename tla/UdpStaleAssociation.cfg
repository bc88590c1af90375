CONSTANTS
  Conn = {c1, c2}
  Port = {p1}
  Client = {a, b}
  Capacity = 2
  None = None
SPECIFICATION Spec
INVARIANTS FreshAssociation
SYMMETRY Symmetry
