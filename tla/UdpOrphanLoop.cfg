CONSTANTS
  Conn = {c1, c2}
  Port = {p1}
  Client = {a}
  Capacity = 1
  None = None
SPECIFICATION FairSpec
PROPERTIES LoopEndsWithControl
