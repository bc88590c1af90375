CONSTANTS
  Conn = {c1, c2, c3}
  Port = {p1, p2}
  Client = {a, b}
  Capacity = 1
  None = None
SPECIFICATION FairSpec
INVARIANTS TypeOK NoForeignSender RunningLoopOwnsPort ReplyReachesSender
PROPERTIES EofEndsRelay
