CONSTANTS
  Base = 4
  MaxPayload = 6
  Paths = 2
  Window = 2
  WssTimeout = 4
  MaxChunks = 1
  Association = 2
  Client <- MCClient
  Packet <- MCPacket
  Answer <- MCAnswer
SPECIFICATION FairSpec
INVARIANTS TypeOK AckMeansServed FramesDecode
PROPERTIES AttemptsEnd HandlerEndsAfterClient IsBestEffort
