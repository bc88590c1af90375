CONSTANTS
  Request = {r1, r2, r3}
  QueueLimit = 1
  Capacity = 2
  MaxStreams = 2
SPECIFICATION FairSpecPeersRead
INVARIANTS TypeOK RepliesTruthful PumpOwnsSession
PROPERTIES EventuallyAnswered ShutdownCompletes
