CONSTANTS
  c1 = c1
  c2 = c2
  c3 = c3
  Callers = {c1, c2, c3}
  Capacity = 1
  MaxId = 2
  MaxStreams = 3
  Clients <- MCClients
SPECIFICATION FairSpec
INVARIANTS TypeOK StreamCountMatches ClosedReportedOnce RetiredIsClosed
PROPERTIES EndedSessionsRefuse ClosedIsTerminal ClosedIsRetired
