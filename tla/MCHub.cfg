\* Two control connections of two clients, a visitor, two calls of openStream,
\* a status request, with the fairness the scheduler gives.
SPECIFICATION FairSpec
CONSTANTS
  Handlers = {k1, k2}
  Clients = {c1, c2}
  Visitors = {v1}
  None = None
  MaxVisits = 2
INVARIANTS
  GaugeCounts
  OneRegistered
  SessionHasKeeper
  StreamsAreOnCurrent
  ReportIsCoherent
PROPERTIES
  KeepsOpenSession
  DeadSessionIsCleared
  NobodyIsLeftBehind
\* The hub stops for good once Run has returned and its handlers are done.
CHECK_DEADLOCK FALSE
