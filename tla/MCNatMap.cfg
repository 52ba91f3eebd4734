\* Two public and two private endpoints under two protocols, one of them
\* named by default; time enough for a binding to expire and be made again.
SPECIFICATION Spec
CONSTANTS
  Public = {p1, p2}
  Private = {a, b}
  Proto = {"", "udp"}
  Ttl = 2
  MaxTime = 3
INVARIANTS
  RevPointsHome
  InverseUnlessShared
PROPERTIES
  LivesOutItsTime
