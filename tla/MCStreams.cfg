\* Two streams for one slot, over any number of sessions.
CONSTANTS
  Callers = {g1, g2}
  Cancellable = {g1, g2}
  Conns = {c1, c2}
  NoConn = NoConn
  MaxActive = 1
  MaxIdle = 1
SPECIFICATION StreamSpec
PROPERTIES
  GetReturns
  SlotsComeBack
  AgentDrains
CHECK_DEADLOCK FALSE
