\* One slot for three callers, one of whom may be cancelled.
CONSTANTS
  Callers = {g1, g2, g3}
  Cancellable = {g3}
  Conns = {c1, c2, c3, c4}
  NoConn = NoConn
  MaxActive = 1
  MaxIdle = 1
SPECIFICATION Spec
SYMMETRY Interchangeable
INVARIANTS
  SlotsAccounted
  OneOwner
  SocketBudget
  ClosedKeepsNothing
  NoStrandedWaiter
  SleepersAreTimed
PROPERTY KeepsBudget
