\* One agent, three control connections, three faults; it stops when the agent has.
SPECIFICATION FairTunnelSpec
CONSTANTS
  Handlers = {k1, k2, k3}
  client = agent1
  None = None
  MaxFaults = 3
INVARIANTS
  BackoffFollowsFailures
  ReadyMeansSession
PROPERTIES
  TunnelRestored
  AgentStops
CHECK_DEADLOCK FALSE
