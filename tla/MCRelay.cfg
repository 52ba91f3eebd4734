\* One chunk each way, one fault; the system stops when both Pipes have returned.
CONSTANTS
  Window = 1
  MaxChunks = 1
  MaxFaults = 1
SPECIFICATION FairPathSpec
INVARIANTS
  RequestHeard
  ResponseHeard
PROPERTY PathIsTornDown
CHECK_DEADLOCK FALSE
