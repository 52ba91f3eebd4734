\* Four ports for two owners, and requests for the ports next to the range.
SPECIFICATION Spec
CONSTANTS
  min = 2
  max = 5
  Owner = {o1, o2}
INVARIANTS
  AvailableIsExact
PROPERTIES
  AllocGoesRound
