\* Three bytes of room, slices of up to four, and chunks of two, so that
\* WriteTo and ReadFrom need several rounds and both ends wrap around.
SPECIFICATION Spec
CONSTANTS
  Byte = {a, b}
  Capacity = 3
  Chunk = 2
  MaxLen = 4
INVARIANTS
  RingOK
PROPERTIES
  ImplementsFifo
