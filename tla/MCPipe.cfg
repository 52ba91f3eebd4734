\* Two TCP peers; the system stops when Pipe has returned.
CONSTANTS
  InA = "a in"
  OutA = "a out"
  InB = "b in"
  OutB = "b out"
  HalfClosing = {}
  Counted = TRUE
  Window = 1
  MaxChunks = 2
SPECIFICATION FairSpec
INVARIANTS
  ReturnedMeansOver
  FirstToEndIsComplete
PROPERTY PipeReturns
CHECK_DEADLOCK FALSE
