\* What both peers of a byte-stream relay would expect.
CONSTANTS
  InA = "a in"
  OutA = "a out"
  InB = "b in"
  OutB = "b out"
  HalfClosing = {}
  Counted = TRUE
  Window = 1
  MaxChunks = 2
SPECIFICATION Spec
INVARIANT NothingTruncated
CHECK_DEADLOCK FALSE
