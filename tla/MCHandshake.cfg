\* Headers of four bytes, bodies of up to three, two bytes of yamux each way.
CONSTANTS
  HeaderLen = 4
  MaxFrame = 3
  MaxMux = 2
  Requests <- RequestsMC
  Tokens <- TokensMC
SPECIFICATION FairSpec
INVARIANTS
  StreamsLineUp
  SessionIsUntimed
PROPERTIES
  KeepsAdmission
  EndsTogether
\* Both ends have closed the connection.
CHECK_DEADLOCK FALSE
