\* The deadlines of one batch in a real-time session with one port.
SPECIFICATION FairSpec
CONSTANTS
  p1 = p1
  p2 = p2
  Ports = {p1}
  Tokens <- MCTokens
  MaxEvents = 3
  Horizon = 2
  Ids = {1}
  Batches <- OneBatch
  Spans = {}
  Immediate = {"whole"}
  MaxTime = 3
  Modes = {"real-time"}
  NoBatch = NoBatch
CHECK_DEADLOCK FALSE
PROPERTY BatchEnds
