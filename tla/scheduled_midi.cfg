\* A session with two MIDI ports, in either clock mode.
SPECIFICATION Spec
CONSTANTS
  p1 = p1
  p2 = p2
  Ports = {p1, p2}
  Tokens <- MCTokens
  MaxEvents = 3
  Horizon = 2
  Ids = {1, 2}
  Batches <- MCBatches
  Spans = {1, 2}
  Immediate = {"start"}
  MaxTime = 2
  Modes = {"real-time", "controlled"}
  NoBatch = NoBatch
CHECK_DEADLOCK FALSE
INVARIANTS
  TypeOK
  ServerKnowsTheRuntime
  RuntimeSurvives
  DecodersAgree
  NothingSurvivesRemoval
PROPERTIES
  PromiseKept
  LogicalDeliveryIsExact
  EndDiscardsPending
