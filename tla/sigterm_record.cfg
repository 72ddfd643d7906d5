\* SIGTERM while a control schedule is active.
SPECIFICATION Spec
CONSTANTS
  k1 = k1
  g1 = g1
  c1 = c1
  c2 = c2
  Clients = {c1}
  Automation = Automation
  Nobody = Nobody
  Keys = {k1}
  GridKeys = {}
  ArcKeys = {}
  Kinds <- HoldsAndSchedules
  Plans <- OneKey
  ClientLimit = 1
  MaxSchedules = 1
  Terminates = TRUE
INVARIANT ShutdownRecordsCancellation
