\* One browser and a schedule; SIGTERM may come at any moment.
SPECIFICATION FairSpec
CONSTANTS
  k1 = k1
  g1 = g1
  c1 = c1
  c2 = c2
  Automation = Automation
  Nobody = Nobody
  Clients = {c1}
  Keys = {k1}
  GridKeys = {}
  ArcKeys = {}
  Kinds <- HoldsAndSchedules
  Plans <- OneKey
  ClientLimit = 1
  MaxSchedules = 1
  Terminates = TRUE
INVARIANTS
  OwnedInputHasLease
  ScheduleExcludesOwners
PROPERTIES
  ScheduleEnds
  CloseEndsEventually
  LapsedLeaseIsReleasedUnscheduled
