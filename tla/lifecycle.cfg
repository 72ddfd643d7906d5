\* Two sessions over one dataset or two, the first of them with an editor.
SPECIFICATION FairSpec
CONSTANTS
  Sessions = {1, 2}
  Services <- TwoServices
  Editors = {1}
  External = External
  Datasets <- TwoDatasets
  None = None
  MaxFaults = 1
  MaxCrashes = 1
CHECK_DEADLOCK FALSE
INVARIANTS
  TypeOK
  OneWriter
  LockCoversStartup
  SurvivorsAreExplained
  ClosedSessionKeepsLease
  SuccessorFindsDatasetFree
PROPERTIES
  FailedStartEnds
