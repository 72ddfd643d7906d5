\* Two sessions over one dataset, the first of them with an editor.
SPECIFICATION Spec
CONSTANTS
  Sessions = {1, 2}
  Services <- TwoServices
  Editors = {1}
  External = External
  Datasets <- OneDataset
  None = None
  MaxFaults = 2
  MaxCrashes = 1
CHECK_DEADLOCK FALSE
INVARIANT
  SigtermUnwindsInitialization
