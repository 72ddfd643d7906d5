\* Each part alone: three containers over one data root, three audio captures, a
\* recorder of four samples, two pages that listen, Crow captures, and so on.
SPECIFICATION Spec
CONSTANTS
  Containers = {c1, c2, c3}
  SharedKernel = FALSE
  NoOne = NoOne
  MaxKills = 1
  MaxCaptures = 2
  MaximumSamples = 4
  PageLimit = 2
  Pages = {p1, p2}
  NoPage = NoPage
  Ring = 1
  MaxBlocks = 2
  MaxStreams = 2
  MaxLost = 1
  MaxJobs = 3
  MaxInputs = 2
  MaxUnanswered = 2
  RecordSize = 2
  PageSize = 2
  MaxBytes = 9
  MaxReads = 4
  Editors = {e1, e2}
  CommandSize = 2
  Capacity = 2
  MaxCommands = 3
  MidiPorts = {1, 2}
  Writes <- MCWrites
  CaptureLimit = 4
  MaxEmissions = 3
  MaxConnectionChanges = 2
  Pids = {1, 2, 3}
  RootPid = 1
  MaxForks = 4
  MaxWork = 1
  MaxTreeSamples = 2
  Minute = 35
  Bpm = 7
  PulsesPerBeat = 2
  MaxNotes = 8
  Delays <- MCDelays
  Density = 1
  P99Limit = 3
  MaximumLimit = 3
  FinalLimit = 1
  MaxRows = 4
  Loads <- MCLoads
  SlopeWindow = 3
  MemoryLimit = 6
  Hosts <- MCHosts
  Flags = {"maiden", "reopen", "jack", "profile", "lua_profile", "quiet", "desktop", "arc",
           "timeout", "audio", "controlled", "install", "seed", "native", "data",
           "data_seeds", "port"}
  MaxGiven = 5
  MaxRestarts = 2
  Scenarios <- MCScenarios
  RunDeadline = 1
  StepTimeout = 1
  MaxBeats = 1
  EvidencePorts = {1, 2}
  EvidenceIds = {1, 2}
  EvidencePlans <- MCPlans
  MaxActions = 3
  MaxEvidenceTime = 1
  Outputs = {1, 2}
  MaxChanges = 1
  TickNum = 5
  TickDen = 2
  Scripts <- MCScripts
  Deltas = {0, 1, 4, 11}
  MaxTime = 12
  WorkLimit = 60
CHECK_DEADLOCK FALSE
INVARIANTS
  DataRootIsKept
  CapturesAreSettled
  RecordingIsExact
  ListeningIsExact
  CrowIsExact
  EditorsAreServed
  CaptureIsExact
  MeasurementsAreExact
  EvidenceIsEarned
  EvidenceIsExact
  AdvanceIsExact
