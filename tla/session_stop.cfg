\* Two browsers and an automation client; the session ends by /stop.
SPECIFICATION Spec
CONSTANTS
  k1 = k1
  g1 = g1
  c1 = c1
  c2 = c2
  Clients = {c1, c2}
  Automation = Automation
  Nobody = Nobody
  Keys = {k1}
  GridKeys = {g1}
  ArcKeys = {}
  Kinds <- AnyKind
  Plans <- Phrase
  ClientLimit = 2
  MaxSchedules = 1
  Terminates = FALSE
SYMMETRY ClientSymmetry
INVARIANTS
  TypeOK
  OwnedInputsAreHeld
  PlannedKeysStayLegal
  JournalIsExactWhileOpen
  ShutdownRecordsCancellation
PROPERTIES
  ReleaseKeepsForeignInputs
  ClosedSessionTakesNoInput
