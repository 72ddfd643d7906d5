\* Two schedules in a row beside a browser that plays an arc.
SPECIFICATION Spec
CONSTANTS
  k1 = k1
  g1 = g1
  c1 = c1
  c2 = c2
  Clients = {c1}
  Automation = Automation
  Nobody = Nobody
  Keys = {k1}
  GridKeys = {}
  ArcKeys = {g1}
  Kinds <- WithArc
  Plans <- OneKey
  ClientLimit = 1
  MaxSchedules = 2
  Terminates = FALSE
INVARIANTS
  OwnedInputsAreHeld
