SPECIFICATION Spec
SYMMETRY Symmetry
CONSTANTS
  MaxEgresses = 2
  People = {p1}
  Tracks = {}
  None = None
  EgressesFail = TRUE
  Handlers = {h1, h2}
  SessionCreate = TRUE
  Layout = "room_composite"
  Voices = FALSE
  TakesDialIn = TRUE
  Manual = FALSE
  Faults = TRUE
  Redelivery = FALSE
  MaxCrashes = 1
CHECK_DEADLOCK FALSE
INVARIANTS LockInv OneAutoRecording
