SPECIFICATION Spec
SYMMETRY Symmetry
CONSTANTS
  MaxEgresses = 2
  People = {p1}
  Tracks = {t1}
  None = None
  EgressesFail = TRUE
  Handlers = {h1, h2}
  SessionCreate = FALSE
  Layout = "track"
  Voices = TRUE
  TakesDialIn = FALSE
  Manual = FALSE
  Faults = TRUE
  Redelivery = TRUE
  MaxCrashes = 0
CHECK_DEADLOCK FALSE
INVARIANTS StoppedIsOver TracksAreClaimed
