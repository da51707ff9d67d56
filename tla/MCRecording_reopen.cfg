SPECIFICATION Spec
CONSTANTS
  MaxEgresses = 2
  People = {p1}
  Tracks = {}
  None = None
  EgressesFail = FALSE
  Handlers = {h1, h2}
  SessionCreate = TRUE
  Layout = "room_composite"
  Voices = FALSE
  TakesDialIn = FALSE
  Manual = FALSE
  Faults = FALSE
  Redelivery = FALSE
  MaxCrashes = 0
CHECK_DEADLOCK FALSE
PROPERTY EndedCallStaysClosed
