SPECIFICATION Spec
ACTION_CONSTRAINT Scenes
SYMMETRY Symmetry
CONSTANTS
  c1 = c1
  s1 = s1
  Calls = {c1}
  Tokens = {t1}
  None = None
  MaxHeld = 1
  Sessions = {s1, s2}
  Pins = {p1, p2}
  NumberOnly = {s1}
  PinAndNumber = {s2}
  Withheld = {}
  Sweep = sweep
  PinAttempts = 2
  MaxAsked = 4
  MaxOpens = 1
  MaxFaults = 0
  MaxCrashes = 1
  Webhooks = FALSE
  Ages = {}
  Lossy = FALSE
\* People hang up and rooms stay closed.
CHECK_DEADLOCK FALSE
INVARIANT DialInInv
