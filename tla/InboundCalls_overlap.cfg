SPECIFICATION Spec
CONSTANTS
  Calls = {c1}
  Tokens = {t1, t2}
  None = None
  MaxHeld = 2
  Handlers = {h1, h2}
  MaxAnswers = 2
  MaxLegs = 0
  MaxCrashes = 0
  Lossy = FALSE
  Overlap = TRUE
  Faults = FALSE
  Ambiguous = FALSE
\* A call ends, and with it what the carrier has to say.
CHECK_DEADLOCK FALSE
INVARIANTS OneSessionPerCall
