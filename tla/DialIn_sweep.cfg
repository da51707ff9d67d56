SPECIFICATION FairSpec
CONSTANTS
  Calls = {"c1"}
  Tokens = {t1}
  None = None
  MaxHeld = 1
  Sessions = {"s1"}
  Pins = {p1}
  NumberOnly = {}
  PinAndNumber = {}
  Withheld = {"c1"}
  Sweep = sweep
  PinAttempts = 2
  MaxAsked = 2
  MaxOpens = 2
  MaxFaults = 1
  MaxCrashes = 1
  Webhooks = TRUE
  Ages = {"s1"}
  Lossy = TRUE
\* People hang up and rooms stay closed.
CHECK_DEADLOCK FALSE
PROPERTIES EndsOnlyAfterRun RanMeetingEnds
