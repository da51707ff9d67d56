SPECIFICATION TalkSpec
CONSTANTS
  a = a
  b = b
  Speakers = {a, b}
  None = None
  BusyWords = 2
  MaxLines = 3
  People = {a, b}
  Nobody = Nobody
  Enough = 2
  MaxVoices = 4
  Phrases <- MCPhrases
  Texts <- MCTexts
  StartOf <- MCStartOf
  MaxWords = 2
  AnswerWithin = 1
  MaxEvents = 5
  MaxReplies = 2
  MaxPlayed = 3
  Says <- MCSays
  Hears <- MCHears
  Alike = {}
  Stops <- MCStops
  Quoted = 2
  NewWords = 2
  MostRepeats = 2
  Kept = 2
  KeptSpeeches = 1
  Grace = 1
  MaxSpeeches = 2
  MaxNow = 3
  Listeners = {a, b}
  FillerPhrases <- MCFillerPhrases
  MaxThoughts = 3
  Phone = {"p1", "p2"}
  Browser = {"b1", "b2"}
  NoLink = "nobody"
  Discloses = TRUE
  Greets = TRUE
  OnAPhone = FALSE
  TakesCalls = TRUE
\* A call ends, and inputs are bounded.
CHECK_DEADLOCK FALSE
INVARIANTS GateInv CalledInv SieveInv EchoOnlyOverHerVoice DueInSilentThought
PROPERTIES GoesDormant PausedForCallerSettles EveryPhoneIsTold
