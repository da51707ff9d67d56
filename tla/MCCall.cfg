SPECIFICATION CallSpec
CONSTANTS
  p1 = p1
  q1 = q1
  x = x
  y = y
  z = z
  Kinds = {"user", "room", "cut", "call", "output"}
  Verbatim = 1
  Hard = 2
  Retry = 2
  Opening = 1
  MaxItems = 3
  MaxWordsSaid = 2
  MaxReplies0 = 2
  Callers = {p1, q1}
  NoCaller = NoCaller
  Requests = {x, y, z}
  NoRequestYet = NoRequestYet
  Confirmed = {x}
  Binding = {z}
  InBackground = {x}
  Tags = {"hi", "en"}
  FirstTag = "hi"
  NoTag = NoTag
  MaxTurns = 4
  Glyphs = {"a"}
  LongName = 1
  LongestHeld = 5
  MaxText = 5
  Heads = {p1, q1}
  Unpriced = {}
  MaxUse = 3
  MaxTurnsMet = 2
  Voices = {p1, q1}
  Nobody0 = Nobody0
  States = {"listening", "thinking"}
  Unknown = {"away"}
  MaxEmits = 3
  MaxSegments = 3
  Letters = {"a", "b"}
  MaxLetters = 5
  MaxChars = 5
  Vocabulary = {"asha", "ash", "dr", "hey", "is", "stop", "ok", "ach", "so"}
  MaxLine = 3
  Names <- MCNames
  Fuzzy = {"ash", "ach"}
  NearMisses = {"ach"}
  Particles = {"hey"}
  Followers = {"is"}
  StopLines <- MCStopLines
  Strays = {"so"}
  Phrases <- MCPhrases
  People0 = {p1, q1}
  TheAgent = TheAgent
  Named = {"a", "a2"}
  AgentLabel = "a"
  LabelFor <- MCLabelFor
  MaxPending = 1
  HeardLines = 1
  Backlog = 1
  MaxHeard = 3
  Recordings = {1, 2, 3}
  Began <- MCBegan
  Said0 <- MCSaid0
  Renderings = {"verbatim", "clean"}
  FilesPerJob = 2
  Known <- MCKnown
  Required <- MCRequired
  Drafts <- MCDrafts
  Edits <- MCEdits
  Base <- MCBase
  Written <- MCWritten
  Pool <- MCPool
  LocalLanguages = {"hi", "en"}
  Environment = {"SARVAM_API_KEY"}
  MaxChanges = 1
  Amounts <- MCAmounts
  MaxScaled = 200
  Hours = {0, 1, 2, 3, 4, 6, 7, 11, 12, 13, 15, 16, 18, 19, 23, 24}
  Minutes = {0, 1, 15, 30, 44, 45, 59, 60}
  Days = {0, 1, 31, 32}
  Months = {0, 1, 12, 13}
  Years = {0, 19, 24, 99, 1000, 1099, 1100, 1101, 1900, 1947, 1999, 2000, 2019, 2024, 2099}
  PhoneNumbers <- MCPhoneNumbers
  Words = {"a", "b"}
  MaxScored = 3
  Onset = 2
  Ticks = 9
  STOP_QUIET = 2
  CONTINUE_GAP = 3
  CONTINUE_WINDOW = 4
  SPEAKING_AT_ONSET = 2
  StopBudget = 3
  NotMeasured = NotMeasured
  Alphabet = {"a", "b"}
  MAX_HELD = 2
  MaxSpeech = 4
  MaxChunk = 4
  NoteTexts = {"p", "q", "r"}
  Summaries = {"p"}
  NoteLabels = {"a", "b", "c"}
  Transcribed = {"a", "b"}
  Tellable = {"a"}
  NoList = NoList
  DECISIONS = 1
  POINTS = 2
  SPEAKERS = 1
  AGENT_NOTES = 1
  MaxField = 2
  MaxTaken = 2
\* A call ends, and inputs are bounded.
CHECK_DEADLOCK FALSE
INVARIANTS RepliesInv ToolsInv LabelsAreTakenOut MeteringInv EventsInv WordingInv ScribeInv AfterCallInv PlanInv ReadsBack EvalsInv StreamsInv EverybodysPoints
