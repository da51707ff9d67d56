SPECIFICATION ControlSpec
CONSTANTS
  c1 = c1
  c2 = c2
  Calls = {c1, c2}
  Tokens = {t1, t2}
  None = None
  MaxHeld = 1
  Handlers = {h1, h2}
  MaxAnswers = 3
  MaxLegs = 2
  MaxCrashes = 1
  Lossy = TRUE
  Overlap = FALSE
  Faults = TRUE
  Ambiguous = TRUE
  s1 = s1
  s2 = s2
  Servers = {s1, s2}
  GitDocs = {"g"}
  EditableDocs = {"a", "b"}
  Values = {1, 2}
  Gone = Gone
  Clashes <- MCClashes
  Catalogs <- MCCatalogs
  Edits <- MCEdits
  MaxRevisions = 4
  MaxReleases = 3
  MaxFaults = 1
  MaxStarts = 2
\* A call ends, a process exits for the last time, and revisions are bounded.
CHECK_DEADLOCK FALSE
INVARIANTS HeldInv EveryEntryExpires ConfigInv
PROPERTIES HeldIsDialed RunsTheNewest ImplementsReleases
