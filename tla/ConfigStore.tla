------------------------------ MODULE ConfigStore ------------------------------
(***************************************************************************)
(* The configuration store of go/internal/configstore: append-only         *)
(* revisions of documents, releases that name one revision of each, and    *)
(* the snapshot of the newest release that every process resolves with.    *)
(* The heads of all documents are the draft.  An editor does one thing at  *)
(* a time, under a mutex of its process alone; every call to the store is  *)
(* a step, and one transaction.  A document is a value; which values do    *)
(* not go together is the constant Clashes (configcheck resolves every     *)
(* combination of them).                                                   *)
(***************************************************************************)
EXTENDS Naturals, Sequences, FiniteSets

CONSTANTS
  Servers,       \* control processes on one store
  GitDocs,       \* documents kept in git (config.GitKinds)
  EditableDocs,  \* documents edited through the admin API
  Values,        \* what a document says
  Gone,          \* the document is not there, or deleted
  Clashes,       \* functions from documents to values that do not load together
  Catalogs,      \* what catalog.json says: a value, or Gone, for each document
  Edits,         \* what people ask for: an editable document and its new value, or Gone
  MaxRevisions, MaxReleases, MaxFaults, MaxStarts

Documents == GitDocs \cup EditableDocs
DocumentSets == [Documents -> Values \cup {Gone}]

ASSUME DocsAssumption == GitDocs \cap EditableDocs = {}
ASSUME ValuesAssumption == Gone \notin Values
ASSUME ClashesAssumption == \A c \in Clashes : DOMAIN c \subseteq Documents
ASSUME CatalogsAssumption == Catalogs \subseteq DocumentSets
ASSUME EditsAssumption == Edits \subseteq EditableDocs \X (Values \cup {Gone})

VARIABLES
  revisions,  \* config_revisions, the id is the place: [doc, says]
  releases,   \* config_releases with their members, the id is the place; the last is live
  edit,       \* edit[s]: what the editor of s is about to do under its mutex
  running,    \* running[s]: the release of the snapshot, 0 while there is none
  loading,    \* loading[s][r]: the live release r has read, 0 unless r holds Live.mu
  unread,        \* unread[s]: a published release the admin handler has yet to swap in
  overlapped, \* two processes have been up at once
  faults, starts

configVars == <<revisions, releases, edit, running, loading, unread, overlapped, faults, starts>>
restVars == <<running, loading, unread, overlapped, faults, starts>>

Refreshers == {"poller", "handler"}
AtRest == [at |-> "rest", by |-> "nobody", want |-> [d \in Documents |-> Gone], left |-> {},
           members |-> {}, to |-> 0]

ConfigInit ==
  /\ revisions = <<>> /\ releases = <<>>
  /\ edit = [s \in Servers |-> AtRest]
  /\ running = [s \in Servers |-> 0]
  /\ loading = [s \in Servers |-> [r \in Refreshers |-> 0]]
  /\ unread = [s \in Servers |-> FALSE]
  /\ overlapped = FALSE
  /\ faults = 0 /\ starts = 0

Up(s) == running[s] # 0
Down(s) == ~Up(s) /\ edit[s] = AtRest
MayEdit(s) == Up(s) /\ edit[s] = AtRest

\* The documents a set of revisions holds.
DocumentsOf(ids) ==
  [d \in Documents |-> IF \E i \in ids : revisions[i].doc = d
                       THEN revisions[CHOOSE i \in ids : revisions[i].doc = d].says ELSE Gone]

\* The revision of each document that was stored last, unless it deletes it.
Heads ==
  {i \in DOMAIN revisions :
     /\ revisions[i].says # Gone
     /\ \A j \in DOMAIN revisions : revisions[j].doc = revisions[i].doc => j <= i}

Live == Len(releases)
Holds(n) == DocumentsOf(releases[n].members)

\* configcheck.All
Loads(docs) == \A c \in Clashes : \E d \in DOMAIN c : docs[d] # c[d]
Loadable == {docs \in DocumentSets : Loads(docs)}
\* configcheck.Write: a deletion is checked with everything that is left, a new
\* value with what it is combined with.
Accepts(docs, d, v) ==
  LET next == [docs EXCEPT ![d] = v]
  IN  IF v = Gone THEN docs[d] # Gone /\ Loads(next)
      ELSE \A c \in Clashes : d \in DOMAIN c => \E e \in DOMAIN c : next[e] # c[e]

\* What has to be written for the documents to become those wanted.
Differing(docs, have, want) == {<<d, want[d]>> : d \in {e \in docs : have[e] # want[e]}}

----------------------------------------------------------------------------
(***************************************************************************)
(* The editor: edits of the draft.                                         *)
(***************************************************************************)

\* Put and Delete: the draft is read and the change checked against it.
Change(s, d, v) ==
  /\ MayEdit(s)
  /\ Accepts(DocumentsOf(Heads), d, v)
  /\ edit' = [edit EXCEPT ![s].at = "put", ![s].by = "change", ![s].left = {<<d, v>>}]
  /\ UNCHANGED <<revisions, releases, restVars>>

\* Restore reads what was deleted, and what it said before.
Restore(s, d) ==
  LET of == {i \in DOMAIN revisions : revisions[i].doc = d}
      said == {i \in of : revisions[i].says # Gone}
  IN  /\ MayEdit(s)
      /\ said # {} /\ of \cap Heads = {}
      /\ \E last \in said :
           /\ \A i \in said : i <= last
           /\ edit' = [edit EXCEPT ![s].at = "draft", ![s].by = "change",
                                   ![s].left = {<<d, revisions[last].says>>}]
      /\ UNCHANGED <<revisions, releases, restVars>>

\* ... and checks it against the draft like any change.
CheckRestored(s) ==
  /\ edit[s].at = "draft"
  /\ \E w \in edit[s].left :
       edit' = [edit EXCEPT ![s] = IF Accepts(DocumentsOf(Heads), w[1], w[2])
                                   THEN [@ EXCEPT !.at = "put"] ELSE AtRest]
  /\ UNCHANGED <<revisions, releases, restVars>>

\* Where an editor goes on once it has nothing left to write.
Written(e) ==
  CASE e.by = "change" -> AtRest
    [] e.by = "import" -> [e EXCEPT !.at = "publish"]
    [] OTHER -> [e EXCEPT !.at = "heads"]

\* Store.Put.  Documents are stored before others are deleted.  An import
\* publishes what it stored.
Put(s, w) ==
  LET id == Len(revisions) + 1
      e == [edit[s] EXCEPT !.left = @ \ {w},
              !.members = IF edit[s].by = "import" /\ w[2] # Gone THEN @ \cup {id} ELSE @]
  IN  /\ edit[s].at = "put"
      /\ w \in edit[s].left
      /\ w[2] = Gone => \A x \in edit[s].left : x[2] = Gone
      /\ id <= MaxRevisions
      /\ revisions' = Append(revisions, [doc |-> w[1], says |-> w[2]])
      /\ edit' = [edit EXCEPT ![s] = IF e.left = {} THEN Written(e) ELSE e]
      /\ UNCHANGED <<releases, restVars>>

----------------------------------------------------------------------------
(***************************************************************************)
(* The editor: releases.                                                   *)
(***************************************************************************)

\* Publish reads the draft, ...
Publish(s) ==
  /\ MayEdit(s)
  /\ edit' = [edit EXCEPT ![s].at = "live", ![s].by = "publish", ![s].members = Heads]
  /\ UNCHANGED <<revisions, releases, restVars>>

\* ... and then the live release; a draft that is live or does not load stays.
CheckDraft(s) ==
  /\ edit[s].at = "live"
  /\ edit' = [edit EXCEPT ![s] =
       IF @.members # releases[Live].members /\ Loads(DocumentsOf(@.members))
       THEN [@ EXCEPT !.at = "publish"] ELSE AtRest]
  /\ UNCHANGED <<revisions, releases, restVars>>

\* Rollback reads a release and the live one, whose git documents it keeps.
Rollback(s, n) ==
  LET want == [d \in Documents |-> IF d \in GitDocs THEN Holds(Live)[d] ELSE Holds(n)[d]]
  IN  /\ MayEdit(s)
      /\ Loads(want)
      /\ edit' = [edit EXCEPT ![s].at = "converge", ![s].by = "rollback", ![s].want = want,
                              ![s].to = n]
      /\ UNCHANGED <<revisions, releases, restVars>>

\* converge reads the draft and finds what differs from the documents wanted.
Converge(s) ==
  LET left == Differing(Documents, DocumentsOf(Heads), edit[s].want)
  IN  /\ edit[s].at = "converge"
      /\ edit' = [edit EXCEPT ![s].at = IF left = {} THEN "heads" ELSE "put", ![s].left = left]
      /\ UNCHANGED <<revisions, releases, restVars>>

\* converge reads the draft again, for the release to name its revisions.
Reread(s) ==
  /\ edit[s].at = "heads"
  /\ edit' = [edit EXCEPT ![s].at = "publish", ![s].members = Heads]
  /\ UNCHANGED <<revisions, releases, restVars>>

\* checkMembers
Publishable(ids) ==
  \A i \in ids : /\ i \in DOMAIN revisions
                 /\ revisions[i].says # Gone
                 /\ \A j \in ids : revisions[j].doc = revisions[i].doc => j = i

\* Store.Publish makes the release and makes it live.  A process that starts
\* goes on to load it, the admin handler to swap it in.
StorePublish(s) ==
  LET by == edit[s].by
  IN  /\ edit[s].at = "publish"
      /\ Publishable(edit[s].members)
      /\ Live < MaxReleases
      /\ releases' = Append(releases, [members |-> edit[s].members, by |-> by, to |-> edit[s].to])
      /\ edit' = [edit EXCEPT ![s] = IF Up(s) THEN AtRest ELSE [AtRest EXCEPT !.at = "load"]]
      /\ unread' = [unread EXCEPT ![s] = Up(s)]
      /\ UNCHANGED <<revisions, running, loading, overlapped, faults, starts>>

\* A call to the store fails, and what the editor was at ends there; a process
\* that starts exits.
StoreFails(s) ==
  /\ edit[s].at \notin {"rest", "load"}
  /\ faults < MaxFaults
  /\ faults' = faults + 1
  /\ edit' = [edit EXCEPT ![s] = AtRest]
  /\ UNCHANGED <<revisions, releases, running, loading, unread, overlapped, starts>>

----------------------------------------------------------------------------
(***************************************************************************)
(* A process starts: the store is seeded, or git's documents imported.     *)
(***************************************************************************)

\* The first process to start publishes the whole catalog.
Seed(s, catalog) ==
  /\ releases = <<>>
  /\ Loads(catalog)
  /\ edit' = [edit EXCEPT ![s].at = "converge", ![s].by = "seed", ![s].want = catalog]

\* Mutated form: the release of the import names the drafts too.
importedDrafts(desired) == {i \in Heads : revisions[i].doc \in EditableDocs}

\* Of the live release, what is edited and what git has not changed stays.
imported(desired) ==
  {i \in releases[Live].members :
     revisions[i].doc \in EditableDocs \/ revisions[i].says = desired[revisions[i].doc]}

\* Later ones publish what changed in git, over the live release.
ImportGitKinds(s, catalog) ==
  LET have == Holds(Live)
      desired == [d \in Documents |-> IF d \in GitDocs THEN catalog[d] ELSE have[d]]
  IN  /\ releases # <<>>
      /\ desired # have => Loads(desired)
      /\ edit' = [edit EXCEPT ![s] =
           IF desired = have THEN [@ EXCEPT !.at = "load"]
           ELSE [@ EXCEPT !.at = "put", !.by = "import", !.members = imported(desired),
                          !.left = Differing(GitDocs, have, desired)]]

Start(s) ==
  /\ Down(s)
  /\ starts < MaxStarts
  /\ starts' = starts + 1
  /\ \E catalog \in Catalogs : Seed(s, catalog) \/ ImportGitKinds(s, catalog)
  /\ overlapped' = (overlapped \/ \E t \in Servers \ {s} : ~Down(t))
  /\ UNCHANGED <<revisions, releases, running, loading, unread, faults>>

\* The process ends, at whatever it was.
Exit(s) ==
  /\ ~Down(s)
  /\ edit' = [edit EXCEPT ![s] = AtRest]
  /\ running' = [running EXCEPT ![s] = 0]
  /\ loading' = [loading EXCEPT ![s] = [r \in Refreshers |-> 0]]
  /\ unread' = [unread EXCEPT ![s] = FALSE]
  /\ UNCHANGED <<revisions, releases, overlapped, faults, starts>>

----------------------------------------------------------------------------
(***************************************************************************)
(* Live.Refresh, under a mutex of its own: NewLive's, the poller's, and    *)
(* the admin handler's after it published.                                 *)
(***************************************************************************)

\* Mutated form: nobody waits for l.mu.
MutexIgnored(s) == TRUE

\* l.mu is free.
MutexFree(s) == \A r \in Refreshers : loading[s][r] = 0

\* Mutated form: the watcher ends with the first call that fails.
PollUntilFault(s, r) ==
  /\ MutexFree(s)
  /\ loading[s][r] = 0 /\ faults = 0
  /\ IF r = "handler" THEN unread[s] ELSE Up(s) \/ edit[s].at = "load"
  /\ r = "handler" \/ running[s] # Live
  /\ loading' = [loading EXCEPT ![s][r] = IF running[s] = Live THEN 0 ELSE Live]
  /\ unread' = IF r = "handler" THEN [unread EXCEPT ![s] = FALSE] ELSE unread
  /\ UNCHANGED <<revisions, releases, edit, running, overlapped, faults, starts>>

\* The id of the live release is read; one that runs already is left.
Poll(s, r) ==
  /\ MutexFree(s)
  /\ loading[s][r] = 0
  /\ IF r = "handler" THEN unread[s] ELSE Up(s) \/ edit[s].at = "load"
  /\ r = "handler" \/ running[s] # Live
  /\ loading' = [loading EXCEPT ![s][r] = IF running[s] = Live THEN 0 ELSE Live]
  /\ unread' = IF r = "handler" THEN [unread EXCEPT ![s] = FALSE] ELSE unread
  /\ UNCHANGED <<revisions, releases, edit, running, overlapped, faults, starts>>

\* The release that was read runs, if it loads; a process that starts exits
\* if it does not.
Swap(s, r) ==
  LET n == loading[s][r]
  IN  /\ n # 0
      /\ running' = [running EXCEPT ![s] = IF Loads(Holds(n)) THEN n ELSE @]
      /\ edit' = [edit EXCEPT ![s] = IF edit[s].at = "load" THEN AtRest ELSE @]
      /\ loading' = [loading EXCEPT ![s][r] = 0]
      /\ UNCHANGED <<revisions, releases, unread, overlapped, faults, starts>>

\* The store does not answer; the running release stays.
RefreshFails(s, r) ==
  /\ loading[s][r] # 0
  /\ faults < MaxFaults
  /\ faults' = faults + 1
  /\ edit' = [edit EXCEPT ![s] = IF edit[s].at = "load" THEN AtRest ELSE @]
  /\ loading' = [loading EXCEPT ![s][r] = 0]
  /\ UNCHANGED <<revisions, releases, running, unread, overlapped, starts>>

----------------------------------------------------------------------------
EditorStep(s) ==
  \/ \E w \in Edits : Change(s, w[1], w[2])
  \/ \E d \in EditableDocs : Restore(s, d)
  \/ CheckRestored(s)
  \/ \E w \in edit[s].left : Put(s, w)
  \/ Publish(s) \/ CheckDraft(s)
  \/ \E n \in DOMAIN releases : Rollback(s, n)
  \/ Converge(s) \/ Reread(s) \/ StorePublish(s) \/ StoreFails(s)

ConfigNext ==
  \E s \in Servers :
    \/ EditorStep(s) \/ Start(s) \/ Exit(s)
    \/ \E r \in Refreshers : Poll(s, r) \/ Swap(s, r) \/ RefreshFails(s, r)

ConfigSafe == ConfigInit /\ [][ConfigNext]_configVars

\* The poller's ticker ticks, and a refresh that began goes on.
ConfigFairness ==
  \A s \in Servers :
    /\ WF_configVars(Poll(s, "poller"))
    /\ WF_configVars(\E r \in Refreshers : Swap(s, r))

ConfigSpec == ConfigSafe /\ ConfigFairness
----------------------------------------------------------------------------
Revision == [doc : Documents, says : Values \cup {Gone}]
By == {"nobody", "change", "import", "publish", "rollback", "seed"}
Release == [members : SUBSET Nat, by : By, to : Nat]
Edit == [at : {"rest", "draft", "put", "live", "converge", "heads", "publish", "load"},
         by : By, want : DocumentSets, left : SUBSET (Documents \X (Values \cup {Gone})),
         members : SUBSET Nat, to : Nat]

\* What is stored, and what a process is at; it loads one release at a time,
\* newer than the one it runs.
ConfigTypeOK ==
  /\ revisions \in Seq(Revision) /\ releases \in Seq(Release)
  /\ edit \in [Servers -> Edit]
  /\ running \in [Servers -> 0 .. Live]
  /\ loading \in [Servers -> [Refreshers -> 0 .. Live]]
  /\ \A s \in Servers, r \in Refreshers : loading[s][r] # 0 =>
       /\ running[s] < loading[s][r]
       /\ \A q \in Refreshers : loading[s][q] # 0 => q = r

\* A release names stored revisions, one for each document it holds.
ReleasesAreWhole == \A n \in DOMAIN releases : Publishable(releases[n].members)

\* A release loads: what was published was checked.  A rollback, or the first
\* start, publishes the heads it reads after it wrote them, so that it has to
\* be the only process.
ReleasesLoad ==
  \A n \in DOMAIN releases :
    Loads(Holds(n)) \/ (overlapped /\ releases[n].by \in {"rollback", "seed"})

\* An import publishes nobody's draft: what is edited stays as some release had
\* it, the one before it unless another process published meanwhile.
DraftsStayDrafts ==
  \A n \in DOMAIN releases :
    releases[n].by = "import" =>
      \E m \in 1 .. (n - 1) :
        /\ \A d \in EditableDocs : Holds(n)[d] = Holds(m)[d]
        /\ m = n - 1 \/ overlapped

\* A rollback brings back what was edited as the release had it, and leaves
\* git's documents as they are live.
RollbacksReturn ==
  \A n \in DOMAIN releases :
    releases[n].by = "rollback" /\ ~overlapped =>
      /\ \A d \in EditableDocs : Holds(n)[d] = Holds(releases[n].to)[d]
      /\ \A d \in GitDocs : Holds(n)[d] = Holds(n - 1)[d]

ConfigInv ==
  ConfigTypeOK /\ ReleasesAreWhole /\ ReleasesLoad /\ DraftsStayDrafts /\ RollbacksReturn

\* A process that stays up comes to run the newest release, if it loads,
\* whoever published it and whatever could not be read before (live.go:47).
RunsTheNewest ==
  \A s \in Servers :
    (Up(s) /\ Loads(Holds(Live))) ~> (~Up(s) \/ running[s] = Live \/ ~Loads(Holds(Live)))

\* Whatever other processes do and however refreshes overlap, a process runs a
\* release that loads and only ever moves to a newer one: Releases.
Promise == INSTANCE Releases WITH made <- [n \in DOMAIN releases |-> Holds(n)]
ImplementsReleases == Promise!Spec
=============================================================================
