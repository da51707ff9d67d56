------------------------------- MODULE AfterCall -------------------------------
(***************************************************************************)
(* What is done once everybody left: the final minutes are kept            *)
(* (closing.after_call), the recordings of the call are waited for, and    *)
(* both renderings of each are made by the batch vendor at the same time   *)
(* (run.transcribe_session, sarvam.batch), sorted into one transcript and  *)
(* stored.  All of it is under one deadline (worker.after_call).  Any      *)
(* request may fail or time out.  What was said in a recording is the      *)
(* times its pieces start at, from the start of the recording.             *)
(***************************************************************************)
EXTENDS Naturals, Sequences, FiniteSets, SequencesExt

CONSTANTS Recordings,  \* recordings of the session, as the first places
          Began,       \* Began[r]: when each began
          Said0,       \* what may be heard in one: sequences of times
          Renderings,
          FilesPerJob  \* MAX_FILES_PER_JOB

ASSUME AfterCallAssumption ==
  /\ Recordings \subseteq Nat \ {0} /\ IsFiniteSet(Recordings)
  /\ Began \in [Recordings -> Nat] /\ FilesPerJob \in Nat \ {0}
  /\ Said0 \subseteq Seq(Nat)

VARIABLES doing,       \* where after_call is
          kept,        \* the minutes were kept
          file,        \* per recording: "running", "finished" or "skipped"
          sources,     \* what run.ready handed out, in order
          fetched,     \* recordings that were downloaded
          job,         \* per rendering: where its job is
          jobsDone,    \* per rendering: how many jobs are over
          jobFiles,    \* per rendering: the files of its job
          uploaded,    \* per rendering: those of them that were uploaded
          results,     \* per rendering: what was heard in which recording
          stored       \* per rendering: the lines that were stored

fileVars == <<file, sources, fetched>>
jobVars == <<job, jobsDone, jobFiles, uploaded, results>>
afterCallVars == <<doing, kept, fileVars, jobVars, stored>>

NoResults == [r \in {} |-> <<>>]
NothingStored == [m \in {} |-> <<>>]

AfterCallInit ==
  /\ doing = "minutes" /\ kept = FALSE
  /\ file \in [Recordings -> {"running", "finished", "skipped"}]
  /\ sources = <<>> /\ fetched = {}
  /\ job = [m \in Renderings |-> "none"] /\ jobsDone = [m \in Renderings |-> 0]
  /\ jobFiles = [m \in Renderings |-> {}]
  /\ uploaded = [m \in Renderings |-> {}]
  /\ results = [m \in Renderings |-> NoResults]
  /\ stored = NothingStored

\* What is in S, in the order of before: the n-th is before all but n of it.
inOrder(S, before) ==
  [n \in 1 .. Cardinality(S) |->
     CHOOSE a \in S : Cardinality({b \in S : <<a, b>> \notin before}) = n]

leastFirst(S) == inOrder(S, {p \in S \X S : p[1] < p[2]})

Stored == {"stored", "stored unheard"}
Over == Stored \cup {"not made", "abandoned"}
stillRunning == {r \in Recordings : file[r] = "running"}
finishedFiles == {r \in Recordings : file[r] = "finished"}

\* The media server finishes a recording, or it cannot be attributed.
recordingEnds(r) ==
  /\ file[r] = "running" /\ \E f \in {"finished", "skipped"} : file' = [file EXCEPT ![r] = f]
  /\ UNCHANGED <<doing, kept, sources, fetched, jobVars, stored>>

(***************************************************************************)
(* Closing.after_call.                                                     *)
(***************************************************************************)
\* The keeper takes the minutes or not; either way the transcript is next.
keep(took) ==
  /\ doing = "minutes" /\ doing' = "polling" /\ kept' = took
  /\ UNCHANGED <<fileVars, jobVars, stored>>

\* The recordings are asked for again until none is pending.
polled ==
  /\ doing = "polling"
  /\ doing' = IF stillRunning # {} THEN "polling" ELSE "reading"
  /\ UNCHANGED <<kept, fileVars, jobVars, stored>>

\* A DafterError ends the transcript, wherever it is raised; the deadline
\* ends everything, and a vendor's transfer that times out is taken for it.
gaveUp(how) ==
  /\ doing \notin Over
  /\ doing = "minutes" => how = "abandoned"
  /\ doing' = how
  /\ UNCHANGED <<kept, fileVars, jobVars, stored>>

(***************************************************************************)
(* transcribe_session.                                                     *)
(***************************************************************************)
\* session_config and ready: the sources are read once more.
readSources ==
  /\ doing = "reading"
  /\ sources' = leastFirst(finishedFiles)
  /\ doing' = IF stillRunning # {} \/ finishedFiles = {} THEN "not made" ELSE "fetching"
  /\ UNCHANGED <<kept, file, fetched, jobVars, stored>>

download(r) ==
  /\ doing = "fetching" /\ r \in ToSet(sources) \ fetched
  /\ fetched' = fetched \cup {r}
  /\ doing' = IF fetched' = ToSet(sources) THEN "transcribing" ELSE "fetching"
  /\ UNCHANGED <<kept, file, sources, jobVars, stored>>

(***************************************************************************)
(* SarvamBatch.transcribe, one rendering: job after job, FilesPerJob files *)
(* each, until every file has a result.                                    *)
(***************************************************************************)
\* The files of the next job.
nextFiles(m) ==
  {sources[i] : i \in {i \in 1 .. Len(sources) :
     jobsDone[m] * FilesPerJob < i /\ i <= (jobsDone[m] + 1) * FilesPerJob}}

jobGoesTo(m, step) == job' = [job EXCEPT ![m] = step]
jobStays == UNCHANGED <<doing, kept, fileVars, stored>>

create(m) ==
  /\ doing = "transcribing" /\ job[m] = "none" /\ nextFiles(m) # {}
  /\ jobGoesTo(m, "created") /\ jobFiles' = [jobFiles EXCEPT ![m] = nextFiles(m)]
  /\ uploaded' = [uploaded EXCEPT ![m] = {}]
  /\ UNCHANGED <<jobsDone, results>> /\ jobStays

upload(m, r) ==
  /\ doing = "transcribing" /\ job[m] = "created" /\ r \in jobFiles[m] \ uploaded[m]
  /\ uploaded' = [uploaded EXCEPT ![m] = @ \cup {r}]
  /\ UNCHANGED <<job, jobsDone, jobFiles, results>> /\ jobStays

startJob(m) ==
  /\ doing = "transcribing" /\ job[m] = "created" /\ uploaded[m] = jobFiles[m]
  /\ jobGoesTo(m, "started")
  /\ UNCHANGED <<jobsDone, jobFiles, uploaded, results>> /\ jobStays

_outputs(m, transcribed) == transcribed = jobFiles[m]

\* _wait: the job is not over yet, is completed with outputs for some of its
\* files, failed, or took too long.
waited(m, transcribed) ==
  /\ doing = "transcribing" /\ job[m] = "started"
  /\ IF _outputs(m, transcribed)
       THEN jobGoesTo(m, "completed") /\ jobFiles' = [jobFiles EXCEPT ![m] = transcribed]
            /\ UNCHANGED doing
       ELSE doing' = "not made" /\ UNCHANGED <<job, jobFiles>>
  /\ UNCHANGED <<jobsDone, uploaded, results, kept, fileVars, stored>>

\* An output is read back: the times of what was heard, of a text without
\* times the start, of silence none.
downloadOutput(m, r, heard) ==
  /\ doing = "transcribing" /\ job[m] = "completed" /\ r \in jobFiles[m] \ DOMAIN results[m]
  /\ results' = [results EXCEPT ![m] =
                   [q \in DOMAIN @ \cup {r} |-> IF q = r THEN heard ELSE @[q]]]
  /\ UNCHANGED <<job, jobsDone, jobFiles, uploaded>> /\ jobStays

jobDone(m) ==
  /\ doing = "transcribing" /\ job[m] = "completed" /\ jobFiles[m] \subseteq DOMAIN results[m]
  /\ jobsDone' = [jobsDone EXCEPT ![m] = @ + 1]
  /\ jobGoesTo(m, IF Len(sources) <= jobsDone'[m] * FilesPerJob THEN "done" ELSE "none")
  /\ UNCHANGED <<jobFiles, uploaded, results>> /\ jobStays

(***************************************************************************)
(* transcript.lines: every piece with the recording it is from, by the     *)
(* time it was said at.                                                    *)
(***************************************************************************)
at(p, heard) == Began[p[1]] + heard[p[1]][p[2]]

pieces(heard) == UNION {{<<r, i>> : i \in 1 .. Len(heard[r])} : r \in DOMAIN heard}

\* Of pieces said at one time the one of the earlier recording is first.
earlier(p, q, heard) ==
  \/ at(p, heard) < at(q, heard)
  \/ at(p, heard) = at(q, heard) /\ (p[1] < q[1] \/ (p[1] = q[1] /\ p[2] < q[2]))

transcriptLines(heard) ==
  inOrder(pieces(heard), {e \in pieces(heard) \X pieces(heard) : earlier(e[1], e[2], heard)})

\* Mutated form: one rendering is enough.
submitOne ==
  /\ doing = "transcribing"
  /\ \E m \in Renderings : job[m] = "done"
  /\ stored' = [m \in Renderings |-> transcriptLines(results[m])]
  /\ doing' = "stored"
  /\ UNCHANGED <<kept, fileVars, jobVars>>

\* Both renderings are there: the transcript is sealed and submitted.  The answer
\* of the control plane, which stored it, may be lost: it is logged as not made.
submit ==
  /\ doing = "transcribing"
  /\ \A m \in Renderings : job[m] = "done"
  /\ stored' = [m \in Renderings |-> transcriptLines(results[m])]
  /\ doing' \in Stored
  /\ UNCHANGED <<kept, fileVars, jobVars>>

AfterCallStep ==
  \/ polled \/ readSources \/ submit
  \/ \E b \in BOOLEAN : keep(b)
  \/ \E r \in Recordings : download(r)
  \/ \E m \in Renderings :
       \/ create(m) \/ startJob(m) \/ jobDone(m)
       \/ \E t \in SUBSET jobFiles[m] : waited(m, t)
       \/ \E r \in Recordings : upload(m, r) \/ \E s \in Said0 : downloadOutput(m, r, s)

AfterCallNext ==
  \/ AfterCallStep \/ gaveUp("not made") \/ gaveUp("abandoned")
  \/ \E r \in Recordings : recordingEnds(r)

AfterCallSpec == AfterCallInit /\ [][AfterCallNext]_afterCallVars

(***************************************************************************)
(* Properties.                                                             *)
(***************************************************************************)

\* A transcript that is stored has every finished recording of the call, all
\* pieces heard in it, in both renderings.
StoredIsWhole ==
  doing \in Stored => /\ DOMAIN stored = Renderings
                      /\ \A m \in Renderings :
                           /\ DOMAIN results[m] = finishedFiles
                           /\ ToSet(stored[m]) = pieces(results[m])

\* Its lines are in the order in which they were said, across people whose
\* recordings began at different times.
LinesInOrder ==
  \A m \in DOMAIN stored : \A i, j \in 1 .. Len(stored[m]) :
    i < j => at(stored[m][i], results[m]) <= at(stored[m][j], results[m])

\* A stored transcript is whole and in order.
AfterCallInv ==
  /\ StoredIsWhole
  /\ LinesInOrder
=============================================================================
