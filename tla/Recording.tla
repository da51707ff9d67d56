------------------------------- MODULE Recording -------------------------------
(***************************************************************************)
(* The life of one call's recordings in the control plane                  *)
(* (go/internal/control): the handlers that open the session, admit a      *)
(* joiner, start and stop recordings, record each published voice, settle  *)
(* what ended and sweep a closed room.  Handlers run concurrently; a step  *)
(* of a handler is one call to the store or to the media server together   *)
(* with the local decisions up to the next call, which is where handlers   *)
(* can interleave.  The per-session lock of locks.go is `holder`.          *)
(***************************************************************************)
EXTENDS MediaServer

CONSTANTS
  Handlers,        \* requests and webhooks the control plane works on at once
  SessionCreate,   \* recording.startAt = session_create (else first_publish)
  Layout,          \* recording.layout
  Voices,          \* recording.tracks: each published voice is recorded alone
  TakesDialIn,     \* the session has a dial-in PIN
  Manual,          \* operators call the recording start and stop endpoints
  Faults,          \* a call to the store or the media server may fail
  Redelivery,      \* the media server may send one webhook more than once
  MaxCrashes       \* bound: restarts of the control plane process

ASSUME RecordingAssumption ==
  /\ {SessionCreate, Voices, TakesDialIn, Manual, Faults, Redelivery} \subseteq BOOLEAN
  /\ Layout \in {"room_composite", "track"}
  /\ SessionCreate => Layout = "room_composite"   \* config/rules.go refuses the rest
  /\ MaxCrashes \in Nat
  /\ None \notin Handlers

VARIABLES
  op,       \* op[h]: what handler h is serving, "none" when it is free
  pc,       \* pc[h]: the call h makes next
  cur,      \* cur[h]: the egress h started and has not stored yet
  todo,     \* todo[h]: rows h read as active and has still to look at
  arg,      \* arg[h]: the person joining, or the track to record
  endsNow,  \* endsNow[h]: h's EndSession was the one that set ended_at
  holder,   \* the handler inside sessionLocks for this session
  claims,   \* tracks in Service.voices
  crashes

handlerVars == <<op, pc, cur, todo, arg, endsNow, holder, claims, crashes>>
vars == <<storeVars, mediaVars, handlerVars>>

Init ==
  /\ StoreInit
  /\ MediaInit
  /\ op = [h \in Handlers |-> "none"]
  /\ pc = [h \in Handlers |-> "idle"]
  /\ cur = [h \in Handlers |-> None]
  /\ todo = [h \in Handlers |-> {}]
  /\ arg = [h \in Handlers |-> None]
  /\ endsNow = [h \in Handlers |-> FALSE]
  /\ holder = None
  /\ claims = {}
  /\ crashes = 0

-------------------------------------------------------------------------------
(* How a handler moves.  Each operator below says all that happens to the  *)
(* handler variables.                                                      *)

Free(h) == op[h] = "none"

\* h starts serving o and makes the call at `at` next.
Serve(h, o, at, a) ==
  /\ op' = [op EXCEPT ![h] = o]
  /\ pc' = [pc EXCEPT ![h] = at]
  /\ arg' = [arg EXCEPT ![h] = a]
  /\ UNCHANGED <<cur, todo, endsNow, holder, crashes>>

\* h goes on to the call at `at`, with the rows of T left to look at.
Goto(h, at, T) ==
  /\ pc' = [pc EXCEPT ![h] = at]
  /\ todo' = [todo EXCEPT ![h] = T]
  /\ UNCHANGED <<op, cur, arg, endsNow, holder, claims, crashes>>

\* Mutated form: an early return leaves the session lock held.
ReturnKeepingLock(h) ==
  /\ op' = [op EXCEPT ![h] = "none"]
  /\ pc' = [pc EXCEPT ![h] = "idle"]
  /\ cur' = [cur EXCEPT ![h] = None]
  /\ todo' = [todo EXCEPT ![h] = {}]
  /\ arg' = [arg EXCEPT ![h] = None]
  /\ endsNow' = [endsNow EXCEPT ![h] = FALSE]
  /\ claims' = IF op[h] = "voice" THEN claims \ {arg[h]} ELSE claims
  /\ UNCHANGED <<holder, crashes>>

\* h returns: its deferred unlock and its deferred release of the claim run.
Return(h) ==
  /\ op' = [op EXCEPT ![h] = "none"]
  /\ pc' = [pc EXCEPT ![h] = "idle"]
  /\ cur' = [cur EXCEPT ![h] = None]
  /\ todo' = [todo EXCEPT ![h] = {}]
  /\ arg' = [arg EXCEPT ![h] = None]
  /\ endsNow' = [endsNow EXCEPT ![h] = FALSE]
  /\ holder' = IF holder = h THEN None ELSE holder
  /\ claims' = IF op[h] = "voice" THEN claims \ {arg[h]} ELSE claims
  /\ UNCHANGED crashes

\* h is done with its recording work, whichever way that went: a join, alone of
\* all, is answered with a token even so.  The room and the egresses are the
\* action's to say.
Respond(h) ==
  /\ Return(h)
  /\ tokens' = IF op[h] = "join" THEN tokens \cup {arg[h]} ELSE tokens
  /\ UNCHANGED <<inside, tracks, hooks>>

\* So it is done, and began no egress.
Answer(h) == Respond(h) /\ UNCHANGED <<kind, track>>

\* h's loop looks at e next: rows are read ORDER BY started_at, egress_id.
Due(h, e) == e \in todo[h] /\ \A f \in todo[h] : e <= f

\* The call each round of a handler's loop over its rows begins with.
LoopTop(h) == IF op[h] \in {"join", "sources"} THEN "probe" ELSE "stop"

\* h has dealt with row e: the next round, or what follows the loop.
Looked(h, e) ==
  LET rest == todo[h] \ {e}
  IN  \/ rest # {} /\ Goto(h, LoopTop(h), rest)
      \/ rest = {} /\ op[h] = "join" /\ Goto(h, "start", {})
      \/ rest = {} /\ op[h] = "finish" /\ Goto(h, "close", {})
      \/ rest = {} /\ op[h] \in {"stop", "sources"} /\ Return(h)

-------------------------------------------------------------------------------
(* Starting an egress and storing it: control.startEgress.                 *)

Requested == [create |-> "auto", join |-> "auto", start |-> "manual", voice |-> "voice"]

\* With CreateRoom the room is made first; without, it has to be there, and a
\* track egress needs its track published.
CanStart(h) ==
  \/ op[h] \in {"create", "join"}
  \/ op[h] = "start" /\ arg[h] = None /\ room
  \/ op[h] \in {"start", "voice"} /\ arg[h] # None /\ tracks[arg[h]] = "live"

\* The media server begins the egress e that h asks for.
Begin(h, e) ==
  /\ Fresh(e)
  /\ media' = [media EXCEPT ![e] = "running"]
  /\ kind' = [kind EXCEPT ![e] = Requested[op[h]]]
  /\ track' = [track EXCEPT ![e] = IF op[h] \in {"start", "voice"} THEN arg[h] ELSE None]

\* Transport.StartEgress succeeds.
StartEgress(h) ==
  /\ pc[h] = "start"
  /\ CanStart(h)
  /\ \E e \in Egresses : Begin(h, e) /\ cur' = [cur EXCEPT ![h] = e]
  /\ room' = (room \/ op[h] \in {"create", "join"})
  /\ pc' = [pc EXCEPT ![h] = "add"]
  /\ UNCHANGED <<storeVars, tokens, inside, tracks, hooks>>
  /\ UNCHANGED <<op, todo, arg, endsNow, holder, claims, crashes>>

\* Transport.StartEgress fails: the room or the track is not there, the media
\* server is out of capacity (here: of ids), or it cannot be reached - or it began
\* the egress and its answer was lost, so that nobody knows of what now records.
StartEgressFails(h) ==
  /\ pc[h] = "start"
  /\ \/ /\ Faults \/ ~CanStart(h) \/ (\A e \in Egresses : ~Fresh(e))
        /\ room' \in {room, room \/ op[h] \in {"create", "join"}}   \* createRoom came first
        /\ Answer(h)
        /\ UNCHANGED media
     \/ /\ Faults /\ CanStart(h)
        /\ \E e \in Egresses : Begin(h, e)
        /\ room' = (room \/ op[h] \in {"create", "join"})
        /\ Respond(h)
  /\ UNCHANGED storeVars

\* Store.AddEgress succeeds; session creation goes on, everybody else is done.
StoreEgress(h) ==
  /\ pc[h] = "add"
  /\ AddEgress(cur[h])
  /\ \/ /\ op[h] = "create"
        /\ pc' = [pc EXCEPT ![h] = "reply"]
        /\ cur' = [cur EXCEPT ![h] = None]
        /\ UNCHANGED <<mediaVars, op, todo, arg, endsNow, holder, claims, crashes>>
     \/ /\ op[h] # "create"
        /\ Answer(h)
        /\ UNCHANGED <<room, media>>
  /\ UNCHANGED <<session, joined, ended, dialIn>>

StoreEgressFails(h) ==
  /\ pc[h] = "add"
  /\ Faults
  /\ pc' = [pc EXCEPT ![h] = "undo"]
  /\ UNCHANGED <<storeVars, mediaVars, op, cur, todo, arg, endsNow, holder, claims, crashes>>

\* The media server accepts a stop only of an egress that is running.
StopAccepted(e) ==
  /\ media[e] = "running"
  /\ media' = [media EXCEPT ![e] = "ending"]

\* The egress that could not be stored is stopped again, or that fails too
\* ("egress running but not recorded; stop failed").
UndoEgress(h) ==
  /\ pc[h] = "undo"
  /\ \/ StopAccepted(cur[h])
     \/ (Faults \/ media[cur[h]] # "running") /\ UNCHANGED media
  /\ Answer(h)
  /\ UNCHANGED <<storeVars, room>>

-------------------------------------------------------------------------------
(* POST /sessions: openSession.                                            *)

\* The session row and the dial-in row are stored; without the dial-in it
\* asked for, the creation fails.
CreateSession(h, p) ==
  /\ Free(h)
  /\ session = "none"
  /\ session' = "stored"
  /\ \/ /\ dialIn' = TakesDialIn
        /\ Serve(h, "create", IF SessionCreate THEN "start" ELSE "reply", p)
     \/ /\ Faults /\ TakesDialIn
        /\ UNCHANGED <<dialIn, op, pc, cur, todo, arg, endsNow, holder, crashes>>
  /\ UNCHANGED <<joined, ended, rows, mediaVars, claims>>

\* The agent is dispatched and the creator answered with the session id and a
\* token; a failed dispatch answers an error and leaves the rows as they are.
AnswerCreator(h) ==
  /\ pc[h] = "reply"
  /\ \/ /\ session' = "open"
        /\ tokens' = tokens \cup {arg[h]}
     \/ Faults /\ UNCHANGED <<session, tokens>>
  /\ Return(h)
  /\ UNCHANGED <<joined, ended, rows, dialIn, room, inside, tracks, media, kind, track, hooks>>

-------------------------------------------------------------------------------
(* POST /sessions/{id}/join: joinSession and resumeRecording.              *)

\* The session is read once, here, and found running.  An ended one answers
\* 410 and changes nothing.
Join(h, p) ==
  /\ Free(h)
  /\ session = "open"
  /\ ~ended
  /\ UNCHANGED <<storeVars, claims>>
  /\ \/ /\ SessionCreate
        /\ Serve(h, "join", "lock", p)
        /\ UNCHANGED mediaVars
     \/ /\ ~SessionCreate
        /\ tokens' = tokens \cup {p}
        /\ UNCHANGED <<room, inside, tracks, media, kind, track, hooks>>
        /\ UNCHANGED <<op, pc, cur, todo, arg, endsNow, holder, crashes>>

\* sessionLocks.lock
Lock(h) ==
  /\ pc[h] = "lock"
  /\ holder = None
  /\ holder' = h
  /\ pc' = [pc EXCEPT ![h] = IF op[h] = "join" THEN "list" ELSE "end"]
  /\ UNCHANGED <<storeVars, mediaVars>>
  /\ UNCHANGED <<op, cur, todo, arg, endsNow, claims, crashes>>

IsTrack(e) == track[e] # None   \* egresses.layout = track

\* Store.Egresses for a join: the unstopped recordings of the session's layout.
ListToResume(h) ==
  LET found == {e \in ActiveRows : ~IsTrack(e)}
  IN  /\ pc[h] = "list" /\ op[h] = "join"
      /\ Goto(h, IF found = {} THEN "start" ELSE "probe", found)
      /\ UNCHANGED <<storeVars, mediaVars>>

\* Store.Egresses for a closed room: everything unstopped.
ListToSweep(h) ==
  /\ pc[h] = "list" /\ op[h] = "finish"
  /\ Goto(h, IF ActiveRows = {} THEN "close" ELSE "stop", ActiveRows)
  /\ UNCHANGED <<storeVars, mediaVars>>

\* Store.Egresses for the stop endpoint: everything unstopped, or the one
\* egress the request names.  With nothing to stop, or when it names one that
\* is not running, it answers at once.
ListToStop(h) ==
  /\ pc[h] = "list" /\ op[h] = "stop"
  /\ \/ ActiveRows # {} /\ Goto(h, "stop", ActiveRows)
     \/ \E e \in ActiveRows : Goto(h, "stop", {e})
     \/ Return(h)
  /\ UNCHANGED <<storeVars, mediaVars>>

\* Store.Egresses for the after-call worker.  Only unstopped track recordings
\* are followed up: reading a settled one changes nothing.  Those that are no
\* voice, or nobody's the control plane minted, are skipped.
ListSources(h) ==
  /\ pc[h] = "list" /\ op[h] = "sources"
  /\ \E found \in SUBSET {e \in ActiveRows : IsTrack(e)} :
       \/ found # {} /\ Goto(h, "probe", found)
       \/ found = {} /\ Return(h)
  /\ UNCHANGED <<storeVars, mediaVars>>

\* Store.Egresses for a voice: control.alreadyRecording.
ListVoices(h) ==
  /\ pc[h] = "list" /\ op[h] = "voice"
  /\ IF \E e \in ActiveRows : track[e] = arg[h]
     THEN Return(h)
     ELSE Goto(h, "owner", {})
  /\ UNCHANGED <<storeVars, mediaVars>>

List(h) == ListToResume(h) \/ ListToSweep(h) \/ ListToStop(h) \/ ListSources(h) \/ ListVoices(h)

\* The rows cannot be read: a closed room is swept as if it had none, and
\* everybody else gives up.
ListFails(h) ==
  /\ pc[h] = "list"
  /\ Faults
  /\ \/ op[h] = "finish" /\ Goto(h, "close", {}) /\ UNCHANGED mediaVars
     \/ op[h] # "finish" /\ Answer(h) /\ UNCHANGED <<room, media>>
  /\ UNCHANGED storeVars

\* Mutated form: for a join, what still records counts as over.
ProbeTakesAllAsEnded(h, e) ==
  /\ pc[h] = "probe" /\ op[h] = "join"
  /\ Due(h, e)
  /\ Goto(h, "settle", todo[h])
  /\ UNCHANGED <<storeVars, mediaVars>>

\* Transport.RecordingFile for a join: it goes on only past an egress that
\* ended or that the media server no longer knows.
ProbeToResume(h, e) ==
  /\ pc[h] = "probe" /\ op[h] = "join"
  /\ Due(h, e)
  /\ \/ /\ media[e] \in {"ended", "forgotten"}
        /\ Goto(h, "settle", todo[h])
        /\ UNCHANGED mediaVars
     \/ /\ Faults \/ media[e] \in {"running", "ending"}
        /\ Answer(h)
        /\ UNCHANGED <<room, media>>
  /\ UNCHANGED storeVars

\* Transport.RecordingFile for the after-call worker: what ended is settled,
\* what still records or is not known any more is left as it is.
ProbeSource(h, e) ==
  /\ pc[h] = "probe" /\ op[h] = "sources"
  /\ Due(h, e)
  /\ \/ media[e] = "ended" /\ Goto(h, "settle", todo[h])
     \/ media[e] # "ended" /\ Looked(h, e)
     \/ Faults /\ Return(h)
  /\ UNCHANGED <<storeVars, mediaVars>>

\* control.settle writes the row; in a loop that may go on without it a
\* failed write is only logged.
Settle(h, e) ==
  /\ pc[h] = "settle"
  /\ Due(h, e)
  /\ \/ StopEgressRow(e) /\ Looked(h, e)
     \/ Faults /\ UNCHANGED rows /\ op[h] \in {"join", "finish"} /\ Looked(h, e)
     \/ Faults /\ UNCHANGED rows /\ op[h] \in {"stop", "sources"} /\ Return(h)
  /\ UNCHANGED <<session, joined, ended, dialIn, mediaVars>>

-------------------------------------------------------------------------------
(* POST /recording/start, /recording/stop and GET /transcription/sources.  *)

StartRecording(h) ==
  /\ Manual
  /\ Free(h)
  /\ session = "open"
  /\ \/ Layout = "room_composite" /\ Serve(h, "start", "start", None)
     \/ Layout = "track" /\ \E t \in Tracks : Serve(h, "start", "owner", t)
  /\ UNCHANGED <<storeVars, mediaVars, claims>>

StopRecording(h) ==
  /\ Manual
  /\ Free(h)
  /\ session = "open"
  /\ Serve(h, "stop", "list", None)
  /\ UNCHANGED <<storeVars, mediaVars, claims>>

TranscriptionSources(h) ==
  /\ Layout = "track"   \* config/rules.go: the transcript needs track recordings
  /\ Free(h)
  /\ session = "open"
  /\ Serve(h, "sources", "list", None)
  /\ UNCHANGED <<storeVars, mediaVars, claims>>

\* Mutated form: the row is settled before the media server is asked.
StopUnasked(h, e) ==
  /\ pc[h] = "stop"
  /\ Due(h, e)
  /\ Goto(h, "settle", todo[h])
  /\ UNCHANGED <<storeVars, mediaVars>>

\* control.stopEgress, first half: ask the media server, whose answer may be lost.
Stop(h, e) ==
  /\ pc[h] = "stop"
  /\ Due(h, e)
  /\ \/ StopAccepted(e) /\ Goto(h, "settle", todo[h])
     \/ Faults /\ StopAccepted(e) /\ Goto(h, "lookup", todo[h])
     \/ (Faults \/ media[e] # "running") /\ UNCHANGED media /\ Goto(h, "lookup", todo[h])
  /\ UNCHANGED <<storeVars, room, tokens, inside, tracks, kind, track, hooks>>

\* Mutated form: a refused stop is taken to mean the egress is over.
LookupTrustsRefusal(h, e) ==
  /\ pc[h] = "lookup"
  /\ Due(h, e)
  /\ Goto(h, "settle", todo[h])
  /\ UNCHANGED <<storeVars, mediaVars>>

\* control.stopEgress, second half: a refused stop still settles the row when
\* the media server reports the egress ended.  Otherwise the stop endpoint
\* fails and the sweep of a closed room goes on with the next row.
Lookup(h, e) ==
  /\ pc[h] = "lookup"
  /\ Due(h, e)
  /\ \/ media[e] = "ended" /\ Goto(h, "settle", todo[h])
     \/ (Faults \/ media[e] # "ended") /\ op[h] = "finish" /\ Looked(h, e)
     \/ (Faults \/ media[e] # "ended") /\ op[h] = "stop" /\ Return(h)
  /\ UNCHANGED <<storeVars, mediaVars>>

-------------------------------------------------------------------------------
(* Webhooks: handleHook, each in a goroutine of its own, in any order.     *)

\* A handler takes the webhook k; the media server may still send it again.
Take(k) ==
  /\ k \in hooks
  /\ hooks' \in {hooks \ {k}} \cup (IF Redelivery THEN {hooks} ELSE {})
  /\ UNCHANGED <<room, tokens, inside, tracks, media, kind, track>>

\* participant_joined, one store call; a failed one is logged and lost.
ParticipantJoined ==
  /\ Take(JoinedHook)
  /\ MarkJoined \/ (Faults /\ UNCHANGED joined)
  /\ UNCHANGED <<session, ended, rows, dialIn, handlerVars>>

\* egress_ended, one store call.
EgressEnded(e) ==
  /\ Take(EgressHook(e))
  /\ StopEgressRow(e) \/ (Faults /\ UNCHANGED rows)
  /\ UNCHANGED <<session, joined, ended, dialIn, handlerVars>>

\* Mutated form: a track is worked on without being claimed.
TrackPublishedUnclaimed(h, t) ==
  /\ Free(h)
  /\ Take(TrackHook(t))
  /\ Voices
  /\ ~ended
  /\ Serve(h, "voice", "list", t)
  /\ claims' = claims
  /\ UNCHANGED storeVars

\* track_published: recordVoice claims the track and reads the session, which
\* is not read again.
TrackPublished(h, t) ==
  /\ Free(h)
  /\ Take(TrackHook(t))
  /\ Voices
  /\ t \notin claims
  /\ ~ended
  /\ Serve(h, "voice", "list", t)
  /\ claims' = claims \cup {t}
  /\ UNCHANGED storeVars

\* recordVoice returns at once: the track is claimed, the call has ended or it
\* does not record voices.
TrackIgnored(t) ==
  /\ Take(TrackHook(t))
  /\ t \in claims \/ ended \/ ~Voices
  /\ UNCHANGED <<storeVars, handlerVars>>

\* Transport.TrackOwner: nobody publishes the track any more, or somebody does; of
\* what is published by itself, only a voice is recorded.
FindOwner(h) ==
  /\ pc[h] = "owner"
  /\ \/ tracks[arg[h]] = "live" /\ Goto(h, "start", {})
     \/ (Faults \/ tracks[arg[h]] # "live" \/ op[h] = "voice") /\ Return(h)
  /\ UNCHANGED <<storeVars, mediaVars>>

RoomFinished(h) ==
  /\ Free(h)
  /\ Take(FinishedHook)
  /\ Serve(h, "finish", "lock", None)
  /\ UNCHANGED <<storeVars, claims>>

\* Store.EndSession inside roomFinished.
MarkEnded(h) ==
  /\ pc[h] = "end"
  /\ \/ /\ EndSession
        /\ endsNow' = [endsNow EXCEPT ![h] = EndsNow]
        /\ pc' = [pc EXCEPT ![h] = "list"]
        /\ UNCHANGED <<session, joined, rows, dialIn>>
        /\ UNCHANGED <<op, cur, todo, arg, holder, claims, crashes>>
     \/ /\ Faults
        /\ Return(h)
        /\ UNCHANGED storeVars
  /\ UNCHANGED mediaVars

\* The dial-in goes with the call that this room_finished ended.
CloseDialIn(h) ==
  /\ pc[h] = "close"
  /\ \/ endsNow[h] /\ EndDialIn
     \/ (Faults \/ ~endsNow[h]) /\ UNCHANGED dialIn
  /\ Return(h)
  /\ UNCHANGED <<session, joined, ended, rows, mediaVars>>

-------------------------------------------------------------------------------
(* What the process and the network may do to all of this.                 *)

\* The control plane restarts: handlers, lock and claims are in memory only.
Crash ==
  /\ crashes < MaxCrashes
  /\ crashes' = crashes + 1
  /\ op' = [h \in Handlers |-> "none"]
  /\ pc' = [h \in Handlers |-> "idle"]
  /\ cur' = [h \in Handlers |-> None]
  /\ todo' = [h \in Handlers |-> {}]
  /\ arg' = [h \in Handlers |-> None]
  /\ endsNow' = [h \in Handlers |-> FALSE]
  /\ holder' = None
  /\ claims' = {}
  /\ UNCHANGED <<storeVars, mediaVars>>

LoseHook(k) ==
  /\ Faults
  /\ k \in hooks
  /\ hooks' = hooks \ {k}
  /\ UNCHANGED <<room, tokens, inside, tracks, media, kind, track, storeVars, handlerVars>>

\* One step of the work handler h has begun.
Work(h) ==
  \/ StartEgress(h) \/ StartEgressFails(h) \/ StoreEgress(h) \/ StoreEgressFails(h) \/ UndoEgress(h)
  \/ AnswerCreator(h) \/ Lock(h) \/ List(h) \/ ListFails(h)
  \/ \E e \in Egresses : ProbeToResume(h, e) \/ ProbeSource(h, e) \/ Settle(h, e) \/ Stop(h, e) \/ Lookup(h, e)
  \/ FindOwner(h) \/ MarkEnded(h) \/ CloseDialIn(h)

\* A request arrives at the free handler h.
Request(h) ==
  \/ StartRecording(h) \/ StopRecording(h) \/ TranscriptionSources(h)
  \/ \E p \in People : CreateSession(h, p) \/ Join(h, p)

\* A webhook is taken up.
HandleHook ==
  \/ ParticipantJoined
  \/ \E e \in Egresses : EgressEnded(e)
  \/ \E t \in Tracks : TrackIgnored(t)
  \/ \E h \in Handlers : RoomFinished(h) \/ \E t \in Tracks : TrackPublished(h, t)

Next ==
  \/ \E h \in Handlers : Work(h) \/ Request(h)
  \/ HandleHook
  \/ MediaStep /\ UNCHANGED <<storeVars, handlerVars>>
  \/ Crash
  \/ \E k \in Hooks : LoseHook(k)

Spec == Init /\ [][Next]_vars

-------------------------------------------------------------------------------
(* Fairness.  A handler that has begun goes on (its calls have timeouts), a *)
(* mutex handed over again and again reaches every waiter (sync.Mutex's     *)
(* starvation mode), each webhook gets a goroutine, so it is taken even if  *)
(* the handlers here are busy at times, and an ending egress ends.  Nobody  *)
(* is bound to make a request, to join, to leave or to close the room.      *)

Fairness ==
  /\ \A h \in Handlers : WF_vars(Work(h)) /\ SF_vars(Lock(h))
  /\ WF_vars(ParticipantJoined)
  /\ \A e \in Egresses : WF_vars(EgressEnded(e))
  /\ SF_vars(\E h \in Handlers : RoomFinished(h))
  /\ \A e \in Egresses : WF_vars(EgressFinishes(e) /\ UNCHANGED <<storeVars, handlerVars>>)

FairSpec == Spec /\ Fairness

-------------------------------------------------------------------------------
(* Properties.                                                             *)

PCs == {"idle", "lock", "end", "list", "probe", "settle", "stop", "lookup",
        "owner", "start", "add", "undo", "reply", "close"}
Ops == {"none", "create", "join", "start", "stop", "voice", "finish", "sources"}

\* Where a handler that serves o can be, and what it was asked about.
WellPlaced(o, at, a) ==
  \/ o = "none" /\ at = "idle" /\ a = None
  \/ o = "create" /\ at \in {"start", "add", "undo", "reply"} /\ a \in People
  \/ o = "join" /\ at \in {"lock", "list", "probe", "settle", "start", "add", "undo"} /\ a \in People
  \/ o = "start" /\ at = "owner" /\ a \in Tracks
  \/ o = "start" /\ at \in {"start", "add", "undo"} /\ a \in Tracks \cup {None}
  \/ o = "stop" /\ at \in {"list", "stop", "lookup", "settle"} /\ a = None
  \/ o = "voice" /\ at \in {"list", "owner", "start", "add", "undo"} /\ a \in Tracks
  \/ o = "finish" /\ at \in {"lock", "end", "list", "stop", "lookup", "settle", "close"} /\ a = None
  \/ o = "sources" /\ at \in {"list", "probe", "settle"} /\ a = None

\* What joinSession and roomFinished do under sessionLocks.
Locked == {"end", "list", "probe", "settle", "stop", "lookup", "start", "add", "undo", "close"}
InLock(h) == op[h] \in {"join", "finish"} /\ pc[h] \in Locked

\* An egress the control plane answers for: stored and not stopped, or
\* started by a handler that is about to store it.
OnRecord(e) == rows[e] = "active" \/ \E h \in Handlers : cur[h] = e /\ pc[h] = "add"

\* Types of the handler variables, and what they say of one another: a handler
\* has an egress of its own exactly while it stores or undoes it, and rows to
\* look at exactly inside its loop.
HandlersTypeOK ==
  /\ op \in [Handlers -> Ops]
  /\ pc \in [Handlers -> PCs]
  /\ cur \in [Handlers -> Egresses \cup {None}]
  /\ todo \in [Handlers -> SUBSET Egresses]
  /\ arg \in [Handlers -> People \cup Tracks \cup {None}]
  /\ endsNow \in [Handlers -> BOOLEAN]
  /\ holder \in Handlers \cup {None}
  /\ claims \in SUBSET Tracks
  /\ crashes \in 0 .. MaxCrashes
  /\ \A h \in Handlers :
       /\ WellPlaced(op[h], pc[h], arg[h])
       /\ cur[h] # None <=> pc[h] \in {"add", "undo"}
       /\ todo[h] # {} <=> pc[h] \in {"probe", "settle", "stop", "lookup"}

\* A handler looks only at rows that are stored.
TodoStored == \A h \in Handlers : \A e \in todo[h] : rows[e] # "none"

\* The type invariant.
TypeOK == StoreTypeOK /\ MediaTypeOK /\ HandlersTypeOK /\ TodoStored

\* The session lock is held by exactly the handler that works under it: no
\* two of them at once, and no path out of the work (a recording found
\* running, a failed read, a failed start) that leaves it held.
LockHeldByWorker ==
  \A h \in Handlers : holder = h <=> InLock(h)

\* A handler's place, its egress, its rows and the lock always agree.
LockInv == TypeOK /\ LockHeldByWorker

\* When no call fails, the media server never records anything the store does
\* not show as running: an egress that runs has an unstopped row, or the
\* handler that started it is about to write one.  A row is never settled for
\* an egress that still records.
RunningIsRecorded == \A e \in Running : OnRecord(e)

\* Whatever fails, a row says stopped only once its egress was told to stop
\* or ended.  (A stop the media server refuses must not settle the row of a
\* recording that goes on.)
StoppedIsOver == \A e \in Egresses : rows[e] = "stopped" => media[e] # "running"

\* A call never has two of the recordings that session creation and returning
\* joiners start running on the record at once, whoever joins meanwhile.
OneAutoRecording ==
  \A e, f \in Running :
    kind[e] = "auto" /\ kind[f] = "auto" /\ OnRecord(e) /\ OnRecord(f) => e = f

\* One published track is recorded once on the record, however often and
\* however concurrently its track_published webhook arrives.
OneVoicePerTrack ==
  \A e, f \in Running :
    /\ kind[e] = "voice" /\ kind[f] = "voice"
    /\ track[e] = track[f] /\ OnRecord(e) /\ OnRecord(f)
    => e = f

\* A track is claimed exactly while one handler works on it: every return of
\* recordVoice releases the claim, and two handlers never share one.
ClaimsAreWorked ==
  /\ claims = {arg[h] : h \in {g \in Handlers : op[g] = "voice"}}
  /\ \A g, h \in Handlers : op[g] = "voice" /\ op[h] = "voice" /\ arg[g] = arg[h] => g = h

\* A published track is worked on by one handler and recorded once.
TracksAreClaimed == ClaimsAreWorked /\ OneVoicePerTrack

\* When no call fails, the dial-in of an ended call is gone, or the handler
\* that ended the call is still on its way to delete it.
EndedClosesDialIn ==
  ended /\ dialIn => \E h \in Handlers : op[h] = "finish" /\ endsNow[h]

\* Every handler that waits for the session lock gets it.
LockServed == \A h \in Handlers : pc[h] = "lock" ~> pc[h] # "lock"

\* A call somebody joined is marked ended once the closing of its room is
\* reported.
CallEnds == joined /\ FinishedHook \in hooks ~> ended

\* A recording whose end the media server reports after its row was written
\* is settled.
ReportedEndSettles ==
  \A e \in Egresses : rows[e] = "active" /\ EgressHook(e) \in hooks ~> rows[e] = "stopped"

\* What the media server reports is worked off: waiting handlers get the lock,
\* a call whose room closed ends, and an egress whose end was told is settled.
ReportsAreWorkedOff == LockServed /\ CallEnds /\ ReportedEndSettles

\* What control/lifecycle_test.go says of every finished recording: it is
\* settled when the media server says so.
FinishedRecordingSettles ==
  \A e \in Egresses : rows[e] = "active" /\ media[e] = "ended" ~> rows[e] = "stopped"

\* What control/lifecycle_test.go says of an ended call: no joiner reopens it,
\* so no recording starts after it ended.
EndedCallStaysClosed ==
  [][ended => \A e \in Egresses : kind[e] = "none" => kind'[e] # "auto"]_vars
===============================================================================
