# Verification of dafter

dafter runs voice calls: a Go control plane opens sessions on a LiveKit media
server, records them and takes phone calls in; a Python agent, a scribe and a
batch worker take part in them.  This directory holds TLA+ models of that code,
TLC runs on small instances of them, and theorems about them that TLAPS checks.
Every definition is translated from the source; `PROJECT.json` names the lines
behind each one, lists the runs and the theorems, and keeps the list of hazards
the properties are for.

## The system and its parts

| Part | Where | State it keeps | Operations |
| --- | --- | --- | --- |
| Recording lifecycle | `go/internal/control/{recording,continuous,webhook}.go`, sources in `transcripts.go` | rows of egresses, claims on tracks | create, join, start, stop, voice webhook, egress and room webhooks, sources |
| Session lock | `go/internal/control/locks.go` | a map of counted mutexes, a set of claims | lock, unlock, claim, release |
| Session store | `go/internal/state` | SQLite rows: sessions, egresses, dial-ins, transcripts, minutes | one SQL statement or transaction per operation |
| Session opening | `go/internal/control/{control,identity,scribe}.go` | - | resolve, store, dispatch, mint tokens |
| Inbound calls | `go/internal/control/{inbound,held}.go` | held calls by call and by token, nonces, in memory | answer, conference callback, bridge |
| Dial-in meetings | `go/internal/control/{dialin,meeting,prompts}.go` | dial-in rows: PIN, allowed numbers, opened_at; PIN prompts, in memory | ask for a PIN, admit, set numbers, sweep |
| Agent dispatch | `go/internal/control/agent.go` | the agent's refusal in the session row | invite, remove |
| Transcripts, minutes | `go/internal/control/{transcripts,minutes}.go` | numbered versions, unique by hash | submit, list, read |
| Media server | external, called by `go/internal/transport` | rooms, participants, egresses, SIP legs, webhooks | - |
| Configuration store | `go/internal/configstore`, published through `go/internal/admin` | append-only revisions and releases, the live snapshot | put, delete, restore, publish, roll back, seed, refresh |
| Configuration rules | `go/internal/config`, `python/dafter_core` | none: pure functions | resolve, check, hash |
| Agent runtime | `python/dafter_runtime` | who is awake and addressed, what is paused or held back, what was said, spent and agreed | events of the voice pipeline, timers, tool calls |
| Scribe | `python/dafter_scribe`, `dafter_runtime/scribing.py` | lines, running notes, minutes, scores | hear, rewrite, answer for minutes, close |
| Batch transcription | `python/dafter_batch`, `dafter_providers/sarvam/batch.py` | none between sessions | one pass per session |
| Evaluations | `python/dafter_evals` | none | measure, score |

The parts meet in four ways.  HTTP requests and webhooks run as concurrent
handlers of one control process.  Handlers share the SQLite store, where one
statement (or one transaction) is atomic and a handler's sequence of them is
not; control processes may share one configuration store.  They call the media
server, which can refuse, fail, or do the work and fail to say so.  The media
server and the carrier call back with webhooks that come late, twice or not at
all.  Inside the Python agent and the scribe, callbacks, tasks and timers run
one at a time on one event loop, in an order nobody controls.

What is hard is therefore the order of things: handlers that interleave between
two calls, answers that are stale when used, a step of several that fails, a
process that restarts between two steps, a timer that fires as what it waited
for happens.  `PROJECT.json` lists each such hazard at its line and the
properties that are there for it.

## Modules of the control plane

| Module | Models | Extends |
| --- | --- | --- |
| `SessionStore` | the rows of one call: `session`, `joined`, `ended`, `rows`, `dialIn`; one operator per SQL statement | - |
| `MediaServer` | the media server as the control plane relies on it: the room, tokens and people, tracks, egresses, webhooks in flight (external) | `SessionStore` |
| `Recording` | every handler that changes what a call records | `MediaServer` |
| `MCRecording` | symmetry of the instances | `Recording` |
| `SessionMutex` | what a lock per session promises | - |
| `SessionLocks` | `sessionLocks.lock` and its unlock, statement by statement; implements `SessionMutex` | - |
| `HeldCalls` | the table of held calls, one operator per method of `heldCalls` | - |
| `InboundCalls` | the answer, conference and bridge webhooks of a call to the agent, with the carrier that sends them | `HeldCalls` |
| `Releases` | what the configuration store promises those who run a release | - |
| `ConfigStore` | editors, releases, starts and refreshes of several processes on one store; implements `Releases` | - |
| `MCControl` | four scenes: two of `InboundCalls`, two of `ConfigStore` | both |
| `DialIn` | meetings people phone into: PINs, numbers, prompts, the sweep, rooms that open and close | `HeldCalls` |
| `MCDialIn` | two scenes of `DialIn`, kept apart by an action constraint | `DialIn` |

`RecordingProofs`, `ServerProofs`, `HeldCallsProofs`, `InboundCallsProofs` and
`DialInProofs` hold the theorems.

### Recording

A handler `h` is one request or webhook being served.  `op[h]` says which,
`pc[h]` which call to the store or the media server it makes next; a step is
that call with the local decisions up to the next one, because that is where
handlers interleave.  `cur[h]` is the egress it started and has not stored,
`todo[h]` the rows its loop still has to look at, `arg[h]` the person or track
it is about, `endsNow[h]` whether it was the one to end the call.  `holder` is
the handler inside the session lock and `claims` is `Service.voices`.

| Code | Actions |
| --- | --- |
| `openSession`, `createSession` | `CreateSession`, `StartEgress`, `StoreEgress`, `AnswerCreator` |
| `joinSession`, `resumeRecording` | `Join`, `Lock`, `ListToResume`, `ProbeToResume`, `Settle`, `StartEgress`, `StoreEgress` |
| `startRecording`, `startEgress` | `StartRecording`, `FindOwner`, `StartEgress`, `StoreEgress`, `UndoEgress` |
| `stopRecording`, `stopEgress` | `StopRecording`, `ListToStop`, `Stop`, `Lookup`, `Settle` |
| `mediaWebhook` | `ParticipantJoined`, `TrackPublished`, `EgressEnded`, `RoomFinished`, and `LoseHook` and `Take` for the delivery |
| `recordVoice` | `ListVoices`, `FindOwner`, `StartEgress`, `StoreEgress` |
| `roomFinished` | `Lock`, `MarkEnded`, `ListToSweep`, `Stop`, `Lookup`, `Settle`, `CloseDialIn` |
| `transcriptionSources` | `TranscriptionSources`, `ListSources`, `ProbeSource`, `Settle` |

Each call has its failing form, enabled by `Faults`, with the early return or
the logged-and-ignored path the code takes.  A start or a stop may fail although
the media server did it (the answer is lost): then an egress runs that no row and
no handler names, or one is over that is looked up.  `Crash` forgets every handler, the
lock and the claims, and keeps the store and the media server.

Abstractions: one session (nothing in these handlers relates two); times are
set or unset; join tokens are held for ever (they live 15 minutes, longer than
an empty room stays open, which is what matters); what is recorded is an id,
its kind and its track; formatting of answers, logging and metrics are left
out.  `MaxEgresses` bounds the egresses the media server starts (one more is
refused as out of capacity) and `MaxCrashes` the restarts.

### SessionLocks

`refs`, `mu` and `locks` are the reference counts, the mutexes and the map of
`locks.go`; `pc[u]` walks the statements of `lock` and of the function it
returns: take the map's mutex and a reference, wait for the entry's mutex,
release it, drop the reference and delete the entry at zero.  The refinement
maps an entry's owner to the abstract mutex's.

### HeldCalls, InboundCalls

A person phones; the carrier asks what to do (`answerCall`), is told to hold the
call in a conference named by a minted token, says when the caller has entered
it (`callHeld`), and asks again when the SIP leg that dials the caller back is
answered (`bridgeCall`).  `byCall` and `byToken` are the two maps of `held.go`;
each operator of `HeldCalls` is a method, atomic under the table's mutex.

| Code | Actions |
| --- | --- |
| `answerCall`, `openSession` | `Ring`, `OpenSession`, `Hold`, `Reply` |
| `callHeld`, `PlaceCall` | `CallBack`, `Dial`, `PlaceCall`, `PlaceCallFails`, `Redial`, `CallBackReply` |
| `bridgeCall` | `BridgeLeg`, `RefuseLeg` |
| `heldCalls.prune` | `HoldExpires` |
| the carrier (external) | `Post`, `LegRingsOut`, `CallerHangsUp` |

The carrier repeats a request whose answer is lost (`Lossy`) or, if `Overlap`
says so, one it has no answer to yet.  A dial-back that fails (`Faults`) may have
placed its leg all the same (`Ambiguous`).  Abstractions: a carrier never uses a
nonce for two calls, so `fresh` accepts; tokens are never minted twice; a request
that is refused as unsigned or unknown changes nothing and is a stutter.

### DialIn

`scan[a]` is where the sweep, or the request of a caller, is: `running` and
`SweepDialIns` are the same loop, read rows, ask the media server once
(`OpenRooms`), settle row by row, and a scan keeps what it read (`rows`, `old`)
and what it was told (`open`) while other scans, webhooks and people move on.

| Code | Actions |
| --- | --- |
| `openDialIn`, `setAllowedNumbers` | `CreateSession`, `SetNumbers` |
| `SweepDialIns` | `SweepList`, `Look`, `Settle`, `SweepDone`, `ScanFails` |
| `answerMeeting`, `meetingsAllowing` | `Ring`, `ListByNumber`, `Look`, `Settle`, `DecideByNumber`, `Admit`, `Begin`, `ScanFails` |
| `meetingPIN`, `meetingFor` | `PostDigits`, `AnsweredAgain`, `LookupPin`, `Look`, `Settle`, `DecideByPin`, `Allows`, `Admit`, `Retry`, `ScanFails` |
| `prompts.go` | `Begin`, `Retry`, `Found`, `Expires` |
| `roomFinished` | `RoomFinished`, `CloseDialIn` |
| `callHeld` | `DialBack`, successes only |
| media server, carrier (external) | `RoomOpens`, `MarkJoined`, `RoomCloses`, `KeyIn`, `CallerHangsUp` |

Abstractions: a caller's number is the call; a call has one webhook under way at
a time, and the carrier repeats it when its answer is lost; ages are "a day old"
or not; a hold or a prompt does not expire while its call waits for an answer
(ten minutes against seconds).  A PIN whose session has ended may be minted
again.  A dial-back creates the room when it has closed, which is what the media
server does for a SIP participant.

### ConfigStore

`revisions` and `releases` are the two tables; an id is a place, the last
release is live.  `edit[s]` is what the editor of process `s` holds under its
mutex: which call to the store comes next (`at`), for which operation (`by`),
what it read (`members`, `want`, `to`) and what it has left to write.  A call is
one transaction and one step; the mutex is one process's, so two processes
interleave between calls.  `running` is the release of the snapshot,
`loading[s][r]` the id that a refresh read under `Live.mu`, by the poller or by
the handler of a publication, and `unread` a publication the handler has yet to
swap in.

| Code | Actions |
| --- | --- |
| `Editor.Put`, `Delete`, `write`, `apply` | `Change`, `Put` |
| `Editor.Restore` | `Restore`, `CheckRestored`, `Put` |
| `Editor.Publish`, `SQLite.Publish` | `Publish`, `CheckDraft`, `StorePublish` |
| `Editor.Rollback`, `converge` | `Rollback`, `Converge`, `Put`, `Reread`, `StorePublish` |
| `Editor.Seed`, `seed`, `importGitKinds` | `Start` (`Seed`, `ImportGitKinds`), `Converge`, `Put`, `Reread`, `StorePublish` |
| `Live.Refresh`, `Watch`, `API.swap` | `Poll`, `Swap`, `RefreshFails` |
| errors of the store, the process | `StoreFails`, `Start`, `Exit` |

`Clashes` says which combinations of documents do not load; a change is checked
with the combinations it is part of (`configcheck.Write`), a deletion and a
release with all (`configcheck.All`).  `ConfigInv` says that releases are whole
(stored revisions, one for each document), that they load, that an import
publishes nobody's draft, and that a rollback brings back what it names.  Two
exemptions are the code's: a rollback, or a first start, publishes the heads it
reads after it wrote them, so that another process's write in between is
published without a check.  `overlapped` records that two processes have been up
at once.  `Releases` is the abstract promise: releases are made one after the
other and never change, a process runs one that loads and only moves to a newer
one.  It rests on `Live.mu` being held from reading the id to the swap.

Abstractions: a document is a value; actors, notes and the record of changes are
left out; what loads is constant, so a release that an upgraded binary refuses
is not in the model; a process that starts has no admin API yet.

## Modules of the agent, the scribe and the batch worker

Each of these is a machine of its own over one event loop, or a pure reading
that takes one input and computes its result.  They do not share state in the
code but for what a parameter stands for (who the caller is, what was heard), so
they are checked side by side: `MCTalk` and `MCCall` extend several of them, and
a behaviour is one of a single part while the others rest in one state.

| Module | Models (`python/`) | Checked |
| --- | --- | --- |
| `Gate` | `addressing.py`, `naming` and `noise` as its input: who is answered, the follow-up window, the floor a question gives, quiet, the judge's verdict | `GateInv`, `GoesDormant` |
| `Called` | `barge_in.py`, `answering.py`, `called.py`, `presence.py`: output paused, resumed or cut under a caller's voice; the agent that leaves an empty call | `CalledInv`, `PausedForCallerSettles` |
| `Sieve` | `backchannel.py`, on the events of any recognizer, late ones included: acknowledgements held back, and given after all as answers | `SieveInv` |
| `Ears` | `own_voice.py`, `plausible.py`: what is dropped as her own words, or as nobody's | `EchoOnlyOverHerVoice` |
| `Fillers` | `delivery.Filler`: the phrase said while she thinks | `DueInSilentThought` |
| `Phones` | `telephony.py` and the order `worker.entrypoint` starts things in: whom she is linked to, what a phone is told | `EveryPhoneIsTold` |
| `Replies` | `toolbox.Answering`, `memory.py`, `history.py`, `delivery.py`: what of the conversation is asked with, retries and repetitions | `RepliesInv` |
| `Tools` | `tools.py`, `consent.py`, `switching.py`: the lock of the tools, a yes and what it is for, the language | `ToolsInv` |
| `Labels` | `labels.py`: speakers' labels taken out of a stream of chunks | `LabelsAreTakenOut` |
| `Metering` | `listeners.py`, `cost.py`, `timing.py`, `metrics.py`: usage counted as listeners come and go, a turn's timing told once | `MeteringInv` |
| `Events` | `events.py`, `captions.py`: events numbered, sent and lost; captions open and final | `EventsInv` |
| `Wording` | `naming.py`, `noise.py`, the comparison in `own_voice.py`: words, names, acknowledgements | `WordingInv` |
| `Scribe` | `dafter_scribe`: `transcript`, `writer`, `closing`, `judging`, and `dafter_runtime/scribing.py`: lines, notes, minutes, scores | `ScribeInv` |
| `Notes` | `dafter_scribe/notes.py`: what is made of the model's answer | `EverybodysPoints` |
| `AfterCall` | `closing.py`, `dafter_batch`, `sarvam/batch.py`: recordings waited for, both renderings made, sorted and stored under one deadline | `AfterCallInv` |
| `Config` | `dafter_core`: how a document is read, its defaults, the rules across its parts | through `Plan` |
| `Plan` | `plan.py`, `personas.py`, `stages.py`, `worker.py` of agent and scribe, providers: what a worker takes, refuses and builds | `PlanInv` |
| `Spoken` | `spoken_hindi.py`: numbers, amounts, times, dates, phone numbers in words | `ReadsBack` |
| `Streams` | `speech_plan.py`, `sarvam/sentences.py`: sentences cut for the voice, the first by itself | `StreamsInv` |
| `Places` | what stands at some places of a sequence, in order; `Streams`, `Notes`, `Labels` and `Wording` use it | |
| `Wer` | `dafter_evals/wer.py`: the word error rate against the fewest errors of any alignment | `EvalsInv` |
| `Overlaps` | `dafter_evals`: `probe`, `turns`, `measure`: whether she stopped when somebody talked over her | `EvalsInv` |
| `Evals` | what the two report | `EvalsInv` |

What they abstract from is the data no decision reads.  A transcript is what
`naming`, `noise` or `consent` make of it, a clock reading is an age or a tick, a
timer that is set may fire at any later step, and the voice framework's session
(what plays, what was cut, what is outstanding) is modelled from how the code
uses it.  The parts worth knowing:

- `Gate` has one action per callback that `called.Called` registers: a line
  heard, a reply that thinks, speaks, is interrupted or ends, somebody who
  joins or leaves, the window that closes, the judge that answers late.  A reply
  that is asked for interrupts the one that plays, and takes the place of one that
  did not begin, only where `turn.interruption.enabled` is on (`interruptible`,
  read once); where it is off, replies wait for each other in `toCome`.  Then the
  end of a reply hands the floor to whoever was answered last, and not to whom it
  answered: that is what the code does, and `FloorIsTheirs` says it (theirs, unless
  a reply is to come; and none is, where interruption is on and nothing cut the
  one that plays).  A stop silences her in either setting (`Voice.hush` forces it).
- `Called` lets the caller change at any step as a gate may change it, so that
  what is paused for one caller is seen by the next.
- `Called` has the same setting (`mayInterrupt`): where it is off, no voice pauses
  or cuts a reply, so `PauseIsKnown` says that none is paused.
- `Sieve` numbers the recognizer's events; `passed` are those that reach the
  turn.  `SieveInv`: in the order they were said, and an utterance as a whole or
  not at all, with answers that are given late, while a reply ends, is
  interrupted, or is followed by another.  An utterance is what comes from a START
  to its END.  Transcripts also come outside of one, because nothing orders what
  a recognizer sends (`FinalFirstStream` of `sarvam/realtime.py` gives the END
  away without the final transcript when its grace is over).  The sieve cannot
  know what such a transcript belongs to: a final is then passed, or held and
  dropped, by itself, although its words were said in the utterance before, and
  one that comes after the next START is taken for a part of that.  `WholeUtterance`
  is about what stands between START and END, with late ones anywhere between.
- `Events` sends each event in a task of its own; what keeps them in order is that
  a task awaits the one before, which is a guard of `_send` here.
- `Tools` counts the yeses a person gave to a request and the runs made for
  them; the tools' lock serves waiting calls in order, and a call may wait while
  others talk.
- `Replies` names an item of the conversation by its place: what a reply is asked
  with (`request.body`), what is being folded and what the minutes tell are sets
  of places, and an output names the place of its call.
- `Metering` takes what a listener's session used as a number of units; what the
  process knows is the number of units of all that are open, closing or past.
- `Scribe` takes a line as its number and its length.  `pending` and `asking` are
  sets of lines, because the order the notes are written from is that of the
  numbers.
- `AfterCall` orders a set by rank: the n-th of `inOrder` is before all but n of
  the rest, which is what both sorts of `dafter_batch` (sources by recording,
  pieces by time, recording and place) compute.
- `Plan` edits a document after it was sealed, dispatches it to both workers,
  which plan it twice, when offered and when the job starts.
- `Spoken`, `Wer`, `Wording`, `Overlaps` compare an algorithm with a definition
  of what it computes: what is spoken can be told apart from every other
  expression of its kind that means something else, the errors are the fewest of
  any alignment, one edit is one edit, a stop is where she fell quiet.
- `Spoken` takes every hour with every meridiem and every year with two digits or
  four.  Numbers, shares and dates that mean the same are also read the same, so
  that a year of two digits is said in full.  Times are told apart by their words
  only if those with am or pm are of the 12-hour clock (`OfTheClock`): the code
  takes hours up to 23 with a meridiem, and reads "15:30 pm" in the words of
  "3:30 am" (see below).
- The loops of `Labels` and `Wording` (a chunk fed, a text scanned, names and
  phrases looked for) have one operator for a round (`round`, `scanned`,
  `spanned`, `parsed`), and are functions of how many rounds were made.  What is
  taken out of a sequence is said by the places that stay (`standing`).

## Runs

| Run | Asks | Bounds |
| --- | --- | --- |
| `faults` | With every call able to fail, lost webhooks and a restart: is nothing recorded twice, is the lock held by whoever works under it? | 2 handlers, 2 egresses, 1 person, 1 restart |
| `tracks` | Redelivered `track_published`, the after-call worker, failing calls: is each voice recorded once and claimed while it is worked on, is no running egress written off? | 2 handlers, 2 egresses, 1 track |
| `live` | Operators, joins and webhooks with no failing call: is everything that runs on record, does an ended call lose its dial-in, is the lock handed on, does a call end, is a reported end written? | 2 handlers, 1 egress |
| `reopen` (violation) | Can an ended call be recorded again? | 2 handlers, 2 egresses |
| `lateend` (violation) | Is every finished recording settled? | 1 egress |
| `locks` | Is the lock exclusive, the map clean, everybody served, and does it implement `SessionMutex`? | 3 handlers, 2 sessions |
| `control` | Held calls: the limit, the two maps, one leg, a caller who is dialed or gone.  Configuration: releases whole and loading, no draft published by accident, the newest release run, `Releases` implemented | four scenes, below |
| `overlap` (violation) | Does one call open one session? | requests repeated while served |
| `admission` | Who gets in by number, by PIN and number, when PINs are minted again, numbers change, rows end; is nobody asked too often? | 2 scenes: 2 meetings, 2 PINs, 1 caller; 1 meeting, 2 attempts, 1 restart |
| `sweep` | Does no scan end a dial-in on what it no longer knows, and does a meeting that ran end? | 1 meeting that opens twice, 1 caller, 1 failing call, 1 restart |
| `talk` | What she decides while people talk: the six parts `Gate` to `Phones` | 2 people; 3 lines, 4 utterances, 5 recognizer events over 2 replies, 3 ticks, 3 thoughts, 2 phones and 2 browsers |
| `call` | What a session plans, says, spends, tells and writes: the other parts | per part in `MCCall.cfg`: 3 items, 2 callers and 3 tools over 4 turns, texts of 4 to 5 characters in every chunking, words of 5 letters, lines of 3 words, 3 recordings in 2 renderings, texts of 3 words scored, notes of 3 texts of which 2 are told, recordings of 9 ticks |

Two handlers are enough for the races of `Recording`: every property that
relates handlers relates two, and what a third could do (start, end or settle
an egress in between) the media server and the second handler already do.  Two
egresses let a recording be replaced; `live` has one, because its questions are
about one recording, and `RunningIsRecorded` is proved for any number.  Three
users of a lock give one inside, one waiting and one that arrives as the entry
goes.

`control` has four scenes, for what they bound differently.  Two calls for one
place: the first answered twice at most and the second once, without restarts,
and a failed dial-back placed no leg.  One call, answered three times at most,
with a restart, lost answers and dial-backs that failed after they dialed.  One
process on the configuration store: four revisions, three releases, and either a
call that fails or a second start, so that an import meets drafts, half-written
rollbacks and releases that do not load.  Two processes: three revisions, three
releases, no failures; the second only starts and writes, and the pollers rest,
so what a process comes to run is watched with one process alone.  The hazards
of several processes relate one that writes and one that publishes, so a third
adds nothing, and `StoreImplementsReleases` is proved for any number.

Two scans, the sweep's and a caller's, are enough for `DialIn`, because what a
scan knows is only outdated by one that ends or marks its row; a room that opens
twice gives each of them outdated knowledge of either kind.

Two people are enough for `Gate` and `Called`, which know one addressee and
"somebody else"; `GateKeeps` and `PausesAreKnown` are proved for any number.
The bounds of the pure readings let each of their cases happen next to each
other: a number and a half, an interval before midnight, a label cut in every
place, two gaps in one window.  `MaxScaled` of `Spoken` ends below the amounts of a scale whose words have
two readings in Hindi itself ("one crore one thousand" is also a number of
thousands).

The three violations are disagreements between the code and what its tests
say; the findings in `PROJECT.json` quote both.  A join that read the session
before it waited for the lock starts recording a call that has ended meanwhile.
An egress whose end is reported before its row is written is never settled by
that report.  An answer webhook repeated while its session opens opens another.

### What the code does not promise

Seen while modelling, with no run of their own, because no property of the code
says otherwise:

- `HeldIsDialed` needs a carrier that waits for an answer.  With `Overlap`, a
  conference callback repeated while the first dials is told all is well, and
  nobody dials again when the first fails.
- The bound on PIN attempts needs answers that arrive.  With `Lossy`, the
  refusal that is lost has already forgotten how many PINs were wrong, and the
  request that repeats it starts a new count.
- A room that closes between a caller's admission and the dial-back opens again
  for the caller alone: `DialBack` does not ask whether it is open.
- A token that outlives the empty room lets its holder back into a room that
  nobody records until somebody joins.
- With two processes on one configuration store, a write between a rollback's
  last write and its reading of the heads is in the release, unchecked
  (`editor.go:178`).
- An import that failed between storing git's documents and publishing them
  leaves them in the draft (`seed.go:55`); if git then goes back, `Seed` finds
  nothing changed and the next publication carries them.
- A listener that closes takes its usage out of the totals until it is closed
  (`listeners.py:121`), so a report in between shows less than the one before;
  nothing is counted twice.
- `sentence_cut` looks at what it holds: when a chunk ends behind "Rs. ", the
  piece is cut before the number that comes next, and a piece that then begins
  "12. " loses it as the marker of a list.  `NumbersStayWhole` exempts the ends
  of chunks for it.
- With language switching, `toolbox.py:114` replaces the instructions into which
  `memory.py:93` wrote the minutes; until the next fold the model is asked
  without them.
- `times` (`spoken_hindi.py:146`) accepts an hour above 12 with am or pm and takes
  the period of the day from the meridiem with that hour: "15:30 pm" is read as
  half past three at night.  `ReadsBack` is about the times there are.
- An amount in rupees is read to the paisa, what is beyond is dropped
  (`spoken_hindi.py:105`), so "1.005" and "1.00" rupees are read alike;
  `meaning` says so, and `MCAmounts` has fractions of three digits.
- A recording whose start was served but not answered, or whose row could not be
  written and whose stop failed too, records on with no row, and its track may be
  recorded again.  `OneAutoRecording` and `TracksAreClaimed` are about what is on
  record.
- Where interruption is off, a question of hers that ends while somebody else's
  reply is waiting gives the floor to that other person.
- `naming.py` lists the modifier letter apostrophe (U+02BC) among the joiners it
  drops, but it is a letter to Unicode, so it stays in the word.
- A name that goes on behind a pause ("Asha, Rao", when both "Asha" and "Asha
  Rao" are spellings) is one span across it, so a call can become an aside;
  `CalledStaysCalled` exempts it.
- The longest phrase is taken first.  If one begins another and what is left then
  begins no phrase, acknowledgements can say something; `Unambiguous` asks of the
  phrases what the catalogue's lists have, that this does not happen.
- `turns.overlap` tells the first `STOP_QUIET` pause as the time of a stop also
  where it judged by the longer `CONTINUE_GAP`.

### Fairness

Handlers go on (every call has a timeout), a Go mutex that is unlocked again
and again reaches each waiter (its starvation mode), webhooks get a goroutine
each, and an egress that ends, ends.  Strong fairness is used only where
something is disabled and enabled again: the lock, and a webhook waiting for
one of the few handlers the model has.  Nothing obliges a person to join or to
leave, an operator to act, or a call to the media server to succeed, except that
`control` asks what becomes of a caller when a dial-back that is tried for
ever does succeed once.  The carrier delivers its callbacks and repeats those
that failed.  In `DialIn` the sweep's ticker ticks and a sweep goes on; calls
fail finitely often (`MaxFaults`), callers and people do as they like, and no
webhook needs to arrive.  In `ConfigStore` the poller's ticker ticks and a
refresh that began goes on; the store fails finitely often; no editor needs to
go on.

In `Gate`, `Called` and `Phones` a timer that is set fires, a task that was
started goes on, a reply that is being made or played ends, and a voice stops in
the end; nobody needs to speak, join or pick up.  That is the event loop's
promise and the framework's.  The number of inputs is bounded, so that "once
nobody says anything more" is reached.

## Proofs

TLAPS proves, for every number of handlers, people, tracks, egresses, calls,
processes, documents, schemas, tools, lines, recordings and texts:

| Module | Theorem | Says |
| --- | --- | --- |
| `RecordingProofs` | `TypeCorrect`, `LockDiscipline` | `TypeOK`; `LockInv` |
| | `SettledRowsAreOver` | `StoppedIsOver` |
| | `AutomaticRecordingsNeverDouble` | `OneAutoRecording` |
| | `VoicesAreRecordedOnce` | `TracksAreClaimed` |
| | `NothingRecordsUnseen` | `RunningIsRecorded`, if no call fails and nothing restarts |
| | `EndTakesTheDialIn` | `EndedClosesDialIn`, on the same hypothesis |
| `InboundCallsProofs` | `TypeCorrect`, `LimitHeld`, `OneLegBridged`, `LimitAndLegs` | `HeldInv` |
| | `EntriesExpire` | `EveryEntryExpires`, if the carrier repeats only what was answered (`~Overlap`) |
| `DialInProofs` | `TypeCorrect`, `AdmitsAsStated` | who is held came in by the door the meeting states; no number outlives its dial-in |
| | `AsksAsAllowed` | all of `DialInInv`, if no answer is lost (`~Lossy`) |
| | `EndsAfterRun` | `EndsOnlyAfterRun`, for any number of scans |
| `ServerProofs` | `Invariance`, `Exclusion`, `NoLeftovers` | `IndInv` and what it is for |
| | `Refinement` | `SessionLocks` implements `SessionMutex` |
| | `ReleasesStayWhole`, `ReleasesAreChecked` | types; `ConfigInv` |
| | `StoreImplementsReleases` | the store implements `Releases` |
| `TalkProofs` | `GateKeeps`, `WindowRuns`, `FloorHandedOver` | `GateInv`, and of it the window and the floor |
| | `PausesAreKnown` | `CalledInv` |
| | `FillersWaitForSilence` | `DueInSilentThought` |
| | `PassedInOrderAndWhole` | `SieveInv` |
| | `EchoesAreOfHerVoice` | `EchoOnlyOverHerVoice` |
| | `EvaluationsAreTrue` | `EvalsInv`: the word error rate and the stops |
| | `StopsMeasuredRight` | `StopsAreMeasured`, a part of it |
| `CallProofs` | `ConsentIsOnesOwn` | `ToolsInv` |
| | `ToldAsItWas` | `EventsInv` |
| | `OneAnswerOfWholePairs` | `RepliesInv` |
| | `NoLineIsLost` | `ScribeInv` |
| | `NothingCountedTwice` | `MeteringInv` |
| | `WhatWasSealedRuns` | `PlanInv` |
| `TextProofs` | `StoredWhole` | `AfterCallInv` |
| | `EveryLetterSaidInOrder` | `StreamsInv` |
| | `EverybodyIsToldRight` | `EverybodysPoints` |
| | `LabelsNeverSpoken` | `LabelsAreTakenOut` |
| | `LinesReadRight` | `WordingInv` |

`HeldCallsProofs` has the lemmas on the table of held calls that both
`InboundCallsProofs` and `DialInProofs` rest on.

The theorems assume only the named assumptions of the modules, and what the
table states.  Those hypotheses are not for the proof's sake: without each of
them TLC finds the property broken, because the code promises it only then (a
handler that fails halfway leaves the dial-in to the sweep; a lost refusal has
forgotten the count, see above).

Few of the properties are inductive; each is strengthened where it is proved:

- `EgressInv` of `RecordingProofs` ties rows, egresses and the handlers that
  carry one: an egress in `cur` has no row and belongs to one handler; a row a
  loop looks at is stored, and a handler that is about to settle a row has seen
  it end or be told to;
- `CreationInv` says that while the creation is at work nothing else is, which
  is why creation needs no lock;
- `AutoInv` says who may start an automatic recording: only the holder of the
  lock or the creation, and only once every stored one is over;
- `VoiceInv` says that the handler that claimed a track and found nothing
  recording it has the track to itself: until it starts its egress there is none
  on record, and then only its own; `ClosingInv`, that the handler whose statement
  ended the call has that to go by until it comes to the dial-in;
- for the locks, `IndInv` counts the handlers that refer to an entry;
- for held calls, `AloneInv` says that a call about to be held has no entry and
  no other answer under way, so that `hold` never replaces one, and
  `JoinedIsBridged` that a leg that joined has spent its entry's only bridge;
- for dial-ins, the rows a request still looks at came by the door it asks at,
  no two rows have one PIN, prompts are counted together with the
  restarts that forgot them, and a scan that found a row opened knows a room that
  was open or has run since;
- for the configuration store, revisions and releases are only appended, so what
  a release holds never changes; a refresh loads a release newer than the one
  that runs and no other refresh of the process is under way, so the swap moves
  forward whatever was published meanwhile.  That releases load and drafts stay
  drafts rests on `CheckedEdits`: what an editor publishes as a draft it checked,
  and what it imports, rolls back or seeds makes of what it read the documents it
  checked, as long as no other process was up to write in between (`AloneInv`);
- for the gate, the five parts of `GateInv` hold each other up: the window is
  opened when a reply ends because the addressee is awake, and the floor is the
  addressee's because answering follows what plays;
- for the sieve, what was not passed yet of the latest utterance is in one of
  three places, whole and in order, and later than all that was passed;
- for her own voice, every stretch ends no later than she last spoke, the open
  one is the last, and an echo is judged by the onset of its utterance;
- for the evaluations, the first frame that is long enough behind the last loud
  one ends the first stretch that is quiet for long enough (`QuietIsFound`), which
  is why looking for the frame finds the stretch; a tail she did not stop for has
  no frame that could count, by the cardinalities of what is quiet in it.  For
  the word error rate, what the table holds for two beginnings is what their
  cheapest alignment costs, and an alignment of more ends in one of the three
  ways the table looks at;
- for the tools, what a call waiting for the lock was promised is counted with
  the yeses given and the runs made;
- for the replies (`RepliesInd`), an output answers a call that is before it, and
  what is held back of a reply is of one request, so that one of the two is heard;
- for the scribe (`ScribeInd`), lines are told apart by their numbers and what the
  model is asked about was not written from, so that taking out by number what it
  was given takes out nothing else; a free label is there because there is one
  more than people have;
- for what is spent (`MeteringInd`), what a session used is somewhere (open,
  closing or past) and never goes down, and the counters follow reports only
  upwards;
- for the transcript (`AfterCallInd`), the jobs of a rendering took the first
  `jobsDone * FilesPerJob` sources, so the last job leaves none out, and the
  sources are the files that were finished once none was running.  That a rank in
  a total order of a finite set lists the set in order (`RankedInOrder`) is proved
  with the library's theorems on cardinalities and bijections;
- for the plan (`PlanInd`), the plan of a document a worker took still passes,
  because nobody edits a document that was dispatched and the seal is put on
  once; a hash in a document is that of the document it was put on, whatever was
  edited since.  The rules and checks are tuples of codes of which the first is
  reported, so that a document nothing is reported of passes each of them
  (`NothingRefused`).  `PlanAssumption` and `ConfigAssumption` say of the schema
  what the proof needs: which fields there must be, and that every language in
  it has a base; that a hash tells documents apart is how `hash_document` models
  SHA-256;
- for what she says (`StreamsInd`), what is kept back is the end of what came, and
  what the voice got is either all that came, with no sentence whole in it, or the
  first sentence, one flush, and the words behind it, of which only blanks wait.
  `Streams` takes characters out of a text by listing the places that stay
  (`placed`) and not by a recursive filter, so that no induction over texts is
  needed: places are listed in one way only (`ListedOnce`), so the letters of two
  texts are those of the one and then of the other (`LettersOfBoth`);
- for the notes, the entries of the answer are counted one after another: the
  first few points of an entry are the first few of those before it and of its
  own, so what was sent of the answer is what each label was told of;
- for the labels (`LabelsInd`), what was passed on is what stands outside labels
  up to where something is held, and what is held closes no label; each round of
  the loop leaves less to look at, so it has ended when it stops, and no label is
  longer than what may be held, so what is given up on was none;
- for what a line is read as, each loop is a function of its rounds that exists
  (`LoopIs`), and what a round keeps holds after all of them (`RoundsKeep`): the
  scan has the words written so far, the search for names goes the same way in
  the line as in what stands before a gap that no name crosses, and in a line of
  acknowledgements the search for phrases goes from cut to cut, because
  `Unambiguous` makes the longest phrase end at one.  Two words are one edit
  apart just where they first differ (`EditIs`).

Where a proof needs a least number (the first stretch she spoke in, a free
label) it takes one from the well-foundedness of the numbers, which the library
proves.  The lemmas `MediaMovesOn`, `RowsMoveOn`, `HooksMoveOn` of
`RecordingProofs` say once how the shared state can change in any step, so that
each invariant's proof has one step per action with only what that action
disturbs; the other proof modules have one lemma per action, or per group of
actions that disturb the same parts, for the same reason.

Only model-checked: all liveness (`ReportsAreWorkedOff`, `LockIsServed`,
`HeldIsDialed`, `RunsTheNewest`, `RanMeetingEnds`, `GoesDormant`,
`PausedForCallerSettles`, `EveryPhoneIsTold`), which is out of this prover's
reach, the violations, and `ReadsBack` of `Spoken`: its words are numerals that
`ToString` makes, of which the provers know nothing.

## Not modelled, and why

`PROJECT.json` lists every component.  Left out for good: formatting and parsing
of carrier XML, tokens and metrics, the cryptography of sealed rows (pure
functions of no state); generated enums and schemas; prompt texts and the
models' answers; loudness (arithmetic on samples); the everyday tools (a clock,
a calculator); word lists; telemetry; wire formats of the providers; corpora and
reports of the evaluations; the browser clients; deployment files.

What a run does not try: a prompt of `DialIn` that expires while its caller keys
digits; `RunningIsRecorded` and `EndedClosesDialIn` where calls fail (they do not
hold there); `EveryEntryExpires` where answers overlap, as in the `overlap` run
(the second call's entry takes the place of the first in `byCall`, and the first
token stays in `byToken`); `DialInInv` with lost answers.  `EveryPhoneIsTold` is checked for agents that are not themselves dialed
(`OnAPhone` is FALSE), `StreamsInv` with one blank
behind "Rs.", where two would hide the number from `sentence_cut`.

Details left out of what is modelled: an event that the schema refuses
(`SessionEvents.emit` logs it and gives it no number; what the parts modelled
here tell passes); the start of a listener's session, which the framework
orders with its close, so that hazard has no property; `FirstSentenceAlone` handling a message
event, which a stream of text does not have; a label alone on its line and a
tool call in the middle of a label (`LabelsAreTakenOut` says so); a release that
loads in one version of the binary and not in the next.

Left out for now, in the order worth doing:

1. Transcript versions by hash and agent dispatch: little control each; the
   hazards name what the code leaves open.
2. The merge of layers into a document in `go/internal/config`, as the reference
   for what `Config` reads in Python.
