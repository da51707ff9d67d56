-------------------------------- MODULE Events --------------------------------
(***************************************************************************)
(* What the worker tells a room: events.SessionEvents numbers its events   *)
(* and sends them one behind the other; captions.Captions cuts what people *)
(* and the agent say into segments, partial until they are final.  Sending *)
(* may fail, which loses that event alone.  A text is blank or it is not.  *)
(***************************************************************************)
EXTENDS Naturals, Sequences, FiniteSets

CONSTANTS Voices,      \* participants the control plane minted
          Nobody0,
          States,       \* AgentState
          Unknown,     \* states only the framework has
          MaxEmits,    \* bound: events
          MaxSegments  \* bound: segments

NoState == "none"

ASSUME EventsAssumption == /\ Nobody0 \notin Voices /\ States \cap Unknown = {}
                           /\ NoState \notin States
                           /\ {MaxEmits, MaxSegments} \subseteq Nat

VARIABLES sequence,    \* SessionEvents._sequence
          chain,       \* events whose task is not over, in the order they were made
          received,    \* the numbers a participant of the room received
          view,        \* what that participant was last told of the agent
          viewLost,    \* a later state was not delivered
          current, wokenBy,     \* SessionEvents._current, _awake
          open,        \* Captions._open
          agentSegment, agentText,  \* AgentCaptions
          finals,      \* segments that are final
          segments     \* segments so far

tellVars == <<sequence, chain>>
viewVars == <<received, view, viewLost>>
stateVars == <<current, wokenBy>>
captionVars == <<open, agentSegment, agentText, finals, segments>>
eventsVars == <<tellVars, viewVars, stateVars, captionVars>>

ACaption == [state |-> NoState, by |-> Nobody0]
NoSegment == 0

EventsInit ==
  /\ sequence = 0 /\ chain = <<>> /\ received = <<>> /\ view = <<>> /\ viewLost = FALSE
  /\ current = NoState /\ wokenBy = Nobody0
  /\ open = [v \in Voices |-> NoSegment]
  /\ agentSegment = NoSegment /\ agentText = FALSE /\ finals = {} /\ segments = 0

\* envelope and emit: the event has its number before it is sent.  An event the
\* schema refuses is dropped and takes no number; those told here pass it.
emit(about) ==
  /\ sequence < MaxEmits /\ sequence' = sequence + 1
  /\ chain' = Append(chain, [number |-> sequence, about |-> about])

\* What a state event says of the agent.
_state(now, awake) == [state |-> now, by |-> awake]
isState(e) == e.about # ACaption

\* The tasks that are left when the i-th is over.
chainWithout(i) == [k \in 1 .. Len(chain) - 1 |-> chain[IF k < i THEN k ELSE k + 1]]

\* Publishing is over, with or without an answer; a failure is only logged.
published(e, delivered) ==
  IF delivered
    THEN /\ received' = Append(received, e.number)
         /\ IF isState(e) THEN view' = <<e.about>> /\ viewLost' = FALSE
                          ELSE UNCHANGED <<view, viewLost>>
    ELSE /\ UNCHANGED <<received, view>>
         /\ viewLost' = (viewLost \/ isState(e))

\* Mutated form: an event is published without waiting for the one before it.
_sendAtOnce(i, delivered) ==
  /\ i \in 1 .. Len(chain)
  /\ chain' = chainWithout(i) /\ published(chain[i], delivered)
  /\ UNCHANGED sequence /\ UNCHANGED stateVars /\ UNCHANGED captionVars

\* The task of an event: it publishes once the task of the event before is over.
_send(i, delivered) ==
  /\ i \in 1 .. Len(chain)
  /\ \A j \in 1 .. Len(chain) : chain[j].number + 1 # chain[i].number
  /\ chain' = chainWithout(i) /\ published(chain[i], delivered)
  /\ UNCHANGED sequence /\ UNCHANGED stateVars /\ UNCHANGED captionVars

(***************************************************************************)
(* The agent's state and who woke it (Voice.addressed).  States are told   *)
(* as records; a caption is a record of no state.                          *)
(***************************************************************************)
\* States only the framework has are not told.
agent_state(now) == now \in States

changed(now) ==
  /\ agent_state(now) /\ now # current
  /\ emit(_state(now, wokenBy))
  /\ current' = now
  /\ UNCHANGED wokenBy /\ UNCHANGED captionVars /\ UNCHANGED viewVars

addressed(by) ==
  /\ by # wokenBy /\ wokenBy' = by
  /\ IF current # NoState THEN emit(_state(current, by)) ELSE UNCHANGED tellVars
  /\ UNCHANGED current /\ UNCHANGED captionVars /\ UNCHANGED viewVars

(***************************************************************************)
(* Captions.                                                               *)
(***************************************************************************)
segment(of) == IF of = NoSegment THEN segments + 1 ELSE of
openSegment(of) == segments' = IF of = NoSegment THEN segments + 1 ELSE segments

captioned(v, final) ==
  /\ segments < MaxSegments \/ open[v] # NoSegment
  /\ openSegment(open[v])
  /\ emit(ACaption)
  /\ LET sid == segment(open[v]) IN
     /\ open' = [open EXCEPT ![v] = IF final THEN NoSegment ELSE sid]
     /\ finals' = IF final THEN finals \cup {sid} ELSE finals
  /\ UNCHANGED <<agentSegment, agentText>> /\ UNCHANGED stateVars /\ UNCHANGED viewVars

\* A listener may still transcribe somebody after they left.
captionLeft(v) ==
  /\ open[v] # NoSegment /\ open' = [open EXCEPT ![v] = NoSegment]
  /\ UNCHANGED <<agentSegment, agentText, finals, segments>>
  /\ UNCHANGED tellVars /\ UNCHANGED stateVars /\ UNCHANGED viewVars

capture_text(blank) ==
  /\ segments < MaxSegments \/ agentSegment # NoSegment
  /\ openSegment(agentSegment) /\ agentSegment' = segment(agentSegment)
  /\ agentText' = (agentText \/ ~blank)
  /\ IF agentText' THEN emit(ACaption) ELSE UNCHANGED tellVars
  /\ UNCHANGED <<open, finals>> /\ UNCHANGED stateVars /\ UNCHANGED viewVars

flush ==
  /\ agentSegment # NoSegment
  /\ IF agentText
       THEN emit(ACaption) /\ finals' = finals \cup {agentSegment}
       ELSE UNCHANGED tellVars /\ UNCHANGED finals
  /\ agentSegment' = NoSegment /\ agentText' = FALSE
  /\ UNCHANGED <<open, segments>> /\ UNCHANGED stateVars /\ UNCHANGED viewVars

EventsNext ==
  \/ \E b \in BOOLEAN : \/ \E i \in 1 .. Len(chain) : _send(i, b)
                        \/ capture_text(b)
                        \/ \E v \in Voices : captioned(v, b)
  \/ \E now \in States \cup Unknown : changed(now)
  \/ \E v \in Voices : addressed(v) \/ captionLeft(v)
  \/ addressed(Nobody0) \/ flush

EventsSpec == EventsInit /\ [][EventsNext]_eventsVars

(***************************************************************************)
(* Properties.                                                             *)
(***************************************************************************)

\* What a participant receives is in the order of its numbers; once all is
\* sent, and unless the last state was lost, they know the agent's state and
\* who it listens to.
ToldInOrder ==
  /\ \A i, j \in 1 .. Len(received) : i < j => received[i] < received[j]
  /\ chain = <<>> /\ ~viewLost /\ current # NoState => view = <<_state(current, wokenBy)>>

\* A segment that is final is never added to: nobody's words and not the
\* agent's go into one that was closed, and two never share one.
FinalIsFinal ==
  /\ ({open[v] : v \in Voices} \cup {agentSegment}) \cap finals = {}
  /\ \A v, w \in Voices : v # w /\ open[v] # NoSegment => open[v] # open[w]
  /\ \A v \in Voices : open[v] # NoSegment => open[v] # agentSegment

\* Participants are told in order, and never of a segment that was closed.
EventsInv ==
  /\ ToldInOrder
  /\ FinalIsFinal
=============================================================================
