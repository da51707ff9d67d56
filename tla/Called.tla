------------------------------- MODULE Called -------------------------------
(***************************************************************************)
(* A voice over the agent's: barge_in.BargeIn and answering.Voice, and     *)
(* presence.Alone, as called.Called drives them from the listeners of the  *)
(* people in the call.  Gate models who the caller is; here the caller     *)
(* changes as a gate may change it.  Words are counted up to Enough, the   *)
(* number that cuts a reply; a transcript that says "stop" cuts as well.   *)
(* Delays are unbounded: a timer that is set may fire at any later step.   *)
(* The room's output (paused or not) and the speech that plays belong to   *)
(* the framework; a speech that begins lets the output run.                *)
(***************************************************************************)
EXTENDS Naturals, FiniteSets

CONSTANTS People, Nobody,
          Enough,     \* turn.interruption.min_words, at least 1 with a resume
          MaxVoices   \* bound: utterances and arrivals in a behaviour

ASSUME CalledAssumption == /\ Nobody \notin People
                           /\ Enough \in Nat \ {0}
                           /\ MaxVoices \in Nat

VARIABLES mayInterrupt, \* turn.interruption.enabled, read once
          caller,      \* gate.addressee
          here,        \* Roster._present
          voices,      \* whose listener says "speaking"
          pendingHeld, \* Hearing.timer is set
          sustained,   \* Hearing.sustained
          said,        \* Hearing.transcript(), in words
          echoing,     \* BargeIn._echoing
          paused,      \* BargeIn._paused
          resuming,    \* BargeIn._resuming is set
          output,      \* the room output: "runs" or "paused"
          speech,      \* the current speech: "none", "plays", "cut" by a
                       \* voice over it, or "hushed" by a stop
          alone,       \* Alone._timer is set
          gone,        \* the agent left the call
          talk         \* utterances and arrivals so far

calledVars == <<mayInterrupt, caller, here, voices, pendingHeld, sustained, said,
                echoing, paused, resuming, output, speech, alone, gone, talk>>
voiceVars == <<voices, pendingHeld, sustained, said, echoing>>
playVars == <<paused, resuming, output, speech>>
roomVars == <<mayInterrupt, here, alone, gone>>

CalledInit ==
  /\ mayInterrupt \in BOOLEAN
  /\ caller = Nobody /\ here \in SUBSET People
  /\ voices = {} /\ pendingHeld = {} /\ sustained = {} /\ echoing = {}
  /\ said = [p \in People |-> 0]
  /\ paused = FALSE /\ resuming = FALSE /\ output = "runs" /\ speech = "none"
  /\ alone = FALSE /\ gone = FALSE /\ talk = 0

AnotherVoice == talk < MaxVoices /\ talk' = talk + 1

(***************************************************************************)
(* What the handlers share.                                                *)
(***************************************************************************)
_interruptible_speech == mayInterrupt /\ speech = "plays"

\* Voice.pause answers whether there was an interruptible speech to pause.
pausesFor(p) == p \notin echoing /\ _interruptible_speech
_pause(p) ==
  IF pausesFor(p) THEN paused' = TRUE /\ output' = "paused"
                  ELSE UNCHANGED <<paused, output>>

\* Voice.barge_in: interrupt the speech that plays, unless it already is.
\* The output runs again once the speech is done (Done).
_stop == speech' = IF _interruptible_speech THEN "cut" ELSE speech

\* _try: enough words of the caller's, or words that say stop.
_mayCut(p, words) == p = caller /\ words > 0
_mayNot(p, words) == ~(p = caller /\ words >= Enough)
_cut == paused' = FALSE /\ resuming' = FALSE /\ _stop

\* _held and replying: pause for the caller's voice, then try its words.
_pauseAndTry(p) ==
  \/ /\ _mayCut(p, said[p]) /\ _cut
     /\ output' = IF pausesFor(p) THEN "paused" ELSE output
  \/ /\ _mayNot(p, said[p])
     /\ IF p = caller THEN _pause(p) ELSE UNCHANGED <<paused, output>>
     /\ UNCHANGED <<resuming, speech>>

\* Mutated form: the pause is forgotten, its output is not resumed.
_resumedUnheard == resuming' = FALSE /\ paused' = FALSE /\ UNCHANGED output

_resumed == /\ resuming' = FALSE
            /\ paused' = FALSE
            /\ output' = IF paused THEN "runs" ELSE output

(***************************************************************************)
(* The listener of p follows its voice activity and its transcripts.       *)
(***************************************************************************)
speaking(p) ==
  /\ AnotherVoice
  /\ p \in here \ voices
  /\ voices' = voices \cup {p}
  /\ sustained' = sustained \ {p} /\ pendingHeld' = pendingHeld \cup {p}
  /\ resuming' = (resuming /\ p # caller)
  /\ UNCHANGED <<caller, said, echoing, paused, output, speech>> /\ UNCHANGED roomVars

\* Mutated form: the caller's silence starts no resume timer.
quietenedUntimed(p) ==
  /\ p \in voices /\ voices' = voices \ {p}
  /\ sustained' = sustained \ {p} /\ pendingHeld' = pendingHeld \ {p}
  /\ UNCHANGED <<caller, said, echoing, resuming, paused, output, speech, talk>>
  /\ UNCHANGED roomVars

quietened(p) ==
  /\ p \in voices /\ voices' = voices \ {p}
  /\ sustained' = sustained \ {p} /\ pendingHeld' = pendingHeld \ {p}
  /\ resuming' = (resuming \/ (paused /\ p = caller))
  /\ UNCHANGED <<caller, said, echoing, paused, output, speech, talk>>
  /\ UNCHANGED roomVars

\* min_duration_ms of p's voice passed.
_held(p) ==
  /\ p \in pendingHeld /\ pendingHeld' = pendingHeld \ {p}
  /\ sustained' = sustained \cup {p}
  /\ _pauseAndTry(p)
  /\ UNCHANGED <<caller, voices, said, echoing, talk>> /\ UNCHANGED roomVars

transcribed(p, words) ==
  /\ p \in here /\ words # said[p]
  /\ said' = [said EXCEPT ![p] = words]
  /\ \/ /\ p \in sustained \/ paused
        /\ _mayCut(p, words) /\ _cut /\ UNCHANGED output
     \/ /\ (p \in sustained \/ paused) => _mayNot(p, words)
        /\ UNCHANGED playVars
  /\ UNCHANGED <<caller, voices, pendingHeld, sustained, echoing, talk>>
  /\ UNCHANGED roomVars

\* p's turn was committed (Called._heard): the words are spent, and the gate
\* answers p, answers nobody, or goes to sleep over p's stop.
committed(p) ==
  /\ said[p] > 0
  /\ said' = [said EXCEPT ![p] = 0]
  /\ \/ \* p called, or is answered without becoming the caller
        /\ caller' \in {caller, p}
        /\ speech' = "plays" /\ output' = "runs"
     \/ caller' = caller /\ UNCHANGED <<speech, output>>
     \/ \* "stop": dormant, and the reply is interrupted, whatever is configured
        /\ caller' = Nobody
        /\ speech' = (IF speech = "plays" THEN "hushed" ELSE speech) /\ UNCHANGED output
  /\ UNCHANGED <<voices, pendingHeld, sustained, echoing, paused, resuming, talk>>
  /\ UNCHANGED roomVars

\* The listener dropped an acknowledgement, or heard the agent itself.
acknowledged(p) ==
  /\ p \in here
  /\ IF p = caller THEN _resumed ELSE UNCHANGED <<paused, resuming, output>>
  /\ UNCHANGED <<caller, speech, talk>> /\ UNCHANGED voiceVars /\ UNCHANGED roomVars

echo(p) ==
  /\ p \in here \ echoing
  /\ echoing' = echoing \cup {p}
  /\ IF p = caller THEN _resumed ELSE UNCHANGED <<paused, resuming, output>>
  /\ UNCHANGED <<caller, speech, talk, voices, pendingHeld, sustained, said>>
  /\ UNCHANGED roomVars

resumeTimer ==
  /\ resuming /\ _resumed
  /\ UNCHANGED <<caller, speech, talk>> /\ UNCHANGED voiceVars /\ UNCHANGED roomVars

(***************************************************************************)
(* People come and go (Called._joined, _left).                             *)
(***************************************************************************)
someoneJoined(p) ==
  /\ AnotherVoice /\ ~gone
  /\ p \notin here /\ here' = here \cup {p}
  /\ alone' = FALSE
  /\ UNCHANGED <<mayInterrupt, caller, gone>> /\ UNCHANGED voiceVars /\ UNCHANGED playVars

someoneLeft(p) ==
  /\ p \in here /\ here' = here \ {p}
  /\ caller' = IF p = caller THEN Nobody ELSE caller
  /\ echoing' = echoing \ {p}
  /\ said' = [said EXCEPT ![p] = 0]
  /\ voices' = voices \ {p}
  /\ sustained' = sustained \ {p} /\ pendingHeld' = pendingHeld \ {p}
  /\ alone' = (alone \/ here' = {})
  /\ UNCHANGED <<mayInterrupt, gone, talk>> /\ UNCHANGED playVars

\* ALONE_GRACE_S passed with nobody in the call.
_left_alone ==
  /\ alone /\ alone' = FALSE /\ gone' = TRUE
  /\ UNCHANGED <<mayInterrupt, caller, here, talk>>
  /\ UNCHANGED voiceVars /\ UNCHANGED playVars

(***************************************************************************)
(* The framework: a reply begins to play (agent_state_changed, replying),  *)
(* plays to its end, or is done after it was cut (Voice.barge_in's done    *)
(* callback resumes the output) or hushed (Voice.hush adds no callback).   *)
(* Replies that wait for one another, where interruption is off, are one   *)
(* speech here.                                                            *)
(***************************************************************************)
replying ==
  /\ speech = "plays" /\ output = "runs"
  /\ caller # Nobody /\ caller \in sustained
  /\ _pauseAndTry(caller)
  /\ UNCHANGED <<caller, talk>> /\ UNCHANGED voiceVars /\ UNCHANGED roomVars

saidToItsEnd ==
  /\ speech = "plays" /\ output = "runs" /\ speech' = "none"
  /\ UNCHANGED <<caller, paused, resuming, output, talk>>
  /\ UNCHANGED voiceVars /\ UNCHANGED roomVars

Done ==
  /\ speech \in {"cut", "hushed"} /\ speech' = "none"
  /\ output' = IF speech = "cut" THEN "runs" ELSE output
  /\ UNCHANGED <<caller, paused, resuming, talk>>
  /\ UNCHANGED voiceVars /\ UNCHANGED roomVars

\* The follow-up window closed: the gate forgets the caller.
fellAsleep ==
  /\ speech = "none" /\ caller # Nobody /\ caller' = Nobody
  /\ UNCHANGED talk /\ UNCHANGED voiceVars /\ UNCHANGED playVars /\ UNCHANGED roomVars

CalledNext ==
  \/ \E p \in People :
       \/ speaking(p) \/ quietened(p) \/ _held(p)
       \/ \E words \in 1 .. Enough : transcribed(p, words)
       \/ committed(p) \/ acknowledged(p) \/ echo(p)
       \/ someoneJoined(p) \/ someoneLeft(p)
  \/ resumeTimer \/ _left_alone
  \/ replying \/ saidToItsEnd \/ Done \/ fellAsleep

\* The event loop runs its timers, nobody talks for ever, and the framework
\* ends what it plays.
CalledFairness ==
  /\ \A p \in People : WF_calledVars(quietened(p))
  /\ WF_calledVars(resumeTimer) /\ WF_calledVars(_left_alone)
  /\ WF_calledVars(saidToItsEnd) /\ WF_calledVars(Done)

CalledSafe == CalledInit /\ [][CalledNext]_calledVars
CalledSpec == CalledSafe /\ CalledFairness

(***************************************************************************)
(* Properties.                                                             *)
(***************************************************************************)

\* Every variable keeps its type.
CalledTypeOK ==
  /\ caller \in People \cup {Nobody} /\ here \subseteq People
  /\ voices \subseteq People /\ pendingHeld \subseteq voices
  /\ sustained \subseteq voices /\ echoing \subseteq People
  /\ said \in [People -> 0 .. Enough]
  /\ paused \in BOOLEAN /\ resuming \in BOOLEAN
  /\ mayInterrupt \in BOOLEAN
  /\ output \in {"runs", "paused"} /\ speech \in {"none", "plays", "cut", "hushed"}
  /\ alone \in BOOLEAN /\ gone \in BOOLEAN /\ talk \in 0 .. MaxVoices

\* A reply whose output is paused is known to be: BargeIn has it paused, so
\* words, quiet or an acknowledgement can still settle it.  Where interruption
\* is off no reply is ever paused, for nothing could cut it then.
PauseIsKnown == speech = "plays" /\ output = "paused" => paused /\ mayInterrupt

\* The agent is about to leave only while nobody is in the call: whoever comes
\* back within the grace, and whoever was there all the time, keeps it there.
LeavesNobody == alone => here = {}

\* Types, a paused reply that is known to be paused, and an agent that leaves
\* nobody behind, as one invariant.
CalledInv == CalledTypeOK /\ PauseIsKnown /\ LeavesNobody

\* A reply paused for its caller plays on or is cut, as long as that caller
\* is there: they fall silent and the timer resumes it, or their words cut it.
PausedForCallerSettles ==
  \A p \in People :
    (speech = "plays" /\ output = "paused" /\ caller = p)
      ~> (speech # "plays" \/ output = "runs" \/ caller # p)
=============================================================================
