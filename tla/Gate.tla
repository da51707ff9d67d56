-------------------------------- MODULE Gate --------------------------------
(***************************************************************************)
(* Who the agent answers: addressing.Gate, driven by the callbacks that    *)
(* called.Called registers on one event loop.  A callback is one action.   *)
(* Texts are abstract: a line carries what naming.Matcher made of it, how  *)
(* many words noise.Meaning left of it and whether it is a bare            *)
(* acknowledgement.  Clock readings are ages: how long ago the agent       *)
(* stopped speaking is one of "never", "stop" (within STOP_AFTER_S),       *)
(* "floor" (within FLOOR_S) and "old".  The lines kept for the next answer *)
(* (_said) and the timing metrics are data no decision reads.              *)
(* The voice session is the framework's: playing is the speaker whose      *)
(* reply it runs, cut says that reply was interrupted, decides that it     *)
(* waits for the small model's verdict; asked for and not begun are the    *)
(* replies to come.  Where turn.interruption is on, one asked for takes    *)
(* the place of those before it; where it is off, they wait in a queue.    *)
(***************************************************************************)
EXTENDS Naturals, Sequences, FiniteSets

CONSTANTS Speakers,   \* the people who may be in the call
          None,       \* no speaker
          BusyWords,  \* words a line needs to count while she is busy
          MaxLines    \* bound: lines, wakes and joins a behaviour may hold

ASSUME GateAssumption == /\ None \notin Speakers
                         /\ BusyWords \in Nat \ {0}
                         /\ MaxLines \in Nat

VARIABLES staysAwake,     \* agent.addressing.stays_awake, read once
          interruptible,  \* turn.interruption.enabled, read once
          awake, addressee, state, quiet, timer, asked, finished,
          talkingTo, answering, since, judging, refused,
          present,     \* Roster._present
          playing, cut, decides,
          toCome,      \* the replies that did not begin, in order
          lines        \* how many inputs there have been, bounded by MaxLines

configVars == <<staysAwake, interruptible>>
speechVars == <<playing, cut, decides, toCome>>
gateVars == <<configVars, awake, addressee, state, quiet, timer, asked, finished,
              talkingTo, answering, since, judging, refused, present, speechVars, lines>>

Ages == {"never", "stop", "floor", "old"}
SpeakerOrNone == Speakers \cup {None}
Lines == {l \in [heard : {"STOPPED", "STOP", "CALLED", "ASIDE"},
                 words : 0 .. BusyWords, bare : BOOLEAN] :
            /\ l.bare => l.words = 0
            /\ l.heard # "ASIDE" => l.words > 0}

busy == state \in {"thinking", "speaking"}

GateInit ==
  /\ staysAwake \in BOOLEAN /\ interruptible \in BOOLEAN
  /\ awake = FALSE /\ addressee = None /\ state = "listening"
  /\ quiet = FALSE /\ timer = FALSE /\ asked = FALSE /\ finished = "never"
  /\ talkingTo = None /\ answering = None /\ since = {}
  /\ judging = None /\ refused = None
  /\ present \in SUBSET Speakers
  /\ playing = None /\ cut = FALSE /\ decides = FALSE /\ toCome = <<>>
  /\ lines = 0

Counted == lines < MaxLines /\ lines' = lines + 1

(***************************************************************************)
(* The gate's own steps, as parts of the callbacks below.                  *)
(***************************************************************************)
sleep == /\ timer' = FALSE /\ quiet' = FALSE
         /\ awake' = FALSE
         /\ addressee' = IF awake THEN None ELSE addressee

go_quiet == IF busy /\ awake
              THEN quiet' = TRUE /\ UNCHANGED <<timer, awake, addressee>>
              ELSE sleep

AskedFor == [to : Speakers, judged : BOOLEAN]
Reply(s, judged) == [to |-> s, judged |-> judged]

\* Mutated form: the reply that runs is interrupted in no case.
_answerOver(s, judged) ==
  /\ quiet' = FALSE /\ answering' = s
  /\ judging' = IF judged THEN s ELSE None
  /\ timer' = ~staysAwake
  /\ UNCHANGED cut /\ toCome' = Append(toCome, Reply(s, judged))

\* Voice.answer interrupts the reply that runs, and those to come, if it may
\* (_interruptible), and asks for another.
_answer(s, judged) ==
  /\ quiet' = FALSE /\ answering' = s
  /\ judging' = IF judged THEN s ELSE None
  /\ timer' = ~staysAwake
  /\ IF interruptible
       THEN cut' = (playing # None) /\ toCome' = <<Reply(s, judged)>>
       ELSE UNCHANGED cut /\ toCome' = Append(toCome, Reply(s, judged))

_wake(s) == awake' = TRUE /\ addressee' = s

_holds_floor(s) == /\ asked /\ s = talkingTo
                   /\ finished \in {"stop", "floor"}
                   /\ since \ {s} = {}

_repairs(s) == refused = s

_stop_counts(s) == \/ Cardinality(present) <= 1
                   \/ s = addressee
                   \/ state = "speaking"
                   \/ finished = "stop"

_idle(l) == IF busy THEN l.words < BusyWords ELSE l.words = 0 /\ ~l.bare

\* present == 1 and the line is not known to echo: everything but an unasked
\* acknowledgement is answered; else the floor, a repair, or a verdict.
_route(s, l, echoed) ==
  IF Cardinality(present) = 1 /\ ~echoed
    THEN IF ~l.bare \/ asked THEN "answer" ELSE "keep"
    ELSE IF _holds_floor(s) THEN "answer"
    ELSE IF _repairs(s) THEN "repair" ELSE "judge"

keptAsContext == UNCHANGED <<quiet, timer, answering, judging, cut, toCome>>

_judge(s, l) ==
  /\ UNCHANGED <<awake, addressee>>
  /\ \/ /\ busy
        /\ UNCHANGED refused
        /\ IF s = addressee THEN _answer(s, FALSE) ELSE keptAsContext
     \/ /\ ~busy
        /\ \E echoed \in BOOLEAN :
             LET route == _route(s, l, echoed) IN
             /\ refused' = IF route = "repair" THEN None ELSE refused
             /\ \/ route \in {"answer", "repair"} /\ _answer(s, FALSE)
                \/ route = "judge" /\ _answer(s, TRUE)
                \/ route = "keep" /\ keptAsContext

(***************************************************************************)
(* A listener committed a line.  A line may still come from somebody who   *)
(* has left: the listener's session closes after the roster forgot them.   *)
(***************************************************************************)
heard(s, l) ==
  /\ Counted
  /\ since' = IF l.words > 0 THEN since \cup {s} ELSE since
  /\ \/ /\ l.heard = "STOPPED" \/ (l.heard = "STOP" /\ awake /\ _stop_counts(s))
        /\ sleep
        /\ cut' = (playing # None) /\ toCome' = <<>>   \* Voice.hush, by force
        /\ UNCHANGED <<answering, judging, refused>>
     \/ /\ l.heard = "CALLED"
        /\ _wake(s) /\ _answer(s, FALSE)
        /\ UNCHANGED refused
     \/ /\ \/ l.heard = "ASIDE"
           \/ l.heard = "STOP" /\ ~(awake /\ _stop_counts(s))
        /\ \/ /\ _idle(l) \/ ~awake
              /\ keptAsContext /\ UNCHANGED <<awake, addressee, refused>>
           \/ ~_idle(l) /\ awake /\ staysAwake /\ _judge(s, l)
           \/ /\ ~_idle(l) /\ awake /\ ~staysAwake /\ s = addressee
              /\ _answer(s, FALSE) /\ UNCHANGED <<awake, addressee, refused>>
           \/ /\ ~_idle(l) /\ awake /\ ~staysAwake /\ s # addressee
              /\ IF l.words > 0
                   THEN go_quiet
                   ELSE UNCHANGED <<quiet, timer, awake, addressee>>
              /\ UNCHANGED <<answering, judging, cut, toCome, refused>>
  /\ UNCHANGED <<configVars, state, asked, finished, talkingTo, present, playing, decides>>

\* The wake control of somebody in the room.
wake(s) ==
  /\ Counted /\ s \in present
  /\ _wake(s) /\ _answer(s, FALSE)
  /\ UNCHANGED <<configVars, state, asked, finished, talkingTo, since, refused,
                 present, playing, decides>>

\* The go_quiet tool, called by the reply that runs.
goQuietTool ==
  /\ playing # None /\ ~cut
  /\ go_quiet
  /\ UNCHANGED <<configVars, state, asked, finished, talkingTo, answering, since,
                 judging, refused, present, speechVars, lines>>

joined(s) ==
  /\ Counted /\ s \notin present
  /\ present' = present \cup {s}
  /\ UNCHANGED <<configVars, awake, addressee, state, quiet, timer, asked, finished,
                 talkingTo, answering, since, judging, refused, speechVars>>

left(s) ==
  /\ s \in present /\ present' = present \ {s}
  /\ \/ s # addressee /\ UNCHANGED <<awake, addressee, quiet, timer>>
     \/ /\ s = addressee /\ staysAwake
        /\ addressee' = None /\ UNCHANGED <<awake, quiet, timer>>
     \/ s = addressee /\ ~staysAwake /\ sleep
  /\ UNCHANGED <<configVars, state, asked, finished, talkingTo, answering, since,
                 judging, refused, speechVars, lines>>

\* Mutated form: the window is not opened again when a reply ends.
agent_stateUntimed(new) ==
  /\ state' = new
  /\ IF state = "speaking" /\ new # "speaking"
       THEN finished' = "stop" /\ talkingTo' = answering /\ since' = {}
       ELSE UNCHANGED <<finished, talkingTo, since>>
  /\ IF new = "listening" /\ quiet
       THEN sleep
       ELSE timer' = (timer /\ new = "listening") /\ UNCHANGED <<quiet, awake, addressee>>

(***************************************************************************)
(* The agent's state changed (agent_state) and, where a reply ended, its   *)
(* message was added (replied): the framework does both in one step.       *)
(***************************************************************************)
agent_state(new) ==
  /\ state' = new
  /\ IF state = "speaking" /\ new # "speaking"
       THEN finished' = "stop" /\ talkingTo' = answering /\ since' = {}
       ELSE UNCHANGED <<finished, talkingTo, since>>
  /\ IF new \in {"thinking", "speaking"}
       THEN timer' = FALSE /\ UNCHANGED <<quiet, awake, addressee>>
       ELSE IF quiet THEN sleep
       ELSE timer' = (IF awake THEN ~staysAwake ELSE timer)
            /\ UNCHANGED <<quiet, awake, addressee>>

\* The next reply begins: its model runs.
thinks ==
  /\ toCome # <<>> /\ playing = None
  /\ playing' = Head(toCome).to /\ decides' = Head(toCome).judged
  /\ toCome' = Tail(toCome) /\ cut' = FALSE
  /\ agent_state("thinking")
  /\ UNCHANGED <<configVars, asked, answering, judging, refused, present, lines>>

\* A judged line is spoken to after its verdict.
speaks ==
  /\ playing # None /\ ~cut /\ ~decides /\ state = "thinking"
  /\ agent_state("speaking")
  /\ UNCHANGED <<configVars, asked, answering, judging, refused, present, speechVars, lines>>

\* The reply is over: said to its end, cut, or never begun.  What was said
\* is added to the conversation with what the gate asks of it (follow_replies).
replied(question) ==
  /\ playing # None
  /\ cut \/ ~decides
  /\ question => state = "speaking" /\ ~cut
  /\ asked' = IF state = "speaking" THEN question ELSE asked
  /\ playing' = None /\ cut' = FALSE /\ decides' = FALSE
  /\ agent_state("listening")
  /\ UNCHANGED <<configVars, answering, judging, refused, present, toCome, lines>>

\* The small model said whether the line was meant for her.  Another line may
\* have been answered meanwhile (judging), where replies are not interrupted.
verdict(meant) ==
  /\ playing # None /\ decides /\ ~cut /\ state = "thinking"
  /\ decides' = FALSE /\ judging' = None
  /\ refused' = IF meant THEN None ELSE judging
  /\ IF meant
       THEN UNCHANGED <<state, finished, talkingTo, since, timer, quiet, awake,
                        addressee, playing, cut>>
       ELSE agent_state("listening") /\ playing' = None /\ cut' = FALSE
  /\ UNCHANGED <<configVars, asked, answering, present, toCome, lines>>

\* follow_up_s passed since the timer was started.
_window_closed ==
  /\ timer
  /\ IF busy THEN timer' = FALSE /\ UNCHANGED <<quiet, awake, addressee>> ELSE sleep
  /\ UNCHANGED <<configVars, state, asked, finished, talkingTo, answering, since,
                 judging, refused, present, speechVars, lines>>

\* Time passes: an instant the code compares with the clock grows old.
ages ==
  /\ \/ /\ finished \in {"stop", "floor"}
        /\ finished' = IF finished = "stop" THEN "floor" ELSE "old"
        /\ UNCHANGED refused
     \/ /\ refused # None /\ refused' = None      \* REPAIR_S passed
        /\ UNCHANGED finished
  /\ UNCHANGED <<configVars, awake, addressee, state, quiet, timer, asked, talkingTo,
                 answering, since, judging, present, speechVars, lines>>

GateNext ==
  \/ \E s \in Speakers : \/ \E l \in Lines : heard(s, l)
                         \/ wake(s)
                         \/ joined(s)
                         \/ left(s)
  \/ goQuietTool
  \/ thinks
  \/ speaks
  \/ \E b \in BOOLEAN : replied(b) \/ verdict(b)
  \/ _window_closed
  \/ ages

GateSafe == GateInit /\ [][GateNext]_gateVars

\* The framework ends every reply; the event loop runs its timers.
GateFairness ==
  /\ WF_gateVars(thinks)
  /\ WF_gateVars(replied(FALSE))
  /\ WF_gateVars(\E meant \in BOOLEAN : verdict(meant))
  /\ WF_gateVars(_window_closed)

GateSpec == GateSafe /\ GateFairness

(***************************************************************************)
(* Properties.                                                             *)
(***************************************************************************)

\* Every variable keeps its type.
GateTypeOK ==
  /\ staysAwake \in BOOLEAN /\ interruptible \in BOOLEAN /\ awake \in BOOLEAN
  /\ addressee \in SpeakerOrNone
  /\ state \in {"listening", "thinking", "speaking"}
  /\ quiet \in BOOLEAN /\ timer \in BOOLEAN /\ asked \in BOOLEAN
  /\ finished \in Ages
  /\ talkingTo \in SpeakerOrNone /\ answering \in SpeakerOrNone
  /\ since \subseteq Speakers
  /\ judging \in SpeakerOrNone /\ refused \in SpeakerOrNone
  /\ present \subseteq Speakers
  /\ playing \in SpeakerOrNone /\ cut \in BOOLEAN /\ decides \in BOOLEAN
  /\ toCome \in Seq(AskedFor)
  /\ lines \in 0 .. MaxLines

\* An agent that does not stay awake and is idle has its follow-up window
\* running, whatever order states, lines and timers came in: the window that
\* closed during a reply is opened again when the reply ends.
FollowUpWindow == ~staysAwake /\ awake /\ ~busy => timer

\* A request to go quiet after the reply is never lost and never outlives it:
\* it is held only by an agent that is awake and busy.
QuietKept == quiet => awake /\ busy

\* The agent sleeps when it has nobody it listens to: a person who is the
\* addressee woke it, and only an agent that stays awake loses its addressee
\* without going to sleep.
AwakeForSomebody ==
  /\ addressee # None => awake
  /\ awake /\ ~staysAwake => addressee # None

\* A question gives the floor to the one it was put to.  The end of a reply
\* that nothing cut hands the floor to the last speaker answered (_answering).
\* That is the one it was made for if no reply is to come; and where replies
\* may be interrupted none is, while one runs that nothing cut.
FloorIsTheirs ==
  LET uncut == playing # None /\ ~cut
  IN /\ interruptible => Len(toCome) <= IF uncut THEN 0 ELSE 1
     /\ uncut /\ toCome = <<>> => answering = playing
     /\ toCome # <<>> => answering = toCome[Len(toCome)].to

\* Once nobody says or does anything more, an agent that answers to its name
\* goes dormant.
GoesDormant == ~staysAwake => <>[](~awake)

\* Whoever she listens to is awake, and awake is watched: the parts above hold
\* together, as one inductive invariant of the gate's callbacks.
GateInv ==
  /\ GateTypeOK
  /\ FollowUpWindow
  /\ QuietKept
  /\ AwakeForSomebody
  /\ FloorIsTheirs
=============================================================================
