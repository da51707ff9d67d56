----------------------------- MODULE TalkProofs -----------------------------
(***************************************************************************)
(* Proofs about what is decided while people talk to the agent, for any    *)
(* number of people, any words and any bound on what is said.  Each        *)
(* component's proof stands alone.  GateInv, CalledInv and                 *)
(* DueInSilentThought are inductive as they stand: each part of GateInv    *)
(* needs another one (a request to go quiet is dropped when she falls      *)
(* asleep because only an awake agent holds one; the window is known to    *)
(* run when a reply ends because nothing else makes her idle); in          *)
(* CalledInv what BargeIn believes of the output (paused) covers every     *)
(* reply whose output stands still, because the three ways out of a pause  *)
(* (a cut, a resume, a new reply) each give up the belief and the pause    *)
(* together.  SieveInv and EchoOnlyOverHerVoice are strengthened, as their *)
(* sections say.  EvalsInv is about the evaluations: how the word error    *)
(* rate is counted, and how they read off a recording whether she stopped. *)
(***************************************************************************)
EXTENDS Gate, Called, Sieve, Ears, Fillers, Evals, SequenceTheorems,
        FiniteSetTheorems, WellFoundedInduction, TLAPS

-----------------------------------------------------------------------------
(***************************************************************************)
(* Gate: one lemma for each callback.                                      *)
(***************************************************************************)

\* What is left of a queue when its first goes: it has the same last, or
\* nothing, and then it had one.
LEMMA QueueMoves ==
  ASSUME NEW S, NEW s \in Seq(S), s # <<>>
  PROVE  /\ Tail(s) \in Seq(S) /\ s[1] \in S
         /\ Len(s) \in Nat /\ Len(s) >= 1 /\ Len(Tail(s)) = Len(s) - 1
         /\ Tail(s) # <<>> => Tail(s)[Len(Tail(s))] = s[Len(s)]
         /\ Tail(s) = <<>> => Len(s) = 1
<1>1. /\ Tail(s) \in Seq(S) /\ Len(Tail(s)) = Len(s) - 1
      /\ \A i \in 1 .. Len(Tail(s)) : Tail(s)[i] = s[i + 1]
  BY HeadTailProperties
<1>2. Len(s) \in Nat /\ Len(s) >= 1
  <2>1. Len(s) \in Nat \ {0}
    BY EmptySeq
  <2> QED  BY ONLY <2>1
<1>3. s[1] \in S
  BY <1>2, ElementOfSeq
<1>4. Tail(s) = <<>> => Len(s) = 1
  <2>1. Tail(s) = <<>> => Len(Tail(s)) = 0
    BY EmptySeq
  <2> QED  BY ONLY <2>1, <1>1, <1>2
<1>5. Tail(s) # <<>> => Tail(s)[Len(Tail(s))] = s[Len(s)]
  <2>1. Tail(s) # <<>> => Len(Tail(s)) \in Nat \ {0}
    BY <1>1, EmptySeq
  <2>2. Tail(s) # <<>> => Len(Tail(s)) \in 1 .. Len(Tail(s))
    BY ONLY <2>1
  <2>3. Tail(s) # <<>> => Tail(s)[Len(Tail(s))] = s[Len(Tail(s)) + 1]
    BY ONLY <2>2, <1>1
  <2>4. Len(Tail(s)) + 1 = Len(s)
    BY ONLY <1>1, <1>2
  <2> QED  BY ONLY <2>3, <2>4
<1> QED  BY ONLY <1>1, <1>2, <1>3, <1>4, <1>5

\* She begins asleep, idle, with nothing asked for.
LEMMA InitKeeps == GateInit => GateInv
<1> SUFFICES ASSUME GateInit PROVE GateInv
  OBVIOUS
<1>1. lines \in 0 .. MaxLines /\ toCome \in Seq(AskedFor)
  BY GateAssumption DEF GateInit
<1>2. GateTypeOK
  BY <1>1 DEF GateInit, GateTypeOK, Ages, SpeakerOrNone
<1>3. FollowUpWindow /\ QuietKept /\ AwakeForSomebody /\ FloorIsTheirs
  BY DEF GateInit, FollowUpWindow, QuietKept, AwakeForSomebody, FloorIsTheirs
<1> QED  BY <1>2, <1>3 DEF GateInv

\* What is asked for last comes last: the floor goes with it.
LEMMA AskingKeeps ==
  ASSUME GateInv, NEW s \in Speakers, NEW judged \in BOOLEAN,
         answering' = s, UNCHANGED <<configVars, playing>>,
         IF interruptible
           THEN cut' = (playing # None) /\ toCome' = <<Reply(s, judged)>>
           ELSE UNCHANGED cut /\ toCome' = Append(toCome, Reply(s, judged))
  PROVE  cut' \in BOOLEAN /\ toCome' \in Seq(AskedFor) /\ FloorIsTheirs'
<1>1. Reply(s, judged) \in AskedFor /\ Reply(s, judged).to = s
  BY DEF Reply, AskedFor
<1>2. toCome \in Seq(AskedFor) /\ cut \in BOOLEAN
  BY DEF GateInv, GateTypeOK
<1>3. interruptible' = interruptible /\ playing' = playing
  BY DEF configVars
<1>4. CASE interruptible
  <2>1. toCome' = <<Reply(s, judged)>> /\ cut' = (playing # None)
    BY <1>4
  <2>2. toCome' \in Seq(AskedFor) /\ Len(toCome') = 1 /\ toCome'[1] = Reply(s, judged)
    BY <1>1, <2>1
  <2>3. ~(playing' # None /\ ~cut') /\ toCome' # <<>>
    BY <1>3, <2>1, <2>2
  <2>4. answering' = toCome'[Len(toCome')].to /\ cut' \in BOOLEAN
    BY <1>1, <2>1, <2>2
  <2> QED  BY <2>2, <2>3, <2>4 DEF FloorIsTheirs
<1>5. CASE ~interruptible
  <2>1. toCome' = Append(toCome, Reply(s, judged)) /\ cut' = cut
    BY <1>5
  <2>2. /\ toCome' \in Seq(AskedFor) /\ Len(toCome') = Len(toCome) + 1
        /\ toCome'[Len(toCome')] = Reply(s, judged) /\ toCome' # <<>>
    BY <1>1, <1>2, <2>1
  <2> QED  BY <1>1, <1>2, <1>3, <1>5, <2>1, <2>2 DEF FloorIsTheirs
<1> QED  BY <1>4, <1>5

\* Going to sleep, and asking to, keep who she listens to and the window right.
LEMMA SleepKeeps ==
  ASSUME GateInv, sleep, state' = state, staysAwake' = staysAwake
  PROVE  /\ timer' \in BOOLEAN /\ quiet' \in BOOLEAN /\ awake' \in BOOLEAN
         /\ addressee' \in SpeakerOrNone
         /\ FollowUpWindow' /\ QuietKept' /\ AwakeForSomebody'
  BY DEF GateInv, GateTypeOK, FollowUpWindow, QuietKept, AwakeForSomebody,
         SpeakerOrNone, sleep, busy

LEMMA GoQuietKeeps ==
  ASSUME GateInv, go_quiet, state' = state, staysAwake' = staysAwake
  PROVE  /\ timer' \in BOOLEAN /\ quiet' \in BOOLEAN /\ awake' \in BOOLEAN
         /\ addressee' \in SpeakerOrNone
         /\ FollowUpWindow' /\ QuietKept' /\ AwakeForSomebody'
<1>1. CASE busy /\ awake
  BY <1>1 DEF go_quiet, GateInv, GateTypeOK, FollowUpWindow, QuietKept,
              AwakeForSomebody, SpeakerOrNone, busy
<1>2. CASE ~(busy /\ awake)
  BY <1>2, SleepKeeps DEF go_quiet
<1> QED  BY <1>1, <1>2

\* Answering somebody: the window runs, and the reply is the last to come.
LEMMA AnswerKeeps ==
  ASSUME GateInv, NEW s \in Speakers, NEW judged \in BOOLEAN, _answer(s, judged),
         state' = state, UNCHANGED <<configVars, playing>>,
         awake' \in BOOLEAN, addressee' \in SpeakerOrNone,
         AwakeForSomebody'
  PROVE  /\ timer' \in BOOLEAN /\ quiet' \in BOOLEAN
         /\ answering' \in SpeakerOrNone /\ judging' \in SpeakerOrNone
         /\ cut' \in BOOLEAN /\ toCome' \in Seq(AskedFor)
         /\ FollowUpWindow' /\ QuietKept' /\ FloorIsTheirs'
<1>1. cut' \in BOOLEAN /\ toCome' \in Seq(AskedFor) /\ FloorIsTheirs'
  BY AskingKeeps DEF _answer
<1>2. /\ timer' \in BOOLEAN /\ quiet' \in BOOLEAN
      /\ answering' \in SpeakerOrNone /\ judging' \in SpeakerOrNone
      /\ FollowUpWindow' /\ QuietKept'
  BY DEF GateInv, GateTypeOK, FollowUpWindow, QuietKept, SpeakerOrNone, _answer, busy,
         configVars
<1> QED  BY <1>1, <1>2

\* A line that is kept as context changes nothing the gate watches.
LEMMA ContextKeeps ==
  ASSUME GateInv, keptAsContext, UNCHANGED <<awake, addressee>>,
         state' = state, UNCHANGED <<configVars, playing>>
  PROVE  /\ timer' \in BOOLEAN /\ quiet' \in BOOLEAN
         /\ answering' \in SpeakerOrNone /\ judging' \in SpeakerOrNone
         /\ cut' \in BOOLEAN /\ toCome' \in Seq(AskedFor)
         /\ FollowUpWindow' /\ QuietKept' /\ AwakeForSomebody' /\ FloorIsTheirs'
  BY DEF GateInv, GateTypeOK, FollowUpWindow, QuietKept, AwakeForSomebody,
         FloorIsTheirs, keptAsContext, busy, configVars

\* A judged line is answered or kept.
LEMMA JudgeKeeps ==
  ASSUME GateInv, NEW s \in Speakers, NEW l \in Lines, _judge(s, l),
         state' = state, UNCHANGED <<configVars, playing>>
  PROVE  /\ UNCHANGED <<awake, addressee>>
         /\ timer' \in BOOLEAN /\ quiet' \in BOOLEAN
         /\ answering' \in SpeakerOrNone /\ judging' \in SpeakerOrNone
         /\ refused' \in SpeakerOrNone
         /\ cut' \in BOOLEAN /\ toCome' \in Seq(AskedFor)
         /\ FollowUpWindow' /\ QuietKept' /\ AwakeForSomebody' /\ FloorIsTheirs'
<1>1. /\ UNCHANGED <<awake, addressee>>
      /\ awake' \in BOOLEAN /\ addressee' \in SpeakerOrNone /\ AwakeForSomebody'
  BY DEF _judge, GateInv, GateTypeOK, AwakeForSomebody, configVars
<1>2. refused' \in SpeakerOrNone
  BY DEF _judge, GateInv, GateTypeOK, SpeakerOrNone
<1>3. _answer(s, FALSE) \/ _answer(s, TRUE) \/ keptAsContext
  BY DEF _judge, _route
<1>4. CASE _answer(s, FALSE) \/ _answer(s, TRUE)
  BY <1>1, <1>2, <1>4, AnswerKeeps
<1>5. CASE keptAsContext
  BY <1>1, <1>2, <1>5, ContextKeeps
<1> QED  BY <1>3, <1>4, <1>5

\* A committed line.
LEMMA HeardKeeps ==
  ASSUME GateInv, NEW s \in Speakers, NEW l \in Lines, heard(s, l)
  PROVE  GateInv'
<1>1. /\ UNCHANGED <<configVars, state, asked, finished, talkingTo, present, playing, decides>>
      /\ since' \subseteq Speakers /\ lines' \in 0 .. MaxLines
  BY GateAssumption DEF heard, Counted, GateInv, GateTypeOK
<1> DEFINE Rest == /\ timer' \in BOOLEAN /\ quiet' \in BOOLEAN /\ awake' \in BOOLEAN
                   /\ addressee' \in SpeakerOrNone
                   /\ answering' \in SpeakerOrNone /\ judging' \in SpeakerOrNone
                   /\ refused' \in SpeakerOrNone
                   /\ cut' \in BOOLEAN /\ toCome' \in Seq(AskedFor)
                   /\ FollowUpWindow' /\ QuietKept' /\ AwakeForSomebody' /\ FloorIsTheirs'
<1>2. SUFFICES Rest
  BY <1>1 DEF GateInv, GateTypeOK, configVars
<1>3. CASE /\ sleep /\ cut' = (playing # None) /\ toCome' = <<>>
           /\ UNCHANGED <<answering, judging, refused>>
  <2>1. toCome' \in Seq(AskedFor) /\ Len(toCome') = 0
    BY <1>3
  <2>2. FloorIsTheirs'
    <3>1. toCome' = <<>> /\ ~(playing' # None /\ ~cut')
      BY <1>1, <1>3
    <3> QED  BY <2>1, <3>1 DEF FloorIsTheirs
  <2>3. staysAwake' = staysAwake /\ state' = state /\ cut' \in BOOLEAN
    BY <1>1, <1>3 DEF configVars
  <2> QED  BY <1>3, <2>1, <2>2, <2>3, SleepKeeps DEF GateInv, GateTypeOK
<1>4. CASE /\ _wake(s) /\ _answer(s, FALSE) /\ UNCHANGED refused
  <2>1. awake' \in BOOLEAN /\ addressee' \in SpeakerOrNone /\ AwakeForSomebody'
    BY <1>1, <1>4, GateAssumption DEF _wake, SpeakerOrNone, AwakeForSomebody
  <2> QED  BY <1>1, <1>4, <2>1, AnswerKeeps DEF GateInv, GateTypeOK
<1>5. CASE keptAsContext /\ UNCHANGED <<awake, addressee, refused>>
  BY <1>1, <1>5, ContextKeeps DEF GateInv, GateTypeOK
<1>6. CASE _judge(s, l)
  BY <1>1, <1>6, JudgeKeeps DEF GateInv, GateTypeOK
<1>7. CASE _answer(s, FALSE) /\ UNCHANGED <<awake, addressee, refused>>
  <2>1. awake' \in BOOLEAN /\ addressee' \in SpeakerOrNone /\ AwakeForSomebody'
    BY <1>1, <1>7 DEF GateInv, GateTypeOK, AwakeForSomebody, configVars
  <2> QED  BY <1>1, <1>7, <2>1, AnswerKeeps DEF GateInv, GateTypeOK
<1>8. CASE /\ go_quiet \/ UNCHANGED <<quiet, timer, awake, addressee>>
           /\ UNCHANGED <<answering, judging, cut, toCome, refused>>
  <2>1. CASE go_quiet
    BY <1>1, <1>8, <2>1, GoQuietKeeps DEF GateInv, GateTypeOK, FloorIsTheirs, configVars
  <2>2. CASE UNCHANGED <<quiet, timer, awake, addressee>>
    BY <1>1, <1>8, <2>2 DEF GateInv, GateTypeOK, FollowUpWindow, QuietKept,
                            AwakeForSomebody, FloorIsTheirs, busy, configVars
  <2> QED  BY <1>8, <2>1, <2>2
<1> QED  BY <1>3, <1>4, <1>5, <1>6, <1>7, <1>8 DEF heard

LEMMA WakeKeeps ==
  ASSUME GateInv, NEW s \in Speakers, wake(s)
  PROVE  GateInv'
<1>1. awake' \in BOOLEAN /\ addressee' \in SpeakerOrNone /\ AwakeForSomebody'
  BY GateAssumption DEF wake, _wake, SpeakerOrNone, AwakeForSomebody
<1>2. lines' \in 0 .. MaxLines
  BY GateAssumption DEF wake, Counted, GateInv, GateTypeOK
<1> QED
  BY <1>1, <1>2, AnswerKeeps DEF wake, GateInv, GateTypeOK, configVars

\* The callbacks of the people in the room, and the tool.
LEMMA PeopleKeep ==
  ASSUME GateInv, NEW s \in Speakers, joined(s) \/ left(s) \/ goQuietTool
  PROVE  GateInv'
<1>1. CASE joined(s)
  <2>1. lines' \in 0 .. MaxLines /\ present' \subseteq Speakers
    BY <1>1, GateAssumption DEF joined, Counted, GateInv, GateTypeOK
  <2> QED  BY <1>1, <2>1 DEF joined, GateInv, GateTypeOK, FollowUpWindow, QuietKept,
                             AwakeForSomebody, FloorIsTheirs, busy, configVars, speechVars
<1>2. CASE left(s)
  <2>1. UNCHANGED <<staysAwake, state, playing, cut, answering>> /\ present' \subseteq Speakers
    BY <1>2 DEF left, GateInv, GateTypeOK, configVars, speechVars
  <2>2. /\ timer' \in BOOLEAN /\ quiet' \in BOOLEAN /\ awake' \in BOOLEAN
        /\ addressee' \in SpeakerOrNone
        /\ FollowUpWindow' /\ QuietKept' /\ AwakeForSomebody'
    <3>1. CASE sleep
      BY <2>1, <3>1, SleepKeeps
    <3>2. CASE UNCHANGED <<awake, addressee, quiet, timer>>
      BY <2>1, <3>2 DEF GateInv, GateTypeOK, FollowUpWindow, QuietKept,
                        AwakeForSomebody, busy
    <3>3. CASE staysAwake /\ addressee' = None /\ UNCHANGED <<awake, quiet, timer>>
      BY <2>1, <3>3 DEF GateInv, GateTypeOK, FollowUpWindow, QuietKept,
                        AwakeForSomebody, busy, SpeakerOrNone
    <3> QED  BY <1>2, <3>1, <3>2, <3>3 DEF left
  <2> QED  BY <1>2, <2>1, <2>2 DEF left, GateInv, GateTypeOK, FloorIsTheirs, configVars,
                                   speechVars
<1>3. CASE goQuietTool
  BY <1>3, GoQuietKeeps
  DEF goQuietTool, GateInv, GateTypeOK, FloorIsTheirs, configVars, speechVars
<1> QED  BY <1>1, <1>2, <1>3

\* A change of the agent's state: the window runs when she becomes idle.
LEMMA StateKeeps ==
  ASSUME GateInv, NEW new \in {"listening", "thinking", "speaking"}, agent_state(new),
         staysAwake' = staysAwake
  PROVE  /\ state' \in {"listening", "thinking", "speaking"} /\ finished' \in Ages
         /\ timer' \in BOOLEAN /\ quiet' \in BOOLEAN /\ awake' \in BOOLEAN
         /\ addressee' \in SpeakerOrNone /\ since' \subseteq Speakers
         /\ talkingTo' \in SpeakerOrNone
         /\ FollowUpWindow' /\ QuietKept' /\ AwakeForSomebody'
<1>1. /\ state' \in {"listening", "thinking", "speaking"} /\ finished' \in Ages
      /\ since' \subseteq Speakers /\ talkingTo' \in SpeakerOrNone
  BY DEF agent_state, GateInv, GateTypeOK, Ages
<1>2. CASE new \in {"thinking", "speaking"}
  BY <1>1, <1>2 DEF agent_state, GateInv, GateTypeOK, FollowUpWindow, QuietKept,
                    AwakeForSomebody, busy
<1>3. CASE new = "listening" /\ quiet
  BY <1>1, <1>3 DEF agent_state, sleep, GateInv, GateTypeOK, FollowUpWindow, QuietKept,
                    AwakeForSomebody, busy, SpeakerOrNone
<1>4. CASE new = "listening" /\ ~quiet
  BY <1>1, <1>4 DEF agent_state, GateInv, GateTypeOK, FollowUpWindow, QuietKept,
                    AwakeForSomebody, busy
<1> QED  BY <1>2, <1>3, <1>4

\* What the framework does with its replies.
LEMMA RepliesKeep ==
  ASSUME GateInv, NEW b \in BOOLEAN, thinks \/ speaks \/ replied(b)
  PROVE  GateInv'
<1>1. CASE thinks
  <2>1. toCome \in Seq(AskedFor) /\ toCome # <<>> /\ Head(toCome) = toCome[1]
    BY <1>1 DEF thinks, GateInv, GateTypeOK
  <2>2. /\ Tail(toCome) \in Seq(AskedFor) /\ toCome[1] \in AskedFor
        /\ Len(toCome) \in Nat /\ Len(toCome) >= 1
        /\ Len(Tail(toCome)) = Len(toCome) - 1
        /\ Tail(toCome) # <<>> => Tail(toCome)[Len(Tail(toCome))] = toCome[Len(toCome)]
        /\ Tail(toCome) = <<>> => Len(toCome) = 1
    BY ONLY <2>1, QueueMoves
  <2>3. /\ toCome' = Tail(toCome) /\ playing' = toCome[1].to /\ playing' \in Speakers
        /\ decides' \in BOOLEAN /\ cut' = FALSE /\ playing = None
        /\ UNCHANGED <<configVars, asked, answering, judging, refused, present, lines>>
    BY <1>1, <2>1, <2>2 DEF thinks, AskedFor
  <2>5. interruptible => Len(toCome) <= 1
    BY <2>1, <2>3 DEF GateInv, FloorIsTheirs
  <2>6. FloorIsTheirs'
    <3>1. answering = toCome[Len(toCome)].to
      BY <2>1 DEF GateInv, FloorIsTheirs
    <3>2. interruptible => Len(toCome') <= 0
      BY <2>2, <2>3, <2>5
    <3> QED  BY <2>1, <2>2, <2>3, <3>1, <3>2 DEF FloorIsTheirs, configVars
  <2> QED  BY <1>1, <2>1, <2>2, <2>3, <2>6, StateKeeps
           DEF thinks, GateInv, GateTypeOK, configVars, SpeakerOrNone
<1>2. CASE speaks
  BY <1>2, StateKeeps DEF speaks, GateInv, GateTypeOK, FloorIsTheirs, configVars, speechVars
<1>3. CASE replied(b)
  <2>1. asked' \in BOOLEAN
    BY <1>3 DEF replied, GateInv, GateTypeOK
  <2>2. FloorIsTheirs'
    <3>1. /\ toCome' = toCome /\ playing' = None /\ interruptible' = interruptible
          /\ answering' = answering /\ Len(toCome) \in Nat
      BY <1>3 DEF replied, configVars, GateInv, GateTypeOK
    <3> QED  BY <3>1 DEF FloorIsTheirs, GateInv
  <2> QED  BY <1>3, <2>1, <2>2, StateKeeps, GateAssumption
           DEF replied, GateInv, GateTypeOK, SpeakerOrNone, configVars
<1> QED  BY <1>1, <1>2, <1>3

LEMMA VerdictKeeps ==
  ASSUME GateInv, NEW meant \in BOOLEAN, verdict(meant)
  PROVE  GateInv'
<1>1. CASE meant
  <2>1. /\ UNCHANGED <<state, finished, talkingTo, since, timer, quiet, awake, addressee>>
        /\ UNCHANGED <<playing, cut, toCome, staysAwake, interruptible, answering>>
        /\ UNCHANGED <<asked, present, lines>>
        /\ decides' = FALSE /\ judging' = None /\ refused' = None
    BY <1>1 DEF verdict, configVars
  <2>2. GateTypeOK'
    <3>1. judging' \in SpeakerOrNone /\ refused' \in SpeakerOrNone /\ decides' \in BOOLEAN
      BY <2>1 DEF SpeakerOrNone
    <3> QED  BY <2>1, <3>1 DEF GateInv, GateTypeOK
  <2>3. FollowUpWindow' /\ QuietKept' /\ AwakeForSomebody' /\ FloorIsTheirs'
    BY <2>1 DEF GateInv, FollowUpWindow, QuietKept, AwakeForSomebody, FloorIsTheirs, busy
  <2> QED  BY <2>2, <2>3 DEF GateInv
<1>2. CASE ~meant
  <2>1. FloorIsTheirs'
    <3>1. /\ toCome' = toCome /\ playing' = None /\ interruptible' = interruptible
          /\ answering' = answering /\ Len(toCome) \in Nat
      BY <1>2 DEF verdict, configVars, GateInv, GateTypeOK
    <3> QED  BY <3>1 DEF FloorIsTheirs, GateInv
  <2> QED  BY <1>2, <2>1, StateKeeps, GateAssumption
           DEF verdict, GateInv, GateTypeOK, SpeakerOrNone, configVars
<1> QED  BY <1>1, <1>2

\* Time.
LEMMA TimeKeeps ==
  ASSUME GateInv, _window_closed \/ ages
  PROVE  GateInv'
<1>1. CASE _window_closed
  <2>1. CASE busy
    BY <1>1, <2>1 DEF _window_closed, GateInv, GateTypeOK, FollowUpWindow, QuietKept,
                      AwakeForSomebody, FloorIsTheirs, busy, configVars, speechVars
  <2>2. CASE ~busy
    BY <1>1, <2>2, SleepKeeps
    DEF _window_closed, GateInv, GateTypeOK, FloorIsTheirs, configVars, speechVars
  <2> QED  BY <2>1, <2>2
<1>2. CASE ages
  BY <1>2 DEF ages, GateInv, GateTypeOK, FollowUpWindow, QuietKept, AwakeForSomebody,
              FloorIsTheirs, busy, Ages, SpeakerOrNone, configVars, speechVars
<1> QED  BY <1>1, <1>2

LEMMA StutterKeeps ==
  ASSUME GateInv, UNCHANGED gateVars
  PROVE  GateInv'
  BY DEF gateVars, GateInv, GateTypeOK, FollowUpWindow, QuietKept, AwakeForSomebody,
         FloorIsTheirs, busy, configVars, speechVars

\* Every callback of Called, in every order, keeps what the gate believes
\* consistent: its types, the follow-up window, the wish to go quiet, whom she
\* is awake for and whose reply runs.
THEOREM GateKeeps == GateSafe => []GateInv
<1>1. GateInit => GateInv
  BY InitKeeps
<1>2. GateInv /\ [GateNext]_gateVars => GateInv'
  <2> SUFFICES ASSUME GateInv, [GateNext]_gateVars PROVE GateInv'
    OBVIOUS
  <2>1. ASSUME NEW s \in Speakers, NEW l \in Lines, heard(s, l) PROVE GateInv'
    BY <2>1, HeardKeeps
  <2>2. ASSUME NEW s \in Speakers, wake(s) PROVE GateInv'
    BY <2>2, WakeKeeps
  <2>3. ASSUME NEW s \in Speakers, joined(s) \/ left(s) PROVE GateInv'
    BY <2>3, PeopleKeep
  <2>4. CASE goQuietTool
    BY <2>4, GoQuietKeeps
    DEF goQuietTool, GateInv, GateTypeOK, FloorIsTheirs, configVars,
        speechVars
  <2>5. CASE thinks \/ speaks
    BY <2>5, RepliesKeep
  <2>6. ASSUME NEW b \in BOOLEAN, replied(b) \/ verdict(b) PROVE GateInv'
    BY <2>6, RepliesKeep, VerdictKeeps
  <2>7. CASE _window_closed \/ ages
    BY <2>7, TimeKeeps
  <2>8. CASE UNCHANGED gateVars
    BY <2>8, StutterKeeps
  <2> QED  BY <2>1, <2>2, <2>3, <2>4, <2>5, <2>6, <2>7, <2>8 DEF GateNext
<1> QED  BY <1>1, <1>2, PTL DEF GateSafe

\* An idle agent that sleeps by itself always has its window running, so it is
\* never left awake by an order of callbacks.
THEOREM WindowRuns == GateSafe => []FollowUpWindow
<1>1. GateInv => FollowUpWindow
  BY DEF GateInv
<1> QED  BY <1>1, GateKeeps, PTL

\* The floor that the end of a reply hands over (agent_state) is that of the
\* speaker answered last: of the one it was said to, unless a reply is still to
\* come, and where replies may be interrupted none is.
THEOREM FloorHandedOver == GateSafe => []FloorIsTheirs
<1>1. GateInv => FloorIsTheirs
  BY DEF GateInv
<1> QED  BY <1>1, GateKeeps, PTL

-----------------------------------------------------------------------------
(***************************************************************************)
(* Called: one lemma for each callback.                                    *)
(***************************************************************************)

\* What the handlers do to the reply that plays, all they can do to it.
LEMMA PauseAndTryKeeps ==
  ASSUME CalledInv, UNCHANGED mayInterrupt, NEW p \in People, _pauseAndTry(p)
  PROVE  /\ paused' \in BOOLEAN /\ resuming' \in BOOLEAN
         /\ output' \in {"runs", "paused"} /\ speech' \in {"none", "plays", "cut", "hushed"}
         /\ PauseIsKnown'
<1>1. CASE /\ _cut
           /\ output' = IF pausesFor(p) THEN "paused" ELSE output
  BY <1>1 DEF _cut, _stop, pausesFor, _interruptible_speech, CalledInv, CalledTypeOK, PauseIsKnown, LeavesNobody
<1>2. CASE /\ IF p = caller THEN _pause(p) ELSE UNCHANGED <<paused, output>>
           /\ UNCHANGED <<resuming, speech>>
  BY <1>2 DEF _pause, pausesFor, _interruptible_speech, CalledInv, CalledTypeOK, PauseIsKnown
<1> QED  BY <1>1, <1>2 DEF _pauseAndTry

LEMMA ResumedKeeps ==
  ASSUME CalledInv, UNCHANGED <<mayInterrupt, speech>>, _resumed \/ UNCHANGED <<paused, resuming, output>>
  PROVE  /\ paused' \in BOOLEAN /\ resuming' \in BOOLEAN
         /\ output' \in {"runs", "paused"} /\ speech' \in {"none", "plays", "cut", "hushed"}
         /\ PauseIsKnown'
  BY DEF _resumed, CalledInv, CalledTypeOK, PauseIsKnown, LeavesNobody

\* Voices and words.
LEMMA VoiceKeeps ==
  ASSUME CalledInv, NEW p \in People,
         speaking(p) \/ quietened(p) \/ acknowledged(p) \/ echo(p)
  PROVE  CalledInv'
<1>1. CASE speaking(p)
  <2>1. talk' \in 0 .. MaxVoices
    BY <1>1, CalledAssumption DEF speaking, AnotherVoice, CalledInv, CalledTypeOK, LeavesNobody
  <2> QED  BY <1>1, <2>1 DEF speaking, roomVars, CalledInv, CalledTypeOK, PauseIsKnown, LeavesNobody
<1>2. CASE quietened(p)
  BY <1>2 DEF quietened, roomVars, CalledInv, CalledTypeOK, PauseIsKnown, LeavesNobody
<1>3. CASE acknowledged(p)
  <2>1. _resumed \/ UNCHANGED <<paused, resuming, output>>
    BY <1>3 DEF acknowledged
  <2> QED  BY <1>3, <2>1, ResumedKeeps
           DEF acknowledged, voiceVars, roomVars, CalledInv, CalledTypeOK, LeavesNobody
<1>4. CASE echo(p)
  <2>1. _resumed \/ UNCHANGED <<paused, resuming, output>>
    BY <1>4 DEF echo
  <2> QED  BY <1>4, <2>1, ResumedKeeps DEF echo, roomVars, CalledInv, CalledTypeOK, LeavesNobody
<1> QED  BY <1>1, <1>2, <1>3, <1>4

LEMMA HeldKeeps ==
  ASSUME CalledInv, NEW p \in People, _held(p)
  PROVE  CalledInv'
  BY PauseAndTryKeeps DEF _held, roomVars, CalledInv, CalledTypeOK, LeavesNobody

LEMMA TranscribedKeeps ==
  ASSUME CalledInv, NEW p \in People, NEW words \in 1 .. Enough, transcribed(p, words)
  PROVE  CalledInv'
<1>1. said' \in [People -> 0 .. Enough]
  <2>1. words \in 0 .. Enough
    BY CalledAssumption
  <2> QED  BY <2>1 DEF transcribed, CalledInv, CalledTypeOK, LeavesNobody
<1>2. CASE _cut /\ UNCHANGED output
  BY <1>1, <1>2 DEF transcribed, _cut, _stop, _interruptible_speech, roomVars, CalledInv, CalledTypeOK, PauseIsKnown, LeavesNobody
<1>3. CASE UNCHANGED playVars
  BY <1>1, <1>3 DEF transcribed, playVars, roomVars, CalledInv, CalledTypeOK, PauseIsKnown, LeavesNobody
<1> QED  BY <1>2, <1>3 DEF transcribed

\* A turn that is committed begins a reply, changes nothing, or hushes her.
LEMMA CommittedKeeps ==
  ASSUME CalledInv, NEW p \in People, committed(p)
  PROVE  CalledInv'
<1>1. said' \in [People -> 0 .. Enough] /\ caller' \in People \cup {Nobody}
  <2>1. 0 \in 0 .. Enough
    BY CalledAssumption
  <2> QED  BY <2>1 DEF committed, CalledInv, CalledTypeOK, LeavesNobody
<1> QED
  BY <1>1 DEF committed, roomVars, CalledInv, CalledTypeOK, PauseIsKnown, LeavesNobody

LEMMA GoneKeep ==
  ASSUME CalledInv, NEW p \in People, someoneJoined(p) \/ someoneLeft(p)
  PROVE  CalledInv'
<1>1. CASE someoneJoined(p)
  <2>1. talk' \in 0 .. MaxVoices
    BY <1>1, CalledAssumption DEF someoneJoined, AnotherVoice, CalledInv, CalledTypeOK, LeavesNobody
  <2> QED  BY <1>1, <2>1 DEF someoneJoined, voiceVars, playVars, CalledInv, CalledTypeOK, PauseIsKnown, LeavesNobody
<1>2. CASE someoneLeft(p)
  <2>1. said' \in [People -> 0 .. Enough]
    <3>1. 0 \in 0 .. Enough
      BY CalledAssumption
    <3> QED  BY <1>2, <3>1 DEF someoneLeft, CalledInv, CalledTypeOK, LeavesNobody
  <2>2. alone' \in BOOLEAN
    BY <1>2 DEF someoneLeft, CalledInv, CalledTypeOK, LeavesNobody
  <2> QED
    BY <1>2, <2>1, <2>2 DEF someoneLeft, playVars, CalledInv, CalledTypeOK, PauseIsKnown, LeavesNobody
<1> QED  BY <1>1, <1>2

\* Timers and the framework.
LEMMA LoopKeeps ==
  ASSUME CalledInv,
         resumeTimer \/ _left_alone \/ replying \/ saidToItsEnd \/ Done \/ fellAsleep
  PROVE  CalledInv'
<1>1. CASE resumeTimer
  BY <1>1, ResumedKeeps DEF resumeTimer, voiceVars, roomVars, CalledInv, CalledTypeOK, LeavesNobody
<1>2. CASE _left_alone
  BY <1>2 DEF _left_alone, voiceVars, playVars, CalledInv, CalledTypeOK, PauseIsKnown, LeavesNobody
<1>3. CASE replying
  <2>1. caller \in People /\ _pauseAndTry(caller)
    BY <1>3 DEF replying, CalledInv, CalledTypeOK, LeavesNobody
  <2> QED  BY <1>3, <2>1, PauseAndTryKeeps
           DEF replying, voiceVars, roomVars, CalledInv, CalledTypeOK, LeavesNobody
<1>4. CASE saidToItsEnd
  BY <1>4 DEF saidToItsEnd, voiceVars, roomVars, CalledInv, CalledTypeOK, PauseIsKnown, LeavesNobody
<1>5. CASE Done
  BY <1>5 DEF Done, voiceVars, roomVars, CalledInv, CalledTypeOK, PauseIsKnown, LeavesNobody
<1>6. CASE fellAsleep
  BY <1>6 DEF fellAsleep, voiceVars, playVars, roomVars, CalledInv, CalledTypeOK, PauseIsKnown, LeavesNobody
<1> QED  BY <1>1, <1>2, <1>3, <1>4, <1>5, <1>6

\* A reply whose output stands still is always one BargeIn knows it paused, so
\* the caller's words, their silence and the resume timer can all settle it.
THEOREM PausesAreKnown == CalledSafe => []CalledInv
<1>1. CalledInit => CalledInv
  <2> SUFFICES ASSUME CalledInit PROVE CalledInv
    OBVIOUS
  <2>1. said \in [People -> 0 .. Enough] /\ talk \in 0 .. MaxVoices
    BY CalledAssumption DEF CalledInit
  <2> QED  BY <2>1 DEF CalledInit, CalledInv, CalledTypeOK, PauseIsKnown, LeavesNobody
<1>2. CalledInv /\ [CalledNext]_calledVars => CalledInv'
  <2> SUFFICES ASSUME CalledInv, [CalledNext]_calledVars PROVE CalledInv'
    OBVIOUS
  <2>1. ASSUME NEW p \in People,
               \/ speaking(p) \/ quietened(p) \/ _held(p)
               \/ \E words \in 1 .. Enough : transcribed(p, words)
               \/ committed(p) \/ acknowledged(p) \/ echo(p)
               \/ someoneJoined(p) \/ someoneLeft(p)
        PROVE  CalledInv'
    BY <2>1, VoiceKeeps, HeldKeeps, TranscribedKeeps, CommittedKeeps, GoneKeep
  <2>2. CASE resumeTimer \/ _left_alone \/ replying \/ saidToItsEnd \/ Done \/ fellAsleep
    BY <2>2, LoopKeeps
  <2>3. CASE UNCHANGED calledVars
    BY <2>3 DEF calledVars, CalledInv, CalledTypeOK, PauseIsKnown, LeavesNobody
  <2> QED  BY <2>1, <2>2, <2>3 DEF CalledNext
<1> QED  BY <1>1, <1>2, PTL DEF CalledSafe

(***************************************************************************)
(* Fillers: DueInSilentThought is inductive, because whatever ends the     *)
(* thought or the silence takes back what was due in the same step.        *)
(***************************************************************************)

LEMMA NextFills == DueInSilentThought /\ [FillersNext]_fillersVars => DueInSilentThought'
<1> SUFFICES ASSUME DueInSilentThought, [FillersNext]_fillersVars
             PROVE  DueInSilentThought'
  OBVIOUS
<1>1. CASE \E new \in {"listening", "thinking", "speaking"} : state_changed(new)
  BY <1>1 DEF state_changed, DueInSilentThought
<1>2. ASSUME NEW l \in Listeners, hearsVoice(l) \/ hearsQuiet(l)
      PROVE  DueInSilentThought'
  BY <1>2 DEF hearsVoice, hearsQuiet, _hush, DueInSilentThought
<1>3. CASE hold(TRUE) \/ hold(FALSE) \/ dueTimer \/ prepare \/ toolPhrase
  BY <1>3 DEF hold, dueTimer, prepare, toolPhrase, DueInSilentThought
<1>4. CASE \E language \in Tongues : speak_in(language)
  BY <1>4 DEF speak_in, DueInSilentThought
<1>5. CASE aheadBegins \/ frameArrives \/ _due_first \/ flows \/ aheadEnds
  BY <1>5 DEF aheadBegins, frameArrives, _due_first, flows, aheadEnds, fillVars, DueInSilentThought
<1>6. CASE _filler
  BY <1>6 DEF _filler, DueInSilentThought
<1>7. CASE UNCHANGED fillersVars
  BY <1>7 DEF fillersVars, fillVars, DueInSilentThought
<1> QED  BY <1>1, <1>2, <1>3, <1>4, <1>5, <1>6, <1>7 DEF FillersNext

\* A filler is due only while she thinks and everybody is silent, for any
\* languages, phrases and number of listeners (delivery.Filler).
THEOREM FillersWaitForSilence == FillersSpec => []DueInSilentThought
<1>1. FillersInit => DueInSilentThought
  BY DEF FillersInit, DueInSilentThought
<1> QED  BY <1>1, NextFills, PTL DEF FillersSpec

-----------------------------------------------------------------------------
(***************************************************************************)
(* Sieve: InOrder and WholeUtterance need to be told where the events are  *)
(* that were not passed yet.  Those of the latest utterance are together,  *)
(* in one of three places: held back while it lasts, kept as an answer, or *)
(* given as one; and nothing is in two of them.  Late transcripts that are *)
(* held back are there with others, but each utterance is whole.  So what  *)
(* is passed next is later than what was passed, and completes an          *)
(* utterance or begins one.                                                *)
(***************************************************************************)
PartsOf(s) == {s[i] : i \in 1 .. Len(s)}
Rising(s) == \A i, j \in 1 .. Len(s) : i < j => s[i] < s[j]
Before(s, t) == \A x \in PartsOf(s), y \in PartsOf(t) : x < y
Latest == {e \in 1 .. fed : uttered[e] = uttered[fed]}

EventsOf(s) == s \in Seq(Nat) /\ PartsOf(s) \subseteq 1 .. fed

\* The first n events, which belong to the utterances of: S has whole ones.
Whole(S, n, of) == \A e, f \in 1 .. n : of[e] = of[f] /\ e \in S => f \in S

SieveTypes ==
  /\ fed \in Nat /\ uttered \in Seq(Nat) /\ Len(uttered) = fed
  /\ speakingNow \in BOOLEAN /\ doubt \in BOOLEAN /\ passing \in BOOLEAN
  /\ EventsOf(heldBack) /\ EventsOf(answers) /\ EventsOf(passed)
  /\ EventsOf(pendingAnswer.events)

\* Utterances are numbered as they come.
Numbered == \A e, f \in 1 .. fed : e <= f => uttered[e] <= uttered[f]

\* What is not passed yet is in one place at most.
OnePlace ==
  /\ speakingNow => fed > 0 /\ (doubt <=> ~passing)
  /\ doubt => ~passing
  /\ doubt \/ passing => answers = <<>> /\ pendingAnswer.events = <<>>
  /\ ~doubt => heldBack = <<>>
  /\ pendingAnswer.events # <<>> => answers = <<>>

\* It is the latest utterance, whole so far.
LatestIsThere ==
  /\ passing => Latest \subseteq PartsOf(passed)
  /\ doubt /\ speakingNow => PartsOf(heldBack) = Latest
  /\ answers # <<>> => PartsOf(answers) = Latest
  /\ pendingAnswer.events # <<>> => PartsOf(pendingAnswer.events) = Latest

\* Every place is in order, and later than what was passed.
LaterThanPassed ==
  /\ Rising(passed) /\ Rising(heldBack) /\ Rising(answers)
  /\ Rising(pendingAnswer.events)
  /\ Before(passed, heldBack) /\ Before(passed, answers)
  /\ Before(passed, pendingAnswer.events)

\* An utterance of which a part was passed was passed so far as it was said;
\* and one of which a part is held back is held back.
PassedWhole == Whole(PartsOf(passed), fed, uttered)
HeldWhole == Whole(PartsOf(heldBack), fed, uttered)

SieveIInv ==
  /\ SieveTypes /\ Numbered /\ OnePlace /\ LatestIsThere /\ LaterThanPassed
  /\ PassedWhole /\ HeldWhole

LEMMA NothingIn ==
  /\ <<>> \in Seq(Nat) /\ PartsOf(<<>>) = {} /\ Rising(<<>>)
  /\ \A s \in Seq(Nat) : Before(s, <<>>) /\ s \o <<>> = s
<1>1. <<>> \in Seq(Nat) /\ Len(<<>>) = 0
  OBVIOUS
<1>2. PartsOf(<<>>) = {} /\ Rising(<<>>)
  BY <1>1 DEF PartsOf, Rising
<1>3. ASSUME NEW s \in Seq(Nat) PROVE Before(s, <<>>) /\ s \o <<>> = s
  BY <1>2 DEF Before
<1> QED  BY <1>1, <1>2, <1>3

LEMMA Joined ==
  ASSUME NEW s \in Seq(Nat), NEW t \in Seq(Nat)
  PROVE  /\ s \o t \in Seq(Nat)
         /\ PartsOf(s \o t) = PartsOf(s) \cup PartsOf(t)
         /\ Rising(s) /\ Rising(t) /\ Before(s, t) => Rising(s \o t)
<1> DEFINE u == s \o t
<1>1. /\ u \in Seq(Nat) /\ Len(u) = Len(s) + Len(t)
      /\ \A i \in 1 .. Len(s) : u[i] = s[i]
      /\ \A i \in 1 .. Len(t) : u[Len(s) + i] = t[i]
  OBVIOUS
<1>2. \A i \in 1 .. Len(u) : i \in 1 .. Len(s) \/ i - Len(s) \in 1 .. Len(t)
  BY <1>1
<1>3. \A i \in 1 .. Len(u) : i \notin 1 .. Len(s) => u[i] = t[i - Len(s)]
  BY <1>1, <1>2
<1> HIDE DEF u
<1>4. PartsOf(u) \subseteq PartsOf(s) \cup PartsOf(t)
  BY <1>1, <1>2, <1>3 DEF PartsOf
<1>5. PartsOf(s) \subseteq PartsOf(u)
  BY <1>1 DEF PartsOf
<1>6. PartsOf(t) \subseteq PartsOf(u)
  <2>1. \A i \in 1 .. Len(t) : Len(s) + i \in 1 .. Len(u)
    BY <1>1
  <2> QED  BY <1>1, <2>1 DEF PartsOf
<1>7. ASSUME Rising(s), Rising(t), Before(s, t) PROVE Rising(u)
  <2> SUFFICES ASSUME NEW i \in 1 .. Len(u), NEW j \in 1 .. Len(u), i < j
               PROVE  u[i] < u[j]
    BY DEF Rising
  <2>1. CASE j \in 1 .. Len(s)
    <3>1. i \in 1 .. Len(s)
      BY <2>1, <1>1
    <3> QED  BY <3>1, <2>1, <1>1, <1>7 DEF Rising
  <2>2. CASE j \notin 1 .. Len(s) /\ i \in 1 .. Len(s)
    <3>1. u[i] \in PartsOf(s) /\ u[j] \in PartsOf(t)
      BY <2>2, <1>1, <1>2, <1>3 DEF PartsOf
    <3> QED  BY <3>1, <1>7 DEF Before
  <2>3. CASE j \notin 1 .. Len(s) /\ i \notin 1 .. Len(s)
    <3>1. /\ i - Len(s) \in 1 .. Len(t) /\ j - Len(s) \in 1 .. Len(t)
          /\ i - Len(s) < j - Len(s)
      BY <2>3, <1>1, <1>2
    <3>2. t[i - Len(s)] < t[j - Len(s)]
      BY <3>1, <1>7 DEF Rising
    <3> QED  BY <3>2, <2>3, <1>3
  <2> QED  BY <2>1, <2>2, <2>3
<1> QED  BY <1>1, <1>4, <1>5, <1>6, <1>7 DEF u

LEMMA AddedLast ==
  ASSUME NEW s \in Seq(Nat), NEW e \in Nat
  PROVE  /\ Append(s, e) \in Seq(Nat)
         /\ PartsOf(Append(s, e)) = PartsOf(s) \cup {e}
         /\ Rising(s) /\ (\A x \in PartsOf(s) : x < e) => Rising(Append(s, e))
<1>1. <<e>> \in Seq(Nat) /\ Len(<<e>>) = 1 /\ <<e>>[1] = e /\ Append(s, e) = s \o <<e>>
  OBVIOUS
<1>2. PartsOf(<<e>>) = {e} /\ Rising(<<e>>)
  BY <1>1 DEF PartsOf, Rising
<1>3. (\A x \in PartsOf(s) : x < e) => Before(s, <<e>>)
  BY <1>2 DEF Before
<1> QED  BY <1>1, <1>2, <1>3, Joined

\* What is yielded is added to what was passed, in order.
LEMMA YieldsInOrder ==
  ASSUME SieveTypes, LaterThanPassed, NEW events \in Seq(Nat), yields(events),
         Rising(events), Before(passed, events), Before(answers, events)
  PROVE  /\ passed' \in Seq(Nat) /\ Rising(passed')
         /\ PartsOf(passed') = PartsOf(passed) \cup PartsOf(answers) \cup PartsOf(events)
         /\ answers' = <<>>
<1>1. passed \in Seq(Nat) /\ answers \in Seq(Nat)
  BY DEF SieveTypes, EventsOf
<1>2. /\ passed \o answers \in Seq(Nat) /\ Rising(passed \o answers)
      /\ PartsOf(passed \o answers) = PartsOf(passed) \cup PartsOf(answers)
  BY <1>1, Joined DEF LaterThanPassed
<1>3. Before(passed \o answers, events)
  BY <1>2 DEF Before
<1>4. passed' = (passed \o answers) \o events /\ answers' = <<>>
  BY DEF yields
<1> QED  BY <1>2, <1>3, <1>4, Joined

\* The next event is of the utterance that lasts, or of a new one.
LEMMA EventComes ==
  ASSUME SieveTypes, Numbered, NEW u \in Nat, nextEvent(u), fed > 0 => uttered[fed] <= u
  PROVE  /\ fed' = fed + 1 /\ fed' \in Nat
         /\ uttered' \in Seq(Nat) /\ Len(uttered') = fed' /\ Numbered'
         /\ \A e \in 1 .. fed : uttered'[e] = uttered[e]
         /\ uttered'[fed'] = u /\ fed' \in Latest'
         /\ Latest' = {e \in 1 .. fed : uttered[e] = u} \cup {fed + 1}
<1>1. fed \in Nat /\ uttered \in Seq(Nat) /\ Len(uttered) = fed
  BY DEF SieveTypes
<1>2. fed' = fed + 1 /\ uttered' = Append(uttered, u)
  BY DEF nextEvent
<1>3. /\ uttered' \in Seq(Nat) /\ Len(uttered') = fed' /\ uttered'[fed'] = u
      /\ \A e \in 1 .. fed : uttered'[e] = uttered[e]
  BY <1>1, <1>2
<1>4. \A e \in 1 .. fed : uttered[e] \in Nat /\ uttered[e] <= u
  <2> SUFFICES ASSUME NEW e \in 1 .. fed PROVE uttered[e] \in Nat /\ uttered[e] <= u
    OBVIOUS
  <2>1. fed > 0 /\ fed \in 1 .. fed
    BY <1>1
  <2>2. uttered[e] \in Nat /\ uttered[fed] \in Nat
    BY <1>1, <2>1
  <2>3. uttered[e] <= uttered[fed]
    BY <2>1, <1>1 DEF Numbered
  <2> QED  BY <2>1, <2>2, <2>3
<1>5. Numbered'
  <2> SUFFICES ASSUME NEW e \in 1 .. fed + 1, NEW f \in 1 .. fed + 1, e <= f
               PROVE  uttered'[e] <= uttered'[f]
    BY <1>2 DEF Numbered
  <2>1. CASE f = fed + 1
    BY <2>1, <1>1, <1>2, <1>3, <1>4
  <2>2. CASE f # fed + 1
    <3>1. e \in 1 .. fed /\ f \in 1 .. fed
      BY <2>2, <1>1
    <3> QED  BY <3>1, <1>3 DEF Numbered
  <2> QED  BY <2>1, <2>2
<1>6. Latest' = {e \in 1 .. fed : uttered[e] = u} \cup {fed + 1}
  <2>1. 1 .. fed' = 1 .. fed \cup {fed + 1}
    BY <1>1, <1>2
  <2> QED  BY <2>1, <1>1, <1>2, <1>3 DEF Latest
<1> QED  BY <1>1, <1>2, <1>3, <1>5, <1>6

LEMMA LatestHas == ASSUME SieveTypes, fed > 0 PROVE fed \in Latest /\ uttered[fed] \in Nat
  BY DEF SieveTypes, Latest

\* With the next event, whole utterances are whole still if the one it belongs
\* to is apart from them, and with that one they are whole anyway.
LEMMA StillWhole ==
  ASSUME SieveTypes, Numbered, NEW u \in Nat, nextEvent(u), fed > 0 => uttered[fed] <= u,
         NEW S, Whole(S, fed, uttered)
  PROVE  /\ Whole(S \cup Latest', fed', uttered')
         /\ S \cap Latest' = {} => Whole(S, fed', uttered')
         /\ Whole({}, fed', uttered')
<1>1. /\ fed' = fed + 1 /\ \A e \in 1 .. fed : uttered'[e] = uttered[e]
      /\ fed' \in Latest' /\ fed \in Nat
  BY EventComes DEF SieveTypes
<1>2. ASSUME NEW e \in 1 .. fed', NEW f \in 1 .. fed', uttered'[e] = uttered'[f]
      PROVE  /\ e \in Latest' <=> f \in Latest'
             /\ e \in S /\ e \notin Latest' => f \in S
  <2>1. e \in Latest' <=> f \in Latest'
    BY <1>2 DEF Latest
  <2>2. e \notin Latest' => e \in 1 .. fed /\ f \in 1 .. fed
    BY <2>1, <1>1
  <2>3. e \notin Latest' => uttered[e] = uttered[f]
    BY <2>2, <1>1, <1>2
  <2> QED  BY <2>1, <2>2, <2>3 DEF Whole
<1>3. Whole(S \cup Latest', fed', uttered') /\ Whole({}, fed', uttered')
  BY <1>2 DEF Whole
<1>4. S \cap Latest' = {} => Whole(S, fed', uttered')
  BY <1>2 DEF Whole
<1> QED  BY <1>3, <1>4

\* What is passed and what is given as an answer is whole utterances.
LEMMA WholeSoFar ==
  ASSUME SieveIInv, NEW e \in 1 .. fed, NEW f \in 1 .. fed, uttered[e] = uttered[f],
         e \in PartsOf(passed) \cup PartsOf(answers)
  PROVE  f \in PartsOf(passed) \cup PartsOf(answers)
<1>1. CASE e \in PartsOf(passed)
  BY <1>1 DEF SieveIInv, PassedWhole, Whole
<1>2. CASE e \in PartsOf(answers)
  <2>1. answers # <<>>
    BY <1>2, NothingIn
  <2>2. PartsOf(answers) = Latest
    BY <2>1 DEF SieveIInv, LatestIsThere
  <2> QED  BY <1>2, <2>2 DEF Latest
<1> QED  BY <1>1, <1>2

\* Steps of the floor read nothing and pass nothing.
LEMMA FloorKeeps ==
  ASSUME SieveIInv, UNCHANGED <<streamVars, keptVars, pendingAnswer, answers, passed>>
  PROVE  SieveIInv'
<1>1. /\ fed' = fed /\ uttered' = uttered /\ speakingNow' = speakingNow
      /\ heldBack' = heldBack /\ doubt' = doubt /\ passing' = passing
      /\ pendingAnswer' = pendingAnswer /\ answers' = answers /\ passed' = passed
  BY DEF streamVars, keptVars
<1>2. SieveTypes' /\ Numbered' /\ OnePlace' /\ PassedWhole' /\ HeldWhole'
  BY <1>1 DEF SieveIInv, SieveTypes, EventsOf, Numbered, OnePlace, PassedWhole, HeldWhole
<1>3. LatestIsThere' /\ LaterThanPassed'
  BY <1>1 DEF SieveIInv, LatestIsThere, Latest, LaterThanPassed
<1> QED  BY <1>2, <1>3 DEF SieveIInv

\* The answer kept for a reply is given, or lost, when the reply is over.
LEMMA OverKeeps == ASSUME SieveIInv, over PROVE SieveIInv'
<1>1. /\ UNCHANGED <<streamVars, keptVars, passed>>
      /\ \/ UNCHANGED <<pendingAnswer, answers>>
         \/ pendingAnswer' = NoPending /\ answers' = answers
         \/ pendingAnswer' = NoPending /\ answers' = answers \o pendingAnswer.events
  BY DEF over
<1>2. CASE UNCHANGED <<pendingAnswer, answers>>
  BY <1>1, <1>2, FloorKeeps
<1>3. ASSUME pendingAnswer' = NoPending, answers' \in {answers, pendingAnswer.events},
             answers' = pendingAnswer.events => pendingAnswer.events = <<>> \/ answers = <<>>
      PROVE  SieveIInv'
  <2>1. pendingAnswer'.events = <<>>
    BY <1>3 DEF NoPending
  <2>2. /\ doubt \/ passing => answers = <<>> /\ pendingAnswer.events = <<>>
        /\ answers' # <<>> => PartsOf(answers') = Latest
        /\ Rising(answers') /\ Before(passed, answers') /\ EventsOf(answers')
    BY <1>3 DEF SieveIInv, SieveTypes, OnePlace, LatestIsThere, LaterThanPassed
  <2>3. doubt \/ passing => answers' = <<>>
    BY <2>2, <1>3
  <2>4. /\ fed' = fed /\ uttered' = uttered /\ speakingNow' = speakingNow
        /\ heldBack' = heldBack /\ doubt' = doubt /\ passing' = passing /\ passed' = passed
        /\ Latest' = Latest
    BY <1>1 DEF streamVars, keptVars, Latest
  <2>5. SieveTypes'
    BY <2>1, <2>2, <2>4, NothingIn DEF SieveIInv, SieveTypes, EventsOf
  <2>6. OnePlace'
    BY <2>1, <2>3, <2>4 DEF SieveIInv, OnePlace
  <2>7. LatestIsThere'
    BY <2>1, <2>2, <2>4 DEF SieveIInv, LatestIsThere
  <2>8. passed \in Seq(Nat)
    BY DEF SieveIInv, SieveTypes, EventsOf
  <2>9. LaterThanPassed'
    <3>1. Rising(passed') /\ Rising(heldBack') /\ Before(passed', heldBack')
      BY <2>4 DEF SieveIInv, LaterThanPassed
    <3>2. Rising(answers') /\ Before(passed', answers')
      BY <2>2, <2>4
    <3>3. Rising(pendingAnswer'.events) /\ Before(passed', pendingAnswer'.events)
      BY <2>1, <2>4, <2>8, NothingIn
    <3> QED  BY <3>1, <3>2, <3>3 DEF LaterThanPassed
  <2>10. Numbered' /\ PassedWhole' /\ HeldWhole'
    BY <2>4 DEF SieveIInv, Numbered, PassedWhole, HeldWhole
  <2> QED  BY <2>5, <2>6, <2>7, <2>9, <2>10 DEF SieveIInv
<1>4. CASE pendingAnswer' = NoPending /\ answers' = answers
  <2>1. answers' = pendingAnswer.events => pendingAnswer.events = <<>> \/ answers = <<>>
    BY <1>4 DEF SieveIInv, OnePlace
  <2> QED  BY <1>4, <2>1, <1>3
<1>5. CASE pendingAnswer' = NoPending /\ answers' = answers \o pendingAnswer.events
  <2>1. answers \in Seq(Nat) /\ pendingAnswer.events \in Seq(Nat)
    BY DEF SieveIInv, SieveTypes, EventsOf
  <2>2. CASE pendingAnswer.events = <<>>
    <3>1. answers' = answers
      BY <1>5, <2>1, <2>2
    <3> QED  BY <1>4, <1>5, <3>1
  <2>3. CASE pendingAnswer.events # <<>>
    <3>1. answers = <<>>
      BY <2>3 DEF SieveIInv, OnePlace
    <3>2. answers' = pendingAnswer.events
      BY <1>5, <2>1, <3>1
    <3> QED  BY <1>3, <1>5, <3>1, <3>2
  <2> QED  BY <2>2, <2>3
<1> QED  BY <1>1, <1>2, <1>4, <1>5

\* What holds after an event of the recognizer: what was passed, and the one
\* place where the latest utterance is, with what was held back before or not.
LEMMA EventKeeps ==
  ASSUME SieveIInv, NEW u \in Nat, nextEvent(u), fed > 0 => uttered[fed] <= u,
         speakingNow' \in BOOLEAN, doubt' \in BOOLEAN, passing' \in BOOLEAN,
         OnePlace', LatestIsThere', answers' = <<>>,
         heldBack' \in Seq(Nat), Rising(heldBack'),
         PartsOf(heldBack') \in {{}, Latest', PartsOf(heldBack) \cup Latest'},
         pendingAnswer'.events \in Seq(Nat), Rising(pendingAnswer'.events),
         PartsOf(pendingAnswer'.events) \subseteq Latest',
         passed' \in Seq(Nat), Rising(passed'),
         LET taken == PartsOf(passed) \cup PartsOf(answers) IN
         \/ /\ \/ PartsOf(passed') = taken \cup Latest'
               \/ PartsOf(passed') = (taken \cup PartsOf(heldBack)) \cup Latest'
            /\ heldBack' = <<>> /\ pendingAnswer'.events = <<>>
         \/ /\ PartsOf(passed') = taken
            /\ \A x \in taken, y \in Latest' \cup PartsOf(heldBack') : x < y
  PROVE  SieveIInv'
<1> DEFINE taken == PartsOf(passed) \cup PartsOf(answers)
<1>1. SieveTypes /\ Numbered /\ Whole(PartsOf(heldBack), fed, uttered)
  BY DEF SieveIInv, HeldWhole
<1>10. Whole(taken, fed, uttered)
  BY WholeSoFar DEF Whole
<1>11. Whole(taken \cup PartsOf(heldBack), fed, uttered)
  BY <1>1, <1>10 DEF Whole
<1>2. /\ fed' = fed + 1 /\ fed' \in Nat /\ uttered' \in Seq(Nat) /\ Len(uttered') = fed'
      /\ Numbered'
  BY <1>1, EventComes
<1>3. taken \subseteq 1 .. fed /\ taken \subseteq 1 .. fed'
  BY <1>1, <1>2 DEF SieveTypes, EventsOf
<1>4. Latest' \subseteq 1 .. fed' /\ PartsOf(heldBack) \subseteq 1 .. fed'
  BY <1>1, <1>2 DEF Latest, SieveTypes, EventsOf
<1>5. EventsOf(passed)'
  BY <1>3, <1>4 DEF EventsOf
<1>6. EventsOf(heldBack)' /\ EventsOf(pendingAnswer.events)' /\ EventsOf(answers)'
  BY <1>4, NothingIn DEF EventsOf
<1>7. SieveTypes'
  BY <1>2, <1>5, <1>6 DEF SieveTypes
<1>8. PassedWhole' /\ HeldWhole'
  <2> HIDE DEF taken
  <2>1. (\A x \in taken, y \in Latest' : x < y) => taken \cap Latest' = {}
    BY <1>3, <1>4
  <2>2. /\ Whole(taken \cup Latest', fed', uttered')
        /\ taken \cap Latest' = {} => Whole(taken, fed', uttered')
    BY <1>1, <1>10, StillWhole
  <2>3. Whole((taken \cup PartsOf(heldBack)) \cup Latest', fed', uttered')
    BY <1>1, <1>11, StillWhole
  <2>4. /\ Whole(PartsOf(heldBack) \cup Latest', fed', uttered')
        /\ Whole({}, fed', uttered')
    BY <1>1, StillWhole
  <2>5. Whole(Latest', fed', uttered')
    BY DEF Whole, Latest
  <2>6. Whole(PartsOf(passed'), fed', uttered')
    BY <2>1, <2>2, <2>3 DEF taken
  <2>7. Whole(PartsOf(heldBack'), fed', uttered')
    BY <2>4, <2>5
  <2> QED  BY <2>6, <2>7 DEF PassedWhole, HeldWhole
<1>9. LaterThanPassed'
  <2>1. Before(passed', answers') /\ Rising(answers')
    BY NothingIn
  <2>2. CASE heldBack' = <<>> /\ pendingAnswer'.events = <<>>
    BY <2>1, <2>2, NothingIn DEF LaterThanPassed
  <2>3. CASE /\ PartsOf(passed') = taken
             /\ \A x \in taken, y \in Latest' \cup PartsOf(heldBack') : x < y
    <3>1. Before(passed', heldBack') /\ Before(passed', pendingAnswer'.events)
      BY <2>3 DEF Before
    <3> QED  BY <2>1, <3>1 DEF LaterThanPassed
  <2> QED  BY <2>2, <2>3
<1> QED  BY <1>2, <1>7, <1>8, <1>9 DEF SieveIInv

LEMMA UtteranceNow ==
  ASSUME SieveTypes
  PROVE  /\ utteranceNow \in Nat /\ utteranceNow + 1 \in Nat
         /\ fed > 0 => utteranceNow = uttered[fed]
<1>1. fed \in Nat /\ uttered \in Seq(Nat) /\ Len(uttered) = fed
  BY DEF SieveTypes
<1>2. fed > 0 => uttered[fed] \in Nat /\ uttered # <<>>
  BY <1>1
<1>3. fed = 0 => uttered = <<>>
  BY <1>1
<1> QED  BY <1>1, <1>2, <1>3 DEF utteranceNow

\* While an utterance lasts no answer waits; what is held back is all of it.
LEMMA WhileSpeaking ==
  ASSUME SieveIInv, speakingNow
  PROVE  /\ fed > 0 /\ utteranceNow = uttered[fed]
         /\ answers = <<>> /\ PartsOf(answers) = {} /\ pendingAnswer.events = <<>>
         /\ doubt <=> ~passing
         /\ doubt => PartsOf(heldBack) = Latest /\ Before(passed, heldBack)
         /\ ~doubt => heldBack = <<>> /\ Latest \subseteq PartsOf(passed)
  BY UtteranceNow, NothingIn DEF SieveIInv, OnePlace, LatestIsThere, LaterThanPassed

\* The next event of the utterance that lasts joins the others.
LEMMA NextOfUtterance ==
  ASSUME SieveIInv, speakingNow, nextEvent(utteranceNow)
  PROVE  /\ utteranceNow \in Nat /\ (fed > 0 => uttered[fed] <= utteranceNow)
         /\ Latest' = Latest \cup {fed + 1}
<1>1. SieveTypes /\ Numbered /\ fed > 0 /\ utteranceNow = uttered[fed] /\ utteranceNow \in Nat
  BY WhileSpeaking, UtteranceNow DEF SieveIInv
<1>2. Latest' = {e \in 1 .. fed : uttered[e] = utteranceNow} \cup {fed + 1}
  BY <1>1, EventComes
<1> QED  BY <1>1, <1>2 DEF Latest

\* What waits with the next event: it is in order, and later than what was passed.
LEMMA HeldWithNext ==
  ASSUME SieveIInv, speakingNow, doubt, nextEvent(utteranceNow)
  PROVE  LET all == Append(heldBack, fed + 1) IN
         /\ all \in Seq(Nat) /\ Rising(all) /\ PartsOf(all) = Latest'
         /\ Before(passed, all) /\ \A s \in Seq(Nat) : s = <<>> => Before(s, all)
<1> DEFINE all == Append(heldBack, fed + 1)
<1>1. SieveTypes /\ fed \in Nat /\ heldBack \in Seq(Nat) /\ EventsOf(heldBack) /\ EventsOf(passed)
  BY DEF SieveIInv, SieveTypes, EventsOf
<1>2. \A x \in PartsOf(heldBack) \cup PartsOf(passed) : x < fed + 1
  BY <1>1 DEF EventsOf
<1>3. Rising(heldBack) /\ Before(passed, heldBack) /\ PartsOf(heldBack) = Latest
  BY WhileSpeaking DEF SieveIInv, LaterThanPassed
<1>4. all \in Seq(Nat) /\ Rising(all) /\ PartsOf(all) = PartsOf(heldBack) \cup {fed + 1}
  BY <1>1, <1>2, <1>3, AddedLast
<1>5. Before(passed, all)
  BY <1>2, <1>3, <1>4 DEF Before
<1>6. \A s \in Seq(Nat) : s = <<>> => Before(s, all)
  BY NothingIn DEF Before
<1> QED  BY <1>3, <1>4, <1>5, <1>6, NextOfUtterance

\* An event held back is the latest part of an utterance none of which passed.
LEMMA HoldKeeps ==
  ASSUME SieveIInv, speakingNow, doubt, nextEvent(utteranceNow),
         yields(<<>>), UNCHANGED <<speakingNow, passing>>, doubt' = TRUE,
         heldBack' = Append(heldBack, fed + 1), pendingAnswer'.events = <<>>
  PROVE  SieveIInv'
<1> DEFINE all == Append(heldBack, fed + 1)
<1>1. /\ fed > 0 /\ answers = <<>> /\ PartsOf(answers) = {} /\ ~passing
      /\ SieveTypes /\ LaterThanPassed /\ speakingNow \in BOOLEAN /\ passing \in BOOLEAN
  BY WhileSpeaking DEF SieveIInv, SieveTypes
<1>2. /\ all \in Seq(Nat) /\ Rising(all) /\ PartsOf(all) = Latest' /\ Before(passed, all)
  BY HeldWithNext
<1>3. utteranceNow \in Nat /\ (fed > 0 => uttered[fed] <= utteranceNow)
  BY NextOfUtterance
<1>4. /\ passed' \in Seq(Nat) /\ Rising(passed') /\ answers' = <<>>
      /\ PartsOf(passed') = PartsOf(passed) \cup PartsOf(answers)
  <2>1. passed \in Seq(Nat) /\ answers \in Seq(Nat)
    BY <1>1 DEF SieveTypes, EventsOf
  <2>2. <<>> \in Seq(Nat) /\ Rising(<<>>) /\ Before(passed, <<>>) /\ Before(answers, <<>>)
    BY <2>1, NothingIn
  <2> QED  BY <1>1, <2>2, YieldsInOrder, NothingIn
<1>5. OnePlace'
  <2>1. fed' = fed + 1 /\ fed \in Nat
    BY <1>1 DEF nextEvent, SieveTypes
  <2> QED  BY <1>1, <1>4, <2>1 DEF OnePlace
<1>6. LatestIsThere'
  BY <1>1, <1>2, <1>4 DEF LatestIsThere
<1>7. \A x \in PartsOf(passed) \cup PartsOf(answers), y \in Latest' : x < y
  BY <1>1, <1>2 DEF Before
<1>8. PartsOf(pendingAnswer'.events) \subseteq Latest' /\ Rising(pendingAnswer'.events)
      /\ pendingAnswer'.events \in Seq(Nat)
  BY NothingIn
<1> QED  BY <1>1, <1>2, <1>3, <1>4, <1>5, <1>6, <1>7, <1>8, EventKeeps

\* What was held back and the next event are passed together.
LEMMA ReleaseKeeps ==
  ASSUME SieveIInv, speakingNow, doubt, nextEvent(utteranceNow), NEW last \in BOOLEAN,
         _release(fed + 1, last), speakingNow' = ~last, pendingAnswer'.events = <<>>
  PROVE  SieveIInv'
<1> DEFINE all == Append(heldBack, fed + 1)
<1>1. /\ fed > 0 /\ answers = <<>> /\ PartsOf(answers) = {}
      /\ SieveTypes /\ LaterThanPassed /\ answers \in Seq(Nat)
  BY WhileSpeaking, NothingIn DEF SieveIInv
<1>2. /\ all \in Seq(Nat) /\ Rising(all) /\ PartsOf(all) = Latest'
      /\ Before(passed, all) /\ Before(answers, all)
  BY <1>1, HeldWithNext
<1>3. utteranceNow \in Nat /\ (fed > 0 => uttered[fed] <= utteranceNow)
  BY NextOfUtterance
<1>4. yields(all) /\ heldBack' = <<>> /\ doubt' = FALSE /\ passing' = ~last
  BY DEF _release, _reset
<1>5. /\ passed' \in Seq(Nat) /\ Rising(passed') /\ answers' = <<>>
      /\ PartsOf(passed') = PartsOf(passed) \cup PartsOf(answers) \cup Latest'
  BY <1>1, <1>2, <1>4, YieldsInOrder
<1>6. OnePlace'
  <2>1. fed' = fed + 1 /\ fed \in Nat
    BY <1>1 DEF nextEvent, SieveTypes
  <2> QED  BY <1>1, <1>4, <1>5, <2>1 DEF OnePlace
<1>7. LatestIsThere'
  BY <1>4, <1>5 DEF LatestIsThere
<1>8. /\ PartsOf(<<>>) = {} /\ Rising(<<>>) /\ <<>> \in Seq(Nat)
  BY NothingIn
<1>9. speakingNow' \in BOOLEAN /\ doubt' \in BOOLEAN /\ passing' \in BOOLEAN
  BY <1>4
<1> QED  BY <1>3, <1>4, <1>5, <1>6, <1>7, <1>8, <1>9, EventKeeps

\* An event that is passed at once: of an utterance that passes, or of a new one.
LEMMA PassKeeps ==
  ASSUME SieveIInv, NEW u \in Nat, nextEvent(u), yields(<<fed + 1>>),
         doubt' = FALSE, heldBack' = <<>>, pendingAnswer'.events = <<>>,
         speakingNow' \in BOOLEAN, passing' \in BOOLEAN, speakingNow' => passing',
         \/ fed > 0 /\ u = uttered[fed] /\ Latest \subseteq PartsOf(passed)
         \/ fed > 0 => uttered[fed] < u
  PROVE  SieveIInv'
<1> DEFINE taken == PartsOf(passed) \cup PartsOf(answers)
<1>1. /\ SieveTypes /\ LaterThanPassed /\ Numbered /\ fed \in Nat
      /\ EventsOf(passed) /\ EventsOf(answers)
  BY DEF SieveIInv, SieveTypes
<1>2. fed > 0 => uttered[fed] <= u /\ uttered[fed] \in Nat
  BY <1>1, LatestHas
<1>3. <<fed + 1>> \in Seq(Nat) /\ Rising(<<fed + 1>>) /\ PartsOf(<<fed + 1>>) = {fed + 1}
  <2>1. fed + 1 \in Nat /\ Append(<<>>, fed + 1) = <<fed + 1>>
    BY <1>1
  <2> QED  BY <2>1, NothingIn, AddedLast
<1>4. Before(passed, <<fed + 1>>) /\ Before(answers, <<fed + 1>>)
  <2>1. \A x \in PartsOf(passed) \cup PartsOf(answers) : x < fed + 1
    BY <1>1 DEF EventsOf
  <2> QED  BY ONLY <2>1, <1>3 DEF Before
<1>5. /\ passed' \in Seq(Nat) /\ Rising(passed') /\ answers' = <<>>
      /\ PartsOf(passed') = taken \cup {fed + 1}
  BY <1>1, <1>3, <1>4, YieldsInOrder
<1>6. Latest' = {e \in 1 .. fed : uttered[e] = u} \cup {fed + 1}
  BY <1>1, <1>2, EventComes
<1>7. {e \in 1 .. fed : uttered[e] = u} \subseteq taken
  <2>1. CASE fed > 0 /\ u = uttered[fed] /\ Latest \subseteq PartsOf(passed)
    BY <2>1 DEF Latest
  <2>2. CASE fed > 0 => uttered[fed] < u
    <3> SUFFICES ASSUME NEW e \in 1 .. fed PROVE uttered[e] # u
      OBVIOUS
    <3>1. fed > 0 /\ fed \in 1 .. fed /\ uttered[fed] < u
      BY <2>2, <1>1
    <3>2. uttered[e] <= uttered[fed] /\ uttered[e] \in Nat
      BY <3>1, <1>1 DEF Numbered, SieveTypes
    <3> QED  BY <3>1, <3>2, <1>2
  <2> QED  BY <2>1, <2>2
<1>8. PartsOf(passed') = taken \cup Latest'
  BY <1>5, <1>6, <1>7
<1>9. OnePlace'
  <2>1. fed' = fed + 1
    BY DEF nextEvent
  <2> QED  BY <1>1, <1>5, <2>1 DEF OnePlace
<1>10. LatestIsThere'
  BY <1>5, <1>8 DEF LatestIsThere
<1>11. /\ PartsOf(<<>>) = {} /\ Rising(<<>>) /\ <<>> \in Seq(Nat)
  BY NothingIn
<1>12. doubt' \in BOOLEAN
  OBVIOUS
<1> QED  BY <1>2, <1>5, <1>8, <1>9, <1>10, <1>11, <1>12, EventKeeps

\* A new utterance over her reply is held back from its first event on.
LEMMA StartKeeps == ASSUME SieveIInv, startOfSpeech PROVE SieveIInv'
<1> DEFINE taken == PartsOf(passed) \cup PartsOf(answers)
           u == utteranceNow + 1
<1>1. /\ SieveTypes /\ LaterThanPassed /\ Numbered /\ fed \in Nat
      /\ EventsOf(passed) /\ EventsOf(answers)
  BY DEF SieveIInv, SieveTypes
<1>2. u \in Nat /\ (fed > 0 => uttered[fed] < u /\ uttered[fed] <= u)
  BY <1>1, UtteranceNow, LatestHas
<1>3. /\ nextEvent(u) /\ speakingNow' /\ speakingNow' \in BOOLEAN
      /\ pendingAnswer' = NoPending /\ pendingAnswer'.events = <<>>
  BY DEF startOfSpeech, NoPending
<1>4. CASE ~holds_floor
  <2>1. yields(<<fed + 1>>) /\ doubt' = FALSE /\ heldBack' = <<>> /\ passing' = TRUE
    BY <1>4 DEF startOfSpeech, holds_floor
  <2>2. passing' = speakingNow'
    BY <2>1 DEF startOfSpeech
  <2>3. passing' \in BOOLEAN
    BY <2>1
  <2> HIDE DEF u
  <2> QED  BY <1>2, <1>3, <2>1, <2>2, <2>3, PassKeeps
<1>5. CASE holds_floor
  <2>1. yields(<<>>) /\ doubt' = TRUE /\ heldBack' = <<fed + 1>> /\ passing' = FALSE
    BY <1>5 DEF startOfSpeech, holds_floor
  <2>2. Latest' = {e \in 1 .. fed : uttered[e] = u} \cup {fed + 1}
    BY <1>1, <1>2, <1>3, EventComes
  <2>3. {e \in 1 .. fed : uttered[e] = u} = {}
    <3> SUFFICES ASSUME NEW e \in 1 .. fed PROVE uttered[e] # u
      OBVIOUS
    <3>1. fed > 0 /\ fed \in 1 .. fed
      BY <1>1
    <3>2. uttered[e] <= uttered[fed] /\ uttered[e] \in Nat /\ uttered[fed] \in Nat
      BY <3>1, <1>1 DEF Numbered, SieveTypes
    <3> QED  BY <3>1, <3>2, <1>2
  <2>4. /\ heldBack' \in Seq(Nat) /\ Rising(heldBack') /\ PartsOf(heldBack') = Latest'
    <3>1. fed + 1 \in Nat /\ Append(<<>>, fed + 1) = <<fed + 1>>
      BY <1>1
    <3>2. /\ <<fed + 1>> \in Seq(Nat) /\ Rising(<<fed + 1>>)
          /\ PartsOf(<<fed + 1>>) = {fed + 1}
      BY <3>1, NothingIn, AddedLast
    <3> QED  BY <2>1, <2>2, <2>3, <3>2
  <2>5. /\ passed' \in Seq(Nat) /\ Rising(passed') /\ answers' = <<>>
        /\ PartsOf(passed') = taken
    <3>1. passed \in Seq(Nat) /\ answers \in Seq(Nat)
      BY <1>1 DEF EventsOf
    <3>2. <<>> \in Seq(Nat) /\ Rising(<<>>) /\ Before(passed, <<>>) /\ Before(answers, <<>>)
      BY <3>1, NothingIn
    <3> QED  BY <1>1, <2>1, <3>2, YieldsInOrder, NothingIn
  <2>6. \A x \in taken, y \in Latest' : x < y
    <3>1. taken \subseteq 1 .. fed
      BY <1>1 DEF EventsOf
    <3>2. Latest' = {fed + 1}
      BY <2>2, <2>3
    <3>3. \A x \in 1 .. fed : x < fed + 1
      BY <1>1
    <3> HIDE DEF taken
    <3> QED  BY <3>1, <3>2, <3>3
  <2>7. OnePlace'
    <3>1. fed' = fed + 1
      BY <1>3 DEF nextEvent
    <3> QED  BY <1>1, <1>3, <2>1, <2>5, <3>1 DEF OnePlace
  <2>8. LatestIsThere'
    BY <1>3, <2>1, <2>4, <2>5 DEF LatestIsThere
  <2>9. PartsOf(<<>>) \subseteq Latest' /\ Rising(<<>>) /\ <<>> \in Seq(Nat)
    BY NothingIn
  <2>10. doubt' \in BOOLEAN /\ passing' \in BOOLEAN
    BY <2>1
  <2> HIDE DEF u
  <2> QED
    BY <1>2, <1>3, <2>4, <2>5, <2>6, <2>7, <2>8, <2>9, <2>10, EventKeeps
<1> QED  BY <1>4, <1>5

LEMMA SpokenKeeps ==
  ASSUME SieveIInv, NEW text, NEW final, speakingNow, _transcript(text, final)
  PROVE  SieveIInv'
<1>1. /\ speakingNow /\ nextEvent(utteranceNow) /\ speakingNow' = speakingNow
      /\ pendingAnswer'.events = <<>> /\ pendingAnswer' = NoPending
  BY DEF _transcript, NoPending
<1>2. /\ fed > 0 /\ utteranceNow = uttered[fed] /\ (doubt <=> ~passing)
      /\ (~doubt => heldBack = <<>> /\ Latest \subseteq PartsOf(passed))
  BY <1>1, WhileSpeaking
<1>3. /\ speakingNow \in BOOLEAN /\ doubt \in BOOLEAN /\ passing \in BOOLEAN
      /\ utteranceNow \in Nat
  BY <1>1, NextOfUtterance DEF SieveIInv, SieveTypes
<1>4. CASE ~doubt
  <2>1. yields(<<fed + 1>>) /\ UNCHANGED keptVars
    BY <1>4, <1>2 DEF _transcript
  <2>2. doubt' = FALSE /\ heldBack' = <<>> /\ passing' = speakingNow'
    BY <2>1, <1>1, <1>2, <1>3, <1>4 DEF keptVars
  <2>3. speakingNow' \in BOOLEAN /\ passing' \in BOOLEAN
    BY <1>1, <1>3, <2>2
  <2> QED  BY <1>1, <1>2, <1>3, <1>4, <2>1, <2>2, <2>3, PassKeeps
<1>5. CASE doubt /\ _hold(fed + 1) /\ doubt' = TRUE /\ UNCHANGED passing
  <2>1. heldBack' = Append(heldBack, fed + 1) /\ yields(<<>>)
    BY <1>5 DEF _hold
  <2>2. UNCHANGED <<speakingNow, passing>>
    BY <1>1, <1>5
  <2> QED  BY <1>1, <1>5, <2>1, <2>2, HoldKeeps
<1>6. CASE doubt /\ _release(fed + 1, FALSE)
  <2>1. speakingNow' = ~FALSE
    BY <1>1, <1>3
  <2> QED  BY <1>1, <1>6, <2>1, ReleaseKeeps
<1> QED  BY <1>4, <1>5, <1>6 DEF _transcript

\* The end of an utterance said over her reply: dropped, or kept as an answer.
LEMMA DropKeeps ==
  ASSUME SieveIInv, speakingNow, doubt, nextEvent(utteranceNow), _drop,
         speakingNow' = FALSE
  PROVE  SieveIInv'
<1> DEFINE all == Append(heldBack, fed + 1)
<1>1. /\ fed > 0 /\ answers = <<>> /\ PartsOf(answers) = {} /\ ~passing
      /\ SieveTypes /\ LaterThanPassed
  BY WhileSpeaking DEF SieveIInv
<1>2. /\ all \in Seq(Nat) /\ Rising(all) /\ PartsOf(all) = Latest' /\ Before(passed, all)
  BY HeldWithNext
<1>3. utteranceNow \in Nat /\ (fed > 0 => uttered[fed] <= utteranceNow)
  BY NextOfUtterance
<1>4. yields(<<>>) /\ heldBack' = <<>> /\ doubt' = FALSE /\ passing' = passing
  BY DEF _drop, _reset
<1>5. pendingAnswer'.events \in {<<>>, all}
  BY DEF _drop, NoPending
<1>6. /\ passed' \in Seq(Nat) /\ Rising(passed') /\ answers' = <<>>
      /\ PartsOf(passed') = PartsOf(passed) \cup PartsOf(answers)
  <2>1. passed \in Seq(Nat) /\ answers \in Seq(Nat)
    BY <1>1 DEF SieveTypes, EventsOf
  <2>2. <<>> \in Seq(Nat) /\ Rising(<<>>) /\ Before(passed, <<>>) /\ Before(answers, <<>>)
    BY <2>1, NothingIn
  <2> QED  BY <1>1, <1>4, <2>2, YieldsInOrder, NothingIn
<1>7. OnePlace'
  BY <1>1, <1>4, <1>6 DEF OnePlace
<1>8. LatestIsThere'
  BY <1>1, <1>2, <1>4, <1>5, <1>6 DEF LatestIsThere
<1>9. \A x \in PartsOf(passed) \cup PartsOf(answers), y \in Latest' : x < y
  BY <1>1, <1>2 DEF Before
<1>10. /\ PartsOf(pendingAnswer'.events) \subseteq Latest' /\ Rising(pendingAnswer'.events)
       /\ pendingAnswer'.events \in Seq(Nat)
  BY <1>2, <1>5, NothingIn
<1>11. PartsOf(heldBack') = {} /\ Rising(heldBack') /\ heldBack' \in Seq(Nat)
  BY <1>4, NothingIn
<1>12. speakingNow' \in BOOLEAN /\ doubt' \in BOOLEAN /\ passing' \in BOOLEAN
  BY <1>4 DEF SieveIInv, SieveTypes
<1> QED  BY <1>3, <1>6, <1>7, <1>8, <1>9, <1>10, <1>11, <1>12, EventKeeps

\* A late transcript, an utterance of its own: it passes, it is held back with
\* what waits, or it is released with that.
LEMMA LateKeeps ==
  ASSUME SieveIInv, NEW text, NEW final, ~speakingNow, _transcript(text, final)
  PROVE  SieveIInv'
<1> DEFINE taken == PartsOf(passed) \cup PartsOf(answers)
           all == Append(heldBack, fed + 1)
           u == utteranceNow + 1
<1>1. /\ nextEvent(u) /\ speakingNow' = FALSE /\ pendingAnswer'.events = <<>>
      /\ pendingAnswer' = NoPending
  BY DEF _transcript, NoPending, SieveIInv, SieveTypes
<1>2. /\ SieveTypes /\ LaterThanPassed /\ Numbered /\ fed \in Nat
      /\ heldBack \in Seq(Nat) /\ answers \in Seq(Nat) /\ passed \in Seq(Nat)
      /\ EventsOf(passed) /\ EventsOf(answers) /\ EventsOf(heldBack)
      /\ doubt \in BOOLEAN /\ passing \in BOOLEAN
  BY DEF SieveIInv, SieveTypes, EventsOf
<1>3. u \in Nat /\ (fed > 0 => uttered[fed] < u /\ uttered[fed] <= u)
  BY <1>2, UtteranceNow, LatestHas
<1>4. CASE ~doubt /\ yields(<<fed + 1>>) /\ UNCHANGED keptVars
  <2>1. doubt' = FALSE /\ heldBack' = <<>> /\ passing' = passing
    BY <1>2, <1>4 DEF keptVars, SieveIInv, OnePlace
  <2>2. /\ speakingNow' \in BOOLEAN /\ passing' \in BOOLEAN /\ (speakingNow' => passing')
    BY <1>1, <1>2, <2>1
  <2> HIDE DEF u
  <2> QED  BY <1>1, <1>3, <1>4, <2>1, <2>2, PassKeeps
<1>5. /\ all \in Seq(Nat) /\ Rising(all) /\ PartsOf(all) = PartsOf(heldBack) \cup {fed + 1}
      /\ Before(passed, all) /\ Before(answers, all)
  <2>1. \A x \in PartsOf(heldBack) \cup taken : x < fed + 1
    BY <1>2 DEF EventsOf
  <2>2. /\ all \in Seq(Nat) /\ Rising(all)
        /\ PartsOf(all) = PartsOf(heldBack) \cup {fed + 1}
    BY <1>2, <2>1, AddedLast DEF LaterThanPassed
  <2>3. answers = <<>> \/ heldBack = <<>>
    BY DEF SieveIInv, OnePlace
  <2>4. Before(answers, heldBack)
    BY <2>3, NothingIn DEF Before
  <2>5. Before(passed, all) /\ Before(answers, all)
    BY <1>2, <2>1, <2>2, <2>4 DEF LaterThanPassed, Before
  <2> QED  BY <2>2, <2>5
<1>6. Latest' = {fed + 1}
  <2> HIDE DEF u
  <2>1. Latest' = {e \in 1 .. fed : uttered[e] = u} \cup {fed + 1}
    BY <1>1, <1>2, <1>3, EventComes
  <2>2. \A e \in 1 .. fed : uttered[e] # u
    <3> SUFFICES ASSUME NEW e \in 1 .. fed PROVE uttered[e] # u
      OBVIOUS
    <3>1. fed > 0 /\ fed \in 1 .. fed
      BY <1>2
    <3>2. uttered[e] <= uttered[fed] /\ uttered[e] \in Nat /\ uttered[fed] \in Nat
      BY <3>1, <1>2 DEF Numbered, SieveTypes
    <3> QED  BY <3>1, <3>2, <1>3
  <2> QED  BY <2>1, <2>2
<1>7. <<>> \in Seq(Nat) /\ Rising(<<>>) /\ PartsOf(<<>>) = {} /\ fed' = fed + 1
  BY <1>1, NothingIn DEF nextEvent
<1>8. CASE _hold(fed + 1) /\ doubt' = TRUE /\ UNCHANGED passing /\ ~passing
  <2>1. heldBack' = all /\ yields(<<>>)
    BY <1>8 DEF _hold
  <2>2. /\ passed' \in Seq(Nat) /\ Rising(passed') /\ answers' = <<>>
        /\ PartsOf(passed') = taken
    <3>1. Before(passed, <<>>) /\ Before(answers, <<>>)
      BY <1>2, NothingIn
    <3> QED  BY <1>2, <1>7, <2>1, <3>1, YieldsInOrder
  <2>3. OnePlace' /\ LatestIsThere'
    BY <1>1, <1>8, <2>2 DEF OnePlace, LatestIsThere
  <2>4. \A x \in taken, y \in Latest' \cup PartsOf(heldBack') : x < y
    BY <1>5, <1>6, <2>1 DEF Before
  <2>5. /\ heldBack' \in Seq(Nat) /\ Rising(heldBack')
        /\ PartsOf(heldBack') = PartsOf(heldBack) \cup Latest'
    BY <1>5, <1>6, <2>1
  <2>6. speakingNow' \in BOOLEAN /\ doubt' \in BOOLEAN /\ passing' \in BOOLEAN
    BY <1>1, <1>2, <1>8
  <2> HIDE DEF u, all, taken
  <2> QED  BY <1>1, <1>3, <1>7, <2>2, <2>3, <2>4, <2>5, <2>6, EventKeeps DEF taken
<1>9. CASE _release(fed + 1, FALSE)
  <2>1. yields(all) /\ heldBack' = <<>> /\ doubt' = FALSE /\ passing' = TRUE
    BY <1>9 DEF _release, _reset
  <2>2. /\ passed' \in Seq(Nat) /\ Rising(passed') /\ answers' = <<>>
        /\ PartsOf(passed') = (taken \cup PartsOf(heldBack)) \cup Latest'
    <3>1. PartsOf(passed') = taken \cup PartsOf(all)
      BY <1>2, <1>5, <2>1, YieldsInOrder
    <3>2. passed' \in Seq(Nat) /\ Rising(passed') /\ answers' = <<>>
      BY <1>2, <1>5, <2>1, YieldsInOrder
    <3> HIDE DEF all
    <3> QED  BY <1>5, <1>6, <3>1, <3>2
  <2>3. OnePlace' /\ LatestIsThere'
    BY <1>1, <1>7, <2>1, <2>2 DEF OnePlace, LatestIsThere
  <2>4. speakingNow' \in BOOLEAN /\ doubt' \in BOOLEAN /\ passing' \in BOOLEAN
    BY <1>1, <2>1
  <2> HIDE DEF u, all, taken
  <2> QED  BY <1>1, <1>3, <1>7, <2>1, <2>2, <2>3, <2>4, EventKeeps DEF taken
<1>10. doubt => ~passing
  BY DEF SieveIInv, OnePlace
<1> QED  BY <1>4, <1>8, <1>9, <1>10 DEF _transcript

LEMMA TranscriptKeeps ==
  ASSUME SieveIInv, NEW text, NEW final, _transcript(text, final)
  PROVE  SieveIInv'
  BY SpokenKeeps, LateKeeps

LEMMA EndKeeps == ASSUME SieveIInv, endOfSpeech PROVE SieveIInv'
<1>1. speakingNow /\ nextEvent(utteranceNow) /\ speakingNow' = FALSE
  BY DEF endOfSpeech
<1>2. /\ fed > 0 /\ utteranceNow = uttered[fed] /\ utteranceNow \in Nat
      /\ (~doubt => heldBack = <<>> /\ Latest \subseteq PartsOf(passed))
  BY <1>1, WhileSpeaking, NextOfUtterance
<1>3. CASE ~doubt /\ passing' = FALSE /\ yields(<<fed + 1>>) /\ pendingAnswer' = NoPending
           /\ UNCHANGED <<heldBack, finals, doubt, overReply>>
  <2>1. /\ doubt' = FALSE /\ heldBack' = <<>> /\ pendingAnswer'.events = <<>>
        /\ passing' = speakingNow' /\ speakingNow' \in BOOLEAN
    BY <1>1, <1>2, <1>3 DEF NoPending, SieveIInv, SieveTypes
  <2>2. passing' \in BOOLEAN
    BY <1>3
  <2> QED  BY <1>1, <1>2, <1>3, <2>1, <2>2, PassKeeps
<1>4. CASE doubt /\ _drop
  BY <1>1, <1>4, DropKeeps
<1>5. CASE doubt /\ _release(fed + 1, TRUE) /\ pendingAnswer' = NoPending
  <2>1. pendingAnswer'.events = <<>> /\ speakingNow' = ~TRUE
    BY <1>1, <1>5 DEF NoPending
  <2> QED  BY <1>1, <1>5, <2>1, ReleaseKeeps
<1> QED  BY <1>3, <1>4, <1>5 DEF endOfSpeech

\* An answer is passed while the recognizer is silent, whole.
LEMMA SievedKeeps == ASSUME SieveIInv, sieved PROVE SieveIInv'
<1>1. /\ answers # <<>> /\ yields(<<>>) /\ pendingAnswer' = pendingAnswer
      /\ fed' = fed /\ uttered' = uttered /\ speakingNow' = speakingNow
      /\ heldBack' = heldBack /\ doubt' = doubt /\ passing' = passing
  BY DEF sieved, streamVars, keptVars
<1>2. /\ SieveTypes /\ LaterThanPassed /\ PartsOf(answers) = Latest
      /\ pendingAnswer.events = <<>> /\ heldBack = <<>> /\ ~doubt /\ ~passing
  BY <1>1 DEF SieveIInv, OnePlace, LatestIsThere
<1>3. /\ passed' \in Seq(Nat) /\ Rising(passed') /\ answers' = <<>>
      /\ PartsOf(passed') = PartsOf(passed) \cup PartsOf(answers)
  <2>1. passed \in Seq(Nat) /\ answers \in Seq(Nat)
    BY <1>2 DEF SieveTypes, EventsOf
  <2>2. <<>> \in Seq(Nat) /\ Rising(<<>>) /\ Before(passed, <<>>) /\ Before(answers, <<>>)
    BY <2>1, NothingIn
  <2> QED  BY <1>1, <1>2, <2>2, YieldsInOrder, NothingIn
<1>4. SieveTypes'
  BY <1>1, <1>2, <1>3, NothingIn DEF SieveTypes, EventsOf
<1>5. Numbered' /\ OnePlace' /\ LatestIsThere' /\ HeldWhole'
  <2>1. Latest' = Latest
    BY <1>1 DEF Latest
  <2> QED  BY <1>1, <1>2, <1>3, <2>1
           DEF SieveIInv, Numbered, OnePlace, LatestIsThere, HeldWhole
<1>6. LaterThanPassed'
  BY <1>1, <1>2, <1>3, NothingIn DEF LaterThanPassed
<1>7. PassedWhole'
  <2> SUFFICES ASSUME NEW e \in 1 .. fed, NEW f \in 1 .. fed, uttered[e] = uttered[f],
                      e \in PartsOf(passed')
               PROVE  f \in PartsOf(passed')
    BY <1>1 DEF PassedWhole, Whole
  <2> QED  BY <1>3, WholeSoFar
<1> QED  BY <1>4, <1>5, <1>6, <1>7 DEF SieveIInv

LEMMA SieveStarts == SieveInit => SieveIInv
<1> SUFFICES ASSUME SieveInit PROVE SieveIInv
  OBVIOUS
<1>1. /\ fed = 0 /\ uttered = <<>> /\ ~speakingNow /\ speakingNow \in BOOLEAN
      /\ heldBack = <<>> /\ answers = <<>> /\ passed = <<>> /\ pendingAnswer.events = <<>>
      /\ ~doubt /\ doubt \in BOOLEAN /\ ~passing /\ passing \in BOOLEAN
  BY DEF SieveInit, NoPending
<1>2. SieveTypes
  BY <1>1, NothingIn DEF SieveTypes, EventsOf
<1>3. Numbered /\ OnePlace /\ LatestIsThere /\ PassedWhole /\ HeldWhole
  BY <1>1 DEF Numbered, OnePlace, LatestIsThere, PassedWhole, HeldWhole, Whole
<1>4. LaterThanPassed
  BY <1>1, NothingIn DEF LaterThanPassed
<1> QED  BY <1>2, <1>3, <1>4 DEF SieveIInv

LEMMA SieveSteps == SieveIInv /\ [SieveNext]_sieveVars => SieveIInv'
<1> SUFFICES ASSUME SieveIInv, [SieveNext]_sieveVars PROVE SieveIInv'
  OBVIOUS
<1>1. CASE begins \/ interrupt \/ tick \/ \E b \in BOOLEAN : _track(b) \/ speechEnds(b)
  BY <1>1, FloorKeeps DEF begins, interrupt, tick, _track, speechEnds
<1>2. CASE over
  BY <1>2, OverKeeps
<1>3. CASE startOfSpeech
  BY <1>3, StartKeeps
<1>4. CASE endOfSpeech
  BY <1>4, EndKeeps
<1>5. CASE sieved
  BY <1>5, SievedKeeps
<1>6. CASE \E text \in Texts, final \in BOOLEAN : _transcript(text, final)
  BY <1>6, TranscriptKeeps
<1>7. CASE UNCHANGED sieveVars
  <2>1. UNCHANGED <<streamVars, keptVars, pendingAnswer, answers, passed>>
    BY <1>7 DEF sieveVars
  <2> QED  BY <2>1, FloorKeeps
<1> QED  BY <1>1, <1>2, <1>3, <1>4, <1>5, <1>6, <1>7 DEF SieveNext

\* Whatever acknowledgements are held back, dropped, released or given late as
\* an answer (Sieve.feed, Reply.over), the events passed to the turn are in the
\* order in which they came, and what stands between a START and its END is not
\* passed in part: for any acknowledgements, texts and times, and a recognizer
\* whose transcripts also come outside of such a pair.
THEOREM PassedInOrderAndWhole == SieveSpec => []SieveInv
<1>1. SieveIInv => SieveInv
  <2> SUFFICES ASSUME SieveIInv PROVE SieveInv
    OBVIOUS
  <2>1. InOrder
    BY DEF SieveIInv, LaterThanPassed, Rising, InOrder
  <2>2. WholeUtterance
    BY DEF SieveIInv, PassedWhole, Whole, PartsOf, WholeUtterance
  <2> QED  BY <2>1, <2>2 DEF SieveInv
<1> QED  BY <1>1, SieveStarts, SieveSteps, PTL DEF SieveSpec

-----------------------------------------------------------------------------
(***************************************************************************)
(* Ears: every stretch in which she speaks ends no later than she last     *)
(* spoke, the open one is the last, and the onset an echo is judged by is  *)
(* the beginning of the utterance it is in.                                *)
(***************************************************************************)
HerTypes ==
  /\ clock \in Nat /\ spokeAt \in Nat \cup {None0} /\ agentSpeaks \in BOOLEAN
  /\ stretches \in Seq([began : Int, ended : Int])
  /\ onset \in Int /\ began \in Int /\ hasVad \in BOOLEAN /\ vad \in BOOLEAN

HerStretches ==
  /\ spokeAt <= clock /\ (agentSpeaks => spokeAt = clock)
  /\ \A i \in 1 .. Len(stretches) :
       /\ spokeAt # None0 /\ stretches[i].ended <= spokeAt
       /\ stretches[i].ended = None0 => agentSpeaks /\ i = Len(stretches)

\* With voice activity the utterance's onset is what it reported.
Onsets == /\ hasVad \/ ~vad
          /\ began # None0 => onset = began /\ vad = hasVad

EarsIInv == HerTypes /\ HerStretches /\ Onsets /\ EchoOnlyOverHerVoice

\* A set of numbers that is not empty has a least, for the numbers are well
\* founded; a bounded one has a greatest, the least counted from the bound.
LEMMA LeastIsThere ==
  ASSUME NEW S \in SUBSET Nat, S # {}
  PROVE  \E n \in S : \A k \in S : n <= k
<1> DEFINE Less == {ss \in Nat \X Nat : ss[1] < ss[2]}
<1>1. IsWellFoundedOn(Less, Nat)
  BY NatLessThanWellFounded DEF OpToRel
<1>2. \A k, n \in Nat : <<k, n>> \in Less <=> k < n
  OBVIOUS
<1> HIDE DEF Less
<1>3. PICK n \in S : \A k \in S : ~(<<k, n>> \in Less)
  BY <1>1, WFMin
<1> SUFFICES ASSUME NEW k \in S PROVE n <= k
  OBVIOUS
<1>4. ~(k < n) /\ k \in Nat /\ n \in Nat
  BY <1>2, <1>3
<1> QED  BY <1>4

LEMMA MinIsIn ==
  ASSUME NEW n \in Nat, NEW S \in SUBSET (0 .. n), S # {}
  PROVE  Min(S) \in S /\ \A y \in S : Min(S) <= y
<1>1. \E m \in S : \A k \in S : m <= k
  BY LeastIsThere
<1> QED  BY <1>1 DEF Min

LEMMA MaxIsIn ==
  ASSUME NEW n \in Nat, NEW S \in SUBSET (0 .. n), S # {}
  PROVE  Max(S) \in S /\ \A y \in S : Max(S) >= y
<1> DEFINE R == {n - s : s \in S}
<1>1. R \in SUBSET Nat /\ R # {}
  <2>1. \A s \in S : n - s \in Nat
    OBVIOUS
  <2> QED  BY <2>1
<1>2. PICK r \in R : \A k \in R : r <= k
  <2> HIDE DEF R
  <2> QED  BY <1>1, LeastIsThere
<1>3. PICK s \in S : r = n - s
  BY <1>2
<1>4. \A y \in S : s >= y
  BY <1>2, <1>3
<1> QED  BY <1>4 DEF Max

LEMMA MembersAre ==
  ASSUME NEW S, NEW s \in Seq(S)
  PROVE  Len(s) \in Nat /\ \A i \in 1 .. Len(s) : s[i] \in S
OBVIOUS

\* Forgetting leaves the later stretches, the last of them last.
LEMMA KeptAreHers ==
  ASSUME HerTypes
  PROVE  /\ keptStretches \in Seq([began : Int, ended : Int])
         /\ \A i \in 1 .. Len(keptStretches) :
              \E j \in 1 .. Len(stretches) :
                /\ keptStretches[i] = stretches[j]
                /\ j = Len(stretches) => i = Len(keptStretches)
<1> DEFINE old(i) == stretches[i].ended # None0 /\ clock - stretches[i].ended > Kept
           S == {0} \cup {i \in 1 .. Len(stretches) : \A j \in 1 .. i : old(j)}
           n == Max(S)
<1>1. stretches \in Seq([began : Int, ended : Int]) /\ Len(stretches) \in Nat
  BY DEF HerTypes
<1>2. S \in SUBSET (0 .. Len(stretches)) /\ S # {}
  BY <1>1
<1>3. n \in 0 .. Len(stretches)
  <2> HIDE DEF S
  <2> QED  BY <1>1, <1>2, MaxIsIn
<1>4. keptStretches = SubSeq(stretches, n + 1, Len(stretches))
  BY DEF keptStretches
<1> HIDE DEF n
<1>5. /\ keptStretches \in Seq([began : Int, ended : Int])
      /\ Len(keptStretches) = Len(stretches) - n
      /\ \A i \in 1 .. Len(stretches) - n : keptStretches[i] = stretches[n + i]
  <2> DEFINE L == Len(stretches)
  <2>1. n \in Int /\ n + 1 \in Int /\ L \in Nat /\ n <= L /\ 0 <= n
    BY <1>1, <1>3
  <2>2. \A i \in 1 .. L : stretches[i] \in [began : Int, ended : Int]
    BY <1>1, MembersAre
  <2>3. \A i \in n + 1 .. L : i \in 1 .. L
    <3> HIDE DEF L
    <3> QED  BY <2>1
  <2>4. /\ keptStretches \in Seq([began : Int, ended : Int])
        /\ Len(keptStretches) = IF n + 1 <= L THEN L - (n + 1) + 1 ELSE 0
        /\ \A i \in 1 .. L - (n + 1) + 1 : keptStretches[i] = stretches[n + 1 + i - 1]
    BY <1>4, <2>1, <2>2, <2>3, SubSeqProperties
  <2> HIDE DEF L
  <2>5. L - (n + 1) + 1 = L - n /\ (~(n + 1 <= L) => L - n = 0)
    BY <2>1
  <2>6. Len(keptStretches) = L - n
    BY <2>4, <2>5
  <2>7. \A i \in 1 .. L - n : n + 1 + i - 1 = n + i
    BY <2>1
  <2>8. \A i \in 1 .. L - n : keptStretches[i] = stretches[n + i]
    BY <2>4, <2>5, <2>7
  <2> QED  BY <2>4, <2>6, <2>8 DEF L
<1>6. ASSUME NEW i \in 1 .. Len(keptStretches)
      PROVE  \E j \in 1 .. Len(stretches) :
               /\ keptStretches[i] = stretches[j]
               /\ j = Len(stretches) => i = Len(keptStretches)
  <2>1. n + i \in 1 .. Len(stretches) /\ keptStretches[i] = stretches[n + i]
    BY <1>1, <1>3, <1>5
  <2>2. n + i = Len(stretches) => i = Len(keptStretches)
    <3>1. i \in Int /\ n \in Int /\ Len(keptStretches) = Len(stretches) - n
      BY <1>1, <1>3, <1>5
    <3> QED  BY <1>1, <3>1
  <2> QED  BY <2>1, <2>2
<1> QED  BY <1>5, <1>6

LEMMA ForgettingKeeps ==
  ASSUME HerTypes, HerStretches
  PROVE  \A i \in 1 .. Len(keptStretches) :
           /\ spokeAt # None0 /\ keptStretches[i].ended <= spokeAt
           /\ keptStretches[i].ended = None0 => agentSpeaks /\ i = Len(keptStretches)
<1> SUFFICES ASSUME NEW i \in 1 .. Len(keptStretches)
             PROVE  /\ spokeAt # None0 /\ keptStretches[i].ended <= spokeAt
                    /\ keptStretches[i].ended = None0 =>
                         agentSpeaks /\ i = Len(keptStretches)
  OBVIOUS
<1>1. PICK j \in 1 .. Len(stretches) :
        /\ keptStretches[i] = stretches[j]
        /\ j = Len(stretches) => i = Len(keptStretches)
  BY KeptAreHers
<1> QED  BY <1>1 DEF HerStretches

\* What is taken for an echo was begun in a stretch, or soon after it.
LEMMA EchoHasAStretch ==
  ASSUME HerTypes, HerStretches, NEW words, NEW again, echoes(words, again)
  PROVE  spokeAt # None0 /\ spokeAt + Grace >= onset
<1> DEFINE kept == keptStretches
           in(i) == /\ kept[i].began <= onset
                    /\ onset <= Grace + IF kept[i].ended = None0 THEN clock ELSE kept[i].ended
           found == {i \in 1 .. Len(kept) : in(i)}
<1>1. stretch_at(keptStretches) # None0
  BY DEF echoes
<1>2. found # {}
  BY <1>1 DEF stretch_at
<1>3. PICK i \in 1 .. Len(kept) : in(i)
  BY <1>2
<1>4. /\ spokeAt # None0 /\ kept[i].ended <= spokeAt
      /\ kept[i].ended = None0 => spokeAt = clock
  BY <1>3, ForgettingKeeps DEF HerStretches
<1>5. kept[i].ended \in Int /\ spokeAt \in Int /\ onset \in Int /\ clock \in Int
  <2>1. keptStretches \in Seq([began : Int, ended : Int])
    BY KeptAreHers
  <2>2. kept[i] \in [began : Int, ended : Int]
    BY <2>1, MembersAre
  <2> QED  BY <2>2 DEF HerTypes, None0
<1>6. Grace \in Int
  BY EarsAssumption
<1>7. onset <= Grace + spokeAt
  <2>1. CASE kept[i].ended = None0
    BY <1>3, <1>4, <1>5, <1>6, <2>1
  <2>2. CASE kept[i].ended # None0
    BY <1>3, <1>4, <1>5, <1>6, <2>2
  <2> QED  BY <2>1, <2>2
<1> QED  BY <1>4, <1>5, <1>6, <1>7

LEMMA HerVoiceKeeps ==
  ASSUME EarsIInv, speakingState \/ quietState PROVE EarsIInv'
<1> DEFINE Stretch == [began : Int, ended : Int]
<1>1. HerTypes /\ HerStretches /\ Onsets /\ Len(stretches) \in Nat /\ stretches \in Seq(Stretch)
  BY DEF EarsIInv, HerTypes
<1>2. Grace \in Nat
  BY EarsAssumption
<1>3. CASE speakingState
  <2> DEFINE new == [began |-> clock, ended |-> None0]
  <2>1. /\ ~agentSpeaks /\ agentSpeaks' = TRUE /\ spokeAt' = clock
        /\ stretches' = Append(stretches, new)
        /\ clock' = clock /\ onset' = onset /\ began' = began /\ hasVad' = hasVad
        /\ vad' = vad /\ decision' = decision
    BY <1>3 DEF speakingState, rigid, earOwn
  <2>2. new \in Stretch
    BY <1>1 DEF HerTypes, None0
  <2>3. HerTypes'
    BY <1>1, <2>1, <2>2 DEF HerTypes
  <2>4. \A i \in 1 .. Len(stretches) :
          stretches[i].ended # None0 /\ stretches[i].ended <= clock
    <3> SUFFICES ASSUME NEW i \in 1 .. Len(stretches)
                 PROVE  stretches[i].ended # None0 /\ stretches[i].ended <= clock
      OBVIOUS
    <3>1. stretches[i].ended <= spokeAt /\ spokeAt <= clock /\ stretches[i].ended # None0
      BY <1>1, <2>1 DEF HerStretches
    <3>2. stretches[i] \in Stretch
      BY <1>1, MembersAre
    <3>3. stretches[i].ended \in Int /\ spokeAt \in Int /\ clock \in Int
      BY <1>1, <3>2 DEF HerTypes, None0
    <3> QED  BY <3>1, <3>3
  <2>5. HerStretches'
    <3>1. spokeAt' <= clock' /\ (agentSpeaks' => spokeAt' = clock') /\ spokeAt' # None0
      BY <1>1, <2>1 DEF HerTypes, None0
    <3>2. ASSUME NEW i \in 1 .. Len(stretches')
          PROVE  /\ stretches'[i].ended <= spokeAt'
                 /\ stretches'[i].ended = None0 => agentSpeaks' /\ i = Len(stretches')
      <4>1. CASE i \in 1 .. Len(stretches)
        <5>1. stretches'[i] = stretches[i]
          BY <1>1, <2>1, <4>1
        <5> QED  BY <2>1, <2>4, <4>1, <5>1
      <4>2. CASE i \notin 1 .. Len(stretches)
        <5>1. i = Len(stretches) + 1 /\ i = Len(stretches') /\ stretches'[i] = new
          BY <1>1, <2>1, <4>2
        <5>2. new.ended <= clock
          BY <1>1 DEF HerTypes, None0
        <5> QED  BY <2>1, <5>1, <5>2
      <4> QED  BY <4>1, <4>2
    <3> QED  BY <3>1, <3>2 DEF HerStretches
  <2>6. EchoOnlyOverHerVoice'
    <3>1. spokeAt <= clock /\ spokeAt \in Int /\ clock \in Nat /\ began \in Int
      BY <1>1 DEF HerTypes, HerStretches, None0
    <3>2. decision = "echo" => clock # None0 /\ clock + Grace >= began
      BY <1>2, <3>1 DEF EarsIInv, EchoOnlyOverHerVoice, None0
    <3> QED  BY <2>1, <3>2 DEF EchoOnlyOverHerVoice
  <2> QED  BY <1>1, <2>1, <2>3, <2>5, <2>6 DEF EarsIInv, Onsets
<1>4. CASE quietState
  <2>1. /\ agentSpeaks /\ agentSpeaks' = FALSE
        /\ stretches' = [stretches EXCEPT ![Len(stretches)].ended = clock]
        /\ clock' = clock /\ onset' = onset /\ began' = began /\ hasVad' = hasVad
        /\ vad' = vad /\ decision' = decision /\ spokeAt' = spokeAt
    BY <1>4 DEF quietState, rigid, earOwn
  <2>2. spokeAt = clock /\ clock \in Nat
    BY <1>1, <2>1 DEF HerStretches, HerTypes
  <2>3. /\ Len(stretches') = Len(stretches)
        /\ \A i \in 1 .. Len(stretches) : i # Len(stretches) => stretches'[i] = stretches[i]
        /\ DOMAIN stretches' = DOMAIN stretches
    BY <1>1, <2>1
  <2>4. Len(stretches) \in 1 .. Len(stretches) =>
          LET last == Len(stretches) IN
          stretches'[last] = [began |-> stretches[last].began, ended |-> clock]
    <3> SUFFICES ASSUME Len(stretches) \in 1 .. Len(stretches)
                 PROVE  stretches'[Len(stretches)] =
                          [began |-> stretches[Len(stretches)].began, ended |-> clock]
      OBVIOUS
    <3>1. stretches[Len(stretches)] \in Stretch
      BY <1>1, MembersAre
    <3>2. Len(stretches) \in DOMAIN stretches
      BY <1>1
    <3>3. stretches'[Len(stretches)] = [stretches[Len(stretches)] EXCEPT !.ended = clock]
      BY <2>1, <3>2
    <3> QED  BY <3>1, <3>3
  <2>5. \A i \in 1 .. Len(stretches) : stretches'[i] \in Stretch
    <3> SUFFICES ASSUME NEW i \in 1 .. Len(stretches) PROVE stretches'[i] \in Stretch
      OBVIOUS
    <3>1. stretches[i] \in Stretch
      BY <1>1, MembersAre
    <3>2. CASE i = Len(stretches)
      BY <2>2, <2>4, <3>1, <3>2
    <3>3. CASE i # Len(stretches)
      BY <2>3, <3>1, <3>3
    <3> QED  BY <3>2, <3>3
  <2>6. stretches' \in Seq(Stretch)
    <3>1. stretches' = [i \in 1 .. Len(stretches) |-> stretches'[i]]
      <4>1. DOMAIN stretches = 1 .. Len(stretches)
        <5> HIDE DEF Stretch
        <5> QED  BY <1>1
      <4> QED  BY <2>1, <4>1
    <3> HIDE DEF Stretch
    <3> QED  BY <1>1, <2>5, <3>1
  <2>7. HerTypes'
    BY <1>1, <2>1, <2>6 DEF HerTypes
  <2>8. HerStretches'
    <3>1. spokeAt' <= clock' /\ (agentSpeaks' => spokeAt' = clock') /\ spokeAt' # None0
      BY <2>1, <2>2 DEF None0
    <3>2. ASSUME NEW i \in 1 .. Len(stretches)
          PROVE  /\ stretches'[i].ended <= spokeAt'
                 /\ stretches'[i].ended = None0 => agentSpeaks' /\ i = Len(stretches')
      <4>1. CASE i = Len(stretches)
        <5>1. stretches'[i].ended = clock
          BY <2>4, <4>1
        <5> QED  BY <5>1, <2>1, <2>2 DEF None0
      <4>2. CASE i # Len(stretches)
        <5>1. stretches'[i] = stretches[i]
          BY <2>3, <4>2
        <5> QED  BY <1>1, <2>1, <4>2, <5>1 DEF HerStretches
      <4> QED  BY <4>1, <4>2
    <3> QED  BY <2>3, <3>1, <3>2 DEF HerStretches
  <2>9. EchoOnlyOverHerVoice'
    BY <2>1 DEF EarsIInv, EchoOnlyOverHerVoice
  <2> QED  BY <1>1, <2>1, <2>7, <2>8, <2>9 DEF EarsIInv, Onsets
<1> QED  BY <1>3, <1>4

LEMMA HerClockKeeps == ASSUME EarsIInv, passes PROVE EarsIInv'
<1>1. /\ clock' = clock + 1 /\ spokeAt' = IF agentSpeaks THEN clock + 1 ELSE spokeAt
      /\ agentSpeaks' = agentSpeaks /\ stretches' = stretches
      /\ onset' = onset /\ began' = began /\ hasVad' = hasVad
      /\ vad' = vad /\ decision' = decision
  BY DEF passes, rigid, earOwn
<1>2. HerTypes /\ HerStretches /\ clock \in Nat /\ spokeAt \in Int /\ spokeAt <= clock
  BY DEF EarsIInv, HerTypes, HerStretches, None0
<1>3. spokeAt <= spokeAt' /\ spokeAt' <= clock' /\ (agentSpeaks => spokeAt' = clock')
  BY <1>1, <1>2
<1>4. HerTypes'
  BY <1>1, <1>2 DEF HerTypes
<1>5. HerStretches'
  <2>1. ASSUME NEW i \in 1 .. Len(stretches)
        PROVE  /\ spokeAt' # None0 /\ stretches[i].ended <= spokeAt'
               /\ stretches[i].ended = None0 => agentSpeaks /\ i = Len(stretches)
    <3>1. /\ spokeAt # None0 /\ stretches[i].ended <= spokeAt
          /\ stretches[i].ended = None0 => agentSpeaks /\ i = Len(stretches)
      BY <1>2 DEF HerStretches
    <3>2. stretches[i] \in [began : Int, ended : Int]
      BY <1>2, MembersAre DEF HerTypes
    <3>3. stretches[i].ended \in Int /\ spokeAt' \in Int /\ spokeAt >= 0
      BY <1>1, <1>2, <3>1, <3>2 DEF HerTypes, None0
    <3> QED  BY <1>2, <1>3, <3>1, <3>3 DEF None0
  <2> QED  BY <1>1, <1>3, <2>1 DEF HerStretches
<1>6. EchoOnlyOverHerVoice'
  <2>1. decision = "echo" => spokeAt # None0 /\ spokeAt + Grace >= began
    BY DEF EarsIInv, EchoOnlyOverHerVoice
  <2>2. Grace \in Nat /\ began \in Int /\ spokeAt \in Nat \cup {None0}
    BY <1>2, EarsAssumption DEF HerTypes
  <2>3. decision = "echo" => spokeAt' # None0 /\ spokeAt' + Grace >= began
    BY <1>1, <1>2, <1>3, <2>1, <2>2 DEF None0
  <2> QED  BY <1>1, <2>3 DEF EchoOnlyOverHerVoice
<1> QED  BY <1>1, <1>4, <1>5, <1>6 DEF EarsIInv, Onsets

\* What the listener's events set; the voice is as it was.
LEMMA ListenerKeeps ==
  ASSUME EarsIInv, _user_state \/ startOfUtterance \/ endOfUtterance PROVE EarsIInv'
<1>1. /\ UNCHANGED <<clock, agentSpeaks, spokeAt, stretches, hasVad>> /\ decision' = "none"
      /\ \/ began' = clock /\ vad' = TRUE /\ onset' = clock /\ hasVad
         \/ began # None0 /\ hasVad /\ UNCHANGED <<began, vad>>
            /\ onset' = (IF vad THEN onset ELSE clock)
         \/ began' = clock /\ ~hasVad /\ UNCHANGED vad
            /\ onset' = (IF vad THEN onset ELSE clock)
         \/ began' = None0 /\ UNCHANGED <<vad, onset>>
  BY DEF _user_state, startOfUtterance, endOfUtterance, voiceOwn, earOwn, rigid
<1>2. HerTypes /\ HerStretches /\ Onsets /\ clock \in Nat
  BY DEF EarsIInv, HerTypes
<1>3. /\ clock \in Int /\ began \in Int /\ onset \in Int /\ None0 \in Int
      /\ vad \in BOOLEAN /\ hasVad \in BOOLEAN
      /\ (hasVad \/ ~vad) /\ (began # None0 => onset = began /\ vad = hasVad)
  BY <1>2 DEF HerTypes, Onsets, None0
<1>4. /\ onset' \in Int /\ began' \in Int /\ vad' \in BOOLEAN
      /\ (hasVad \/ ~vad') /\ (began' # None0 => onset' = began' /\ vad' = hasVad)
  <2>1. CASE began' = clock /\ vad' = TRUE /\ onset' = clock /\ hasVad
    BY <1>3, <2>1
  <2>2. CASE /\ began # None0 /\ hasVad /\ UNCHANGED <<began, vad>>
             /\ onset' = (IF vad THEN onset ELSE clock)
    <3>1. vad /\ onset' = onset
      BY <1>3, <2>2
    <3> QED  BY <1>3, <2>2, <3>1
  <2>3. CASE /\ began' = clock /\ ~hasVad /\ UNCHANGED vad
             /\ onset' = (IF vad THEN onset ELSE clock)
    <3>1. ~vad /\ onset' = clock
      BY <1>3, <2>3
    <3> QED  BY <1>3, <2>3, <3>1
  <2>4. CASE began' = None0 /\ UNCHANGED <<vad, onset>>
    BY <1>3, <2>4
  <2> QED  BY <1>1, <2>1, <2>2, <2>3, <2>4
<1>5. HerTypes' /\ HerStretches' /\ Onsets'
  <2>1. HerTypes'
    BY <1>1, <1>2, <1>4 DEF HerTypes
  <2>2. HerStretches'
    BY <1>1, <1>2 DEF HerStretches
  <2>3. Onsets'
    BY <1>1, <1>4 DEF Onsets
  <2> QED  BY <2>1, <2>2, <2>3
<1>6. EchoOnlyOverHerVoice'
  BY <1>1 DEF EchoOnlyOverHerVoice
<1> QED  BY <1>5, <1>6 DEF EarsIInv

LEMMA HearingKeeps ==
  ASSUME EarsIInv, NEW line \in Hears, transcript(line) PROVE EarsIInv'
<1>1. /\ UNCHANGED <<clock, agentSpeaks, spokeAt, onset, vad, began, hasVad>> /\ began # None0
      /\ \/ stretches' = stretches /\ decision' # "echo"
         \/ stretches' = keptStretches
      /\ decision' = "echo" => \E again \in BOOLEAN : echoes(line.words, again)
  BY DEF transcript, rigid
<1>2. HerTypes /\ HerStretches /\ Onsets
  BY DEF EarsIInv
<1>3. HerTypes'
  BY <1>1, <1>2, KeptAreHers DEF HerTypes
<1>4. HerStretches'
  <2>1. CASE stretches' = stretches
    BY <1>1, <1>2, <2>1 DEF HerStretches
  <2>2. CASE stretches' = keptStretches
    <3>1. spokeAt <= clock /\ (agentSpeaks => spokeAt = clock)
      BY <1>2 DEF HerStretches
    <3> QED  BY <1>1, <1>2, <2>2, <3>1, ForgettingKeeps DEF HerStretches
  <2> QED  BY <1>1, <2>1, <2>2
<1>5. EchoOnlyOverHerVoice'
  <2>1. decision' = "echo" => spokeAt # None0 /\ spokeAt + Grace >= onset
    BY <1>1, <1>2, EchoHasAStretch
  <2>2. onset = began
    BY <1>1, <1>2 DEF Onsets
  <2> QED  BY <1>1, <2>1, <2>2 DEF EchoOnlyOverHerVoice
<1> QED  BY <1>1, <1>2, <1>3, <1>4, <1>5 DEF EarsIInv, Onsets

\* Nothing is taken for the agent's own voice that was begun before she ever
\* spoke, or when she had been quiet for longer than the grace: for anything
\* she says and anything that is heard (own_voice.Ear, OwnVoice).
THEOREM EchoesAreOfHerVoice == EarsSpec => []EchoOnlyOverHerVoice
<1>1. EarsInit => EarsIInv
  <2> SUFFICES ASSUME EarsInit PROVE EarsIInv
    OBVIOUS
  <2>1. /\ clock = 0 /\ agentSpeaks = FALSE /\ spokeAt = None0 /\ stretches = <<>>
        /\ onset = None0 /\ vad = FALSE /\ began = None0 /\ decision = "none"
        /\ hasVad \in BOOLEAN
    BY DEF EarsInit
  <2>2. HerTypes
    <3>1. stretches \in Seq([began : Int, ended : Int])
      BY <2>1
    <3>2. clock \in Nat /\ onset \in Int /\ began \in Int
      BY <2>1 DEF None0
    <3> QED  BY <2>1, <3>1, <3>2 DEF HerTypes
  <2>3. HerStretches
    BY <2>1 DEF HerStretches, None0
  <2> QED  BY <2>1, <2>2, <2>3 DEF EarsIInv, Onsets, EchoOnlyOverHerVoice
<1>2. EarsIInv /\ [EarsNext]_earsVars => EarsIInv'
  <2> SUFFICES ASSUME EarsIInv, [EarsNext]_earsVars PROVE EarsIInv'
    OBVIOUS
  <2>1. CASE speakingState \/ quietState
    BY <2>1, HerVoiceKeeps
  <2>2. CASE passes
    BY <2>2, HerClockKeeps
  <2>3. CASE _user_state \/ startOfUtterance \/ endOfUtterance
    BY <2>3, ListenerKeeps
  <2>4. ASSUME NEW line \in Hears, transcript(line) PROVE EarsIInv'
    BY <2>4, HearingKeeps
  <2>5. ASSUME NEW text \in Says, saying(text) PROVE EarsIInv'
    BY <2>5 DEF saying, rigid, earOwn, EarsIInv, HerTypes, HerStretches, Onsets,
       EchoOnlyOverHerVoice
  <2>6. CASE UNCHANGED earsVars
    BY <2>6 DEF earsVars, voiceOwn, earOwn, EarsIInv, HerTypes, HerStretches, Onsets,
       EchoOnlyOverHerVoice
  <2> QED  BY <2>1, <2>2, <2>3, <2>4, <2>5, <2>6 DEF EarsNext
<1>3. EarsIInv => EchoOnlyOverHerVoice
  BY DEF EarsIInv
<1> QED  BY <1>1, <1>2, <1>3, PTL DEF EarsSpec

-----------------------------------------------------------------------------
(***************************************************************************)
(* Overlaps.  The first frame that is "run" behind the last loud one ends  *)
(* the first stretch of "run" quiet frames, so looking for the frame finds *)
(* the stretch; each outcome is that of its trial, whatever was recorded.  *)
(***************************************************************************)

\* Where she goes quiet for "run" frames that are over by the frame "until".
quietStarts(loud, start, until, run) ==
  {q \in start .. until - run :
     (q = start \/ q \in loud) /\ \A f \in q + 1 .. q + run : f \notin loud}

LEMMA QuietIsFound ==
  ASSUME NEW top \in Nat, NEW loud \in SUBSET (1 .. top), NEW start \in Nat, NEW until \in Nat,
         NEW run \in Nat \ {0}
  PROVE  quiet_run_start(loud, start, until, run) =
           IF quietStarts(loud, start, until, run) = {} THEN NotMeasured
           ELSE Min(quietStarts(loud, start, until, run))
<1> DEFINE Q == quietStarts(loud, start, until, run)
           before(f) == {start} \cup {g \in loud : start < g /\ g < f}
           lastLoud(f) == Max(before(f))
           F == {f \in start + 1 .. until : f \notin loud /\ f - lastLoud(f) >= run}
<1>1. quiet_run_start(loud, start, until, run) = IF F = {} THEN NotMeasured ELSE lastLoud(Min(F))
  BY DEF quiet_run_start
<1>2. \A f : /\ lastLoud(f) = start \/ (lastLoud(f) \in loud /\ start < lastLoud(f) /\ lastLoud(f) < f)
             /\ \A y \in before(f) : lastLoud(f) >= y
  <2> TAKE f
  <2> DEFINE B == before(f)
  <2>1. B \in SUBSET (0 .. top + start) /\ B # {} /\ top + start \in Nat
    <3>1. \A g \in B : g \in loud \/ g = start
      OBVIOUS
    <3>2. \A g \in loud : g \in 0 .. top + start
      OBVIOUS
    <3>3. start \in 0 .. top + start /\ top + start \in Nat /\ start \in B
      OBVIOUS
    <3> HIDE DEF B
    <3> QED  BY <3>1, <3>2, <3>3
  <2>2. Max(B) \in B /\ \A y \in B : Max(B) >= y
    <3> HIDE DEF B
    <3> QED  BY <2>1, MaxIsIn
  <2> DEFINE q == Max(B)
  <2>3. q = start \/ (q \in loud /\ start < q /\ q < f)
    <3>1. q \in before(f)
      BY <2>2
    <3> HIDE DEF q
    <3> QED  BY <3>1
  <2>4. lastLoud(f) = q /\ before(f) = B /\ \A y \in B : q >= y
    BY <2>2
  <2> HIDE DEF q, B, lastLoud, before
  <2> QED  BY <2>3, <2>4
<1> HIDE DEF lastLoud
<1>3. \A f : /\ lastLoud(f) \in Nat /\ lastLoud(f) >= start
             /\ \A g \in loud : start < g /\ g < f => lastLoud(f) >= g
             /\ lastLoud(f) = start \/ (lastLoud(f) \in loud /\ lastLoud(f) < f)
  <2> TAKE f
  <2>1. lastLoud(f) = start \/ (lastLoud(f) \in loud /\ start < lastLoud(f) /\ lastLoud(f) < f)
    BY <1>2
  <2>2. \A g \in loud : start < g /\ g < f => lastLoud(f) >= g
    BY <1>2
  <2>3. lastLoud(f) \in Nat /\ lastLoud(f) >= start
    <3>1. CASE lastLoud(f) = start
      BY <3>1
    <3>2. CASE lastLoud(f) \in loud /\ start < lastLoud(f)
      <4>1. lastLoud(f) \in 1 .. top
        BY <3>2
      <4> QED  BY <3>2, <4>1
    <3> QED  BY <2>1, <3>1, <3>2
  <2> QED  BY <2>1, <2>2, <2>3
<1>4. ASSUME NEW q \in Q
      PROVE  q + run \in F /\ lastLoud(q + run) = q
  <2>1. /\ q \in Nat /\ q >= start /\ q + run <= until
        /\ q = start \/ q \in loud
        /\ \A f \in q + 1 .. q + run : f \notin loud
    BY DEF quietStarts
  <2> DEFINE f == q + run
  <2>2. f \in Nat /\ f \in start + 1 .. until /\ f \in q + 1 .. q + run /\ q < f /\ f - q = run
    BY <2>1
  <2>3. lastLoud(f) = q
    <3> DEFINE l == lastLoud(f)
    <3>1. /\ l \in Nat /\ l >= start
          /\ \A g \in loud : start < g /\ g < f => l >= g
          /\ l = start \/ (l \in loud /\ l < f)
      BY <1>3
    <3> HIDE DEF l, f
    <3>2. l >= q
      BY <2>1, <2>2, <3>1
    <3>3. l <= q
      <4> SUFFICES ASSUME l > q PROVE FALSE
        BY <2>1, <3>1
      <4>1. l \in loud /\ l < f
        BY <2>1, <3>1
      <4>2. l \in q + 1 .. q + run
        BY <2>1, <2>2, <3>1, <4>1 DEF f
      <4> QED  BY <2>1, <4>1, <4>2
    <3> QED  BY <2>1, <3>1, <3>2, <3>3 DEF l
  <2>4. f \in F
    <3> HIDE DEF f
    <3> QED  BY <2>1, <2>2, <2>3
  <2> QED  BY <2>3, <2>4
<1>5. ASSUME NEW f \in F
      PROVE  lastLoud(f) \in Q /\ lastLoud(f) + run <= f
  <2> DEFINE l == lastLoud(f)
  <2>1. f \in start + 1 .. until /\ f \notin loud /\ f - l >= run
    OBVIOUS
  <2>2. /\ l \in Nat /\ l >= start /\ (l = start \/ l \in loud)
        /\ \A g \in loud : start < g /\ g < f => l >= g
    BY <1>3
  <2> HIDE DEF l, F
  <2>3. l + run <= f /\ l \in start .. until - run
    BY <2>1, <2>2
  <2>4. \A g \in l + 1 .. l + run : g \notin loud
    <3> SUFFICES ASSUME NEW g \in l + 1 .. l + run, g \in loud PROVE FALSE
      OBVIOUS
    <3>1. g \in Nat /\ start < g /\ g <= f /\ g > l
      BY <2>1, <2>2, <2>3
    <3>2. g # f
      BY <2>1
    <3>3. g < f
      BY <2>1, <3>1, <3>2
    <3>4. l >= g
      BY <2>2, <3>1, <3>3
    <3> QED  BY <2>2, <3>1, <3>4
  <2> QED  BY <2>2, <2>3, <2>4 DEF quietStarts, l
<1> HIDE DEF F
<1>6. Q \in SUBSET (0 .. until) /\ F \in SUBSET (0 .. until)
  <2>1. \A q \in Q : q \in 0 .. until
    BY DEF quietStarts
  <2>2. \A f \in F : f \in 0 .. until
    BY DEF F
  <2> HIDE DEF Q
  <2> QED  BY <2>1, <2>2
<1> HIDE DEF Q
<1>7. F = {} <=> Q = {}
  BY <1>4, <1>5
<1>8. CASE F # {}
  <2> DEFINE f == Min(F)
             l == lastLoud(f)
             q == Min(Q)
  <2>1. f \in F /\ (\A y \in F : f <= y) /\ f \in Nat
    <3>1. f \in F /\ \A y \in F : f <= y
      BY <1>6, <1>8, MinIsIn
    <3> HIDE DEF f
    <3> QED  BY <1>6, <3>1
  <2>2. q \in Q /\ (\A y \in Q : q <= y) /\ q \in Nat
    <3>1. q \in Q /\ \A y \in Q : q <= y
      BY <1>6, <1>7, <1>8, MinIsIn
    <3> HIDE DEF q
    <3> QED  BY <1>6, <3>1
  <2>3. l \in Q /\ l + run <= f /\ l \in Nat
    BY <1>3, <1>5, <2>1
  <2>4. q + run \in F
    BY <1>4, <2>2
  <2> HIDE DEF f, q, l
  <2>5. q <= l /\ f <= q + run
    BY <2>1, <2>2, <2>3, <2>4
  <2>6. q = l
    BY <2>1, <2>2, <2>3, <2>5
  <2> QED  BY <1>1, <1>7, <1>8, <2>6 DEF f, q, l, Q
<1> QED  BY <1>1, <1>7, <1>8 DEF Q

Recorded ==
  [expectStop : BOOLEAN, loud : SUBSET (1 .. Ticks),
   states : {{}, {<<Onset + 1, "listening">>}} \cup Told]

\* A trial is measured as it was recorded.
StopMeasured(r, o) ==
  LET silent(run, until) == {q \in Onset .. until : quietFrom(r.loud, q, run)}
      halts == silent(STOP_QUIET, WindowEnd)
  IN IF r.expectStop
       THEN /\ o.agent_stopped = (halts # {})
            /\ o.stop_ms = IF halts = {} THEN NotMeasured ELSE Min(halts) - Onset
       ELSE o.agent_stopped = (silent(CONTINUE_GAP, WindowEnd - CONTINUE_GAP) # {})

LEMMA TrialMeasured ==
  ASSUME NEW r \in Recorded
  PROVE  StopMeasured(r, overlap(r))
<1> DEFINE loud == r.loud
           halts == quietStarts(loud, Onset, Until, STOP_QUIET)
           gaps == quietStarts(loud, Onset, WindowEnd, CONTINUE_GAP)
           quiet_from == quiet_run_start(loud, Onset, Until, STOP_QUIET)
           gap_from == quiet_run_start(loud, Onset, WindowEnd, CONTINUE_GAP)
           stopped == IF r.expectStop THEN quiet_from # NotMeasured /\ quiet_from <= WindowEnd
                      ELSE gap_from # NotMeasured
           o == overlap(r)
<1>1. /\ Onset \in Nat /\ Ticks \in Nat /\ STOP_QUIET \in Nat \ {0} /\ CONTINUE_GAP \in Nat \ {0}
      /\ CONTINUE_WINDOW \in Nat /\ NotMeasured \notin Nat
      /\ WindowEnd \in Nat /\ Until \in Nat /\ Until - STOP_QUIET = WindowEnd
  BY OverlapsAssumption DEF WindowEnd, Until
<1>2. loud \in SUBSET (1 .. Ticks) /\ r.expectStop \in BOOLEAN
  BY DEF Recorded
<1>3. /\ o.agent_stopped = stopped
      /\ o.stop_ms = IF stopped /\ quiet_from # NotMeasured THEN quiet_from - Onset ELSE NotMeasured
  BY DEF overlap
<1> HIDE DEF o, loud
<1>4. quiet_from = IF halts = {} THEN NotMeasured ELSE Min(halts)
  <2>1. /\ Ticks \in Nat /\ loud \in SUBSET (1 .. Ticks) /\ Onset \in Nat /\ Until \in Nat
        /\ STOP_QUIET \in Nat \ {0}
    BY <1>1, <1>2
  <2> QED  BY <2>1, QuietIsFound
<1>5. gap_from = IF gaps = {} THEN NotMeasured ELSE Min(gaps)
  <2>1. /\ Ticks \in Nat /\ loud \in SUBSET (1 .. Ticks) /\ Onset \in Nat /\ WindowEnd \in Nat
        /\ CONTINUE_GAP \in Nat \ {0}
    BY <1>1, <1>2
  <2> QED  BY <2>1, QuietIsFound
<1>6. /\ halts = {q \in Onset .. WindowEnd : quietFrom(loud, q, STOP_QUIET)}
      /\ gaps = {q \in Onset .. WindowEnd - CONTINUE_GAP : quietFrom(loud, q, CONTINUE_GAP)}
  <2>1. halts = {q \in Onset .. WindowEnd : quietFrom(loud, q, STOP_QUIET)}
    BY <1>1 DEF quietStarts, quietFrom
  <2>2. gaps = {q \in Onset .. WindowEnd - CONTINUE_GAP : quietFrom(loud, q, CONTINUE_GAP)}
    BY DEF quietStarts, quietFrom
  <2> QED  BY <2>1, <2>2
<1>7. halts # {} => Min(halts) \in Nat /\ Min(halts) <= WindowEnd
  <2>1. halts \in SUBSET (0 .. WindowEnd)
    BY <1>1, <1>6
  <2> HIDE DEF halts
  <2>2. halts # {} => Min(halts) \in halts
    BY <1>1, <2>1, MinIsIn
  <2>3. \A q \in 0 .. WindowEnd : q \in Nat /\ q <= WindowEnd
    BY <1>1
  <2>4. \A q \in halts : q \in Nat /\ q <= WindowEnd
    BY <2>1, <2>3, Zenon
  <2> QED  BY <2>2, <2>4, Zenon
<1>8. gaps # {} => Min(gaps) \in Nat
  <2>1. gaps \in SUBSET (0 .. WindowEnd)
    BY <1>1, <1>6
  <2> HIDE DEF gaps
  <2>2. gaps # {} => Min(gaps) \in gaps
    BY <1>1, <2>1, MinIsIn
  <2>3. \A q \in gaps : q \in Nat
    BY <2>1
  <2> QED  BY <2>2, <2>3, Zenon
<1> HIDE DEF halts, gaps, quiet_from, gap_from
<1>9. r.expectStop => (stopped <=> halts # {})
  BY <1>1, <1>4, <1>7
<1>10. ~r.expectStop => (stopped <=> gaps # {})
  BY <1>1, <1>5, <1>8
<1>11. stopped \in BOOLEAN
  OBVIOUS
<1> HIDE DEF stopped
<1>12. CASE r.expectStop
  <2>1. o.agent_stopped = (halts # {})
    BY <1>3, <1>9, <1>11, <1>12, Zenon
  <2>2. o.stop_ms = IF halts = {} THEN NotMeasured ELSE Min(halts) - Onset
    BY <1>1, <1>3, <1>4, <1>7, <1>9, <1>12
  <2> QED  BY <1>6, <1>12, <2>1, <2>2, Zenon DEF StopMeasured, o, loud
<1>13. CASE ~r.expectStop
  <2>1. o.agent_stopped = (gaps # {})
    BY <1>3, <1>10, <1>11, <1>13, Zenon
  <2> QED  BY <1>6, <1>13, <2>1, Zenon DEF StopMeasured, o, loud
<1> QED  BY <1>12, <1>13

\* What was measured of each trial is what its recording gives.
OverlapsInd ==
  /\ trials \in Seq(Recorded)
  /\ outcomes \in Seq({overlap(r) : r \in Recorded}) /\ Len(outcomes) <= Len(trials)
  /\ \A i \in 1 .. Len(outcomes) : outcomes[i] = overlap(trials[i])

LEMMA OverlapsStarts == OverlapsInit => OverlapsInd
<1> SUFFICES ASSUME OverlapsInit PROVE OverlapsInd
  OBVIOUS
<1>1. trials \in Runs /\ outcomes = << >>
  BY DEF OverlapsInit
<1>2. trials \in Seq(Recorded)
  <2> DEFINE One == [expectStop : BOOLEAN, loud : SUBSET (1 .. Ticks),
                     states : {{}, {<<Onset + 1, "listening">>}}]
             Two == [expectStop : {TRUE}, loud : {{}, 1 .. Ticks}, states : Told]
  <2>1. One \subseteq Recorded /\ Two \subseteq Recorded
    <3>1. One \subseteq Recorded
      BY Zenon DEF Recorded
    <3>2. Two \subseteq Recorded
      <4> SUFFICES ASSUME NEW r \in Two PROVE r \in Recorded
        OBVIOUS
      <4>1. /\ r = [expectStop |-> r.expectStop, loud |-> r.loud, states |-> r.states]
            /\ r.expectStop \in BOOLEAN /\ r.loud \in SUBSET (1 .. Ticks) /\ r.states \in Told
        OBVIOUS
      <4> HIDE DEF Two
      <4> QED  BY <4>1 DEF Recorded
    <3> QED  BY <3>1, <3>2
  <2>2. (\E r \in One : trials = <<r>>) \/ \E r, q \in Two : trials = <<r, q>>
    <3> DEFINE single == {<<r>> : r \in One}
               pairs == {<<r, q>> : r \in Two, q \in Two}
    <3>1. trials \in single \/ trials \in pairs
      <4>1. Runs = single \cup pairs
        BY DEF Runs
      <4> HIDE DEF single, pairs
      <4> QED  BY <1>1, <4>1
    <3> HIDE DEF One, Two
    <3> QED  BY <3>1
  <2> HIDE DEF One, Two
  <2>3. CASE \E r \in One : trials = <<r>>
    <3>1. PICK r \in One : trials = <<r>>
      BY <2>3
    <3>2. r \in Recorded
      BY <2>1
    <3> QED  BY <3>1, <3>2
  <2>4. CASE \E r, q \in Two : trials = <<r, q>>
    <3>1. PICK r \in Two, q \in Two : trials = <<r, q>>
      BY <2>4
    <3>2. r \in Recorded /\ q \in Recorded
      BY <2>1
    <3> QED  BY <3>1, <3>2
  <2> QED  BY <2>2, <2>3, <2>4, Zenon
<1>3. Len(outcomes) = 0 /\ Len(trials) \in Nat
  BY <1>1, <1>2
<1> QED  BY <1>1, <1>2, <1>3 DEF OverlapsInd

LEMMA OverlapsSteps == OverlapsInd /\ [overlapMeasured]_overlapsVars => OverlapsInd'
<1> SUFFICES ASSUME OverlapsInd, [overlapMeasured]_overlapsVars PROVE OverlapsInd'
  OBVIOUS
<1>1. CASE overlapMeasured
  <2> DEFINE n == Len(outcomes)
             o == overlap(trials[n + 1])
             S == {overlap(r) : r \in Recorded}
  <2>1. /\ outcomes \in Seq(S) /\ n \in Nat /\ n + 1 \in 1 .. Len(trials) /\ Len(trials) \in Nat
        /\ trials \in Seq(Recorded) /\ trials' = trials /\ outcomes' = Append(outcomes, o)
    <3>1. outcomes \in Seq(S) /\ trials \in Seq(Recorded) /\ n < Len(trials)
      BY <1>1 DEF OverlapsInd, overlapMeasured
    <3>2. n \in Nat /\ Len(trials) \in Nat
      BY <3>1, LenProperties
    <3>3. trials' = trials /\ outcomes' = Append(outcomes, o)
      BY <1>1 DEF overlapMeasured
    <3> HIDE DEF S, n
    <3> QED  BY <3>1, <3>2, <3>3
  <2>2. trials[n + 1] \in Recorded
    BY <2>1, ElementOfSeq
  <2>3. o \in S
    BY <2>2
  <2>4. \A i \in 1 .. n : outcomes[i] = overlap(trials[i])
    BY DEF OverlapsInd
  <2> HIDE DEF n, o, S
  <2>5. /\ outcomes' \in Seq(S) /\ Len(outcomes') = n + 1
        /\ \A i \in 1 .. n : outcomes'[i] = outcomes[i]
        /\ outcomes'[n + 1] = o
    BY <2>1, <2>3, AppendProperties DEF n
  <2>6. \A i \in 1 .. n + 1 : outcomes'[i] = overlap(trials[i])
    <3> TAKE i \in 1 .. n + 1
    <3>1. CASE i = n + 1
      BY <2>5, <3>1 DEF o
    <3>2. CASE i # n + 1
      <4>1. i \in 1 .. n
        BY <2>1, <3>2
      <4> QED  BY <2>4, <2>5, <4>1
    <3> QED  BY <3>1, <3>2
  <2>7. n + 1 <= Len(trials)
    BY <2>1
  <2> QED  BY <2>1, <2>5, <2>6, <2>7 DEF OverlapsInd, S
<1>2. CASE UNCHANGED overlapsVars
  BY <1>2 DEF OverlapsInd, overlapsVars
<1> QED  BY <1>1, <1>2

\* Of every recording an interruption is said to have stopped her exactly when
\* she went quiet in time and stayed so, after as long as it took, and one that
\* should not stop her exactly when she paused for long enough (probe.py,
\* Meter.quiet_run_start; turns.py, overlap).
THEOREM StopsMeasuredRight == OverlapsSpec => []StopsAreMeasured
<1>1. OverlapsInd => StopsAreMeasured
  <2> SUFFICES ASSUME OverlapsInd, NEW i \in DOMAIN outcomes
               PROVE  StopMeasured(trials[i], outcomes[i])
    BY Zenon DEF StopsAreMeasured, StopMeasured
  <2>1. DOMAIN outcomes = 1 .. Len(outcomes) /\ Len(outcomes) \in Nat /\ Len(trials) \in Nat
        /\ Len(outcomes) <= Len(trials) /\ trials \in Seq(Recorded)
    BY LenProperties DEF OverlapsInd
  <2>2. i \in 1 .. Len(trials) /\ outcomes[i] = overlap(trials[i])
    BY <2>1 DEF OverlapsInd
  <2>3. trials[i] \in Recorded
    BY <2>1, <2>2, ElementOfSeq
  <2> QED  BY <2>2, <2>3, TrialMeasured
<1> QED  BY <1>1, OverlapsStarts, OverlapsSteps, PTL DEF OverlapsSpec

-----------------------------------------------------------------------------
(***************************************************************************)
(* Wer.  What each beginning of the two texts costs is what the cheapest   *)
(* alignment of the two does, and an alignment of them makes one of shorter*)
(* beginnings when what stands last in it is taken out.                    *)
(***************************************************************************)

\* What has zero and with a number the next one has all of them.
LEMMA ByCounting ==
  ASSUME NEW S, 0 \in S, \A n \in Nat : n \in S => n + 1 \in S
  PROVE  \A n \in Nat : n \in S
<1> DEFINE others == {n \in Nat : n \notin S}
<1> SUFFICES ASSUME others # {} PROVE FALSE
  OBVIOUS
<1>1. PICK n \in others : \A k \in others : n <= k
  <2>1. others \in SUBSET Nat
    OBVIOUS
  <2> HIDE DEF others
  <2> QED  BY <2>1, LeastIsThere
<1>2. n \in Nat /\ n \notin S
  BY <1>1
<1>3. n - 1 \in Nat /\ n - 1 \notin others
  BY <1>1, <1>2
<1> QED  BY <1>2, <1>3

Counts == Nat \X Nat \X Nat

noDearer(c, d) ==
  \/ errors(c) < errors(d)
  \/ /\ errors(c) = errors(d)
     /\ \/ c[1] < d[1]
        \/ c[1] = d[1] /\ c[2] <= d[2]

\* One of three counts is no dearer than the others.
LEMMA CheapestIs ==
  ASSUME NEW x \in Counts, NEW y \in Counts, NEW z \in Counts
  PROVE  /\ cheapest({x, y, z}) \in {x, y, z}
         /\ \A d \in {x, y, z} : errors(cheapest({x, y, z})) <= errors(d)
<1>1. \A c, d \in Counts :
        /\ noDearer(c, c) /\ (noDearer(c, d) \/ noDearer(d, c))
        /\ noDearer(c, d) => errors(c) <= errors(d)
  <2> SUFFICES ASSUME NEW c \in Counts, NEW d \in Counts
               PROVE  /\ noDearer(c, c) /\ (noDearer(c, d) \/ noDearer(d, c))
                      /\ noDearer(c, d) => errors(c) <= errors(d)
    OBVIOUS
  <2>1. /\ c[1] \in Nat /\ c[2] \in Nat /\ c[3] \in Nat
        /\ d[1] \in Nat /\ d[2] \in Nat /\ d[3] \in Nat
    BY DEF Counts
  <2> QED  BY <2>1 DEF noDearer, errors
<1>2. \A c, d, e \in Counts : noDearer(c, d) /\ noDearer(d, e) => noDearer(c, e)
  <2> SUFFICES ASSUME NEW c \in Counts, NEW d \in Counts, NEW e \in Counts,
                      noDearer(c, d), noDearer(d, e)
               PROVE  noDearer(c, e)
    OBVIOUS
  <2>1. /\ c[1] \in Nat /\ c[2] \in Nat /\ c[3] \in Nat
        /\ d[1] \in Nat /\ d[2] \in Nat /\ d[3] \in Nat
        /\ e[1] \in Nat /\ e[2] \in Nat /\ e[3] \in Nat
    BY DEF Counts
  <2> QED  BY <2>1 DEF noDearer, errors
<1> DEFINE S == {x, y, z}
<1>3. \E c \in S : \A d \in S : noDearer(c, d)
  BY <1>1, <1>2
<1>4. cheapest(S) = CHOOSE c \in S : \A d \in S : noDearer(c, d)
  BY Zenon DEF cheapest, noDearer
<1>5. cheapest(S) \in S /\ \A d \in S : noDearer(cheapest(S), d)
  <2> HIDE DEF S
  <2> QED  BY <1>3, <1>4, Zenon
<1> QED  BY <1>1, <1>5

\* The beginnings of two texts that costs are kept of.
Beginnings(a, b) == (0 .. Len(a)) \X (0 .. Len(b))

\* The costs are worked out one after the other, so there is one of every pair of
\* beginnings.
LEMMA CostsAreThere ==
  ASSUME NEW a, NEW b, Len(a) \in Nat, Len(b) \in Nat
  PROVE  \E c : c = [at \in Beginnings(a, b) |-> costOf(a, b, c, at[1], at[2])]
<1> DEFINE D == Beginnings(a, b)
           upTo(c, n) == [at \in D |-> IF at[1] + at[2] <= n THEN costOf(a, b, c, at[1], at[2]) ELSE 0]
           S == {n \in Nat : \E c : c = upTo(c, n)}
<1>1. \A at \in D : at[1] \in Nat /\ at[2] \in Nat /\ at = <<at[1], at[2]>>
                    /\ at[1] <= Len(a) /\ at[2] <= Len(b)
  BY DEF Beginnings
<1>2. 0 \in S
  <2> DEFINE c == [at \in D |-> IF at[1] + at[2] <= 0 THEN <<0, 0, 0>> ELSE 0]
  <2>1. \A at \in D : at[1] + at[2] <= 0 => costOf(a, b, c, at[1], at[2]) = <<0, 0, 0>>
    BY <1>1 DEF costOf
  <2>2. c = upTo(c, 0)
    <3> DEFINE v(at) == costOf(a, b, c, at[1], at[2])
    <3>1. \A at \in D : at[1] + at[2] <= 0 => v(at) = <<0, 0, 0>>
      BY <2>1
    <3> HIDE DEF v
    <3>2. c = [at \in D |-> IF at[1] + at[2] <= 0 THEN v(at) ELSE 0]
      BY <3>1
    <3> QED  BY <3>2 DEF v
  <2> HIDE DEF c, upTo
  <2> QED  BY <2>2
<1>3. ASSUME NEW n \in Nat, n \in S PROVE n + 1 \in S
  <2>1. PICK c : c = upTo(c, n)
    BY <1>3
  <2> DEFINE e == upTo(c, n + 1)
  <2>2. \A at \in D : at[1] + at[2] <= n => e[at] = c[at]
    <3> DEFINE v(at) == costOf(a, b, c, at[1], at[2])
    <3>1. c = [at \in D |-> IF at[1] + at[2] <= n THEN v(at) ELSE 0]
      BY <2>1
    <3>2. e = [at \in D |-> IF at[1] + at[2] <= n + 1 THEN v(at) ELSE 0]
      OBVIOUS
    <3> HIDE DEF v, e
    <3> QED  BY <1>1, <3>1, <3>2
  <2> HIDE DEF e
  <2>3. ASSUME NEW at \in D, at[1] + at[2] <= n + 1
        PROVE  costOf(a, b, c, at[1], at[2]) = costOf(a, b, e, at[1], at[2])
    <3> DEFINE i == at[1]
               j == at[2]
    <3>1. i \in Nat /\ j \in Nat /\ i <= Len(a) /\ j <= Len(b) /\ i + j <= n + 1
      BY <1>1, <2>3
    <3> HIDE DEF i, j
    <3>2. CASE i = 0 \/ j = 0
      BY <3>2 DEF costOf, i, j
    <3>3. CASE i # 0 /\ j # 0
      <4>1. \A k, l \in Nat : k <= i /\ l <= j /\ k + l < i + j => e[<<k, l>>] = c[<<k, l>>]
        <5> TAKE k \in Nat, l \in Nat
        <5> HAVE k <= i /\ l <= j /\ k + l < i + j
        <5>1. <<k, l>> \in D /\ k + l <= n
          BY <3>1 DEF Beginnings
        <5> QED  BY <2>2, <5>1
      <4>2. /\ e[<<i - 1, j - 1>>] = c[<<i - 1, j - 1>>]
            /\ e[<<i - 1, j>>] = c[<<i - 1, j>>]
            /\ e[<<i, j - 1>>] = c[<<i, j - 1>>]
        BY <3>1, <3>3, <4>1
      <4>3. costOf(a, b, c, i, j) = costOf(a, b, e, i, j)
        BY <4>2, Zenon DEF costOf
      <4> QED  BY <4>3 DEF i, j
    <3> QED  BY <3>2, <3>3
  <2>4. e = upTo(e, n + 1)
    <3> DEFINE v(at) == costOf(a, b, c, at[1], at[2])
               w(at) == costOf(a, b, e, at[1], at[2])
    <3>1. e = [at \in D |-> IF at[1] + at[2] <= n + 1 THEN v(at) ELSE 0]
      BY DEF e
    <3>2. \A at \in D : at[1] + at[2] <= n + 1 => v(at) = w(at)
      BY <2>3
    <3> HIDE DEF v, w
    <3>3. e = [at \in D |-> IF at[1] + at[2] <= n + 1 THEN w(at) ELSE 0]
      BY <3>1, <3>2
    <3> QED  BY <3>3 DEF w
  <2>5. n + 1 \in Nat
    OBVIOUS
  <2> HIDE DEF upTo
  <2> QED  BY <2>4, <2>5
<1>4. Len(a) + Len(b) \in S
  <2> HIDE DEF S
  <2>1. \A n \in Nat : n \in S
    BY <1>2, <1>3, ByCounting
  <2> QED  BY <2>1
<1>5. PICK c : c = upTo(c, Len(a) + Len(b))
  BY <1>4
<1>6. c = [at \in D |-> costOf(a, b, c, at[1], at[2])]
  <2> DEFINE v(at) == costOf(a, b, c, at[1], at[2])
  <2>1. c = [at \in D |-> IF at[1] + at[2] <= Len(a) + Len(b) THEN v(at) ELSE 0]
    BY <1>5
  <2>2. \A at \in D : at[1] + at[2] <= Len(a) + Len(b)
    BY <1>1
  <2> HIDE DEF v
  <2>3. c = [at \in D |-> v(at)]
    BY <2>1, <2>2
  <2> QED  BY <2>3 DEF v
<1> QED  BY <1>6

\* The alignments of the first i words of the one with the first j of the other,
\* the pairs of unequal words in one, and its errors.
Paired(i, j) ==
  {p \in SUBSET ((1 .. i) \X (1 .. j)) : \A u, v \in p : u[1] < v[1] <=> u[2] < v[2]}
Wrong(a, b, p) == {u \in p : a[u[1]] # b[u[2]]}
Errors(a, b, p, i, j) == Cardinality(Wrong(a, b, p)) + (i - Cardinality(p)) + (j - Cardinality(p))

LEMMA PairsAreFew ==
  ASSUME NEW a, NEW b, NEW i \in Nat, NEW j \in Nat, NEW p \in Paired(i, j)
  PROVE  /\ IsFiniteSet(p) /\ Cardinality(p) \in Nat
         /\ IsFiniteSet(Wrong(a, b, p)) /\ Cardinality(Wrong(a, b, p)) \in Nat
         /\ Errors(a, b, p, i, j) \in Int
<1>1. IsFiniteSet(1 .. i) /\ IsFiniteSet(1 .. j)
  BY FS_Interval
<1>2. IsFiniteSet((1 .. i) \X (1 .. j))
  BY <1>1, FS_Product
<1>3. p \in SUBSET ((1 .. i) \X (1 .. j)) /\ Wrong(a, b, p) \in SUBSET p
  BY DEF Paired, Wrong
<1>4. IsFiniteSet(p) /\ IsFiniteSet(Wrong(a, b, p))
  BY <1>2, <1>3, FS_Subset
<1>5. Cardinality(p) \in Nat /\ Cardinality(Wrong(a, b, p)) \in Nat
  BY <1>4, FS_CardinalityType
<1> QED  BY <1>4, <1>5 DEF Errors

\* A pair of an alignment that is taken out takes its error with it.
LEMMA TakenOut ==
  ASSUME NEW a, NEW b, NEW i \in Nat, NEW j \in Nat, NEW p \in Paired(i, j), NEW w \in p
  PROVE  /\ Cardinality(p \ {w}) = Cardinality(p) - 1
         /\ a[w[1]] = b[w[2]] => Cardinality(Wrong(a, b, p \ {w})) = Cardinality(Wrong(a, b, p))
         /\ a[w[1]] # b[w[2]] => Cardinality(Wrong(a, b, p \ {w})) = Cardinality(Wrong(a, b, p)) - 1
<1>1. /\ IsFiniteSet(p) /\ Cardinality(p) \in Nat
      /\ IsFiniteSet(Wrong(a, b, p)) /\ Cardinality(Wrong(a, b, p)) \in Nat
  BY PairsAreFew
<1>2. Cardinality(p \ {w}) = Cardinality(p) - 1
  BY <1>1, FS_RemoveElement
<1>3. Wrong(a, b, p \ {w}) = Wrong(a, b, p) \ {w}
  BY DEF Wrong
<1>4. w \in Wrong(a, b, p) <=> a[w[1]] # b[w[2]]
  BY DEF Wrong
<1>5. Cardinality(Wrong(a, b, p) \ {w}) =
        IF w \in Wrong(a, b, p) THEN Cardinality(Wrong(a, b, p)) - 1 ELSE Cardinality(Wrong(a, b, p))
  BY <1>1, FS_RemoveElement
<1> QED  BY <1>1, <1>2, <1>3, <1>4, <1>5

\* The last words of two beginnings are paired, at the price of their error.
LEMMA LastPaired ==
  ASSUME NEW a, NEW b, NEW i \in Nat \ {0}, NEW j \in Nat \ {0}, NEW p \in Paired(i - 1, j - 1)
  PROVE  /\ p \cup {<<i, j>>} \in Paired(i, j)
         /\ a[i] = b[j] => Errors(a, b, p \cup {<<i, j>>}, i, j) = Errors(a, b, p, i - 1, j - 1)
         /\ a[i] # b[j] => Errors(a, b, p \cup {<<i, j>>}, i, j) = Errors(a, b, p, i - 1, j - 1) + 1
<1> DEFINE w == <<i, j>>
           q == p \cup {w}
<1>1. \A u \in p : u \in (1 .. i - 1) \X (1 .. j - 1)
  BY DEF Paired
<1>2. \A u \in p : u[1] \in Nat /\ u[2] \in Nat /\ u[1] < i /\ u[2] < j /\ u \in (1 .. i) \X (1 .. j)
  BY <1>1
<1>3. w[1] = i /\ w[2] = j /\ w \in (1 .. i) \X (1 .. j)
  OBVIOUS
<1>4. \A u, v \in p : u[1] < v[1] <=> u[2] < v[2]
  BY DEF Paired
<1> HIDE DEF w
<1>5. q \in Paired(i, j)
  <2>1. q \in SUBSET ((1 .. i) \X (1 .. j))
    BY <1>2, <1>3
  <2>2. \A u, v \in q : u[1] < v[1] <=> u[2] < v[2]
    BY <1>2, <1>3, <1>4
  <2> HIDE DEF q
  <2> QED  BY <2>1, <2>2 DEF Paired
<1>6. w \notin p /\ q \ {w} = p
  BY <1>2, <1>3
<1>7. /\ Cardinality(p) = Cardinality(q) - 1
      /\ a[i] = b[j] => Cardinality(Wrong(a, b, p)) = Cardinality(Wrong(a, b, q))
      /\ a[i] # b[j] => Cardinality(Wrong(a, b, p)) = Cardinality(Wrong(a, b, q)) - 1
  <2>1. w \in q
    OBVIOUS
  <2> HIDE DEF q
  <2> QED  BY <1>3, <1>5, <1>6, <2>1, TakenOut
<1>8. Cardinality(q) \in Nat /\ Cardinality(Wrong(a, b, q)) \in Nat
  <2> HIDE DEF q
  <2> QED  BY <1>5, PairsAreFew
<1>9. i \in Nat /\ j \in Nat
  OBVIOUS
<1> HIDE DEF q
<1>10. /\ a[i] = b[j] => Errors(a, b, q, i, j) = Errors(a, b, p, i - 1, j - 1)
       /\ a[i] # b[j] => Errors(a, b, q, i, j) = Errors(a, b, p, i - 1, j - 1) + 1
  <2>1. CASE a[i] = b[j]
    BY <1>7, <1>8, <1>9, <2>1 DEF Errors
  <2>2. CASE a[i] # b[j]
    BY <1>7, <1>8, <1>9, <2>2 DEF Errors
  <2> QED  BY <2>1, <2>2
<1> QED  BY <1>5, <1>10 DEF q, w

\* One more word of a text that is left alone is one more error.
LEMMA LeftAlone ==
  ASSUME NEW a, NEW b, NEW i \in Nat, NEW j \in Nat, NEW p \in Paired(i, j)
  PROVE  /\ p \in Paired(i + 1, j) /\ Errors(a, b, p, i + 1, j) = Errors(a, b, p, i, j) + 1
         /\ p \in Paired(i, j + 1) /\ Errors(a, b, p, i, j + 1) = Errors(a, b, p, i, j) + 1
<1>1. \A u \in (1 .. i) \X (1 .. j) : u \in (1 .. i + 1) \X (1 .. j) /\ u \in (1 .. i) \X (1 .. j + 1)
  OBVIOUS
<1>2. p \in Paired(i + 1, j) /\ p \in Paired(i, j + 1)
  BY <1>1 DEF Paired
<1>3. Cardinality(p) \in Nat /\ Cardinality(Wrong(a, b, p)) \in Nat
  BY PairsAreFew
<1> QED  BY <1>2, <1>3 DEF Errors

\* Of an alignment either pairs the last words, or one of them is left alone.
LEMMA LastOf ==
  ASSUME NEW a, NEW b, NEW i \in Nat \ {0}, NEW j \in Nat \ {0}, NEW p \in Paired(i, j)
  PROVE  \/ /\ <<i, j>> \in p /\ p \ {<<i, j>>} \in Paired(i - 1, j - 1)
            /\ a[i] = b[j] => Errors(a, b, p, i, j) = Errors(a, b, p \ {<<i, j>>}, i - 1, j - 1)
            /\ a[i] # b[j] => Errors(a, b, p, i, j) = Errors(a, b, p \ {<<i, j>>}, i - 1, j - 1) + 1
         \/ p \in Paired(i - 1, j) /\ Errors(a, b, p, i, j) = Errors(a, b, p, i - 1, j) + 1
         \/ p \in Paired(i, j - 1) /\ Errors(a, b, p, i, j) = Errors(a, b, p, i, j - 1) + 1
<1> DEFINE w == <<i, j>>
           q == p \ {w}
<1>1. \A u \in p : u \in (1 .. i) \X (1 .. j) /\ u = <<u[1], u[2]>> /\ u[1] \in 1 .. i /\ u[2] \in 1 .. j
  BY DEF Paired
<1>2. \A u, v \in p : u[1] < v[1] <=> u[2] < v[2]
  BY DEF Paired
<1>3. CASE w \in p
  <2>1. \A u \in p : u # w => u[1] < i /\ u[2] < j
    <3> TAKE u \in p
    <3> HAVE u # w
    <3>1. w[1] = i /\ w[2] = j
      OBVIOUS
    <3>2. u[1] \in 1 .. i /\ u[2] \in 1 .. j /\ u = <<u[1], u[2]>>
      BY <1>1
    <3>3. u[1] < i \/ u[2] < j
      BY <3>1, <3>2
    <3>4. u[1] < w[1] <=> u[2] < w[2]
      BY <1>2, <1>3
    <3> QED  BY <3>1, <3>3, <3>4
  <2>2. \A u \in q : u \in (1 .. i - 1) \X (1 .. j - 1)
    <3> TAKE u \in q
    <3>1. u \in p /\ u[1] < i /\ u[2] < j
      BY <2>1
    <3>2. u[1] \in 1 .. i - 1 /\ u[2] \in 1 .. j - 1 /\ u = <<u[1], u[2]>>
      BY <1>1, <3>1
    <3> QED  BY <3>2
  <2>3. q \in Paired(i - 1, j - 1)
    BY <1>2, <2>2 DEF Paired
  <2>4. p = q \cup {w}
    BY <1>3
  <2> HIDE DEF q
  <2>5. /\ a[i] = b[j] => Errors(a, b, p, i, j) = Errors(a, b, q, i - 1, j - 1)
        /\ a[i] # b[j] => Errors(a, b, p, i, j) = Errors(a, b, q, i - 1, j - 1) + 1
    <3> DEFINE e == q \cup {<<i, j>>}
    <3>1. /\ a[i] = b[j] => Errors(a, b, e, i, j) = Errors(a, b, q, i - 1, j - 1)
          /\ a[i] # b[j] => Errors(a, b, e, i, j) = Errors(a, b, q, i - 1, j - 1) + 1
      BY <2>3, LastPaired
    <3>2. p = e
      BY <2>4
    <3> HIDE DEF e
    <3> QED  BY <3>1, <3>2
  <2> QED  BY <1>3, <2>3, <2>5 DEF q
<1>4. CASE \A u \in p : u[1] # i
  <2>1. \A u \in p : u \in (1 .. i - 1) \X (1 .. j)
    <3> TAKE u \in p
    <3>1. u[1] \in 1 .. i - 1 /\ u[2] \in 1 .. j /\ u = <<u[1], u[2]>>
      BY <1>1, <1>4
    <3> QED  BY <3>1
  <2>2. p \in Paired(i - 1, j)
    BY <1>2, <2>1 DEF Paired
  <2>3. i - 1 \in Nat /\ (i - 1) + 1 = i
    OBVIOUS
  <2> QED  BY <2>2, <2>3, LeftAlone
<1>5. CASE w \notin p /\ \E u \in p : u[1] = i
  <2>1. PICK v \in p : v[1] = i
    BY <1>5
  <2>2. v[2] \in 1 .. j /\ v[2] # j
    BY <1>1, <1>5, <2>1
  <2>3. \A u \in p : u \in (1 .. i) \X (1 .. j - 1)
    <3> TAKE u \in p
    <3>1. u[1] \in 1 .. i /\ u[2] \in 1 .. j /\ u = <<u[1], u[2]>>
      BY <1>1
    <3>2. u[1] < v[1] <=> u[2] < v[2]
      BY <1>2
    <3>3. v[1] < u[1] <=> v[2] < u[2]
      BY <1>2
    <3>4. u[2] # j
      BY <2>1, <2>2, <3>1, <3>2, <3>3
    <3>5. u[2] \in 1 .. j - 1
      BY <3>1, <3>4
    <3> QED  BY <3>1, <3>5
  <2>4. p \in Paired(i, j - 1)
    BY <1>2, <2>3 DEF Paired
  <2>5. j - 1 \in Nat /\ (j - 1) + 1 = j
    OBVIOUS
  <2> QED  BY <2>4, <2>5, LeftAlone
<1> QED  BY <1>3, <1>4, <1>5

\* Where the last words are equal no alignment does better than one of what is
\* before them: the pair one of them is in, if any, is taken out.
LEMMA EqualLast ==
  ASSUME NEW a, NEW b, NEW i \in Nat \ {0}, NEW j \in Nat \ {0}, NEW p \in Paired(i, j), a[i] = b[j]
  PROVE  \E q \in Paired(i - 1, j - 1) : Errors(a, b, q, i - 1, j - 1) <= Errors(a, b, p, i, j)
<1>1. \A u \in p : u \in (1 .. i) \X (1 .. j) /\ u = <<u[1], u[2]>> /\ u[1] \in 1 .. i /\ u[2] \in 1 .. j
  BY DEF Paired
<1>2. \A u, v \in p : u[1] < v[1] <=> u[2] < v[2]
  BY DEF Paired
<1>3. Cardinality(p) \in Nat /\ Cardinality(Wrong(a, b, p)) \in Nat
  BY PairsAreFew
<1>4. CASE \A u \in p : u[1] # i /\ u[2] # j
  <2>1. \A u \in p : u \in (1 .. i - 1) \X (1 .. j - 1)
    <3> TAKE u \in p
    <3>1. u[1] \in 1 .. i - 1 /\ u[2] \in 1 .. j - 1 /\ u = <<u[1], u[2]>>
      BY <1>1, <1>4
    <3> QED  BY <3>1
  <2>2. p \in Paired(i - 1, j - 1)
    BY <1>2, <2>1 DEF Paired
  <2>3. Errors(a, b, p, i - 1, j - 1) <= Errors(a, b, p, i, j)
    BY <1>3 DEF Errors
  <2> QED  BY <2>2, <2>3
<1>5. CASE \E u \in p : u[1] = i \/ u[2] = j
  <2>1. PICK w \in p : w[1] = i \/ w[2] = j
    BY <1>5
  <2> DEFINE q == p \ {w}
  <2>2. \A u \in q : u \in (1 .. i - 1) \X (1 .. j - 1)
    <3> TAKE u \in q
    <3>1. u[1] \in 1 .. i /\ u[2] \in 1 .. j /\ u = <<u[1], u[2]>> /\ u # w
      BY <1>1
    <3>2. w[1] \in 1 .. i /\ w[2] \in 1 .. j /\ w = <<w[1], w[2]>>
      BY <1>1
    <3>3. (u[1] < w[1] <=> u[2] < w[2]) /\ (w[1] < u[1] <=> w[2] < u[2])
      BY <1>2
    <3>4. u[1] # w[1] \/ u[2] # w[2]
      BY <3>1, <3>2
    <3>5. u[1] # i /\ u[2] # j
      BY <2>1, <3>1, <3>2, <3>3, <3>4
    <3>6. u[1] \in 1 .. i - 1 /\ u[2] \in 1 .. j - 1
      BY <3>1, <3>5
    <3> QED  BY <3>1, <3>6
  <2>3. q \in Paired(i - 1, j - 1)
    BY <1>2, <2>2 DEF Paired
  <2>4. /\ Cardinality(q) = Cardinality(p) - 1
        /\ \/ Cardinality(Wrong(a, b, q)) = Cardinality(Wrong(a, b, p))
           \/ Cardinality(Wrong(a, b, q)) = Cardinality(Wrong(a, b, p)) - 1
    BY TakenOut
  <2> HIDE DEF q
  <2>5. Cardinality(Wrong(a, b, q)) <= Cardinality(Wrong(a, b, p))
    BY <1>3, <2>4
  <2>6. Cardinality(Wrong(a, b, q)) \in Nat
    <3>1. i - 1 \in Nat /\ j - 1 \in Nat
      OBVIOUS
    <3> QED  BY <2>3, <3>1, PairsAreFew
  <2>7. Errors(a, b, q, i - 1, j - 1) <= Errors(a, b, p, i, j)
    <3>1. Cardinality(q) = Cardinality(p) - 1
      BY <2>4
    <3> QED  BY <1>3, <2>5, <2>6, <3>1 DEF Errors
  <2> QED  BY <2>3, <2>7
<1> QED  BY <1>4, <1>5

\* The costs c of the first i and the first j words are those of their cheapest
\* alignment, and what is left out and put in makes them as long.
Fewest(a, b, c, i, j) ==
  /\ c \in Counts /\ i + c[3] = j + c[2]
  /\ \A p \in Paired(i, j) : errors(c) <= Errors(a, b, p, i, j)
  /\ \E p \in Paired(i, j) : errors(c) = Errors(a, b, p, i, j)

\* Of nothing and some words the words are left out or put in.
LEMMA NothingPaired ==
  ASSUME NEW a, NEW b, NEW i \in Nat, NEW j \in Nat, i = 0 \/ j = 0,
         NEW c \in Counts, c[1] = 0, c[2] = i, c[3] = j
  PROVE  Fewest(a, b, c, i, j)
<1>1. Paired(i, j) = {{}}
  <2>1. (1 .. i) \X (1 .. j) = {}
    OBVIOUS
  <2> QED  BY <2>1 DEF Paired
<1>2. Errors(a, b, {}, i, j) = i + j
  <2>1. Wrong(a, b, {}) = {}
    BY DEF Wrong
  <2>2. Cardinality({}) = 0
    BY FS_EmptySet, Zenon
  <2> QED  BY <2>1, <2>2 DEF Errors
<1>3. errors(c) = i + j
  BY DEF errors
<1> QED  BY <1>1, <1>2, <1>3 DEF Fewest

LEMMA FewestAtEqual ==
  ASSUME NEW a, NEW b, NEW i \in Nat \ {0}, NEW j \in Nat \ {0}, a[i] = b[j],
         NEW c, Fewest(a, b, c, i - 1, j - 1)
  PROVE  Fewest(a, b, c, i, j)
<1>1. c \in Counts /\ (i - 1) + c[3] = (j - 1) + c[2]
  BY DEF Fewest
<1>2. c[2] \in Nat /\ c[3] \in Nat /\ errors(c) \in Int
  BY <1>1 DEF Counts, errors
<1>3. \A p \in Paired(i, j) : errors(c) <= Errors(a, b, p, i, j)
  <2> TAKE p \in Paired(i, j)
  <2>1. PICK q \in Paired(i - 1, j - 1) : Errors(a, b, q, i - 1, j - 1) <= Errors(a, b, p, i, j)
    BY EqualLast
  <2>2. i - 1 \in Nat /\ j - 1 \in Nat
    OBVIOUS
  <2>3. Errors(a, b, q, i - 1, j - 1) \in Int /\ Errors(a, b, p, i, j) \in Int
    BY <2>2, PairsAreFew
  <2>4. errors(c) <= Errors(a, b, q, i - 1, j - 1)
    BY DEF Fewest
  <2> QED  BY <1>2, <2>1, <2>3, <2>4
<1>4. \E p \in Paired(i, j) : errors(c) = Errors(a, b, p, i, j)
  <2>1. PICK q \in Paired(i - 1, j - 1) : errors(c) = Errors(a, b, q, i - 1, j - 1)
    BY DEF Fewest
  <2> DEFINE p == q \cup {<<i, j>>}
  <2>2. p \in Paired(i, j) /\ Errors(a, b, p, i, j) = Errors(a, b, q, i - 1, j - 1)
    BY LastPaired
  <2> HIDE DEF p
  <2> QED  BY <2>1, <2>2
<1> QED  BY <1>1, <1>2, <1>3, <1>4 DEF Fewest

LEMMA FewestAtUnequal ==
  ASSUME NEW a, NEW b, NEW i \in Nat \ {0}, NEW j \in Nat \ {0}, a[i] # b[j],
         NEW s, Fewest(a, b, s, i - 1, j - 1),
         NEW d, Fewest(a, b, d, i - 1, j),
         NEW n, Fewest(a, b, n, i, j - 1)
  PROVE  Fewest(a, b, cheapest({<<s[1] + 1, s[2], s[3]>>, <<d[1], d[2] + 1, d[3]>>,
                                <<n[1], n[2], n[3] + 1>>}), i, j)
<1> DEFINE x == <<s[1] + 1, s[2], s[3]>>
           y == <<d[1], d[2] + 1, d[3]>>
           z == <<n[1], n[2], n[3] + 1>>
           c == cheapest({x, y, z})
<1>1. /\ s[1] \in Nat /\ s[2] \in Nat /\ s[3] \in Nat /\ (i - 1) + s[3] = (j - 1) + s[2]
      /\ d[1] \in Nat /\ d[2] \in Nat /\ d[3] \in Nat /\ (i - 1) + d[3] = j + d[2]
      /\ n[1] \in Nat /\ n[2] \in Nat /\ n[3] \in Nat /\ i + n[3] = (j - 1) + n[2]
  BY DEF Fewest, Counts
<1>2. x \in Counts /\ y \in Counts /\ z \in Counts
  BY <1>1 DEF Counts
<1>3. /\ x[1] = s[1] + 1 /\ x[2] = s[2] /\ x[3] = s[3]
      /\ y[1] = d[1] /\ y[2] = d[2] + 1 /\ y[3] = d[3]
      /\ z[1] = n[1] /\ z[2] = n[2] /\ z[3] = n[3] + 1
  OBVIOUS
<1> HIDE DEF x, y, z
<1>4. /\ errors(x) = errors(s) + 1 /\ errors(y) = errors(d) + 1 /\ errors(z) = errors(n) + 1
      /\ errors(s) \in Int /\ errors(d) \in Int /\ errors(n) \in Int
      /\ i + x[3] = j + x[2] /\ i + y[3] = j + y[2] /\ i + z[3] = j + z[2]
  BY <1>1, <1>3 DEF errors
<1>5. c \in {x, y, z} /\ errors(c) <= errors(x) /\ errors(c) <= errors(y) /\ errors(c) <= errors(z)
  BY <1>2, CheapestIs
<1> HIDE DEF c
<1>6. c \in Counts /\ i + c[3] = j + c[2] /\ errors(c) \in Int
  BY <1>2, <1>4, <1>5
<1>7. i - 1 \in Nat /\ j - 1 \in Nat /\ (i - 1) + 1 = i /\ (j - 1) + 1 = j /\ i \in Nat /\ j \in Nat
  OBVIOUS
<1>8. \A p \in Paired(i, j) : errors(c) <= Errors(a, b, p, i, j)
  <2> TAKE p \in Paired(i, j)
  <2>1. Errors(a, b, p, i, j) \in Int
    BY <1>7, PairsAreFew
  <2>2. CASE /\ p \ {<<i, j>>} \in Paired(i - 1, j - 1)
             /\ Errors(a, b, p, i, j) = Errors(a, b, p \ {<<i, j>>}, i - 1, j - 1) + 1
    <3> DEFINE q == p \ {<<i, j>>}
    <3>1. q \in Paired(i - 1, j - 1) /\ Errors(a, b, p, i, j) = Errors(a, b, q, i - 1, j - 1) + 1
      BY <2>2
    <3> HIDE DEF q
    <3>2. errors(s) <= Errors(a, b, q, i - 1, j - 1) /\ Errors(a, b, q, i - 1, j - 1) \in Int
      BY <1>7, <3>1, PairsAreFew DEF Fewest
    <3> QED  BY <1>4, <1>5, <1>6, <3>1, <3>2
  <2>3. CASE p \in Paired(i - 1, j) /\ Errors(a, b, p, i, j) = Errors(a, b, p, i - 1, j) + 1
    <3>1. errors(d) <= Errors(a, b, p, i - 1, j) /\ Errors(a, b, p, i - 1, j) \in Int
      BY <1>7, <2>3, PairsAreFew DEF Fewest
    <3> QED  BY <1>4, <1>5, <1>6, <2>3, <3>1
  <2>4. CASE p \in Paired(i, j - 1) /\ Errors(a, b, p, i, j) = Errors(a, b, p, i, j - 1) + 1
    <3>1. errors(n) <= Errors(a, b, p, i, j - 1) /\ Errors(a, b, p, i, j - 1) \in Int
      BY <1>7, <2>4, PairsAreFew DEF Fewest
    <3> QED  BY <1>4, <1>5, <1>6, <2>4, <3>1
  <2>5. \/ /\ p \ {<<i, j>>} \in Paired(i - 1, j - 1)
           /\ Errors(a, b, p, i, j) = Errors(a, b, p \ {<<i, j>>}, i - 1, j - 1) + 1
        \/ p \in Paired(i - 1, j) /\ Errors(a, b, p, i, j) = Errors(a, b, p, i - 1, j) + 1
        \/ p \in Paired(i, j - 1) /\ Errors(a, b, p, i, j) = Errors(a, b, p, i, j - 1) + 1
    <3>1. \/ /\ <<i, j>> \in p /\ p \ {<<i, j>>} \in Paired(i - 1, j - 1)
             /\ a[i] = b[j] => Errors(a, b, p, i, j) = Errors(a, b, p \ {<<i, j>>}, i - 1, j - 1)
             /\ a[i] # b[j] => Errors(a, b, p, i, j) = Errors(a, b, p \ {<<i, j>>}, i - 1, j - 1) + 1
          \/ p \in Paired(i - 1, j) /\ Errors(a, b, p, i, j) = Errors(a, b, p, i - 1, j) + 1
          \/ p \in Paired(i, j - 1) /\ Errors(a, b, p, i, j) = Errors(a, b, p, i, j - 1) + 1
      BY LastOf
    <3> QED  BY <3>1, Zenon
  <2> QED  BY <2>2, <2>3, <2>4, <2>5, Zenon
<1>9. \E p \in Paired(i, j) : errors(c) = Errors(a, b, p, i, j)
  <2>1. CASE c = x
    <3>1. PICK q \in Paired(i - 1, j - 1) : errors(s) = Errors(a, b, q, i - 1, j - 1)
      BY DEF Fewest
    <3> DEFINE p == q \cup {<<i, j>>}
    <3>2. p \in Paired(i, j) /\ Errors(a, b, p, i, j) = Errors(a, b, q, i - 1, j - 1) + 1
      BY LastPaired
    <3> HIDE DEF p
    <3> QED  BY <1>4, <2>1, <3>1, <3>2
  <2>2. CASE c = y
    <3>1. PICK p \in Paired(i - 1, j) : errors(d) = Errors(a, b, p, i - 1, j)
      BY DEF Fewest
    <3>2. p \in Paired(i, j) /\ Errors(a, b, p, i, j) = Errors(a, b, p, i - 1, j) + 1
      BY <1>7, LeftAlone
    <3> QED  BY <1>4, <2>2, <3>1, <3>2
  <2>3. CASE c = z
    <3>1. PICK p \in Paired(i, j - 1) : errors(n) = Errors(a, b, p, i, j - 1)
      BY DEF Fewest
    <3>2. p \in Paired(i, j) /\ Errors(a, b, p, i, j) = Errors(a, b, p, i, j - 1) + 1
      BY <1>7, LeftAlone
    <3> QED  BY <1>4, <2>3, <3>1, <3>2
  <2> QED  BY <1>5, <2>1, <2>2, <2>3
<1>10. Fewest(a, b, c, i, j)
  BY <1>6, <1>8, <1>9 DEF Fewest
<1> QED  BY <1>10 DEF c, x, y, z

\* So is every cost that is worked out.
LEMMA CostsAreFewest ==
  ASSUME NEW a, NEW b, Len(a) \in Nat, Len(b) \in Nat,
         NEW c, c = [at \in Beginnings(a, b) |-> costOf(a, b, c, at[1], at[2])]
  PROVE  Fewest(a, b, c[<<Len(a), Len(b)>>], Len(a), Len(b))
<1> DEFINE upTo(n) == \A i \in 0 .. Len(a), j \in 0 .. Len(b) :
                        i + j <= n => Fewest(a, b, c[<<i, j>>], i, j)
           S == {n \in Nat : upTo(n)}
           value(i, j) == costOf(a, b, c, i, j)
<1>1. \A i \in 0 .. Len(a), j \in 0 .. Len(b) : c[<<i, j>>] = value(i, j)
  <2> SUFFICES ASSUME NEW i \in 0 .. Len(a), NEW j \in 0 .. Len(b) PROVE c[<<i, j>>] = value(i, j)
    OBVIOUS
  <2>1. c = [at \in Beginnings(a, b) |-> value(at[1], at[2])]
    OBVIOUS
  <2> HIDE DEF value
  <2>2. <<i, j>> \in Beginnings(a, b)
    BY DEF Beginnings
  <2>3. c[<<i, j>>] = value(<<i, j>>[1], <<i, j>>[2])
    BY <2>1, <2>2
  <2> QED  BY <2>3
<1>2. ASSUME NEW i \in 0 .. Len(a), NEW j \in 0 .. Len(b), i = 0 \/ j = 0
      PROVE  Fewest(a, b, c[<<i, j>>], i, j)
  <2>1. c[<<i, j>>] = <<0, i, j>>
    BY <1>1, <1>2 DEF costOf
  <2>2. <<0, i, j>> \in Counts /\ i \in Nat /\ j \in Nat
    BY DEF Counts
  <2>3. <<0, i, j>>[1] = 0 /\ <<0, i, j>>[2] = i /\ <<0, i, j>>[3] = j
    OBVIOUS
  <2> QED  BY <1>2, <2>1, <2>2, <2>3, NothingPaired
<1>3. 0 \in S
  <2>1. upTo(0)
    BY <1>2
  <2> HIDE DEF upTo
  <2> QED  BY <2>1
<1>4. ASSUME NEW n \in Nat, n \in S PROVE n + 1 \in S
  <2>1. \A i \in 0 .. Len(a), j \in 0 .. Len(b) : i + j <= n => Fewest(a, b, c[<<i, j>>], i, j)
    BY <1>4
  <2>2. ASSUME NEW i \in 0 .. Len(a), NEW j \in 0 .. Len(b), i + j <= n + 1, i # 0, j # 0
        PROVE  Fewest(a, b, c[<<i, j>>], i, j)
    <3>1. /\ i - 1 \in 0 .. Len(a) /\ j - 1 \in 0 .. Len(b) /\ i \in Nat \ {0} /\ j \in Nat \ {0}
          /\ (i - 1) + (j - 1) <= n /\ (i - 1) + j <= n /\ i + (j - 1) <= n
      BY <2>2
    <3> DEFINE s == c[<<i - 1, j - 1>>]
               d == c[<<i - 1, j>>]
               e == c[<<i, j - 1>>]
    <3>2. /\ Fewest(a, b, s, i - 1, j - 1)
          /\ Fewest(a, b, d, i - 1, j)
          /\ Fewest(a, b, e, i, j - 1)
      BY <2>1, <3>1
    <3>3. c[<<i, j>>] = value(i, j)
      BY <1>1
    <3>4. value(i, j) = IF a[i] = b[j] THEN s
                        ELSE cheapest({<<s[1] + 1, s[2], s[3]>>, <<d[1], d[2] + 1, d[3]>>,
                                       <<e[1], e[2], e[3] + 1>>})
      BY <2>2, Zenon DEF costOf
    <3> HIDE DEF s, d, e, value
    <3>5. CASE a[i] = b[j]
      <4>1. c[<<i, j>>] = s
        BY <3>3, <3>4, <3>5
      <4> QED  BY <3>1, <3>2, <3>5, <4>1, FewestAtEqual
    <3>6. CASE a[i] # b[j]
      <4> DEFINE t == cheapest({<<s[1] + 1, s[2], s[3]>>, <<d[1], d[2] + 1, d[3]>>,
                                <<e[1], e[2], e[3] + 1>>})
      <4>1. c[<<i, j>>] = t
        BY <3>3, <3>4, <3>6, Zenon
      <4>2. Fewest(a, b, t, i, j)
        BY <3>1, <3>2, <3>6, FewestAtUnequal
      <4> HIDE DEF t
      <4> QED  BY <4>1, <4>2
    <3> QED  BY <3>5, <3>6
  <2>3. upTo(n + 1)
    BY <1>2, <2>2
  <2> HIDE DEF upTo
  <2> QED  BY <2>3
<1>5. Len(a) + Len(b) \in S
  <2> HIDE DEF S
  <2>1. \A n \in Nat : n \in S
    BY <1>3, <1>4, ByCounting
  <2> QED  BY <2>1
<1>6. upTo(Len(a) + Len(b))
  <2> HIDE DEF upTo
  <2> QED  BY <1>5
<1>7. Len(a) \in 0 .. Len(a) /\ Len(b) \in 0 .. Len(b) /\ Len(a) + Len(b) <= Len(a) + Len(b)
  OBVIOUS
<1> QED  BY <1>6, <1>7, Zenon

\* What was measured is what the two texts cost.
LEMMA ScoreIsFewest ==
  ASSUME NEW a, NEW b, Len(a) \in Nat, Len(b) \in Nat
  PROVE  Fewest(a, b, scoreOf(a, b), Len(a), Len(b))
<1> DEFINE P(c) == c = [at \in Beginnings(a, b) |-> costOf(a, b, c, at[1], at[2])]
           least == CHOOSE c : P(c)
<1>1. \E c : P(c)
  BY CostsAreThere
<1>2. scoreOf(a, b) = least[<<Len(a), Len(b)>>]
  BY Zenon DEF scoreOf, Beginnings
<1>3. P(least)
  <2> HIDE DEF P
  <2> QED  BY <1>1, Zenon
<1>4. Fewest(a, b, least[<<Len(a), Len(b)>>], Len(a), Len(b))
  <2>1. least = [at \in Beginnings(a, b) |-> costOf(a, b, least, at[1], at[2])]
    BY <1>3
  <2> HIDE DEF least
  <2> QED  BY <2>1, CostsAreFewest
<1> QED  BY <1>2, <1>4

WerInd ==
  /\ Len(texts.reference) \in Nat /\ Len(texts.hypothesis) \in Nat
  /\ DOMAIN texts.reference = 1 .. Len(texts.reference)
  /\ DOMAIN texts.hypothesis = 1 .. Len(texts.hypothesis)
  /\ measured \in {<<>>, scoreOf(texts.reference, texts.hypothesis)}

LEMMA WerInduction == WerSpec => []WerInd
<1>1. WerInit => WerInd
  <2> SUFFICES ASSUME WerInit PROVE WerInd
    OBVIOUS
  <2>1. /\ texts.reference \in SeqOf(Words, MaxScored) /\ texts.hypothesis \in SeqOf(Words, MaxScored)
        /\ measured = <<>>
    BY DEF WerInit
  <2>2. \A s \in SeqOf(Words, MaxScored) : s \in Seq(Words)
    <3> TAKE s \in SeqOf(Words, MaxScored)
    <3>1. PICK m \in 0 .. MaxScored : s \in [1 .. m -> Words]
      BY DEF SeqOf
    <3> QED  BY <3>1, WerAssumption, SeqDef
  <2> QED  BY <2>1, <2>2, LenProperties DEF WerInd
<1>2. WerInd /\ [measures]_werVars => WerInd'
  BY DEF WerInd, measures, werVars
<1> QED  BY <1>1, <1>2, PTL DEF WerSpec

\* The word error rate counts the substitutions, deletions and insertions of a
\* cheapest alignment: no other has fewer errors, and one has as many (wer.score).
LEMMA MeasuredIsFewest == WerInd => ErrorsAreFewest
<1> SUFFICES ASSUME WerInd, measured # <<>>
             PROVE  /\ Len(texts.reference) + measured[3] = Len(texts.hypothesis) + measured[2]
                    /\ errors(measured) = Min({errorsOf(texts.reference, texts.hypothesis, p) :
                                                 p \in alignments(texts.reference, texts.hypothesis)})
  BY DEF ErrorsAreFewest
<1> DEFINE a == texts.reference
           b == texts.hypothesis
           m == Len(a)
           n == Len(b)
           S == {errorsOf(a, b, p) : p \in alignments(a, b)}
<1>1. /\ m \in Nat /\ n \in Nat /\ DOMAIN a = 1 .. m /\ DOMAIN b = 1 .. n
      /\ measured = scoreOf(a, b)
  BY DEF WerInd
<1> HIDE DEF a, b
<1>2. Fewest(a, b, measured, m, n)
  BY <1>1, ScoreIsFewest
<1>3. alignments(a, b) = Paired(m, n)
  BY <1>1 DEF alignments, Paired
<1>4. \A p : errorsOf(a, b, p) = Errors(a, b, p, m, n)
  BY DEF errorsOf, Errors, Wrong
<1>5. errors(measured) \in S /\ \A k \in S : k \in Int /\ errors(measured) <= k
  <2>1. PICK p \in Paired(m, n) : errors(measured) = Errors(a, b, p, m, n)
    BY <1>2 DEF Fewest
  <2>2. errors(measured) \in S
    BY <1>3, <1>4, <2>1
  <2>3. \A k \in S : k \in Int /\ errors(measured) <= k
    <3> TAKE k \in S
    <3>1. PICK q \in Paired(m, n) : k = Errors(a, b, q, m, n)
      BY <1>3, <1>4
    <3>2. errors(measured) <= Errors(a, b, q, m, n)
      BY <1>2 DEF Fewest
    <3>3. Errors(a, b, q, m, n) \in Int
      BY <1>1, PairsAreFew
    <3> QED  BY <3>1, <3>2, <3>3
  <2> QED  BY <2>2, <2>3
<1> HIDE DEF S
<1>6. Min(S) \in S /\ \A k \in S : Min(S) <= k
  <2>1. Min(S) = CHOOSE x \in S : \A y \in S : x <= y
    BY Zenon DEF Min
  <2> QED  BY <1>5, <2>1, Zenon
<1>7. errors(measured) = Min(S)
  BY <1>5, <1>6
<1>8. m + measured[3] = n + measured[2]
  BY <1>2 DEF Fewest
<1> QED  BY <1>7, <1>8 DEF S, a, b, m, n

\* Whether she spoke when the caller began is read off the last loud frame.
LEMMA SpokeAtOnset ==
  ASSUME NEW r \in Recorded, NEW t \in r.loud, t <= Onset, Onset - t < SPEAKING_AT_ONSET
  PROVE  LET before == last_loud_before(r.loud, Onset)
         IN before # NotMeasured /\ Onset - before < SPEAKING_AT_ONSET
<1> DEFINE at == {f \in r.loud : f <= Onset}
<1>1. /\ Onset \in Nat /\ Ticks \in Nat /\ SPEAKING_AT_ONSET \in Nat /\ NotMeasured \notin Nat
      /\ r.loud \in SUBSET (1 .. Ticks)
  BY OverlapsAssumption DEF Recorded
<1>2. at \in SUBSET (0 .. Onset) /\ t \in at /\ t \in Nat
  BY <1>1
<1>3. last_loud_before(r.loud, Onset) = Max(at)
  BY <1>2 DEF last_loud_before
<1> HIDE DEF at
<1>4. Max(at) \in at /\ Max(at) >= t
  BY <1>1, <1>2, MaxIsIn
<1>5. Max(at) \in 0 .. Onset
  BY <1>2, <1>4
<1>6. Max(at) # NotMeasured /\ Onset - Max(at) < SPEAKING_AT_ONSET
  BY <1>1, <1>2, <1>4, <1>5
<1> QED  BY <1>3, <1>6

\* Of a trial that counts against her or that she stopped in she told a state.
LEMMA ToldIfStopped ==
  ASSUME NEW r \in Recorded, NEW t \in r.loud, t <= Onset, Onset - t < SPEAKING_AT_ONSET,
         overlap(r).inconclusive \/ overlap(r).state_stop_ms # NotMeasured
  PROVE  \E s \in r.states : s[2] # "speaking" /\ Onset < s[1] /\ s[1] <= Until
<1> DEFINE before == last_loud_before(r.loud, Onset)
           spoke == before # NotMeasured /\ Onset - before < SPEAKING_AT_ONSET
           told == {s[2] : s \in {s \in r.states : Onset < s[1] /\ s[1] <= Until}}
<1>1. spoke
  BY SpokeAtOnset
<1>2. CASE overlap(r).inconclusive
  <2>1. overlap(r).inconclusive => ~spoke \/ "listening" \in told
    <3> HIDE DEF spoke, told
    <3> QED  BY DEF overlap, spoke, told, before
  <2>2. "listening" \in told
    BY <1>1, <1>2, <2>1
  <2> QED  BY <2>2
<1>3. CASE overlap(r).state_stop_ms # NotMeasured
  <2>1. overlap(r).state_stop_ms = state_stop(r.states)
    BY DEF overlap
  <2>2. {s[1] : s \in {s \in r.states : Onset < s[1] /\ s[1] <= Until /\ s[2] # "speaking"}} # {}
    BY <1>3, <2>1 DEF state_stop
  <2> QED  BY <2>2
<1> QED  BY <1>2, <1>3

\* If no interruption is left that she did not stop in, each is one of the two.
LEMMA NoneUnstopped ==
  ASSUME NEW s, Len(s) \in Nat, DOMAIN s = 1 .. Len(s), goes(s), NEW i \in DOMAIN s
  PROVE  s[i].inconclusive \/ s[i].state_stop_ms # NotMeasured
<1> DEFINE D == 1 .. Len(s)
           open == {k \in D : s[k].inconclusive}
           stopping == {k \in D \ open : s[k].state_stop_ms # NotMeasured}
<1>1. Len(s) - Cardinality(open) - Cardinality(stopping) = 0
  BY Zenon DEF goes
<1>2. IsFiniteSet(D) /\ Cardinality(D) = Len(s)
  <2> DEFINE n == Len(s)
  <2>1. n \in Nat
    OBVIOUS
  <2> HIDE DEF n
  <2>2. IsFiniteSet(1 .. n) /\ Cardinality(1 .. n) = n
    <3>1. 1 \in Int /\ n \in Int
      BY <2>1
    <3>2. IsFiniteSet(1 .. n) /\ Cardinality(1 .. n) = IF 1 > n THEN 0 ELSE n - 1 + 1
      BY <3>1, FS_Interval, Zenon
    <3> QED  BY <2>1, <3>2
  <2> QED  BY <2>2 DEF n
<1>3. open \in SUBSET D /\ stopping \in SUBSET D /\ open \cap stopping = {}
  OBVIOUS
<1>4. i \in D
  OBVIOUS
<1> HIDE DEF D, open, stopping
<1>5. IsFiniteSet(open) /\ IsFiniteSet(stopping)
  BY <1>2, <1>3, FS_Subset
<1>6. Cardinality(open) \in Nat /\ Cardinality(stopping) \in Nat
  BY <1>5, FS_CardinalityType
<1>7. Cardinality(open \cup stopping) = Cardinality(open) + Cardinality(stopping)
  <2>1. Cardinality(open \cap stopping) = 0
    BY <1>3, FS_EmptySet
  <2>2. Cardinality(open \cup stopping) =
          Cardinality(open) + Cardinality(stopping) - Cardinality(open \cap stopping)
    BY <1>5, FS_Union
  <2> QED  BY <1>6, <2>1, <2>2
<1>8. Cardinality(D) = Cardinality(open \cup stopping)
  BY <1>1, <1>2, <1>6, <1>7
<1>9. D = open \cup stopping
  <2>1. open \cup stopping \in SUBSET D
    BY <1>3
  <2> QED  BY <1>2, <1>8, <2>1, FS_Subset
<1> QED  BY <1>4, <1>9 DEF open, stopping

LEMMA GoesIfStopped == OverlapsInd => GoesOnlyStopped
<1> SUFFICES ASSUME OverlapsInd, goes(outcomes), NEW i \in DOMAIN outcomes,
                    NEW t \in trials[i].loud, t <= Onset, Onset - t < SPEAKING_AT_ONSET
             PROVE  \E s \in trials[i].states : s[2] # "speaking" /\ Onset < s[1] /\ s[1] <= Until
  BY DEF GoesOnlyStopped
<1>1. DOMAIN outcomes = 1 .. Len(outcomes) /\ Len(outcomes) \in Nat /\ Len(trials) \in Nat
      /\ Len(outcomes) <= Len(trials) /\ trials \in Seq(Recorded)
  BY LenProperties DEF OverlapsInd
<1>2. i \in 1 .. Len(trials) /\ outcomes[i] = overlap(trials[i])
  BY <1>1 DEF OverlapsInd
<1>3. trials[i] \in Recorded
  BY <1>1, <1>2, ElementOfSeq
<1>4. outcomes[i].inconclusive \/ outcomes[i].state_stop_ms # NotMeasured
  BY <1>1, NoneUnstopped
<1> QED  BY <1>2, <1>3, <1>4, ToldIfStopped

\* What the evaluations report is true of any texts and any recording: the word
\* error rate is the least there is (wer.score), and a run that goes stopped her in
\* every interruption she spoke at (turns.overlap, measure.verdict).
THEOREM EvaluationsAreTrue == WerSpec /\ OverlapsSpec => []EvalsInv
<1>1. OverlapsSpec => []OverlapsInd
  BY OverlapsStarts, OverlapsSteps, PTL DEF OverlapsSpec
<1>2. WerInd /\ OverlapsInd /\ StopsAreMeasured => EvalsInv
  BY MeasuredIsFewest, GoesIfStopped DEF EvalsInv, OverlapsInv
<1> QED  BY <1>1, <1>2, WerInduction, StopsMeasuredRight, PTL
=============================================================================
