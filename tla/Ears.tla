-------------------------------- MODULE Ears --------------------------------
(***************************************************************************)
(* What a listener's transcripts pass through before they count: Plausible *)
(* drops what nobody could have spoken, own_voice.Ear drops the agent's    *)
(* own words coming back.  One ear, one agent; the clock is a counter of   *)
(* ticks.  Which word the recognizer takes for which is the relation Alike *)
(* (Wording has the comparison itself).                                    *)
(***************************************************************************)
EXTENDS Integers, Sequences, FiniteSets, FiniteSetsExt

CONSTANTS Says,          \* what the agent may say, sequences of words
          Hears,         \* transcripts: [words, chars, seconds]
          Alike,         \* pairs <<heard, spoken>> of different words
          Stops,         \* naming.STOPS
          Quoted,        \* QUOTED_WORDS
          NewWords,      \* NEW_WORDS
          MostRepeats,   \* MOST_REPEATS
          Kept, KeptSpeeches, Grace,   \* KEPT_S, KEPT_SPEECHES, ONSET_GRACE_S
          MaxSpeeches,   \* bound: replies of the agent
          MaxNow         \* bound: ticks

ASSUME EarsAssumption == {Kept, KeptSpeeches, Grace, MaxSpeeches, MaxNow} \subseteq Nat

VARIABLES cancelsEcho, hasVad,       \* read once
          clock,
          agentSpeaks, spokeAt,      \* the agent's state; when it last spoke
          saidBefore, stretches,     \* OwnVoice
          onset, vad, echoIn, reported,   \* Ear
          began,                     \* when the utterance began, -1 outside one
          decision,                  \* what became of the last transcript
          replies, due               \* replies so far; one is about to be heard

voiceOwn == <<agentSpeaks, spokeAt, saidBefore, stretches, replies, due>>
earOwn == <<onset, vad, echoIn, reported>>
earsVars == <<cancelsEcho, hasVad, clock, voiceOwn, earOwn, began, decision>>

None0 == -1
JudgedChars == 40
FastestCharsPerS == 30

EarsInit ==
  /\ cancelsEcho \in BOOLEAN /\ hasVad \in BOOLEAN
  /\ clock = 0 /\ agentSpeaks = FALSE /\ spokeAt = None0
  /\ saidBefore = <<>> /\ stretches = <<>>
  /\ onset = None0 /\ vad = FALSE /\ echoIn = None0 /\ reported = FALSE
  /\ began = None0 /\ decision = "none"
  /\ replies = 0 /\ due = FALSE

rigid == UNCHANGED <<cancelsEcho, hasVad>>

(***************************************************************************)
(* Plausible.                                                              *)
(***************************************************************************)
times(w, said) == Cardinality({i \in 1 .. Len(said) : said[i] = w})

looped(said) ==
  \E i \in 1 .. Len(said) :
    LET n == times(said[i], said) IN n > MostRepeats /\ n * 2 >= Len(said)

too_fast(chars, seconds) ==
  seconds > 0 /\ chars >= JudgedChars /\ chars > FastestCharsPerS * seconds

impossible(line) == looped(line.words) \/ too_fast(line.chars, line.seconds)

(***************************************************************************)
(* OwnVoice: the agent's words and the stretches in which it speaks.       *)
(***************************************************************************)
recognized(w, s) == w = s \/ <<w, s>> \in Alike

\* _forget, before the voice is asked.  A stretch is its first and last tick.
keptSaid ==
  LET old(i) == /\ Len(saidBefore) - i >= KeptSpeeches
                /\ clock - saidBefore[i].at > Kept
      n == Max({0} \cup {i \in 1 .. Len(saidBefore) : \A j \in 1 .. i : old(j)})
  IN SubSeq(saidBefore, n + 1, Len(saidBefore))

keptStretches ==
  LET old(i) == stretches[i].ended # None0 /\ clock - stretches[i].ended > Kept
      n == Max({0} \cup {i \in 1 .. Len(stretches) : \A j \in 1 .. i : old(j)})
  IN SubSeq(stretches, n + 1, Len(stretches))

spokenWords == UNION {{keptSaid[k].words[i] : i \in 1 .. Len(keptSaid[k].words)} :
                         k \in 1 .. Len(keptSaid)}

missed(heard) ==
  Cardinality({i \in 1 .. Len(heard) : \A s \in spokenWords : ~recognized(heard[i], s)})

\* The longest run of what was heard that is a run of what she said.
run_of(heard, said) ==
  Max({0} \cup {n \in 1 .. Len(heard) :
        \E i \in 1 .. Len(heard) + 1 - n, j \in 1 .. Len(said) + 1 - n :
          \A k \in 0 .. n - 1 : recognized(heard[i + k], said[j + k])})

allSaid == LET upTo[n \in 0 .. Len(keptSaid)] ==
                 IF n = 0 THEN <<>> ELSE upTo[n - 1] \o keptSaid[n].words
           IN upTo[Len(keptSaid)]

_quoted(heard) == LET run == run_of(heard, allSaid)
                  IN run >= Quoted /\ 5 * run >= 3 * Len(heard)

\* Mutated form: a stretch lasts for ever.
stretch_before(kept) ==
  LET found == {i \in 1 .. Len(kept) : kept[i].began <= onset}
  IN IF onset = None0 \/ found = {} THEN None0 ELSE kept[Min(found)].began

\* The first stretch the onset falls in, by its first tick.
stretch_at(kept) ==
  LET in(i) == /\ kept[i].began <= onset
               /\ onset <= Grace + IF kept[i].ended = None0 THEN clock ELSE kept[i].ended
      found == {i \in 1 .. Len(kept) : in(i)}
  IN IF onset = None0 \/ found = {} THEN None0 ELSE kept[Min(found)].began

echoes(heard, echoing) ==
  /\ heard # <<>>
  /\ stretch_at(keptStretches) # None0
  /\ IF cancelsEcho
       THEN _quoted(heard)
       ELSE /\ ~(heard \in Stops /\ missed(heard) = Len(heard))
            /\ \/ 5 * missed(heard) <= 2 * Len(heard)
               \/ echoing /\ missed(heard) < NewWords

speakingState ==
  /\ ~agentSpeaks /\ due /\ due' = FALSE /\ agentSpeaks' = TRUE /\ spokeAt' = clock
  /\ stretches' = Append(stretches, [began |-> clock, ended |-> None0])
  /\ UNCHANGED <<clock, saidBefore, replies, earOwn, began, decision>> /\ rigid

quietState ==
  /\ agentSpeaks /\ agentSpeaks' = FALSE
  /\ stretches' = [stretches EXCEPT ![Len(stretches)].ended = clock]
  /\ UNCHANGED <<clock, saidBefore, spokeAt, replies, due, earOwn, began, decision>> /\ rigid

saying(text) ==
  /\ ~due /\ replies < MaxSpeeches /\ due' = TRUE /\ replies' = replies + 1
  /\ saidBefore' = Append(saidBefore, [at |-> clock, words |-> text])
  /\ UNCHANGED <<clock, agentSpeaks, spokeAt, stretches, earOwn, began, decision>> /\ rigid

passes ==
  /\ clock < MaxNow /\ clock' = clock + 1
  /\ spokeAt' = IF agentSpeaks THEN clock + 1 ELSE spokeAt
  /\ UNCHANGED <<agentSpeaks, saidBefore, stretches, replies, due, earOwn, began, decision>> /\ rigid

(***************************************************************************)
(* The listener.  Voice activity reports an utterance before its first     *)
(* event; without it START_OF_SPEECH does.                                 *)
(***************************************************************************)
_user_state ==
  /\ hasVad /\ began = None0 /\ began' = clock
  /\ vad' = TRUE /\ onset' = clock /\ decision' = "none"
  /\ UNCHANGED <<clock, voiceOwn, echoIn, reported>> /\ rigid

startOfUtterance ==
  /\ IF hasVad THEN began # None0 /\ UNCHANGED began
               ELSE began = None0 /\ began' = clock
  /\ onset' = IF vad THEN onset ELSE clock
  /\ decision' = "none"
  /\ UNCHANGED <<clock, voiceOwn, vad, echoIn, reported>> /\ rigid

endOfUtterance ==
  /\ began # None0 /\ began' = None0 /\ decision' = "none"
  /\ UNCHANGED <<clock, voiceOwn, earOwn>> /\ rigid

\* _echoes: the stretch is looked up before the voice forgets.
transcript(line) ==
  /\ began # None0
  /\ LET stretch == stretch_at(stretches)
         echoing == stretch # None0 /\ stretch = echoIn
     IN
     \/ /\ impossible(line)
        /\ decision' = "impossible"
        /\ UNCHANGED <<saidBefore, stretches, echoIn, reported>>
     \/ /\ ~impossible(line)
        /\ saidBefore' = keptSaid /\ stretches' = keptStretches
        /\ \/ /\ echoes(line.words, echoing)
              /\ decision' = "echo"
              /\ IF ~echoing /\ Len(line.words) >= 2     \* ECHO_WORDS
                   THEN /\ echoIn' = IF cancelsEcho THEN echoIn ELSE stretch
                        /\ reported' = TRUE
                   ELSE UNCHANGED <<echoIn, reported>>
           \/ /\ ~echoes(line.words, echoing)
              /\ decision' = "heard"
              /\ UNCHANGED <<echoIn, reported>>
  /\ UNCHANGED <<clock, agentSpeaks, spokeAt, replies, due, onset, vad, began>>
  /\ rigid

EarsNext ==
  \/ speakingState \/ quietState \/ passes
  \/ \E text \in Says : saying(text)
  \/ _user_state \/ startOfUtterance \/ endOfUtterance
  \/ \E line \in Hears : transcript(line)

EarsSpec == EarsInit /\ [][EarsNext]_earsVars

(***************************************************************************)
(* Properties.                                                             *)
(***************************************************************************)

\* Nothing is taken for the agent's voice that was begun when she had been
\* quiet for longer than the grace, nor before she spoke.
EchoOnlyOverHerVoice ==
  decision = "echo" => spokeAt # None0 /\ spokeAt + Grace >= began
=============================================================================
