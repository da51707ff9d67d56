------------------------------- MODULE Fillers -------------------------------
(***************************************************************************)
(* A short phrase said while the agent thinks (delivery.Filler): a timer   *)
(* set when thinking begins in silence makes it due; the reply being made  *)
(* plays it ahead of its own first frame.  Everything runs on one event    *)
(* loop; a reply that waits (Filler._due_first) goes on in a later step    *)
(* than the one that woke it.  Phrases and frames are numbers, the audio   *)
(* of a phrase is synthesized or is not.                                   *)
(***************************************************************************)
EXTENDS Naturals, FiniteSets

CONSTANTS Listeners,     \* the sessions that hear somebody
          FillerPhrases, \* per language, how many phrases there are
          MaxThoughts    \* bound: changes of the agent's state

Tongues == DOMAIN FillerPhrases

ASSUME FillersAssumption == /\ FillerPhrases \in [Tongues -> Nat]
                            /\ MaxThoughts \in Nat

VARIABLES mind,        \* the agent's state
          tongue,      \* the language whose phrases are said
          nextPhrase,  \* Filler._turn
          synthesized, \* the phrases of Filler._audio, as <<language, index>>
          voicing,     \* Filler._speaking
          heldFill,    \* Filler._held
          fillTimer, isDue,   \* Filler._timer is running, Filler._due is set
          stage,       \* the reply: "none", "waits", "woken", "filled", "flows"
          frameIn,     \* its first frame came
          filledSpeech,   \* took(): the reply was filled, its timing is kept
          out,         \* what was heard of the reply: "filler" and "frame"
          thoughts

fillVars == <<mind, tongue, nextPhrase, synthesized, voicing, heldFill, fillTimer, isDue>>
replyVars == <<stage, frameIn, filledSpeech, out>>
fillersVars == <<fillVars, replyVars, thoughts>>

FillersInit ==
  /\ mind = "listening" /\ tongue \in Tongues /\ nextPhrase = 0
  /\ synthesized = {} /\ voicing = {} /\ heldFill \in BOOLEAN
  /\ fillTimer = FALSE /\ isDue = FALSE
  /\ stage = "none" /\ frameIn = FALSE /\ filledSpeech = FALSE /\ out = {}
  /\ thoughts = 0

phrasesOf == {<<tongue, i>> : i \in 0 .. FillerPhrases[tongue] - 1}
enabled == FillerPhrases[tongue] > 0

_hush == fillTimer' = FALSE /\ isDue' = FALSE

(***************************************************************************)
(* What the sessions report.                                               *)
(***************************************************************************)
state_changed(new) ==
  /\ thoughts < MaxThoughts /\ thoughts' = thoughts + 1
  /\ new # mind /\ mind' = new
  /\ isDue' = FALSE
  /\ fillTimer' = (new = "thinking" /\ enabled /\ voicing = {} /\ ~heldFill)
  /\ UNCHANGED <<tongue, nextPhrase, synthesized, voicing, heldFill>> /\ UNCHANGED replyVars

\* Mutated form: a voice that is heard does not end the wait.
hearsVoiceOnly(l) ==
  /\ l \notin voicing /\ voicing' = voicing \cup {l}
  /\ UNCHANGED <<fillTimer, isDue, mind, tongue, nextPhrase, synthesized, heldFill, thoughts>>
  /\ UNCHANGED replyVars

hearsVoice(l) ==
  /\ l \notin voicing /\ voicing' = voicing \cup {l}
  /\ _hush
  /\ UNCHANGED <<mind, tongue, nextPhrase, synthesized, heldFill, thoughts>>
  /\ UNCHANGED replyVars

\* The voice stops, or the session that heard it closes.
hearsQuiet(l) ==
  /\ l \in voicing /\ voicing' = voicing \ {l}
  /\ UNCHANGED <<mind, tongue, nextPhrase, synthesized, heldFill, fillTimer, isDue, thoughts>>
  /\ UNCHANGED replyVars

\* While a line is judged, fillers are held back (Voice.judging).
hold(held) ==
  /\ held # heldFill /\ heldFill' = held
  /\ UNCHANGED <<mind, tongue, nextPhrase, synthesized, voicing, fillTimer, isDue, thoughts>>
  /\ UNCHANGED replyVars

dueTimer ==
  /\ fillTimer /\ fillTimer' = FALSE /\ isDue' = TRUE
  /\ UNCHANGED <<mind, tongue, nextPhrase, synthesized, voicing, heldFill, thoughts>>
  /\ UNCHANGED replyVars

\* prepare: one more phrase of the language is synthesized, or it is not.
prepare ==
  /\ \E p \in phrasesOf \ synthesized : synthesized' = synthesized \cup {p}
  /\ UNCHANGED <<mind, tongue, nextPhrase, voicing, heldFill, fillTimer, isDue, thoughts>>
  /\ UNCHANGED replyVars

speak_in(language) ==
  /\ language # tongue /\ tongue' = language /\ nextPhrase' = 0
  /\ UNCHANGED <<mind, synthesized, voicing, heldFill, fillTimer, isDue, thoughts>>
  /\ UNCHANGED replyVars

\* A tool that is slow says the next phrase itself (tools.Filling).
phraseTaken == nextPhrase' = IF enabled THEN (nextPhrase + 1) % FillerPhrases[tongue] ELSE 0

toolPhrase ==
  /\ enabled /\ mind = "thinking" /\ phraseTaken
  /\ UNCHANGED <<mind, tongue, synthesized, voicing, heldFill, fillTimer, isDue, thoughts>>
  /\ UNCHANGED replyVars

(***************************************************************************)
(* One reply: Filler.ahead.                                                *)
(***************************************************************************)
\* tts_node asks for fillers when there are any, else the reply just flows.
aheadBegins ==
  /\ stage = "none" /\ mind = "thinking"
  /\ stage' = IF enabled THEN "waits" ELSE "flows"
  /\ frameIn' = FALSE /\ filledSpeech' = FALSE /\ out' = {}
  /\ UNCHANGED fillVars /\ UNCHANGED thoughts

frameArrives ==
  /\ stage \notin {"none", "flows"} /\ ~frameIn /\ frameIn' = TRUE
  /\ UNCHANGED <<stage, filledSpeech, out, thoughts>> /\ UNCHANGED fillVars

_due_first ==
  /\ stage = "waits"
  /\ isDue \/ frameIn
  /\ stage' = "woken"
  /\ UNCHANGED <<frameIn, filledSpeech, out, thoughts>> /\ UNCHANGED fillVars

\* Awake again: a frame or a voice that came meanwhile leaves the filler out.
_filler ==
  /\ stage = "woken"
  /\ \/ /\ frameIn \/ voicing # {}
        /\ stage' = "filled"
        /\ UNCHANGED <<isDue, nextPhrase, filledSpeech, out>>
     \/ /\ ~frameIn /\ voicing = {}
        /\ isDue' = FALSE /\ stage' = "filled"
        /\ phraseTaken
        /\ IF <<tongue, nextPhrase>> \in synthesized
             THEN out' = out \cup {"filler"} /\ filledSpeech' = TRUE
             ELSE UNCHANGED <<out, filledSpeech>>
  /\ UNCHANGED <<mind, tongue, synthesized, voicing, heldFill, fillTimer, frameIn, thoughts>>

flows ==
  /\ stage = "filled" /\ frameIn
  /\ stage' = "flows" /\ out' = out \cup {"frame"}
  /\ UNCHANGED <<frameIn, filledSpeech, thoughts>> /\ UNCHANGED fillVars

\* The reply is over or was interrupted: its tasks are cancelled.
aheadEnds ==
  /\ stage # "none" /\ stage' = "none"
  /\ UNCHANGED <<frameIn, filledSpeech, out, thoughts>> /\ UNCHANGED fillVars

FillersNext ==
  \/ \E new \in {"listening", "thinking", "speaking"} : state_changed(new)
  \/ \E l \in Listeners : hearsVoice(l) \/ hearsQuiet(l)
  \/ hold(TRUE) \/ hold(FALSE) \/ dueTimer \/ prepare \/ toolPhrase
  \/ \E language \in Tongues : speak_in(language)
  \/ aheadBegins \/ frameArrives \/ _due_first \/ _filler \/ flows \/ aheadEnds

FillersSpec == FillersInit /\ [][FillersNext]_fillersVars

(***************************************************************************)
(* Properties.                                                             *)
(***************************************************************************)

\* A filler is due, or about to be, only while the agent thinks and everybody
\* is silent: a delay that began before somebody spoke, or in an earlier
\* thought, never makes one due.
DueInSilentThought == fillTimer \/ isDue => mind = "thinking" /\ voicing = {}
=============================================================================
