------------------------------- MODULE Streams -------------------------------
(***************************************************************************)
(* The way of an answer from the model to the voice.  SpeechPlan.transform *)
(* holds what came until a sentence is whole (speech_plan.sentence_cut)    *)
(* and takes the markers of lists out; FirstSentenceAlone sends the first  *)
(* sentence to the voice by itself, so that she starts to speak early, and *)
(* the rest behind it (sarvam.sentences).  A character is a letter, a      *)
(* digit "1", a stop ".", a space " " or a new line "n".                   *)
(***************************************************************************)
EXTENDS Naturals, Sequences, FiniteSets, Places, FiniteSetsExt, SequencesExt

CONSTANTS Alphabet,    \* the letters
          MAX_HELD,
          MaxSpeech,   \* bound: characters of an answer
          MaxChunk     \* bound: characters of a chunk of it

ASSUME StreamsAssumption ==
  /\ {MAX_HELD, MaxSpeech, MaxChunk} \subseteq Nat
  /\ Alphabet \cap {"1", ".", " ", "n", "|"} = {}

VARIABLES streamed,  \* what came of the answer
          broken,    \* where its chunks ended
          unsaid,    \* transform's held
          cuts,      \* where its pieces ended
          voice,     \* FirstSentenceAlone: _head, _rest, _led, _rest_started, its
                     \* segments, and the input buffer; "|" is a flush in it
          ended      \* the answer is over

streamsVars == <<streamed, broken, unsaid, cuts, voice, ended>>

Blanks == {" ", "n"}
Marks == Alphabet \cup {"1", "."} \cup Blanks

after(t, i) == SubSeq(t, i + 1, Len(t))

\* SENTENCE_END: a stop and blanks behind it with no number behind them, or a
\* new line.
sentenceEnds(t) ==
  {e \in DOMAIN t :
     \/ t[e] = "n"
     \/ /\ t[e] = " " /\ (e < Len(t) => t[e + 1] # "1")
        /\ \E j \in 1 .. e - 1 : t[j] = "." /\ \A k \in j + 1 .. e : t[k] \in Blanks}

\* Mutated form: what is held is cut at a space a number stands at.
cutAtAnySpace(t) ==
  LET spaces == {k \in 2 .. Len(t) : t[k] = " "}
  IN IF sentenceEnds(t) # {} THEN Max(sentenceEnds(t))
     ELSE IF Len(t) <= MAX_HELD \/ spaces = {} THEN 0 ELSE Max(spaces)

\* The last end of a sentence; when too much is held, the last space that no
\* number stands at.
sentence_cut(t) ==
  LET spaces == {k \in 2 .. Len(t) : t[k] = " " /\ t[k - 1] # "1" /\ (k < Len(t) => t[k + 1] # "1")}
  IN IF sentenceEnds(t) # {} THEN Max(sentenceEnds(t))
     ELSE IF Len(t) <= MAX_HELD \/ spaces = {} THEN 0 ELSE Max(spaces)

\* LIST_MARKER: spaces, one or two digits, a stop and spaces, at the front of a line.
isMarker(s) ==
  \E a \in 0 .. Len(s), d \in 1 .. 2 :
    /\ a + d + 2 <= Len(s)
    /\ \A j \in DOMAIN s : s[j] = IF a < j /\ j <= a + d THEN "1" ELSE IF j = a + d + 1 THEN "." ELSE " "

listMarkers(t) ==
  {k \in DOMAIN t : \E i \in 1 .. k, e \in k .. Len(t) :
     (i = 1 \/ t[i - 1] = "n") /\ isMarker(SubSeq(t, i, e))}

spokenText(t) == standing(t, DOMAIN t \ listMarkers(t))

\* FirstSentenceAlone.SENTENCE_END: where the first stop ends that blanks
\* follow, with all of them; 0 when there is none.
firstSentence(t) ==
  LET starts == {k \in 2 .. Len(t) : t[k - 1] = "." /\ t[k] \in Blanks}
  IN IF starts = {} THEN 0
     ELSE CHOOSE e \in Min(starts) .. Len(t) :
            /\ \A k \in Min(starts) .. e : t[k] \in Blanks
            /\ e < Len(t) => t[e + 1] \notin Blanks

isBlank(t) == \A k \in DOMAIN t : t[k] \in Blanks

_follow(v, token) ==
  LET rest == v.rest \o token
  IN IF isBlank(rest) THEN [v EXCEPT !.rest = rest]
     ELSE [v EXCEPT !.rest = <<>>, !.restStarted = TRUE, !.buffer = @ \o rest,
                    !.segments = IF v.restStarted THEN @ ELSE @ + 1]

_send_alone(v) == [v EXCEPT !.buffer = Append(@, "|")]

push_text(v, token) ==
  LET head == v.head \o token
      end == firstSentence(head)
      cut == Len(token) - (Len(head) - end)
  IN CASE token = <<>> -> v
       [] token # <<>> /\ v.led -> _follow(v, token)
       [] token # <<>> /\ ~v.led /\ end = 0 -> [v EXCEPT !.head = head, !.buffer = @ \o token]
       [] token # <<>> /\ ~v.led /\ end > 0 ->
            LET lead == [v EXCEPT !.head = head, !.led = TRUE, !.buffer = @ \o SubSeq(token, 1, cut)]
            IN _follow(_send_alone(lead), after(token, cut))

StreamsInit ==
  /\ streamed = <<>> /\ broken = {} /\ unsaid = <<>> /\ cuts = {} /\ ended = FALSE
  /\ voice = [head |-> <<>>, rest |-> <<>>, led |-> FALSE, restStarted |-> FALSE,
              segments |-> 0, buffer |-> <<>>]

\* SpeechPlan.transform: a chunk of the answer.
newChunk(c) ==
  /\ ~ended /\ Len(streamed) + Len(c) <= MaxSpeech
  /\ streamed' = streamed \o c /\ broken' = broken \cup {Len(streamed')}
  /\ LET held == unsaid \o c
         cut == sentence_cut(held)
     IN /\ unsaid' = after(held, cut)
        /\ cuts' = IF cut > 0 THEN cuts \cup {Len(streamed') - Len(held) + cut} ELSE cuts
        /\ voice' = IF cut > 0 THEN push_text(voice, spokenText(SubSeq(held, 1, cut))) ELSE voice
  /\ UNCHANGED ended

\* The answer ends: what is held is said.
lastOfIt ==
  /\ ~ended /\ ended' = TRUE
  /\ unsaid' = <<>> /\ voice' = push_text(voice, spokenText(unsaid))
  /\ UNCHANGED <<streamed, broken, cuts>>

StreamsNext == (\E n \in 1 .. MaxChunk : \E c \in [1 .. n -> Marks] : newChunk(c)) \/ lastOfIt
StreamsSpec == StreamsInit /\ [][StreamsNext]_streamsVars

(***************************************************************************)
(* Properties.                                                             *)
(***************************************************************************)
letters(t) == standing(t, {k \in DOMAIN t : t[k] \in Alphabet})

\* However the answer is cut into chunks, each of its letters is said once,
\* in order, and none is kept back at its end.
EveryLetterIsSaid ==
  /\ letters(voice.buffer) \o letters(unsaid) = letters(streamed)
  /\ isBlank(voice.rest) /\ (ended => unsaid = <<>>)

\* One flush, behind the first sentence and nothing else; a segment more
\* exactly when words follow it.
FirstSentenceIsAlone ==
  LET b == voice.buffer
      flushes == {i \in DOMAIN b : b[i] = "|"}
      lead == IF flushes = {} THEN b ELSE SubSeq(b, 1, Min(flushes) - 1)
  IN /\ Cardinality(flushes) = (IF voice.led THEN 1 ELSE 0)
     /\ firstSentence(lead) = (IF voice.led THEN Len(lead) ELSE 0)
     /\ voice.segments = (IF voice.led /\ ~isBlank(after(b, Len(lead) + 1)) THEN 1 ELSE 0)

\* A piece ends behind a blank, before a number only where the answer itself
\* broke off there or a line ended, and behind a number only where its line did.
NumbersStayWhole ==
  \A e \in cuts :
    /\ streamed[e] \in Blanks
    /\ e < Len(streamed) /\ streamed[e + 1] = "1" => e \in broken \/ streamed[e] = "n"
    /\ e > 1 /\ streamed[e - 1] = "1" => streamed[e] = "n"

StreamsInv == EveryLetterIsSaid /\ FirstSentenceIsAlone /\ NumbersStayWhole
=============================================================================
