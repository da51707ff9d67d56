-------------------------------- MODULE Sieve --------------------------------
(***************************************************************************)
(* Acknowledgements said over a reply ("hm", "ach so") are held back from  *)
(* the recognizer's events (backchannel.Sieve) and given after all when    *)
(* the reply they were said over ended with a question.  An event of the   *)
(* recognizer is its place in the stream, 1, 2, ...; an utterance is       *)
(* START, transcripts, END.  Transcripts also come outside one: a final    *)
(* that is later than the grace after the end of speech (the sarvam        *)
(* stream's, and any recognizer's that orders nothing).  Nothing tells     *)
(* the sieve what such a transcript belongs to, so each counts as an       *)
(* utterance of its own; one that comes after the next START is taken for  *)
(* a part of that, here as in the code.                                    *)
(* A text is a sequence of words; StartOf holds the pairs of a word and a  *)
(* proper beginning of it.  Time is counted in ticks of the reply's play.  *)
(***************************************************************************)
EXTENDS Naturals, Sequences, FiniteSets

CONSTANTS Phrases,       \* the acknowledgements, sequences of words
          Texts,         \* what a transcript may say
          StartOf,       \* pairs <<word, beginning of the word>>
          MaxWords,      \* backchannel.max_words
          AnswerWithin,  \* backchannel.answer_within_ms, in ticks
          MaxEvents,     \* bound: events of the recognizer
          MaxReplies,    \* bound: replies
          MaxPlayed      \* bound: ticks a reply is played

ASSUME SieveAssumption ==
  /\ \A p \in Phrases : p # <<>>
  /\ {MaxWords, AnswerWithin, MaxEvents, MaxReplies, MaxPlayed} \subseteq Nat

VARIABLES fed,        \* events the recognizer gave
          speakingNow,   \* it is inside an utterance
          uttered,    \* the utterance of each event, or the number of a late one
          heldBack, finals, doubt, overReply, passing, pendingAnswer, answers,
          passed,     \* the events passed on, in order
          current, interrupted,     \* the session's current speech
          tracked, plays, played,   \* SessionFloor: its reply and its clock
          ending, endAsked          \* a speech whose done callback is due

streamVars == <<fed, speakingNow, uttered>>
floorVars == <<current, interrupted, tracked, plays, played, ending, endAsked>>
keptVars == <<heldBack, finals, doubt, overReply, passing>>
sieveVars == <<streamVars, keptVars, pendingAnswer, answers, passed, floorVars>>

NoReply == 0
NoPending == [reply |-> NoReply, played |-> 0, events |-> <<>>]

SieveInit ==
  /\ fed = 0 /\ speakingNow = FALSE /\ uttered = <<>>
  /\ heldBack = <<>> /\ finals = <<>> /\ doubt = FALSE /\ overReply = NoReply
  /\ passing = FALSE /\ pendingAnswer = NoPending /\ answers = <<>> /\ passed = <<>>
  /\ current = NoReply /\ interrupted = FALSE
  /\ tracked = NoReply /\ plays = FALSE /\ played = 0
  /\ ending = NoReply /\ endAsked = FALSE

(***************************************************************************)
(* Acknowledgements.                                                       *)
(***************************************************************************)
_begins(phrase, said) ==
  LET last == Len(said) IN
  /\ SubSeq(phrase, 1, last - 1) = SubSeq(said, 1, last - 1)
  /\ phrase[last] = said[last] \/ <<phrase[last], said[last]>> \in StartOf

_covers(said, finished) ==
  LET from[at \in 1 .. Len(said) + 1] ==
        \/ at = Len(said) + 1
        \/ \E p \in Phrases :
             LET rest == SubSeq(said, at, Len(said)) IN
             \/ /\ Len(p) <= Len(rest) /\ SubSeq(rest, 1, Len(p)) = p
                /\ from[at + Len(p)]
             \/ ~finished /\ Len(rest) <= Len(p) /\ _begins(p, rest)
  IN from[1]

only(said, finished) ==
  said # <<>> /\ Len(said) <= MaxWords /\ _covers(said, finished)

(***************************************************************************)
(* The floor: the reply that plays, and how long it has played.            *)
(***************************************************************************)
holds_floor == current # NoReply /\ ~interrupted
floorHeard == IF holds_floor /\ tracked = current THEN tracked ELSE NoReply

begins ==
  /\ current = NoReply /\ tracked < MaxReplies /\ ending = NoReply
  /\ current' = tracked + 1 /\ interrupted' = FALSE
  /\ UNCHANGED <<tracked, plays, played, ending, endAsked>>
  /\ UNCHANGED <<streamVars, keptVars, pendingAnswer, answers, passed>>

\* The agent's state became speaking, or stopped being it.
_track(now) ==
  /\ now # plays /\ (now => current # NoReply)
  /\ IF now /\ current # tracked
       THEN tracked' = current /\ played' = 0
       ELSE UNCHANGED <<tracked, played>>
  /\ plays' = (now /\ tracked' # NoReply)
  /\ UNCHANGED <<current, interrupted, ending, endAsked>>
  /\ UNCHANGED <<streamVars, keptVars, pendingAnswer, answers, passed>>

interrupt ==
  /\ holds_floor /\ interrupted' = TRUE
  /\ UNCHANGED <<current, tracked, plays, played, ending, endAsked>>
  /\ UNCHANGED <<streamVars, keptVars, pendingAnswer, answers, passed>>

\* asks: an interrupted reply puts no question.
speechEnds(question) ==
  /\ current # NoReply /\ (question => ~interrupted)
  /\ ending' = current /\ endAsked' = question
  /\ current' = NoReply /\ interrupted' = FALSE
  /\ UNCHANGED <<tracked, plays, played>>
  /\ UNCHANGED <<streamVars, keptVars, pendingAnswer, answers, passed>>

tick ==
  /\ plays /\ played < MaxPlayed /\ played' = played + 1
  /\ UNCHANGED <<current, interrupted, tracked, plays, ending, endAsked>>
  /\ UNCHANGED <<streamVars, keptVars, pendingAnswer, answers, passed>>

\* The done callback of the speech: Reply.over, and the answer it may give.
over ==
  /\ ending # NoReply /\ ending' = NoReply
  /\ plays' = (plays /\ tracked # ending)
  /\ IF ending = tracked /\ pendingAnswer.reply = ending
       THEN /\ pendingAnswer' = NoPending
            /\ answers' = IF endAsked /\ played - pendingAnswer.played <= AnswerWithin
                            THEN answers \o pendingAnswer.events ELSE answers
       ELSE UNCHANGED <<pendingAnswer, answers>>
  /\ UNCHANGED <<current, interrupted, tracked, played, endAsked>>
  /\ UNCHANGED <<streamVars, keptVars, passed>>

(***************************************************************************)
(* Sieve.feed on the next event.  Each passes what was answered first, as  *)
(* sieved yields it, then what feed returns.                               *)
(***************************************************************************)
nextEvent(utterance) ==
  /\ fed < MaxEvents /\ fed' = fed + 1
  /\ uttered' = Append(uttered, utterance)
utteranceNow == IF uttered = <<>> THEN 1 ELSE uttered[fed]

yields(events) == passed' = passed \o answers \o events /\ answers' = <<>>

_reset == heldBack' = <<>> /\ finals' = <<>> /\ doubt' = FALSE /\ overReply' = NoReply

_hold(e) == heldBack' = Append(heldBack, e) /\ yields(<<>>)

_release(e, isEnd) ==
  yields(Append(heldBack, e)) /\ _reset /\ passing' = ~isEnd

\* Mutated form: the answer kept for a reply outlives the next utterance.
startOfSpeechKeeping ==
  /\ nextEvent(utteranceNow + 1)
  /\ speakingNow' = TRUE /\ UNCHANGED pendingAnswer
  /\ finals' = <<>> /\ doubt' = holds_floor
  /\ overReply' = IF holds_floor THEN floorHeard ELSE NoReply
  /\ passing' = ~holds_floor
  /\ IF holds_floor
       THEN heldBack' = <<fed + 1>> /\ yields(<<>>)
       ELSE heldBack' = <<>> /\ yields(<<fed + 1>>)
  /\ UNCHANGED floorVars

startOfSpeech ==
  /\ nextEvent(utteranceNow + 1)
  /\ speakingNow' = TRUE /\ pendingAnswer' = NoPending
  /\ finals' = <<>> /\ doubt' = holds_floor
  /\ overReply' = IF holds_floor THEN floorHeard ELSE NoReply
  /\ passing' = ~holds_floor
  /\ IF holds_floor
       THEN heldBack' = <<fed + 1>> /\ yields(<<>>)
       ELSE heldBack' = <<>> /\ yields(<<fed + 1>>)
  /\ UNCHANGED floorVars

\* Within an utterance, or late: after the END of the one it was said in.
_transcript(text, final) ==
  /\ nextEvent(IF speakingNow THEN utteranceNow ELSE utteranceNow + 1)
  /\ pendingAnswer' = NoPending /\ UNCHANGED speakingNow
  /\ \/ /\ ~doubt /\ (passing \/ ~holds_floor)
        /\ yields(<<fed + 1>>) /\ UNCHANGED keptVars
     \/ /\ doubt \/ (~passing /\ holds_floor)
        /\ IF holds_floor /\ only(finals \o text, final)
             THEN /\ _hold(fed + 1)
                  /\ doubt' = TRUE
                  /\ overReply' = IF doubt THEN overReply ELSE floorHeard
                  /\ finals' = IF final THEN finals \o text ELSE finals
                  /\ UNCHANGED passing
             ELSE _release(fed + 1, FALSE)
  /\ UNCHANGED floorVars

\* END over a reply: what was said so far is dropped, or kept as an answer.
_drop ==
  /\ yields(<<>>) /\ _reset /\ UNCHANGED passing
  /\ pendingAnswer' =
       IF finals # <<>> /\ overReply # NoReply /\ overReply = floorHeard
         THEN [reply |-> overReply, played |-> played,
               events |-> Append(heldBack, fed + 1)]
         ELSE NoPending

endOfSpeech ==
  /\ speakingNow /\ nextEvent(utteranceNow) /\ speakingNow' = FALSE
  /\ \/ /\ ~doubt
        /\ passing' = FALSE /\ yields(<<fed + 1>>) /\ pendingAnswer' = NoPending
        /\ UNCHANGED <<heldBack, finals, doubt, overReply>>
     \/ doubt /\ holds_floor /\ _drop
     \/ doubt /\ ~holds_floor /\ _release(fed + 1, TRUE) /\ pendingAnswer' = NoPending
  /\ UNCHANGED floorVars

\* sieved wakes for the answer while it reads.
sieved ==
  /\ answers # <<>> /\ yields(<<>>)
  /\ UNCHANGED <<streamVars, keptVars, pendingAnswer, floorVars>>

SieveNext ==
  \/ begins \/ interrupt \/ tick \/ over
  \/ \E b \in BOOLEAN : _track(b) \/ speechEnds(b)
  \/ startOfSpeech \/ endOfSpeech \/ sieved
  \/ \E text \in Texts, final \in BOOLEAN : _transcript(text, final)

SieveSpec == SieveInit /\ [][SieveNext]_sieveVars

(***************************************************************************)
(* Properties.                                                             *)
(***************************************************************************)

\* What is passed on keeps the order in which it was said: an answer given
\* late is never given once something else was said.
InOrder == \A i, j \in 1 .. Len(passed) : i < j => passed[i] < passed[j]

\* An utterance, from its START to its END, is passed on whole or not at all:
\* what follows a part that was passed is passed, and what is given as an
\* answer has all its parts, whatever transcripts come late in between.
WholeUtterance ==
  \A e, f \in 1 .. fed :
    /\ uttered[e] = uttered[f]
    /\ ~speakingNow \/ uttered[e] # uttered[fed]
    /\ e \in {passed[i] : i \in 1 .. Len(passed)}
    => f \in {passed[i] : i \in 1 .. Len(passed)}

\* What is held back and given after all reaches the turn in order and whole.
SieveInv == InOrder /\ WholeUtterance
=============================================================================
