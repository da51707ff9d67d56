-------------------------------- MODULE Scribe --------------------------------
(***************************************************************************)
(* The scribe of a call: the lines it hears (transcript.Transcript), the   *)
(* running notes it rewrites at an interval (writer.Writer), the minutes   *)
(* people ask for and those after the call (closing.Closing), the agent's  *)
(* turns it scores (judging.Scorer), and the agent's own copy of the       *)
(* notes (scribing.Scribing).  A line is its number and its length; what   *)
(* notes or minutes say is the set of lines they were written from.        *)
(***************************************************************************)
EXTENDS Naturals, Sequences, FiniteSets, FiniteSetsExt

CONSTANTS People0, TheAgent,
          Named,       \* what people and the agent are called in the roster
          AgentLabel,
          LabelFor,    \* LabelFor[name, n]: the name, numbered from 2 on
          MaxPending,  \* MAX_PENDING_CHARS
          HeardLines,  \* HEARD_LINES
          Backlog,     \* BACKLOG
          MaxHeard     \* bound: lines

ASSUME ScribeAssumption ==
  /\ TheAgent \notin People0 /\ AgentLabel \in Named
  /\ \A name \in Named : /\ LabelFor[name, 1] = name
                         /\ \A m, n \in 1 .. Cardinality(People0) + 2 :
                              m # n => LabelFor[name, m] # LabelFor[name, n]
  /\ IsFiniteSet(People0) /\ {MaxPending, HeardLines, Backlog, MaxHeard} \subseteq Nat

VARIABLES linesHeard,       \* lines heard so far
          pending,     \* Transcript._pending
          dropped,     \* lines Transcript._bound dropped
          labels,      \* Transcript._participants
          asking,      \* the lines rewrite asks the model about
          noted,       \* the lines Writer.notes were written from
          revision, tellable,   \* Writer.revision; revisions sent to the room
          latest,      \* revision of Scribing._latest, 0 for none
          lastHeard, toScore,   \* Scorer._heard, Scorer._turns
          ready, scoring,       \* Scorer._ready; whether score is running
          minuting,    \* the minutes being written, per kind
          finalOf,     \* the lines the final minutes were written from
          callOver     \* the room is empty and the job stopped

transcriptVars == <<linesHeard, pending, dropped, labels>>
writerVars == <<asking, noted, revision, tellable, latest>>
scorerVars == <<lastHeard, toScore, ready, scoring>>
minutesVars == <<minuting, finalOf>>
scribeVars == <<transcriptVars, writerVars, scorerVars, minutesVars, callOver>>

NotWriting == [covers |-> {}, running |-> FALSE]
NoFinal == {0}

ScribeInit ==
  /\ linesHeard = 0 /\ pending = {} /\ dropped = {}
  /\ labels = [p \in {} |-> AgentLabel]
  /\ asking = {} /\ noted = {} /\ revision = 0 /\ tellable = {} /\ latest = 0
  /\ lastHeard = <<>> /\ toScore = <<>> /\ ready = FALSE /\ scoring = FALSE
  /\ minuting = [k \in {"so far", "final"} |-> NotWriting] /\ finalOf = NoFinal
  /\ callOver = FALSE

idsOf(s) == {l.id : l \in s}
charsOf(s) == MapThenSumSet(LAMBDA l : l.chars, s)
newestOf(s, n) == IF Len(s) <= n THEN s ELSE SubSeq(s, Len(s) - n + 1, Len(s))

(***************************************************************************)
(* A final transcript of the worker arrives (Scribe.received).             *)
(***************************************************************************)
\* The oldest lines go until the others fit: a line stays when it fits with
\* all that came after it.
_bound(s) ==
  LET fits(l) == charsOf({k \in s : l.id <= k.id}) <= MaxPending
  IN /\ pending' = {l \in s : fits(l)}
     /\ dropped' = dropped \cup idsOf({l \in s : ~fits(l)})

\* A person keeps the label of their first line; a label is used once.
_label(who, wanted) ==
  IF who = TheAgent \/ who \in DOMAIN labels
    THEN UNCHANGED labels
    ELSE LET used == {labels[p] : p \in DOMAIN labels} \cup {AgentLabel}
             n == CHOOSE n \in 1 .. Cardinality(used) + 1 :
                    /\ LabelFor[wanted, n] \notin used
                    /\ \A k \in 1 .. n - 1 : LabelFor[wanted, k] \in used
         IN labels' = [p \in DOMAIN labels \cup {who} |->
                         IF p = who THEN LabelFor[wanted, n] ELSE labels[p]]

\* Scorer.heard: an agent's line that answers somebody is a turn to score.
scorerHeard(who, id) ==
  IF who # TheAgent
    THEN lastHeard' = newestOf(Append(lastHeard, id), HeardLines) /\ UNCHANGED <<toScore, ready>>
    ELSE IF lastHeard = <<>>
      THEN UNCHANGED <<lastHeard, toScore, ready>>
      ELSE /\ toScore' = newestOf(Append(toScore, id), Backlog)
           /\ lastHeard' = <<>> /\ ready' = TRUE

transcriptHeard(who, chars, wanted) ==
  /\ linesHeard' = linesHeard + 1
  /\ _label(who, wanted)
  /\ _bound(pending \cup {[id |-> linesHeard + 1, chars |-> chars]})

lineHeard(who, chars, wanted) ==
  /\ ~callOver /\ linesHeard < MaxHeard
  /\ transcriptHeard(who, chars, wanted)
  /\ scorerHeard(who, linesHeard + 1)
  /\ UNCHANGED <<scoring, writerVars, minutesVars, callOver>>

(***************************************************************************)
(* Writer.                                                                 *)
(***************************************************************************)
\* rewrite, until it waits for the model; lines stay pending meanwhile.
rewrite ==
  /\ ~callOver /\ asking = {} /\ pending # {}
  /\ asking' = pending
  /\ UNCHANGED <<transcriptVars, noted, revision, tellable, latest>>
  /\ UNCHANGED <<scorerVars, minutesVars, callOver>>

\* Mutated form: what was heard while the model was asked counts as covered.
coveredAll(s) == pending' = {}

\* Only the lines asked about: others may have come during the answer.
covered(s) == pending' = pending \ s

\* The model answered; its answer could be read, or the last notes stand.
rewritten(readable) ==
  /\ asking # {} /\ asking' = {}
  /\ IF readable
       THEN /\ noted' = noted \cup idsOf(asking) /\ revision' = revision + 1
            /\ covered(asking)
            /\ tellable' = tellable \cup {revision + 1}
       ELSE UNCHANGED <<noted, revision, pending, tellable>>
  /\ UNCHANGED <<linesHeard, dropped, labels, latest, scorerVars, minutesVars, callOver>>

\* The agent's side: an older revision than the one it has is ignored.
notesReceived(r) ==
  /\ r \in tellable /\ r > latest /\ latest' = r
  /\ UNCHANGED <<transcriptVars, asking, noted, revision, tellable>>
  /\ UNCHANGED <<scorerVars, minutesVars, callOver>>

(***************************************************************************)
(* Scorer.run: it waits for ready, and clears it when no turn is left.     *)
(***************************************************************************)
score ==
  /\ ~callOver /\ ready /\ ~scoring /\ toScore # <<>>
  /\ toScore' = Tail(toScore) /\ scoring' = TRUE
  /\ UNCHANGED <<lastHeard, ready, transcriptVars, writerVars, minutesVars, callOver>>

scored ==
  /\ scoring /\ scoring' = FALSE
  /\ ready' = (toScore # <<>>)
  /\ UNCHANGED <<lastHeard, toScore, transcriptVars, writerVars, minutesVars, callOver>>

(***************************************************************************)
(* Closing.  Minutes so far are written one at a time; the final ones once *)
(* everyone left.                                                          *)
(***************************************************************************)
\* _minutes: with nothing new the notes are the minutes, at once.
_minutes(kind) ==
  /\ ~minuting[kind].running
  /\ IF revision > 0 /\ pending = {}
       THEN /\ finalOf' = IF kind = "final" THEN noted ELSE finalOf
            /\ UNCHANGED minuting
       ELSE /\ minuting' = [minuting EXCEPT ![kind] =
                              [covers |-> noted \cup idsOf(pending), running |-> TRUE]]
            /\ UNCHANGED finalOf
  /\ UNCHANGED <<transcriptVars, writerVars, scorerVars, callOver>>

requested == ~callOver /\ _minutes("so far")
finalMinutes == callOver /\ finalOf = NoFinal /\ _minutes("final")

\* What the model wrote, or else what the notes say by then.
minutes(kind, readable) ==
  /\ minuting[kind].running /\ minuting' = [minuting EXCEPT ![kind] = NotWriting]
  /\ finalOf' = IF kind # "final" THEN finalOf
                ELSE IF readable THEN minuting[kind].covers ELSE noted
  /\ UNCHANGED <<transcriptVars, writerVars, scorerVars, callOver>>

\* Job.stop cancels what the writer and the scorer wait for.
stop == asking' = {} /\ scoring' = FALSE

everyoneLeft ==
  /\ ~callOver /\ callOver' = TRUE
  /\ stop
  /\ UNCHANGED <<transcriptVars, noted, revision, tellable, latest>>
  /\ UNCHANGED <<lastHeard, toScore, ready, minutesVars>>

ScribeNext ==
  \/ \E who \in People0 \cup {TheAgent}, chars \in 1 .. MaxPending + 1, wanted \in Named :
       lineHeard(who, chars, wanted)
  \/ rewrite \/ (\E b \in BOOLEAN : rewritten(b))
  \/ \E r \in 1 .. MaxHeard : notesReceived(r)
  \/ score \/ scored
  \/ requested \/ finalMinutes
  \/ \E kind \in {"so far", "final"}, b \in BOOLEAN : minutes(kind, b)
  \/ everyoneLeft

ScribeSpec == ScribeInit /\ [][ScribeNext]_scribeVars

(***************************************************************************)
(* Properties.                                                             *)
(***************************************************************************)

\* Every line that was heard is in the notes, still to be written into them,
\* or was dropped because the scribe fell behind, whatever comes while the
\* model writes, fails or is cancelled; none is written from twice.
NothingUnwritten ==
  /\ 1 .. linesHeard = noted \cup idsOf(pending) \cup dropped
  /\ noted \cap idsOf(pending) = {}

\* Two people never have one label and nobody has the agent's, so no point
\* is put in somebody else's mouth.
LabelsTellApart ==
  /\ \A p \in DOMAIN labels : labels[p] # AgentLabel
  /\ \A p, q \in DOMAIN labels : p # q => labels[p] # labels[q]

\* While the call runs, a turn that waits to be scored has the scorer awake.
NoTurnSleeps == toScore # <<>> => ready

\* No line is lost or written from twice, labels tell people apart, and no
\* turn waits for a scorer that sleeps.
ScribeInv ==
  /\ NothingUnwritten
  /\ LabelsTellApart
  /\ NoTurnSleeps
=============================================================================
