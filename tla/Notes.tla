-------------------------------- MODULE Notes --------------------------------
(***************************************************************************)
(* What the scribe makes of the model's answer (dafter_scribe.notes): the  *)
(* answer is read field by field, whatever is no text is left out, and the *)
(* payload carries the notes with those the agent took.  A text is what    *)
(* its words are cut to; "" is one without words, or no text at all.  A    *)
(* field is a sequence of texts, NoList when it is no list.  The summary   *)
(* is one text; decisions stand for every field that is a list of lines.   *)
(***************************************************************************)
EXTENDS Naturals, Sequences, FiniteSets, Places, SequencesExt

CONSTANTS NoteTexts,     \* texts of decisions and points, without ""
          Summaries,     \* texts of the summary, without ""
          NoteLabels,    \* labels of speakers, [] taken off
          Transcribed,   \* those of the transcript the model was given
          Tellable,      \* those that stand for somebody when it is sent
          NoList,
          DECISIONS, POINTS, SPEAKERS, AGENT_NOTES,
          MaxField,      \* bound: entries of a field
          MaxTaken       \* bound: notes the agent takes

ASSUME NotesAssumption ==
  /\ "" \notin NoteTexts \cup Summaries /\ Transcribed \subseteq NoteLabels
  /\ {DECISIONS, POINTS, SPEAKERS, AGENT_NOTES, MaxField, MaxTaken} \subseteq Nat \ {0}

VARIABLES answered,   \* the arguments of the model's answer
          noteIds,    \* Writer.taken: notes the agent took
          payload     \* what was sent of it all, << >> for nothing yet

notesVars == <<answered, noteIds, payload>>

Upto(s, n) == SubSeq(s, 1, IF Len(s) < n THEN Len(s) ELSE n)
distinct(s) == standing(s, {i \in DOMAIN s : \A j \in 1 .. i - 1 : s[j] # s[i]})

lines(value, count) ==
  IF value = NoList THEN <<>>
  ELSE Upto(distinct(standing(value, {i \in DOMAIN value : value[i] # ""})), count)

\* Mutated form: an entry replaces the points of those before it.
pointsReplaced(entries, l) ==
  LET found[n \in 0 .. Len(entries)] ==
        IF n = 0 THEN <<>>
        ELSE IF entries[n].label # l \/ lines(entries[n].points, POINTS) = <<>> THEN found[n - 1]
        ELSE lines(entries[n].points, POINTS)
  IN found[Len(entries)]

\* The points of a label: those of every entry that names it, together.
pointsOf(entries, l) ==
  LET found[n \in 0 .. Len(entries)] ==
        IF n = 0 THEN <<>>
        ELSE IF entries[n].label # l \/ lines(entries[n].points, POINTS) = <<>> THEN found[n - 1]
        ELSE Upto(distinct(found[n - 1] \o lines(entries[n].points, POINTS)), POINTS)
  IN found[Len(entries)]

\* In the order a label has points first; nobody else is told of.
_speakers(entries, labels) ==
  LET found == {n \in DOMAIN entries :
                  entries[n].label \in labels /\ lines(entries[n].points, POINTS) # <<>>}
      named == standing(entries, {n \in found : \A m \in found : m < n => entries[m].label # entries[n].label})
  IN IF entries = NoList THEN <<>>
     ELSE Upto([i \in DOMAIN named |->
                  [label |-> named[i].label, points |-> pointsOf(entries, named[i].label)]], SPEAKERS)

\* Arguments that are no object, or carry no summary, are not notes.
unreadable(doc) == doc = NoList \/ doc.summary = ""
read_notes(doc, labels) ==
  [summary |-> doc.summary, decisions |-> lines(doc.decisions, DECISIONS),
   speakers |-> _speakers(doc.speakers, labels)]

with_note(taken, note) == IF \E i \in DOMAIN taken : taken[i] = note THEN taken ELSE Append(taken, note)

notes_payload(notes, taken) ==
  [summary |-> notes.summary, decisions |-> notes.decisions,
   speakers |-> standing(notes.speakers, {i \in DOMAIN notes.speakers : notes.speakers[i].label \in Tellable}),
   notes |-> SubSeq(taken, IF Len(taken) > AGENT_NOTES THEN Len(taken) - AGENT_NOTES + 1 ELSE 1, Len(taken))]

NotesInit == answered = NoList /\ noteIds = <<>> /\ payload = <<>>

Fields == {NoList} \cup SeqOf(NoteTexts \cup {""}, MaxField)
Arguments ==
  [summary : Summaries \cup {""}, decisions : Fields, speakers : {NoList}] \cup
  [summary : Summaries, decisions : {NoList},
   speakers : SeqOf([label : NoteLabels, points : Fields], MaxField)]

\* The event of a note the agent took may come again.
note(n) ==
  /\ payload = <<>> /\ (Len(noteIds) < MaxTaken \/ n \in ToSet(noteIds))
  /\ noteIds' = with_note(noteIds, n) /\ UNCHANGED <<answered, payload>>

\* The notes are rewritten from the answer, or the last ones stand.
answers(doc) ==
  /\ payload = <<>>
  /\ ~unreadable(doc)
  /\ answered' = doc
  /\ payload' = notes_payload(read_notes(doc, Transcribed), noteIds)
  /\ UNCHANGED noteIds

NotesNext == (\E n \in 1 .. MaxTaken : note(n)) \/ \E doc \in Arguments : answers(doc)
NotesSpec == NotesInit /\ [][NotesNext]_notesVars

(***************************************************************************)
(* Properties.                                                             *)
(***************************************************************************)
\* Where the answer says t of somebody: the entry and the place in it.
mentions(l, t) ==
  {m \in (1 .. MaxField) \X (1 .. MaxField) :
     /\ m[1] \in DOMAIN answered.speakers
     /\ answered.speakers[m[1]].label = l /\ answered.speakers[m[1]].points # NoList
     /\ m[2] \in DOMAIN answered.speakers[m[1]].points
     /\ answered.speakers[m[1]].points[m[2]] = t}
sooner(l, t, u) ==
  \E m \in mentions(l, t) : \A k \in mentions(l, u) : m[1] < k[1] \/ (m[1] = k[1] /\ m[2] < k[2])
pointsSaid(l) == {t \in NoteTexts : mentions(l, t) # {}}
peopleSaid == {l \in Transcribed : pointsSaid(l) # {}}

\* However often the model names somebody, the notes tell the first POINTS of
\* what it said of them, once each and in its order.
PointsInOrder ==
  \A i \in DOMAIN payload.speakers :
    LET l == payload.speakers[i].label
        points == payload.speakers[i].points
    IN /\ points # <<>> /\ ToSet(points) \subseteq pointsSaid(l)
       /\ \A j, k \in DOMAIN points : points[j] = points[k] => j = k
       /\ \A t \in pointsSaid(l), k \in DOMAIN points :
            sooner(l, t, points[k]) => \E j \in 1 .. k - 1 : points[j] = t
       /\ Len(points) <= POINTS /\ (Len(points) < POINTS => pointsSaid(l) \subseteq ToSet(points))

\* Nobody is told of twice, or who is not in the transcript; who may be told
\* of is, unless there are more people than SPEAKERS.
EverybodyOnce ==
  /\ \A i \in DOMAIN payload.speakers :
       /\ payload.speakers[i].label \in Transcribed \cap Tellable
       /\ \A j \in DOMAIN payload.speakers :
            payload.speakers[j].label = payload.speakers[i].label => i = j
  /\ answered.speakers # NoList /\ Cardinality(peopleSaid) <= SPEAKERS =>
       \A l \in peopleSaid \cap Tellable :
         \E i \in DOMAIN payload.speakers : payload.speakers[i].label = l

\* The notes the agent took are told once each, and the last ones of them.
LastTaken ==
  /\ \A i, j \in DOMAIN noteIds : noteIds[i] = noteIds[j] => i = j
  /\ payload # <<>> =>
       LET told == Len(payload.notes) IN
       /\ told = IF Len(noteIds) < AGENT_NOTES THEN Len(noteIds) ELSE AGENT_NOTES
       /\ \A i \in 1 .. told : payload.notes[i] = noteIds[Len(noteIds) - told + i]

EverybodysPoints == (payload # <<>> => PointsInOrder /\ EverybodyOnce) /\ LastTaken
=============================================================================
