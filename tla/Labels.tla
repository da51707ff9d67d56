-------------------------------- MODULE Labels --------------------------------
(***************************************************************************)
(* A model answers with the label of a speaker in front of a line now and  *)
(* then ("[Asha] ..."); labels.Lines takes it out of a stream before it is *)
(* spoken, however the text is cut into chunks.  A character is "[", "]",  *)
(* a new line "n", a space " ", or a letter; a label is at most LongName   *)
(* letters long.                                                           *)
(***************************************************************************)
EXTENDS Naturals, Sequences, FiniteSets, Places

CONSTANTS Glyphs,      \* letters of a text
          LongName,    \* 80 in LABEL
          LongestHeld, \* LONGEST_LABEL
          MaxText      \* bound: characters of a text

ASSUME LabelsAssumption ==
  {LongName, LongestHeld, MaxText} \subseteq Nat /\ LongName + 1 < LongestHeld

VARIABLES text,        \* what the model answers
          came,       \* how much of it came
          heldText, lineStart,   \* Lines._held, Lines._line_start
          saidOut,      \* what was passed on
          calledTool,  \* a tool call stood between two pieces
          over         \* the answer is over

labelsVars == <<text, came, heldText, lineStart, saidOut, calledTool, over>>

Chars == Glyphs \cup {"[", "]", "n", " "}
Space == {" ", "n"}
Texts0 == UNION {[1 .. k -> Chars] : k \in 0 .. MaxText}

LabelsInit ==
  /\ text \in Texts0 /\ came = 0
  /\ heldText = <<>> /\ lineStart = TRUE /\ saidOut = <<>>
  /\ calledTool = FALSE /\ over = FALSE

\* The place of the first character at or after i that is not a space.
lstrip(s, i) == CHOOSE k \in i .. Len(s) + 1 :
                  /\ k <= Len(s) => s[k] \notin Space
                  /\ \A j \in i .. k - 1 : s[j] \in Space

from(s, i) == SubSeq(s, i, Len(s))

\* Mutated form: the start of a line is never held back until it is decided.
decidedAtOnce(line) == FALSE

_undecided(line) ==
  LET said == from(line, lstrip(line, 1)) IN
  \/ said = <<>>
  \/ /\ said[1] = "[" /\ Len(said) < LongestHeld
     /\ \A i \in 1 .. Len(said) : said[i] \notin {"]", "n"}

\* LABEL: where the text goes on behind a label and its spaces, or 1.
labelEnd(line) ==
  LET b == lstrip(line, 1)
      ends == {k \in b + 2 .. Len(line) :
                 /\ line[b] = "[" /\ line[k] = "]" /\ k - b - 1 <= LongName
                 /\ \A j \in b + 1 .. k - 1 : line[j] \notin {"]", "n"}}
  IN IF ends = {} THEN 1 ELSE lstrip(line, 1 + CHOOSE k \in ends : TRUE)

\* One round of the loop of feed: a label is taken from the start of a line, or
\* what is held is spoken up to the end of the line.
round(s) ==
  LET newlines == {k \in 1 .. Len(s.held) : s.held[k] = "n"}
      end == CHOOSE k \in newlines : \A j \in newlines : k <= j
  IN CASE s.held = <<>> \/ (s.start /\ _undecided(s.held)) -> s
       [] s.held # <<>> /\ s.start /\ ~_undecided(s.held) ->
            [s EXCEPT !.held = from(@, labelEnd(@)), !.start = FALSE]
       [] s.held # <<>> /\ ~s.start /\ newlines = {} ->
            [s EXCEPT !.spoken = @ \o s.held, !.held = <<>>]
       [] OTHER ->
            [spoken |-> s.spoken \o SubSeq(s.held, 1, end),
             held |-> from(s.held, end + 1), start |-> TRUE]

\* Lines.feed: what is spoken of what was held and came, what stays held.  A
\* line takes two rounds at the most.
feed(all, atStart) ==
  LET rounds == 2 * Len(all) + 1
      loop[n \in 0 .. rounds] ==
        IF n = 0 THEN [spoken |-> <<>>, held |-> all, start |-> atStart]
        ELSE round(loop[n - 1])
  IN loop[rounds]

\* A piece of n characters of the answer (unlabeled).
piece(n) ==
  /\ came + n <= Len(text) /\ came' = came + n
  /\ LET fed == feed(heldText \o SubSeq(text, came + 1, came + n), lineStart) IN
     /\ saidOut' = saidOut \o fed.spoken
     /\ heldText' = fed.held /\ lineStart' = fed.start
  /\ UNCHANGED <<text, calledTool, over>>

rest0 == saidOut' = saidOut \o heldText /\ heldText' = <<>>

\* A tool call comes: what is held is passed on before it.
toolPiece ==
  /\ ~calledTool /\ ~over /\ came > 0 /\ calledTool' = TRUE
  /\ rest0
  /\ UNCHANGED <<text, came, lineStart, over>>

lastPiece ==
  /\ ~over /\ came = Len(text) /\ over' = TRUE
  /\ rest0
  /\ UNCHANGED <<text, came, lineStart, calledTool>>

LabelsNext == (\E n \in 1 .. MaxText : piece(n)) \/ toolPiece \/ lastPiece
LabelsSpec == LabelsInit /\ [][LabelsNext]_labelsVars

(***************************************************************************)
(* Properties.                                                             *)
(***************************************************************************)

\* The labels of a text: at the front of a line, from the place of "[" to that
\* of "]".
labelsOf(t) ==
  {l \in (DOMAIN t) \X (DOMAIN t) :
     /\ t[l[1]] = "[" /\ t[l[2]] = "]" /\ l[2] - l[1] - 1 \in 1 .. LongName
     /\ \A j \in l[1] + 1 .. l[2] - 1 : t[j] \notin {"]", "n"}
     /\ \E a \in 0 .. l[1] - 1 : /\ a > 0 => t[a] = "n"
                                 /\ \A j \in a + 1 .. l[1] - 1 : t[j] \in Space}

inLabel(t, i) == \E l \in labelsOf(t) : i \in l[1] .. l[2]

spelled(t) == standing(t, {i \in DOMAIN t : t[i] \notin Space})

\* A label on a line of its own is taken with the line break behind it, so the
\* next line is not looked at when both come together.
labelAlone(t) ==
  \E l \in labelsOf(t) : \E e \in l[2] + 1 .. Len(t) :
    t[e] = "n" /\ \A j \in l[2] + 1 .. e : t[j] \in Space

\* However the answer is cut, every letter outside its labels is spoken, in
\* order, and no letter of a label is.  A tool call may stand in the middle of
\* a label, which then goes through.
LabelsAreTakenOut ==
  over /\ ~calledTool /\ ~labelAlone(text) =>
    spelled(saidOut) = standing(text, {i \in DOMAIN text : text[i] \notin Space /\ ~inLabel(text, i)})
=============================================================================
