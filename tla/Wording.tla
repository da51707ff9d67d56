------------------------------- MODULE Wording -------------------------------
(***************************************************************************)
(* The pure readings of a line: naming (words, names, what a line asks of  *)
(* the agent), noise.Meaning and own_voice.recognized_as.  The system      *)
(* takes one case and computes its reading, so that each is compared with  *)
(* what it promises.  A letter, a word and a sign are abstract values; in  *)
(* a text " " stands for what separates words, "," for a BREAK, "'" for a  *)
(* JOINER, and in a word a letter's neighbours are what prefixes compare.  *)
(***************************************************************************)
EXTENDS Naturals, Sequences, FiniteSets, SequencesExt, Places

CONSTANTS Letters,     \* letters, marks and digits
          MaxLetters,  \* bound: letters of a word compared
          MaxChars,    \* bound: characters of a text
          Vocabulary,  \* words of a line
          MaxLine,     \* bound: words of a line
          Names,       \* the spellings of her name, sequences of words
          Fuzzy,       \* words one edit from a single-word name, long enough
          NearMisses, Particles, Followers, StopLines, Strays, Phrases

Signs == {" ", ",", "'"}

ASSUME WordingAssumption ==
  /\ {MaxLetters, MaxChars, MaxLine} \subseteq Nat
  /\ Letters \cap Signs = {}
  /\ Names \cup Phrases \subseteq Seq(Vocabulary) \ {<<>>}

VARIABLES case,     \* what is read
          done,     \* it was
          reading   \* as what

wordingVars == <<case, done, reading>>

atMost(S, n) == UNION {[1 .. k -> S] : k \in 0 .. n}
Lines == [words : atMost(Vocabulary, MaxLine), breaks : SUBSET (1 .. MaxLine - 1)]

(***************************************************************************)
(* Words.                                                                  *)
(***************************************************************************)
\* Mutated form: a replaced letter counts as two edits.
one_inserted(a, b) ==
  LET short == IF Len(a) > Len(b) THEN b ELSE a
      long == IF Len(a) > Len(b) THEN a ELSE b
  IN \/ a = b
     \/ \E i \in 0 .. Len(short) :
          SubSeq(long, 1, i) \o SubSeq(long, i + 2, Len(long)) = short

\* The two words are equal but for one letter added, left out or replaced.
within_one_edit(a, b) ==
  LET short == IF Len(a) > Len(b) THEN b ELSE a
      long == IF Len(a) > Len(b) THEN a ELSE b
      i == CHOOSE k \in 0 .. Len(short) :
             /\ \A n \in 1 .. k : short[n] = long[n]
             /\ k < Len(short) => short[k + 1] # long[k + 1]
  IN /\ Len(long) - Len(short) <= 1
     /\ IF Len(a) = Len(b)
          THEN SubSeq(short, i + 2, Len(short)) = SubSeq(long, i + 2, Len(long))
          ELSE SubSeq(short, i + 1, Len(short)) = SubSeq(long, i + 2, Len(long))

Stem == 4
Prefix == 3
recognized_as(heard, spoken) ==
  \/ heard = spoken
  \/ Len(heard) >= Prefix /\ IsPrefix(heard, spoken)
  \/ Len(spoken) >= Stem /\ IsPrefix(spoken, heard)
  \/ Len(heard) >= Stem /\ Len(spoken) >= Stem /\ within_one_edit(heard, spoken)

\* The words of a scan so far, with the one it is in.
wordsOf(s) == IF s.word = <<>> THEN s.words ELSE Append(s.words, s.word)

\* One character of the scan; a joiner inside a word is left out.
scanned(s, c) ==
  CASE c \in Letters -> [s EXCEPT !.word = Append(@, c)]
    [] c = "'" /\ s.word # <<>> -> s
    [] OTHER -> [words |-> wordsOf(s), word |-> <<>>,
                 breaks |-> s.breaks \cup IF c = "," THEN {Len(wordsOf(s))} ELSE {}]

\* tokens: the words of a text, and the gaps (0, 1, ...) that hold a break.
tokens(text) ==
  LET loop[n \in 0 .. Len(text)] ==
        IF n = 0 THEN [words |-> <<>>, word |-> <<>>, breaks |-> {0}]
        ELSE scanned(loop[n - 1], text[n])
      ws == wordsOf(loop[Len(text)])
  IN [words |-> ws, breaks |-> loop[Len(text)].breaks \cup {Len(ws)}]

(***************************************************************************)
(* Matcher.  A line is its words and the gaps that hold a break; gap 0 and *)
(* the last are breaks.                                                    *)
(***************************************************************************)
breakAt(line, gap) == gap \in line.breaks \cup {0, Len(line.words)}

_is_name_word(w) == <<w>> \in Names \/ (w \in Fuzzy /\ w \notin NearMisses)

\* The length of the longest spelling that begins at word i, or 0.
_name_at(line, i) ==
  LET matches(s) == IF Len(s) = 1 THEN _is_name_word(line.words[i])
                    ELSE /\ i + Len(s) - 1 <= Len(line.words)
                         /\ SubSeq(line.words, i, i + Len(s) - 1) = s
  IN Max({0} \cup {Len(s) : s \in {t \in Names : matches(t)}})

\* One round of the loop of _spans, at word s.i.
spanned(line, s) ==
  LET n == _name_at(line, s.i) IN
  IF s.i > Len(line.words) THEN s
  ELSE IF n > 0 THEN [i |-> s.i + n, spans |-> s.spans \cup {<<s.i, s.i + n>>}]
  ELSE [s EXCEPT !.i = @ + 1]

\* The words a span begins at and ends before, from the left without overlap.
_spans(line) ==
  LET loop[n \in 0 .. Len(line.words)] ==
        IF n = 0 THEN [i |-> 1, spans |-> {}] ELSE spanned(line, loop[n - 1])
  IN loop[Len(line.words)].spans

\* Spoken to by name: alone between breaks, or at the front of the line.
_vocative(line, start, end) ==
  \/ breakAt(line, start - 1) /\ breakAt(line, end - 1)
  \/ /\ start - 1 <= 2                           \* MAX_LEADING_PARTICLES
     /\ \A k \in 1 .. start - 1 : line.words[k] \in Particles
     /\ \/ breakAt(line, end - 1) \/ end > Len(line.words)
        \/ line.words[end] \notin Followers

_rest(line) ==
  LET named == UNION {s[1] .. s[2] - 1 : s \in _spans(line)}
  IN standing(line.words, {i \in DOMAIN line.words : i \notin named /\ line.words[i] \notin Particles})

hear(line) ==
  LET called == \E s \in _spans(line) : _vocative(line, s[1], s[2])
  IN CASE called /\ _rest(line) \in StopLines -> "STOPPED"
       [] called /\ _rest(line) \notin StopLines -> "CALLED"
       [] ~called /\ _spans(line) = {} /\ _rest(line) \in StopLines -> "STOP"
       [] OTHER -> "ASIDE"

(***************************************************************************)
(* Meaning: what a line says once acknowledgements and fillers are out.    *)
(***************************************************************************)
_phrase_at(said, at) ==
  Max({0} \cup {Len(p) : p \in {q \in Phrases :
                  /\ at + Len(q) - 1 <= Len(said)
                  /\ SubSeq(said, at, at + Len(q) - 1) = q}})

\* One round of the loop of _parse, at word s.at.
parsed(said, s) ==
  LET n == _phrase_at(said, s.at) IN
  IF s.at > Len(said) THEN s
  ELSE IF n > 0 THEN [s EXCEPT !.at = @ + n, !.acknowledged = TRUE]
  ELSE IF said[s.at] \in Strays THEN [s EXCEPT !.at = @ + 1]
  ELSE [s EXCEPT !.at = @ + 1, !.kept = Append(@, said[s.at])]

_parse(said) ==
  LET loop[n \in 0 .. Len(said)] ==
        IF n = 0 THEN [at |-> 1, kept |-> <<>>, acknowledged |-> FALSE]
        ELSE parsed(said, loop[n - 1])
  IN loop[Len(said)]

acknowledges(said) == LET p == _parse(said) IN p.acknowledged /\ p.kept = <<>>

(***************************************************************************)
(* One case, one reading.                                                  *)
(***************************************************************************)
WordingInit ==
  /\ done = FALSE /\ reading = {}
  /\ \/ \E a, b \in atMost(Letters, MaxLetters) : case = [of |-> "edit", a |-> a, b |-> b]
     \/ \E t \in atMost(Letters \cup Signs, MaxChars) : case = [of |-> "text", text |-> t]
     \/ \E l \in Lines : case = [of |-> "line", line |-> l]

compared == case.of = "edit" /\ reading' = [edit |-> within_one_edit(case.a, case.b),
                                            same |-> recognized_as(case.a, case.b)]
tokenized == case.of = "text" /\ reading' = tokens(case.text)
understood == /\ case.of = "line"
              /\ reading' = [heard |-> hear(case.line),
                             acknowledges |-> acknowledges(case.line.words)]

WordingNext ==
  /\ ~done /\ done' = TRUE /\ UNCHANGED case
  /\ compared \/ tokenized \/ understood

WordingSpec == WordingInit /\ [][WordingNext]_wordingVars
read(kind) == done /\ case.of = kind

(***************************************************************************)
(* Properties.                                                             *)
(***************************************************************************)

\* within_one_edit is the edit distance: equal, or one letter inserted into
\* the one or replaced in it gives the other.
drop(s, i) == [j \in 1 .. Len(s) - 1 |-> s[IF j < i THEN j ELSE j + 1]]
OneEdit ==
  read("edit") =>
    LET a == case.a
        b == case.b
    IN reading.edit <=> \/ a = b
                        \/ \E i \in 1 .. Len(a) : b = drop(a, i)
                        \/ \E i \in 1 .. Len(b) : a = drop(b, i)
                        \/ \E i \in (1 .. Len(a)) \cap (1 .. Len(b)) :
                             drop(a, i) = drop(b, i) /\ Len(a) = Len(b)

\* Where a word begins: at a letter with none before it but for joiners in
\* between; i is in the wordAt(t, i)-th word, or behind it.
wordStarts(t) ==
  {i \in DOMAIN t : /\ t[i] \in Letters
                    /\ \A k \in 1 .. i - 1 :
                         t[k] \in Letters => \E j \in k + 1 .. i - 1 : t[j] \notin Letters \cup {"'"}}
wordAt(t, i) == Cardinality({s \in wordStarts(t) : s <= i})

\* Each letter of a text is in the word it was written in, and a break in the
\* gap it was written in.
TokensAsWritten ==
  read("text") =>
    LET t == case.text
        count == Cardinality(wordStarts(t))
    IN reading = [words |-> [n \in 1 .. count |->
                              standing(t, {i \in DOMAIN t : t[i] \in Letters /\ wordAt(t, i) = n})],
                  breaks |-> {0, count} \cup {wordAt(t, i) : i \in {k \in DOMAIN t : t[k] = ","}}]

\* Whoever called her by name before a pause called her whatever they say
\* after it, unless the name goes on behind the pause ("Asha, Rao" for one who
\* is called both Asha and Asha Rao).
CalledStaysCalled ==
  read("line") =>
    LET line == case.line
        before(gap) == [line EXCEPT !.words = SubSeq(@, 1, gap)]
    IN \A gap \in line.breaks \cap (1 .. Len(line.words)) :
         /\ \A s \in _spans(line) : s[1] <= gap => s[2] <= gap + 1
         /\ hear(before(gap)) \in {"CALLED", "STOPPED"}
         => reading.heard \in {"CALLED", "STOPPED"}

\* The first m words of w are put together from parts.
madeOf(w, m, parts) ==
  \E S \in SUBSET (0 .. m) :
    /\ {0, m} \subseteq S
    /\ \A a \in S : a < m => \E b \in S : a < b /\ SubSeq(w, a + 1, b) \in parts

\* No phrase can be taken for the beginning of another: where it is one, what
\* the other goes on with begins no phrase, or is all of those it begins.
Unambiguous ==
  \A p, q \in Phrases :
    Len(q) < Len(p) /\ IsPrefix(q, p) =>
      LET r == SubSeq(p, Len(q) + 1, Len(p)) IN \A o \in Phrases : o[1] = r[1] => o = r

\* What says nothing to the gate is made of acknowledgements and fillers, one
\* of them an acknowledgement; and what is made of acknowledgements alone says
\* nothing, however it is put together.
SaysNothing ==
  read("line") =>
    LET w == case.line.words
        fillers == {<<x>> : x \in Strays}
    IN /\ reading.acknowledges =>
            /\ madeOf(w, Len(w), Phrases \cup fillers)
            /\ \E a, b \in 1 .. Len(w) : SubSeq(w, a, b) \in Phrases
       /\ Unambiguous /\ w # <<>> /\ madeOf(w, Len(w), Phrases) => reading.acknowledges

\* What the words of a line are taken for: one edit, words and the breaks
\* between them, her name, and acknowledgements that say nothing.
WordingInv ==
  /\ OneEdit
  /\ TokensAsWritten
  /\ CalledStaysCalled
  /\ SaysNothing
=============================================================================
