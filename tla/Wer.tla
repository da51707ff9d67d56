-------------------------------- MODULE Wer --------------------------------
(***************************************************************************)
(* The word error rate the evaluations report (dafter_evals.wer): a        *)
(* transcript is scored against what was really said by the substitutions, *)
(* deletions and insertions of the cheapest alignment.  The system takes   *)
(* one pair of texts and scores it.                                        *)
(***************************************************************************)
EXTENDS Naturals, Sequences, FiniteSets, FiniteSetsExt, SequencesExt

CONSTANTS Words,     \* words of the texts compared
          MaxScored   \* bound: words of a text

ASSUME WerAssumption == MaxScored \in Nat \ {0}

VARIABLES texts,   \* [reference, hypothesis]
          measured   \* << >>, or the score: substitutions, deletions, insertions

werVars == <<texts, measured>>

errors(c) == c[1] + c[2] + c[3]

\* Fewest errors, and of those the first in the order of the three counts.
cheapest(candidates) ==
  CHOOSE c \in candidates : \A d \in candidates :
    \/ errors(c) < errors(d)
    \/ /\ errors(c) = errors(d)
       /\ \/ c[1] < d[1]
          \/ c[1] = d[1] /\ c[2] <= d[2]

\* What the first i words of the one and the first j of the other cost, by what
\* shorter beginnings do.
costOf(reference, hypothesis, cost, i, j) ==
  IF j = 0 THEN <<0, i, 0>> ELSE IF i = 0 THEN <<0, 0, j>>
  ELSE IF reference[i] = hypothesis[j] THEN cost[<<i - 1, j - 1>>]
  ELSE LET s == cost[<<i - 1, j - 1>>]
           d == cost[<<i - 1, j>>]
           n == cost[<<i, j - 1>>]
       IN cheapest({<<s[1] + 1, s[2], s[3]>>, <<d[1], d[2] + 1, d[3]>>, <<n[1], n[2], n[3] + 1>>})

scoreOf(reference, hypothesis) ==
  LET cost[at \in (0 .. Len(reference)) \X (0 .. Len(hypothesis))] ==
        costOf(reference, hypothesis, cost, at[1], at[2])
  IN cost[<<Len(reference), Len(hypothesis)>>]

WerInit == /\ texts \in [reference : SeqOf(Words, MaxScored) \ {<<>>}, hypothesis : SeqOf(Words, MaxScored)]
           /\ measured = <<>>

measures == measured = <<>> /\ measured' = scoreOf(texts.reference, texts.hypothesis) /\ UNCHANGED texts

WerSpec == WerInit /\ [][measures]_werVars

(***************************************************************************)
(* Property.                                                               *)
(***************************************************************************)

\* An alignment pairs words of the one text with words of the other, in order;
\* the words equal in a pair are no error.
alignments(a, b) ==
  {p \in SUBSET ((DOMAIN a) \X (DOMAIN b)) : \A u, v \in p : u[1] < v[1] <=> u[2] < v[2]}
errorsOf(a, b, p) ==
  Cardinality({u \in p : a[u[1]] # b[u[2]]})
    + (Len(a) - Cardinality(p)) + (Len(b) - Cardinality(p))

\* No alignment has fewer errors than were measured, and the counts turn the
\* reference into a text as long as the transcript.
ErrorsAreFewest ==
  measured # <<>> =>
    LET a == texts.reference
        b == texts.hypothesis
    IN /\ Len(a) + measured[3] = Len(b) + measured[2]
       /\ errors(measured) = Min({errorsOf(a, b, p) : p \in alignments(a, b)})
=============================================================================
