-------------------------------- MODULE Evals --------------------------------
(***************************************************************************)
(* What the evaluations report of a run, the word error rate of what was   *)
(* transcribed (Wer) and whether she stopped when somebody talked over her *)
(* (Overlaps); the two are measured apart.                                 *)
(***************************************************************************)
EXTENDS Wer, Overlaps

\* The evaluations tell the truth: the fewest word errors, and whether she
\* stopped when somebody talked over her.
EvalsInv == ErrorsAreFewest /\ OverlapsInv
=============================================================================
