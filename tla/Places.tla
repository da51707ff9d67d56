------------------------------- MODULE Places -------------------------------
(***************************************************************************)
(* What stands at some places of a sequence, the order kept.               *)
(***************************************************************************)
EXTENDS Naturals, Sequences, FiniteSets

\* The places in S, the first one first, and what stands at them in t.
placed(S) == [n \in 1 .. Cardinality(S) |-> CHOOSE k \in S : Cardinality({j \in S : j <= k}) = n]
standing(t, S) == [n \in 1 .. Cardinality(S) |-> t[placed(S)[n]]]
=============================================================================
