------------------------------ MODULE MCRecording ------------------------------
(***************************************************************************)
(* Small instances of Recording for TLC.  Handlers, people and tracks are  *)
(* interchangeable: the specification never orders or names one of them.   *)
(***************************************************************************)
EXTENDS Recording, TLC

Symmetry == Permutations(Handlers) \cup Permutations(People) \cup Permutations(Tracks)
===============================================================================
