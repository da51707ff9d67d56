------------------------------- MODULE MCDialIn -------------------------------
(***************************************************************************)
(* A small instance of DialIn for TLC: a caller who may be admitted to two *)
(* meetings, or one who keys PINs for a meeting while the process may      *)
(* restart.                                                                *)
(***************************************************************************)
EXTENDS DialIn, TLC

CONSTANTS c1, s1

Symmetry == Permutations(Pins)

TwoMeetings == asked'[c1] <= PinAttempts /\ crashes' = 0
OneMeeting == pin'[s1] = None /\ \A s \in Sessions : numbers'[s] = {}

Scenes == TwoMeetings \/ OneMeeting
===============================================================================
