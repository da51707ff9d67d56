------------------------------- MODULE Releases -------------------------------
(***************************************************************************)
(* What the configuration store promises those who resolve sessions with   *)
(* it: releases are made one after the other and never change, a process   *)
(* runs one that loads, and while it runs it only ever moves to a newer    *)
(* one.                                                                    *)
(***************************************************************************)
EXTENDS Naturals, Sequences

CONSTANTS
  Servers,  \* processes that run a release
  Loadable  \* the sets of documents that resolve every session

VARIABLES
  made,    \* the releases, oldest first
  running  \* the release each process runs, 0 while it runs none

releasesVars == <<made, running>>

Init == made = <<>> /\ running = [s \in Servers |-> 0]

\* One more is made, and those made before it stay as they are.
Make ==
  /\ Len(made') = Len(made) + 1
  /\ \A n \in DOMAIN made : made'[n] = made[n]
  /\ UNCHANGED running

Move(s, n) ==
  /\ running[s] < n
  /\ made[n] \in Loadable
  /\ running' = [running EXCEPT ![s] = n]
  /\ UNCHANGED made

Stop(s) == running' = [running EXCEPT ![s] = 0] /\ UNCHANGED made

Next ==
  \/ Make
  \/ \E s \in Servers : Stop(s) \/ \E n \in DOMAIN made : Move(s, n)

Spec == Init /\ [][Next]_releasesVars
=============================================================================
