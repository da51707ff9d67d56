----------------------------- MODULE SessionMutex -----------------------------
(***************************************************************************)
(* What sessionLocks (go/internal/control/locks.go) promises its callers   *)
(* joinSession and roomFinished: of the handlers that ask for one session, *)
(* one is inside at a time, and handlers of different sessions never wait  *)
(* for each other.                                                         *)
(***************************************************************************)
CONSTANTS
  Users,      \* goroutines that call lock
  Sessions,   \* session ids
  None

VARIABLES
  phase,   \* phase[u]: "out", "waiting" inside lock(), or "inside"
  want     \* want[u]: the session u asked for, None while it is out

mutexVars == <<phase, want>>

Init ==
  /\ phase = [u \in Users |-> "out"]
  /\ want = [u \in Users |-> None]

\* u calls lock(s).
Ask(u, s) ==
  /\ phase[u] = "out"
  /\ phase' = [phase EXCEPT ![u] = "waiting"]
  /\ want' = [want EXCEPT ![u] = s]

\* lock(s) returns to u: nobody else is inside s.
Grant(u) ==
  /\ phase[u] = "waiting"
  /\ \A v \in Users : ~ (phase[v] = "inside" /\ want[v] = want[u])
  /\ phase' = [phase EXCEPT ![u] = "inside"]
  /\ UNCHANGED want

\* u calls the function lock returned.
Release(u) ==
  /\ phase[u] = "inside"
  /\ phase' = [phase EXCEPT ![u] = "out"]
  /\ want' = [want EXCEPT ![u] = None]

Next == \E u \in Users : Grant(u) \/ Release(u) \/ \E s \in Sessions : Ask(u, s)

Spec == Init /\ [][Next]_mutexVars
===============================================================================
