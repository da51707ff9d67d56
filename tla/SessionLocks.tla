----------------------------- MODULE SessionLocks -----------------------------
(***************************************************************************)
(* The per-session locks of go/internal/control/locks.go: a map from       *)
(* session id to a mutex that is made for the first handler that asks and  *)
(* removed with the last one that leaves, guarded by a mutex of its own.   *)
(* An entry that is removed while somebody still refers to it would give   *)
(* the same session two mutexes, so entries have identities here.          *)
(***************************************************************************)
EXTENDS Naturals, FiniteSets

CONSTANTS
  Users,      \* goroutines that call lock
  Sessions,   \* session ids
  Entries,    \* *sessionLock values; one is new again once nothing refers to it
  None

ASSUME UsersAssumption == IsFiniteSet(Users) /\ None \notin Users
ASSUME EntriesAssumption == None \notin Entries
ASSUME SessionsAssumption == None \notin Sessions

VARIABLES
  lmu,     \* who holds l.mu
  locks,   \* l.locks: the entry of each session, None where there is none
  mu,      \* mu[e]: who holds e.mu
  refs,    \* refs[e]: e.refs
  pc,      \* pc[u]: where u is in lock or in the function it returned
  key,     \* key[u]: the session id u passed to lock
  entry    \* entry[u]: the entry u refers to

vars == <<lmu, locks, mu, refs, pc, key, entry>>

Init ==
  /\ lmu = None
  /\ locks = [s \in Sessions |-> None]
  /\ mu = [e \in Entries |-> None]
  /\ refs = [e \in Entries |-> 0]
  /\ pc = [u \in Users |-> "out"]
  /\ key = [u \in Users |-> None]
  /\ entry = [u \in Users |-> None]

\* lock(s) begins and takes l.mu.
Call(u, s) ==
  /\ pc[u] = "out"
  /\ lmu = None
  /\ lmu' = u
  /\ pc' = [pc EXCEPT ![u] = "find"]
  /\ key' = [key EXCEPT ![u] = s]
  /\ UNCHANGED <<locks, mu, refs, entry>>

\* An entry that &sessionLock{} may return.
Unused(e) ==
  /\ \A s \in Sessions : locks[s] # e
  /\ \A u \in Users : entry[u] # e

\* u's session has entry e: u counts itself in and gives l.mu back.
Refer(u, e) ==
  /\ entry' = [entry EXCEPT ![u] = e]
  /\ pc' = [pc EXCEPT ![u] = "wait"]
  /\ lmu' = None
  /\ UNCHANGED key

\* The session has an entry already.
Find(u) ==
  LET e == locks[key[u]]
  IN  /\ pc[u] = "find"
      /\ e # None
      /\ refs' = [refs EXCEPT ![e] = @ + 1]
      /\ Refer(u, e)
      /\ UNCHANGED <<locks, mu>>

\* The session gets a new entry.
Make(u, e) ==
  /\ pc[u] = "find"
  /\ locks[key[u]] = None
  /\ Unused(e)
  /\ locks' = [locks EXCEPT ![key[u]] = e]
  /\ mu' = [mu EXCEPT ![e] = None]
  /\ refs' = [refs EXCEPT ![e] = 1]
  /\ Refer(u, e)

\* entry.mu.Lock() returns, and lock with it.
Acquire(u) ==
  /\ pc[u] = "wait"
  /\ mu[entry[u]] = None
  /\ mu' = [mu EXCEPT ![entry[u]] = u]
  /\ pc' = [pc EXCEPT ![u] = "in"]
  /\ UNCHANGED <<lmu, locks, refs, key, entry>>

\* Mutated form: the returned function only counts its caller out.
UnlockForgotten(u) ==
  /\ pc[u] = "in"
  /\ pc' = [pc EXCEPT ![u] = "unlocked"]
  /\ UNCHANGED <<lmu, locks, mu, refs, key, entry>>

\* The returned function begins: entry.mu.Unlock().
Unlock(u) ==
  /\ pc[u] = "in"
  /\ mu' = [mu EXCEPT ![entry[u]] = None]
  /\ pc' = [pc EXCEPT ![u] = "unlocked"]
  /\ UNCHANGED <<lmu, locks, refs, key, entry>>

\* ... and takes l.mu to count itself out.
Return(u) ==
  /\ pc[u] = "unlocked"
  /\ lmu = None
  /\ lmu' = u
  /\ pc' = [pc EXCEPT ![u] = "drop"]
  /\ UNCHANGED <<locks, mu, refs, key, entry>>

\* Mutated form: the entry goes with the first handler that leaves.
DropFirst(u) ==
  /\ pc[u] = "drop"
  /\ refs' = [refs EXCEPT ![entry[u]] = @ - 1]
  /\ locks' = [locks EXCEPT ![key[u]] = None]
  /\ lmu' = None
  /\ pc' = [pc EXCEPT ![u] = "out"]
  /\ key' = [key EXCEPT ![u] = None]
  /\ entry' = [entry EXCEPT ![u] = None]
  /\ UNCHANGED mu

\* The last handler that refers to the entry takes it out of the map.
Drop(u) ==
  /\ pc[u] = "drop"
  /\ refs' = [refs EXCEPT ![entry[u]] = @ - 1]
  /\ locks' = [locks EXCEPT ![key[u]] = IF refs[entry[u]] = 1 THEN None ELSE @]
  /\ lmu' = None
  /\ pc' = [pc EXCEPT ![u] = "out"]
  /\ key' = [key EXCEPT ![u] = None]
  /\ entry' = [entry EXCEPT ![u] = None]
  /\ UNCHANGED mu

\* What a handler that called lock goes on to do.
Proceed(u) ==
  \/ Find(u) \/ Acquire(u) \/ Unlock(u) \/ Return(u) \/ Drop(u)
  \/ \E e \in Entries : Make(u, e)

Next == \E u \in Users : Proceed(u) \/ \E s \in Sessions : Call(u, s)

Spec == Init /\ [][Next]_vars

(* A handler that holds the lock comes to its end, and a Go mutex does not  *)
(* starve a waiter (sync.Mutex's starvation mode).                         *)
FairSpec ==
  Spec /\ \A u \in Users : WF_vars(Proceed(u)) /\ SF_vars(Acquire(u)) /\ SF_vars(Return(u))

-------------------------------------------------------------------------------
(* Properties.                                                             *)

PCs == {"out", "find", "wait", "in", "unlocked", "drop"}

\* Types.
TypeOK ==
  /\ lmu \in Users \cup {None}
  /\ locks \in [Sessions -> Entries \cup {None}]
  /\ mu \in [Entries -> Users \cup {None}]
  /\ refs \in [Entries -> Nat]
  /\ pc \in [Users -> PCs]
  /\ key \in [Users -> Sessions \cup {None}]
  /\ entry \in [Users -> Entries \cup {None}]

\* The handlers that refer to entry e.
Referrers(e) == {u \in Users : entry[u] = e}

\* l.mu is held exactly by who is in a section it guards.
GuardHeld == \A u \in Users : lmu = u <=> pc[u] \in {"find", "drop"}

\* A handler keeps its session id and its entry as long as it needs them.
Holding ==
  \A u \in Users : /\ key[u] # None <=> pc[u] # "out"
                   /\ entry[u] # None <=> pc[u] \in {"wait", "in", "unlocked", "drop"}

\* The entry a handler refers to is the one its session has in the map.
EntryIsMapped == \A u \in Users : entry[u] # None => locks[key[u]] = entry[u]

\* Two sessions never share an entry.
MapInjective == \A s, t \in Sessions : locks[s] = locks[t] /\ locks[s] # None => s = t

\* An entry's count is the number of handlers that refer to it.
RefsCount ==
  \A s \in Sessions, e \in Entries : locks[s] = e => refs[e] = Cardinality(Referrers(e))

\* An entry's mutex is held exactly by the handler that is inside.
MutexHeld == \A u \in Users, e \in Entries :
               mu[e] = u <=> pc[u] = "in" /\ entry[u] = e

\* The map holds no entry nobody refers to, so an idle control plane holds
\* none at all: what locks_internal_test.go asks of held().
NothingLeftBehind ==
  \A s \in Sessions, e \in Entries : locks[s] = e => \E u \in Users : entry[u] = e

\* Handlers of one session are inside one at a time.
MutualExclusion ==
  \A u, v \in Users : pc[u] = "in" /\ pc[v] = "in" /\ key[u] = key[v] => u = v

\* All of this together is inductive: the map, the counts and the mutexes of
\* the entries always agree with what the handlers refer to.
IndInv ==
  /\ TypeOK
  /\ GuardHeld
  /\ Holding
  /\ EntryIsMapped
  /\ MapInjective
  /\ RefsCount
  /\ MutexHeld
  /\ NothingLeftBehind

\* Every handler that asks for a session's lock gets it.
LockIsServed == \A u \in Users : pc[u] \in {"find", "wait"} ~> pc[u] = "in"

-------------------------------------------------------------------------------
(* The refinement: a handler is outside again from entry.mu.Unlock() on.   *)

Phase(u) ==
  IF pc[u] \in {"find", "wait"} THEN "waiting" ELSE IF pc[u] = "in" THEN "inside" ELSE "out"

Mutex == INSTANCE SessionMutex
  WITH phase <- [u \in Users |-> Phase(u)],
       want <- [u \in Users |-> IF Phase(u) = "out" THEN None ELSE key[u]]

\* SessionLocks implements SessionMutex: no step of it grants a session's lock
\* while somebody is inside.
ImplementsMutex == Mutex!Spec
===============================================================================
