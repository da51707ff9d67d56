---------------------------- MODULE ServerProofs ----------------------------
(***************************************************************************)
(* Proofs about what the handlers of one process and the processes of one  *)
(* installation share: the lock of a session and the stored configuration. *)
(* The two stand alone.                                                    *)
(***************************************************************************)
EXTENDS SessionLocks, ConfigStore, FiniteSetTheorems, SequenceTheorems, TLAPS

-----------------------------------------------------------------------------
(***************************************************************************)
(* SessionLocks, for every set of handlers, sessions and entries: IndInv   *)
(* is inductive, so a session's lock excludes and an entry leaves the map  *)
(* exactly with its last handler, and SessionLocks implements              *)
(* SessionMutex.                                                           *)
(***************************************************************************)

\* The handlers that refer to an entry are finitely many.
LEMMA ReferrersFinite ==
  ASSUME NEW e
  PROVE  IsFiniteSet(Referrers(e)) /\ Cardinality(Referrers(e)) \in Nat
BY UsersAssumption, FS_Subset, FS_CardinalityType DEF Referrers

\* Somebody refers to an entry exactly if its referrers can be counted.
LEMMA ReferrersCounted ==
  ASSUME NEW e
  PROVE  /\ (\E u \in Users : entry[u] = e) <=> Cardinality(Referrers(e)) # 0
         /\ \A u \in Users : Cardinality(Referrers(e)) = 1 /\ entry[u] = e
                               => \A v \in Users : entry[v] = e => v = u
<1>1. IsFiniteSet(Referrers(e))
  BY ReferrersFinite
<1>2. Cardinality(Referrers(e)) = 0 <=> Referrers(e) = {}
  BY <1>1, FS_EmptySet
<1>3. Cardinality(Referrers(e)) = 1 => \E x : Referrers(e) = {x}
  BY <1>1, FS_Singleton
<1> QED
  BY <1>2, <1>3 DEF Referrers

\* Init establishes the invariant.
LEMMA InitIndInv == Init => IndInv
<1> SUFFICES ASSUME Init PROVE IndInv
  OBVIOUS
<1> USE DEF Init
<1>1. TypeOK
  BY DEF TypeOK, PCs
<1>2. GuardHeld /\ Holding /\ EntryIsMapped /\ MapInjective /\ NothingLeftBehind
  BY UsersAssumption, EntriesAssumption
  DEF GuardHeld, Holding, EntryIsMapped, MapInjective, NothingLeftBehind
<1>3. RefsCount
  BY EntriesAssumption DEF RefsCount
<1>4. MutexHeld
  BY UsersAssumption DEF MutexHeld
<1> QED
  BY <1>1, <1>2, <1>3, <1>4 DEF IndInv

\* Steps that leave the map, the counts and who refers to what alone leave
\* RefsCount and NothingLeftBehind alone.
LEMMA CountsKept ==
  ASSUME IndInv, UNCHANGED <<locks, refs, entry>>
  PROVE  RefsCount' /\ NothingLeftBehind'
BY DEF IndInv, RefsCount, NothingLeftBehind, Referrers

LEMMA CallIndInv ==
  ASSUME IndInv, NEW u \in Users, NEW s \in Sessions, Call(u, s)
  PROVE  IndInv'
<1> USE DEF IndInv, Call
<1>1. TypeOK'
  BY DEF TypeOK, PCs
<1>2. GuardHeld'
  BY UsersAssumption DEF GuardHeld, TypeOK
<1>3. Holding'
  BY SessionsAssumption DEF Holding, TypeOK
<1>4. EntryIsMapped'
  BY DEF EntryIsMapped, Holding, TypeOK
<1>5. MapInjective' /\ MutexHeld'
  BY DEF MapInjective, MutexHeld, TypeOK
<1>6. RefsCount' /\ NothingLeftBehind'
  BY CountsKept
<1> QED
  BY <1>1, <1>2, <1>3, <1>4, <1>5, <1>6

\* u's reference to e is one more.
LEMMA OneMoreReferrer ==
  ASSUME TypeOK, NEW u \in Users, NEW e \in Entries,
         entry[u] = None, entry' = [entry EXCEPT ![u] = e]
  PROVE  /\ Cardinality(Referrers(e)') = Cardinality(Referrers(e)) + 1
         /\ \A f \in Entries : f # e => Referrers(f)' = Referrers(f)
<1>1. Referrers(e)' = Referrers(e) \cup {u}
  BY DEF Referrers, TypeOK
<1>2. u \notin Referrers(e)
  BY EntriesAssumption DEF Referrers
<1>3. Cardinality(Referrers(e)') = Cardinality(Referrers(e)) + 1
  BY <1>1, <1>2, ReferrersFinite, FS_AddElement
<1>4. \A f \in Entries : f # e => Referrers(f)' = Referrers(f)
  BY EntriesAssumption DEF Referrers, TypeOK
<1> QED
  BY <1>3, <1>4

LEMMA FindIndInv ==
  ASSUME IndInv, NEW u \in Users, Find(u)
  PROVE  IndInv'
<1>1. PICK e \in Entries : e = locks[key[u]]
  BY DEF IndInv, TypeOK, Holding, Find
<1>2. key[u] \in Sessions /\ entry[u] = None /\ pc[u] = "find"
  BY DEF IndInv, TypeOK, Holding, Find
<1>3. entry' = [entry EXCEPT ![u] = e] /\ refs' = [refs EXCEPT ![e] = @ + 1]
  BY <1>1 DEF Find, Refer
<1> USE DEF IndInv, Find, Refer
<1>4. TypeOK'
  BY <1>1, <1>2, <1>3 DEF TypeOK, PCs
<1>5. GuardHeld'
  BY UsersAssumption DEF GuardHeld, TypeOK
<1>6. Holding'
  BY <1>2, <1>3, EntriesAssumption DEF Holding, TypeOK
<1>7. EntryIsMapped'
  BY <1>1, <1>2, <1>3 DEF EntryIsMapped, TypeOK
<1>8. MapInjective'
  BY DEF MapInjective
<1>9. MutexHeld'
  BY <1>2, <1>3, EntriesAssumption DEF MutexHeld, TypeOK
<1>10. RefsCount'
  <2> SUFFICES ASSUME NEW s \in Sessions, NEW f \in Entries, locks'[s] = f
               PROVE  refs'[f] = Cardinality(Referrers(f)')
    BY DEF RefsCount
  <2>1. refs[f] = Cardinality(Referrers(f))
    BY DEF RefsCount
  <2>2. CASE f = e
    <3>1. Cardinality(Referrers(e)') = Cardinality(Referrers(e)) + 1
      BY <1>2, <1>3, OneMoreReferrer
    <3> QED
      BY <1>3, <2>1, <2>2, <3>1 DEF TypeOK
  <2>3. CASE f # e
    <3>1. Referrers(f)' = Referrers(f)
      BY <1>2, <1>3, <2>3, OneMoreReferrer
    <3> QED
      BY <1>3, <2>1, <2>3, <3>1 DEF TypeOK
  <2> QED
    BY <2>2, <2>3
<1>11. NothingLeftBehind'
  BY <1>2, <1>3, EntriesAssumption DEF NothingLeftBehind, TypeOK
<1> QED
  BY <1>4, <1>5, <1>6, <1>7, <1>8, <1>9, <1>10, <1>11

LEMMA MakeIndInv ==
  ASSUME IndInv, NEW u \in Users, NEW e \in Entries, Make(u, e)
  PROVE  IndInv'
<1>1. key[u] \in Sessions /\ entry[u] = None /\ pc[u] = "find" /\ locks[key[u]] = None
  BY DEF IndInv, TypeOK, Holding, Make
<1>2. entry' = [entry EXCEPT ![u] = e] /\ locks' = [locks EXCEPT ![key[u]] = e]
  BY DEF Make, Refer
<1>3. (\A s \in Sessions : locks[s] # e) /\ (\A v \in Users : entry[v] # e)
  BY DEF Make, Unused
<1> USE DEF IndInv, Make, Refer
<1>4. TypeOK'
  BY <1>1 DEF TypeOK, PCs
<1>5. GuardHeld'
  BY UsersAssumption DEF GuardHeld, TypeOK
<1>6. Holding'
  BY <1>1, <1>2, EntriesAssumption DEF Holding, TypeOK
<1>7. EntryIsMapped'
  <2> SUFFICES ASSUME NEW v \in Users, entry'[v] # None
               PROVE  locks'[key'[v]] = entry'[v]
    BY DEF EntryIsMapped
  <2>1. CASE v = u
    BY <1>1, <1>2, <2>1 DEF TypeOK
  <2>2. CASE v # u
    <3>1. entry'[v] = entry[v] /\ key'[v] = key[v] /\ key[v] \in Sessions
      BY <1>2, <2>2 DEF TypeOK, Holding
    <3>2. locks[key[v]] = entry[v]
      BY <3>1 DEF EntryIsMapped
    <3>3. key[v] # key[u]
      BY <1>1, <3>1, <3>2
    <3> QED
      BY <1>2, <3>1, <3>2, <3>3 DEF TypeOK
  <2> QED
    BY <2>1, <2>2
<1>8. MapInjective'
  BY <1>1, <1>2, <1>3 DEF MapInjective, TypeOK
<1>9. MutexHeld'
  <2> SUFFICES ASSUME NEW v \in Users, NEW f \in Entries
               PROVE  mu'[f] = v <=> pc'[v] = "in" /\ entry'[v] = f
    BY DEF MutexHeld
  <2>1. CASE f = e
    BY <1>1, <1>2, <1>3, <2>1, UsersAssumption DEF TypeOK
  <2>2. CASE f # e
    BY <1>1, <1>2, <2>2, EntriesAssumption DEF MutexHeld, TypeOK
  <2> QED
    BY <2>1, <2>2
<1>10. RefsCount'
  <2> SUFFICES ASSUME NEW s \in Sessions, NEW f \in Entries, locks'[s] = f
               PROVE  refs'[f] = Cardinality(Referrers(f)')
    BY DEF RefsCount
  <2>1. CASE f = e
    <3>1. Cardinality(Referrers(e)) = 0
      BY <1>3, ReferrersCounted
    <3>2. Cardinality(Referrers(e)') = Cardinality(Referrers(e)) + 1
      BY <1>1, <1>2, OneMoreReferrer
    <3> QED
      BY <2>1, <3>1, <3>2 DEF TypeOK
  <2>2. CASE f # e
    <3>1. locks[s] = f
      BY <1>1, <1>2, <2>2 DEF TypeOK
    <3>2. Referrers(f)' = Referrers(f)
      BY <1>1, <1>2, <2>2, OneMoreReferrer
    <3> QED
      BY <2>2, <3>1, <3>2 DEF RefsCount, TypeOK
  <2> QED
    BY <2>1, <2>2
<1>11. NothingLeftBehind'
  <2> SUFFICES ASSUME NEW s \in Sessions, NEW f \in Entries, locks'[s] = f
               PROVE  \E v \in Users : entry'[v] = f
    BY DEF NothingLeftBehind
  <2>1. CASE f = e
    BY <1>1, <1>2, <2>1 DEF TypeOK
  <2>2. CASE f # e
    BY <1>1, <1>2, <2>2, EntriesAssumption DEF NothingLeftBehind, TypeOK
  <2> QED
    BY <2>1, <2>2
<1> QED
  BY <1>4, <1>5, <1>6, <1>7, <1>8, <1>9, <1>10, <1>11

LEMMA AcquireIndInv ==
  ASSUME IndInv, NEW u \in Users, Acquire(u)
  PROVE  IndInv'
<1>1. entry[u] \in Entries /\ pc[u] = "wait"
  BY DEF IndInv, TypeOK, Holding, Acquire
<1> USE DEF IndInv, Acquire
<1>2. TypeOK' /\ GuardHeld' /\ Holding'
  BY <1>1 DEF TypeOK, PCs, GuardHeld, Holding
<1>3. EntryIsMapped' /\ MapInjective'
  BY DEF EntryIsMapped, MapInjective
<1>4. MutexHeld'
  BY <1>1, UsersAssumption DEF MutexHeld, TypeOK
<1>5. RefsCount' /\ NothingLeftBehind'
  BY CountsKept
<1> QED
  BY <1>2, <1>3, <1>4, <1>5

LEMMA UnlockIndInv ==
  ASSUME IndInv, NEW u \in Users, Unlock(u)
  PROVE  IndInv'
<1>1. entry[u] \in Entries /\ pc[u] = "in" /\ mu[entry[u]] = u
  BY DEF IndInv, TypeOK, Holding, MutexHeld, Unlock
<1> USE DEF IndInv, Unlock
<1>2. TypeOK' /\ GuardHeld' /\ Holding'
  BY <1>1 DEF TypeOK, PCs, GuardHeld, Holding
<1>3. EntryIsMapped' /\ MapInjective'
  BY DEF EntryIsMapped, MapInjective
<1>4. MutexHeld'
  BY <1>1, UsersAssumption DEF MutexHeld, TypeOK
<1>5. RefsCount' /\ NothingLeftBehind'
  BY CountsKept
<1> QED
  BY <1>2, <1>3, <1>4, <1>5

LEMMA ReturnIndInv ==
  ASSUME IndInv, NEW u \in Users, Return(u)
  PROVE  IndInv'
<1> USE DEF IndInv, Return
<1>1. TypeOK' /\ GuardHeld' /\ Holding'
  BY UsersAssumption DEF TypeOK, PCs, GuardHeld, Holding
<1>2. EntryIsMapped' /\ MapInjective' /\ MutexHeld'
  BY DEF EntryIsMapped, MapInjective, MutexHeld, TypeOK
<1>3. RefsCount' /\ NothingLeftBehind'
  BY CountsKept
<1> QED
  BY <1>1, <1>2, <1>3

\* The one step that takes an entry out of the map: nobody but u refers to it.
LEMMA DropIndInv ==
  ASSUME IndInv, NEW u \in Users, Drop(u)
  PROVE  IndInv'
<1>1. PICK e \in Entries, s \in Sessions : e = entry[u] /\ s = key[u]
  BY DEF IndInv, TypeOK, Holding, Drop
<1>2. locks[s] = e
  BY <1>1, EntriesAssumption DEF IndInv, EntryIsMapped
<1>3. refs[e] = Cardinality(Referrers(e)) /\ refs[e] \in Nat /\ refs[e] # 0
  BY <1>1, <1>2, ReferrersCounted DEF IndInv, RefsCount, TypeOK
<1>4. /\ entry' = [entry EXCEPT ![u] = None]
      /\ key' = [key EXCEPT ![u] = None]
      /\ refs' = [refs EXCEPT ![e] = @ - 1]
      /\ locks' = [locks EXCEPT ![s] = IF refs[e] = 1 THEN None ELSE @]
  BY <1>1 DEF Drop
<1>5. refs[e] = 1 => \A v \in Users : entry[v] = e => v = u
  BY <1>1, <1>3, ReferrersCounted
<1> USE DEF IndInv
<1>6. TypeOK'
  <2>1. refs' \in [Entries -> Nat]
    BY <1>3, <1>4 DEF TypeOK
  <2>2. locks' \in [Sessions -> Entries \cup {None}]
    BY <1>4 DEF TypeOK
  <2> QED
    BY <1>4, <2>1, <2>2 DEF Drop, TypeOK, PCs
<1>7. GuardHeld'
  BY UsersAssumption DEF Drop, GuardHeld, TypeOK
<1>8. Holding'
  BY <1>4 DEF Drop, Holding, TypeOK
<1>9. EntryIsMapped'
  <2> SUFFICES ASSUME NEW v \in Users, entry'[v] # None
               PROVE  locks'[key'[v]] = entry'[v]
    BY DEF EntryIsMapped
  <2>1. v # u
    BY <1>4 DEF TypeOK
  <2>2. entry'[v] = entry[v] /\ key'[v] = key[v] /\ locks[key[v]] = entry[v] /\ key[v] \in Sessions
    BY <1>4, <2>1 DEF EntryIsMapped, Holding, TypeOK
  <2>3. CASE key[v] = s
    BY <1>2, <1>4, <1>5, <2>1, <2>2, <2>3 DEF TypeOK
  <2>4. CASE key[v] # s
    BY <1>4, <2>2, <2>4 DEF TypeOK
  <2> QED
    BY <2>3, <2>4
<1>10. MapInjective'
  BY <1>2, <1>4 DEF MapInjective, TypeOK
<1>11. MutexHeld'
  BY <1>1, <1>4, EntriesAssumption DEF Drop, MutexHeld, TypeOK
<1>12. Referrers(e)' = Referrers(e) \ {u} /\ u \in Referrers(e)
  BY <1>1, <1>4, EntriesAssumption DEF Referrers, TypeOK
<1>13. Cardinality(Referrers(e)') = Cardinality(Referrers(e)) - 1
  BY <1>12, ReferrersFinite, FS_RemoveElement
<1>14. \A f \in Entries : f # e => Referrers(f)' = Referrers(f)
  BY <1>1, <1>4, EntriesAssumption DEF Referrers, TypeOK
<1>15. RefsCount'
  <2> SUFFICES ASSUME NEW t \in Sessions, NEW f \in Entries, locks'[t] = f
               PROVE  refs'[f] = Cardinality(Referrers(f)')
    BY DEF RefsCount
  <2>1. refs[f] = Cardinality(Referrers(f))
    BY <1>2, <1>4, EntriesAssumption DEF RefsCount, TypeOK
  <2>2. CASE f = e
    BY <1>4, <1>13, <2>1, <2>2 DEF TypeOK
  <2>3. CASE f # e
    BY <1>4, <1>14, <2>1, <2>3 DEF TypeOK
  <2> QED
    BY <2>2, <2>3
<1>16. NothingLeftBehind'
  <2> SUFFICES ASSUME NEW t \in Sessions, NEW f \in Entries, locks'[t] = f
               PROVE  \E v \in Users : entry'[v] = f
    BY DEF NothingLeftBehind
  <2>1. locks[t] = f
    BY <1>2, <1>4, EntriesAssumption DEF TypeOK
  <2>2. CASE t = s
    <3>1. f = e /\ refs[e] # 1
      BY <1>2, <1>4, <2>1, <2>2, EntriesAssumption DEF TypeOK
    <3>2. Cardinality(Referrers(e)') # 0
      BY <1>3, <1>13, <3>1
    <3>3. Referrers(e)' # {}
      BY <3>2, FS_EmptySet
    <3> QED
      BY <3>1, <3>3 DEF Referrers
  <2>3. CASE t # s
    <3>1. f # e
      BY <1>2, <2>1, <2>3, EntriesAssumption DEF MapInjective
    <3>2. PICK v \in Users : entry[v] = f
      BY <2>1 DEF NothingLeftBehind
    <3> QED
      BY <1>1, <1>4, <3>1, <3>2 DEF TypeOK
  <2> QED
    BY <2>2, <2>3
<1> QED
  BY <1>6, <1>7, <1>8, <1>9, <1>10, <1>11, <1>15, <1>16

-------------------------------------------------------------------------------

\* Every step keeps the invariant.
LEMMA NextIndInv == IndInv /\ [Next]_vars => IndInv'
<1> SUFFICES ASSUME IndInv, [Next]_vars
             PROVE  IndInv'
  OBVIOUS
<1>1. ASSUME NEW u \in Users, Proceed(u)
      PROVE  IndInv'
  BY <1>1, FindIndInv, MakeIndInv, AcquireIndInv, UnlockIndInv, ReturnIndInv, DropIndInv
  DEF Proceed
<1>2. ASSUME NEW u \in Users, NEW s \in Sessions, Call(u, s)
      PROVE  IndInv'
  BY <1>2, CallIndInv
<1>3. CASE UNCHANGED vars
  BY <1>3 DEF vars, IndInv, TypeOK, GuardHeld, Holding, EntryIsMapped, MapInjective,
              RefsCount, MutexHeld, NothingLeftBehind, Referrers
<1> QED
  BY <1>1, <1>2, <1>3 DEF Next

\* The map, the counts and the mutexes of sessionLocks agree with what the
\* handlers refer to, in every state of locks.go.
THEOREM Invariance == Spec => []IndInv
BY InitIndInv, NextIndInv, PTL DEF Spec

\* Whatever two handlers do, they are never both inside one session's lock.
THEOREM Exclusion == Spec => []MutualExclusion
<1>1. IndInv => MutualExclusion
  BY EntriesAssumption DEF IndInv, TypeOK, Holding, EntryIsMapped, MutexHeld, MutualExclusion
<1> QED
  BY <1>1, Invariance, PTL

\* sessionLocks keeps no entry for a session nobody is locking.
THEOREM NoLeftovers == Spec => []NothingLeftBehind
<1>1. IndInv => NothingLeftBehind
  BY DEF IndInv
<1> QED
  BY <1>1, Invariance, PTL

-------------------------------------------------------------------------------

\* What SessionMutex sees of a handler changes only when lock begins, when it
\* gets the entry's mutex and when it gives that back.
LEMMA StepImplements ==
  IndInv /\ [Next]_vars => [Mutex!Next]_(Mutex!mutexVars)
<1> SUFFICES ASSUME IndInv, [Next]_vars
             PROVE  [Mutex!Next]_(Mutex!mutexVars)
  OBVIOUS
<1> USE DEF Mutex!Next, Mutex!mutexVars, Phase
<1>1. ASSUME NEW u \in Users, NEW s \in Sessions, Call(u, s)
      PROVE  Mutex!Ask(u, s)
  BY <1>1 DEF Call, Mutex!Ask, IndInv, TypeOK
<1>2. ASSUME NEW u \in Users, Find(u) \/ \E e \in Entries : Make(u, e)
      PROVE  UNCHANGED Mutex!mutexVars
  BY <1>2 DEF Find, Make, Refer, IndInv, TypeOK
<1>3. ASSUME NEW u \in Users, Acquire(u)
      PROVE  Mutex!Grant(u)
  <2>1. \A v \in Users : pc[v] = "in" => key[v] # key[u]
    BY <1>3, UsersAssumption, EntriesAssumption
    DEF Acquire, IndInv, TypeOK, Holding, EntryIsMapped, MutexHeld
  <2> QED
    BY <1>3, <2>1 DEF Acquire, Mutex!Grant, IndInv, TypeOK
<1>4. ASSUME NEW u \in Users, Unlock(u)
      PROVE  Mutex!Release(u)
  BY <1>4 DEF Unlock, Mutex!Release, IndInv, TypeOK
<1>5. ASSUME NEW u \in Users, Return(u) \/ Drop(u)
      PROVE  UNCHANGED Mutex!mutexVars
  BY <1>5 DEF Return, Drop, IndInv, TypeOK
<1>6. CASE UNCHANGED vars
  BY <1>6 DEF vars
<1> QED
  BY <1>1, <1>2, <1>3, <1>4, <1>5, <1>6 DEF Next, Proceed

\* locks.go implements the mutex per session its callers rely on.
THEOREM Refinement == Spec => ImplementsMutex
<1>1. Init => Mutex!Init
  BY DEF Init, Mutex!Init, Phase
<1> QED
  BY <1>1, StepImplements, Invariance, PTL DEF Spec, ImplementsMutex, Mutex!Spec

-----------------------------------------------------------------------------
(***************************************************************************)
(* ConfigStore, for any number of processes, documents, revisions and      *)
(* releases, whatever fails.  A release never changes because revisions    *)
(* are only appended to and its members are stored; a process never goes   *)
(* back because l.mu is held from the reading of the live release to the   *)
(* swap.                                                                   *)
(***************************************************************************)

Says == Values \cup {Gone}

\* Revisions and releases are only appended to.
Grown ==
  /\ DOMAIN revisions \subseteq DOMAIN revisions'
  /\ \A i \in DOMAIN revisions : revisions'[i] = revisions[i]
  /\ Live' \in Nat /\ Live <= Live'
  /\ \A n \in DOMAIN releases : n \in DOMAIN releases' /\ releases'[n] = releases[n]

LEMMA SequencesTyped ==
  ASSUME ConfigTypeOK
  PROVE  /\ Live \in Nat /\ DOMAIN releases = 1 .. Live
         /\ \A n \in DOMAIN releases : releases[n] \in Release
         /\ DOMAIN revisions = 1 .. Len(revisions) /\ Len(revisions) \in Nat
         /\ \A i \in DOMAIN revisions : revisions[i] \in Revision
BY DEF ConfigTypeOK, Live

LEMMA AtRestTyped == AtRest \in Edit
BY DEF AtRest, Edit, By, DocumentSets

\* What a set of stored revisions holds is a value, or Gone, for each document.
LEMMA DocumentsTyped ==
  ASSUME ConfigTypeOK, NEW ids \in SUBSET DOMAIN revisions
  PROVE  DocumentsOf(ids) \in DocumentSets
<1>1. SUFFICES ASSUME NEW d \in Documents, \E i \in ids : revisions[i].doc = d
               PROVE  revisions[CHOOSE i \in ids : revisions[i].doc = d].says \in Says
  BY DEF DocumentsOf, DocumentSets, Says
<1>2. (CHOOSE i \in ids : revisions[i].doc = d) \in ids
  BY <1>1
<1> QED
  BY <1>2, SequencesTyped DEF Revision, Says

\* A release holds documents.
LEMMA HoldsTyped ==
  ASSUME ConfigTypeOK, ReleasesAreWhole, NEW n \in DOMAIN releases
  PROVE  Holds(n) \in DocumentSets
<1>1. releases[n].members \in SUBSET DOMAIN revisions
  BY DEF ReleasesAreWhole, Publishable
<1> QED
  BY <1>1, DocumentsTyped DEF Holds

\* What a release names, it names for ever.
LEMMA WholeKept ==
  ASSUME ConfigTypeOK, Grown, NEW ids, Publishable(ids)
  PROVE  Publishable(ids)' /\ DocumentsOf(ids)' = DocumentsOf(ids)
<1>1. \A i \in ids : i \in DOMAIN revisions /\ i \in DOMAIN revisions' /\ revisions'[i] = revisions[i]
  BY DEF Grown, Publishable
<1>2. Publishable(ids)'
  BY <1>1 DEF Publishable
<1>3. ASSUME NEW d \in Documents, NEW i \in ids, revisions[i].doc = d
      PROVE  /\ (CHOOSE j \in ids : revisions[j].doc = d) = i
             /\ (CHOOSE j \in ids : revisions'[j].doc = d) = i
  <2>1. \A j \in ids : revisions[j].doc = d => j = i
    BY <1>3 DEF Publishable
  <2>2. \A j \in ids : revisions'[j].doc = d => j = i
    BY <2>1, <1>1
  <2>3. revisions'[i].doc = d
    BY <1>1, <1>3
  <2> QED
    BY <1>3, <2>1, <2>2, <2>3
<1>4. ASSUME NEW d \in Documents PROVE DocumentsOf(ids)'[d] = DocumentsOf(ids)[d]
  <2>1. CASE \E i \in ids : revisions[i].doc = d
    <3>1. PICK i \in ids : revisions[i].doc = d
      BY <2>1
    <3>2. revisions'[i].doc = d /\ revisions'[i].says = revisions[i].says
      BY <1>1, <3>1
    <3> QED
      BY <1>3, <3>1, <3>2 DEF DocumentsOf
  <2>2. CASE ~ \E i \in ids : revisions[i].doc = d
    BY <1>1, <2>2 DEF DocumentsOf
  <2> QED
    BY <2>1, <2>2
<1> QED
  BY <1>2, <1>4 DEF DocumentsOf

-----------------------------------------------------------------------------
(* Types: what each step leaves of them to show.                           *)

Kept == UNCHANGED <<revisions, releases, running, loading>>

\* What is stored stays, and with it what is loaded.
LEMMA EditedTyped ==
  ASSUME ConfigTypeOK, Kept, edit' \in [Servers -> Edit]
  PROVE  ConfigTypeOK' /\ Grown
<1>1. Live' = Live /\ Live \in Nat
  BY SequencesTyped DEF Kept, Live
<1> QED
  BY <1>1 DEF ConfigTypeOK, Kept, Grown

\* The editor of one process moves.
LEMMA EditMoves ==
  ASSUME ConfigTypeOK, NEW s \in Servers, NEW e \in Edit, edit' = [edit EXCEPT ![s] = e]
  PROVE  edit' \in [Servers -> Edit]
BY DEF ConfigTypeOK

LEMMA HeadsStored == Heads \subseteq DOMAIN revisions
BY DEF Heads

LEMMA ChangeTyped ==
  ASSUME ConfigTypeOK, NEW s \in Servers, NEW w \in Edits, Change(s, w[1], w[2])
  PROVE  Kept /\ edit' \in [Servers -> Edit]
<1>1. <<w[1], w[2]>> \in Documents \X Says
  BY EditsAssumption DEF Documents, Says
<1>2. edit[s] \in Edit
  BY DEF ConfigTypeOK
<1>3. [edit[s] EXCEPT !.at = "put", !.by = "change", !.left = {<<w[1], w[2]>>}] \in Edit
  BY <1>1, <1>2 DEF Edit, By, Says
<1>4. edit' = [edit EXCEPT ![s] = [edit[s] EXCEPT !.at = "put", !.by = "change",
                                                 !.left = {<<w[1], w[2]>>}]]
  BY DEF Change, ConfigTypeOK
<1> QED
  BY <1>3, <1>4, EditMoves DEF Change, Kept, restVars

LEMMA RestoreTyped ==
  ASSUME ConfigTypeOK, NEW s \in Servers, NEW d \in EditableDocs, Restore(s, d)
  PROVE  Kept /\ edit' \in [Servers -> Edit]
<1>1. PICK last \in DOMAIN revisions :
        edit' = [edit EXCEPT ![s].at = "draft", ![s].by = "change",
                             ![s].left = {<<d, revisions[last].says>>}]
  BY DEF Restore
<1>2. <<d, revisions[last].says>> \in Documents \X Says
  BY <1>1, SequencesTyped DEF Revision, Says, Documents
<1>3. edit[s] \in Edit
  BY DEF ConfigTypeOK
<1>4. [edit[s] EXCEPT !.at = "draft", !.by = "change", !.left = {<<d, revisions[last].says>>}] \in Edit
  BY <1>2, <1>3 DEF Edit, By, Says
<1>5. edit' = [edit EXCEPT ![s] = [edit[s] EXCEPT !.at = "draft", !.by = "change",
                                                 !.left = {<<d, revisions[last].says>>}]]
  BY <1>1 DEF ConfigTypeOK
<1> QED
  BY <1>4, <1>5, EditMoves DEF Restore, Kept, restVars

\* Steps of the editor that write nothing: the rest of its record is as it was,
\* at rest, or what was read.
LEMMA EditorTyped ==
  ASSUME ConfigTypeOK, ReleasesAreWhole, NEW s \in Servers,
         \/ CheckRestored(s) \/ Publish(s) \/ CheckDraft(s) \/ Converge(s) \/ Reread(s)
         \/ StoreFails(s) \/ \E n \in DOMAIN releases : Rollback(s, n)
  PROVE  Kept /\ edit' \in [Servers -> Edit]
<1> DEFINE e == edit[s]
<1>1. e \in Edit /\ AtRest \in Edit /\ Heads \in SUBSET Nat
  BY HeadsStored, AtRestTyped, SequencesTyped DEF ConfigTypeOK
<1>2. CASE CheckRestored(s)
  <2>1. [e EXCEPT !.at = "put"] \in Edit
    BY <1>1 DEF Edit
  <2>2. edit' = [edit EXCEPT ![s] = AtRest] \/ edit' = [edit EXCEPT ![s] = [e EXCEPT !.at = "put"]]
    BY <1>2 DEF CheckRestored
  <2> QED
    BY <1>1, <1>2, <2>1, <2>2, EditMoves DEF CheckRestored, Kept, restVars
<1>3. CASE Publish(s)
  <2>1. [e EXCEPT !.at = "live", !.by = "publish", !.members = Heads] \in Edit
    BY <1>1 DEF Edit, By
  <2>2. edit' = [edit EXCEPT ![s] = [e EXCEPT !.at = "live", !.by = "publish", !.members = Heads]]
    BY <1>3 DEF Publish, ConfigTypeOK
  <2> QED
    BY <1>3, <2>1, <2>2, EditMoves DEF Publish, Kept, restVars
<1>4. CASE CheckDraft(s)
  <2>1. [e EXCEPT !.at = "publish"] \in Edit
    BY <1>1 DEF Edit
  <2>2. \/ edit' = [edit EXCEPT ![s] = AtRest]
        \/ edit' = [edit EXCEPT ![s] = [e EXCEPT !.at = "publish"]]
    BY <1>4 DEF CheckDraft
  <2> QED
    BY <1>1, <1>4, <2>1, <2>2, EditMoves DEF CheckDraft, Kept, restVars
<1>5. CASE Converge(s)
  <2> DEFINE left == Differing(Documents, DocumentsOf(Heads), e.want)
             at == IF left = {} THEN "heads" ELSE "put"
  <2>1. left \subseteq Documents \X Says
    BY <1>1 DEF Differing, Edit, DocumentSets, Says
  <2>2. [e EXCEPT !.at = at, !.left = left] \in Edit
    BY <1>1, <2>1 DEF Edit, Says
  <2>3. edit' = [edit EXCEPT ![s] = [e EXCEPT !.at = at, !.left = left]]
    BY <1>5 DEF Converge, ConfigTypeOK
  <2> QED
    BY <1>5, <2>2, <2>3, EditMoves DEF Converge, Kept, restVars
<1>6. CASE Reread(s)
  <2>1. [e EXCEPT !.at = "publish", !.members = Heads] \in Edit
    BY <1>1 DEF Edit
  <2>2. edit' = [edit EXCEPT ![s] = [e EXCEPT !.at = "publish", !.members = Heads]]
    BY <1>6 DEF Reread, ConfigTypeOK
  <2> QED
    BY <1>6, <2>1, <2>2, EditMoves DEF Reread, Kept, restVars
<1>7. CASE StoreFails(s)
  BY <1>1, <1>7, EditMoves DEF StoreFails, Kept
<1>8. ASSUME NEW n \in DOMAIN releases, Rollback(s, n)
      PROVE  Kept /\ edit' \in [Servers -> Edit]
  <2> DEFINE want == [d \in Documents |-> IF d \in GitDocs THEN Holds(Live)[d] ELSE Holds(n)[d]]
             f == [e EXCEPT !.at = "converge", !.by = "rollback", !.want = want, !.to = n]
  <2>1. Live \in DOMAIN releases /\ n \in Nat
    BY SequencesTyped
  <2>2. Holds(n) \in DocumentSets /\ Holds(Live) \in DocumentSets
    BY <2>1, HoldsTyped
  <2>3. want \in DocumentSets
    BY <2>2 DEF DocumentSets
  <2>4. f \in Edit
    BY <1>1, <2>1, <2>3 DEF Edit, By
  <2>5. edit' = [edit EXCEPT ![s] = f]
    BY <1>8 DEF Rollback, ConfigTypeOK
  <2> HIDE DEF f
  <2> QED
    BY <1>8, <2>4, <2>5, EditMoves DEF Rollback, Kept, restVars
<1> QED
  BY <1>2, <1>3, <1>4, <1>5, <1>6, <1>7, <1>8

LEMMA DifferingTyped ==
  ASSUME NEW docs \in SUBSET Documents, NEW have, NEW want, \A d \in docs : want[d] \in Says
  PROVE  Differing(docs, have, want) \subseteq Documents \X Says
BY DEF Differing

\* A process that starts reads the catalog and the live release.
LEMMA StartTyped ==
  ASSUME ConfigTypeOK, ReleasesAreWhole, NEW s \in Servers, Start(s)
  PROVE  Kept /\ edit' \in [Servers -> Edit]
<1> DEFINE e == edit[s]
<1>1. e \in Edit
  BY DEF ConfigTypeOK
<1>2. PICK catalog \in Catalogs : Seed(s, catalog) \/ ImportGitKinds(s, catalog)
  BY DEF Start
<1>3. catalog \in DocumentSets
  BY CatalogsAssumption
<1>4. CASE Seed(s, catalog)
  <2>1. [e EXCEPT !.at = "converge", !.by = "seed", !.want = catalog] \in Edit
    BY <1>1, <1>3 DEF Edit, By
  <2>2. edit' = [edit EXCEPT ![s] = [e EXCEPT !.at = "converge", !.by = "seed", !.want = catalog]]
    BY <1>4 DEF Seed, ConfigTypeOK
  <2> QED
    BY <2>1, <2>2, EditMoves DEF Start, Kept
<1>5. CASE ImportGitKinds(s, catalog)
  <2> DEFINE have == Holds(Live)
             desired == [d \in Documents |-> IF d \in GitDocs THEN catalog[d] ELSE have[d]]
             left == Differing(GitDocs, have, desired)
             f == [e EXCEPT !.at = "put", !.by = "import", !.members = imported(desired), !.left = left]
             g == [e EXCEPT !.at = "load"]
  <2>1. Live \in DOMAIN releases
    BY <1>5, SequencesTyped DEF ImportGitKinds, ConfigTypeOK, Live
  <2>2. releases[Live].members \in SUBSET Nat
    BY <2>1, SequencesTyped DEF Release
  <2>3. left \subseteq Documents \X Says
    <3>1. \A d \in GitDocs : d \in Documents /\ desired[d] \in Says
      BY <1>3 DEF DocumentSets, Documents, Says
    <3> HIDE DEF desired
    <3> QED
      BY <3>1, DifferingTyped
  <2>4. imported(desired) \in SUBSET Nat
    BY <2>2 DEF imported
  <2>5. f \in Edit /\ g \in Edit
    BY <1>1, <2>3, <2>4 DEF Edit, By, Says
  <2>6. edit' = [edit EXCEPT ![s] = f] \/ edit' = [edit EXCEPT ![s] = g]
    BY <1>5 DEF ImportGitKinds
  <2> HIDE DEF f, g
  <2> QED
    BY <2>5, <2>6, EditMoves DEF Start, Kept
<1> QED
  BY <1>2, <1>4, <1>5

\* A revision is appended, and the editor has one less to write.
LEMMA PutTyped ==
  ASSUME ConfigTypeOK, NEW s \in Servers, NEW w \in edit[s].left, Put(s, w)
  PROVE  ConfigTypeOK' /\ Grown
<1> DEFINE id == Len(revisions) + 1
           r == [doc |-> w[1], says |-> w[2]]
           members == IF edit[s].by = "import" /\ w[2] # Gone
                      THEN edit[s].members \cup {id} ELSE edit[s].members
           e == [edit[s] EXCEPT !.left = @ \ {w}, !.members = members]
<1>1. edit[s] \in Edit /\ w \in Documents \X Says
  BY DEF ConfigTypeOK, Edit, Says
<1>2. r \in Revision
  BY <1>1 DEF Revision, Says
<1>3. revisions \in Seq(Revision) /\ revisions' = Append(revisions, r) /\ id \in Nat
  BY DEF Put, ConfigTypeOK
<1>4. /\ revisions' \in Seq(Revision) /\ DOMAIN revisions \subseteq DOMAIN revisions'
      /\ \A i \in DOMAIN revisions : revisions'[i] = revisions[i]
  BY <1>2, <1>3
<1>5. members \in SUBSET Nat
  BY <1>1, <1>3 DEF Edit
<1>6. e \in Edit
  BY <1>1, <1>5 DEF Edit
<1>7. [e EXCEPT !.at = "publish"] \in Edit /\ [e EXCEPT !.at = "heads"] \in Edit
  BY <1>6 DEF Edit
<1>8. edit' = [edit EXCEPT ![s] = IF e.left = {} THEN Written(e) ELSE e]
  BY <1>1 DEF Put, Edit
<1>9. Written(e) \in Edit
  BY <1>7, AtRestTyped DEF Written
<1>10. edit' \in [Servers -> Edit]
  BY <1>6, <1>8, <1>9, EditMoves
<1>11. UNCHANGED <<releases, running, loading>> /\ Live' = Live
  BY DEF Put, restVars, Live
<1> QED
  BY <1>4, <1>10, <1>11, SequencesTyped DEF ConfigTypeOK, Grown

\* A release is appended.
LEMMA StorePublishTyped ==
  ASSUME ConfigTypeOK, NEW s \in Servers, StorePublish(s)
  PROVE  ConfigTypeOK' /\ Grown /\ Live' = Live + 1 /\ UNCHANGED running
<1> DEFINE n == [members |-> edit[s].members, by |-> edit[s].by, to |-> edit[s].to]
<1>1. edit[s] \in Edit /\ AtRest \in Edit
  BY AtRestTyped DEF ConfigTypeOK
<1>2. n \in Release
  BY <1>1 DEF Edit, Release
<1>3. releases \in Seq(Release) /\ releases' = Append(releases, n)
  BY DEF StorePublish, ConfigTypeOK
<1>4. /\ releases' \in Seq(Release) /\ Live' = Live + 1 /\ Live \in Nat
      /\ \A i \in DOMAIN releases : i \in DOMAIN releases' /\ releases'[i] = releases[i]
  BY <1>2, <1>3 DEF Live
<1>5. [AtRest EXCEPT !.at = "load"] \in Edit
  BY <1>1 DEF Edit
<1>6. edit' \in [Servers -> Edit]
  BY <1>1, <1>5, EditMoves DEF StorePublish
<1>7. UNCHANGED <<revisions, running, loading>>
  BY DEF StorePublish
<1>8. \A t \in Servers : running[t] \in 0 .. Live /\ running[t] \in 0 .. Live'
  BY <1>4 DEF ConfigTypeOK
<1>9. \A t \in Servers, r \in Refreshers : loading[t][r] \in 0 .. Live'
  BY <1>4 DEF ConfigTypeOK
<1>10. running' \in [Servers -> 0 .. Live'] /\ loading' \in [Servers -> [Refreshers -> 0 .. Live']]
  BY <1>7, <1>8, <1>9 DEF ConfigTypeOK
<1>11. ConfigTypeOK'
  BY <1>4, <1>6, <1>7, <1>10 DEF ConfigTypeOK
<1>12. Grown
  BY <1>4, <1>7 DEF Grown
<1> QED
  BY <1>4, <1>7, <1>11, <1>12

\* What is stored stays, and what one process loads goes by l.mu.
LEMMA LoadingTyped ==
  ASSUME ConfigTypeOK, NEW s \in Servers,
         UNCHANGED <<revisions, releases>>, edit' \in [Servers -> Edit],
         running' \in [Servers -> 0 .. Live], loading' \in [Servers -> [Refreshers -> 0 .. Live]],
         \A t \in Servers : t # s => running'[t] = running[t] /\ loading'[t] = loading[t],
         \A r \in Refreshers : loading'[s][r] # 0 =>
           running'[s] < loading'[s][r] /\ \A q \in Refreshers : loading'[s][q] # 0 => q = r
  PROVE  ConfigTypeOK' /\ Grown
<1>1. Live' = Live /\ Live \in Nat
  BY SequencesTyped DEF Live
<1>2. \A t \in Servers, r \in Refreshers : loading'[t][r] # 0 =>
        /\ running'[t] < loading'[t][r]
        /\ \A q \in Refreshers : loading'[t][q] # 0 => q = r
  BY DEF ConfigTypeOK
<1> QED
  BY <1>1, <1>2 DEF ConfigTypeOK, Grown

LEMMA ExitTyped ==
  ASSUME ConfigTypeOK, NEW s \in Servers, Exit(s)
  PROVE  ConfigTypeOK' /\ Grown
<1>1. Live \in Nat
  BY SequencesTyped
<1>2. edit' \in [Servers -> Edit]
  BY AtRestTyped, EditMoves DEF Exit
<1>3. /\ running' \in [Servers -> 0 .. Live] /\ loading' \in [Servers -> [Refreshers -> 0 .. Live]]
      /\ \A t \in Servers : t # s => running'[t] = running[t] /\ loading'[t] = loading[t]
      /\ \A r \in Refreshers : loading'[s][r] = 0
  BY <1>1 DEF Exit, ConfigTypeOK
<1> QED
  BY <1>2, <1>3, LoadingTyped DEF Exit

\* The live release is newer than the one that runs, when it is another.
LEMMA PollTyped ==
  ASSUME ConfigTypeOK, NEW s \in Servers, NEW r \in Refreshers, Poll(s, r)
  PROVE  ConfigTypeOK' /\ Grown /\ UNCHANGED running
<1>1. Live \in Nat /\ running[s] \in 0 .. Live /\ loading[s] \in [Refreshers -> 0 .. Live]
  BY SequencesTyped DEF ConfigTypeOK
<1>2. \A q \in Refreshers : loading[s][q] = 0
  BY DEF Poll, MutexFree
<1>3. UNCHANGED <<revisions, releases, running>> /\ edit' \in [Servers -> Edit]
  BY DEF Poll, ConfigTypeOK
<1>4. /\ loading' \in [Servers -> [Refreshers -> 0 .. Live]]
      /\ \A t \in Servers : t # s => loading'[t] = loading[t]
      /\ loading'[s] = [loading[s] EXCEPT ![r] = IF running[s] = Live THEN 0 ELSE Live]
  BY <1>1 DEF Poll, ConfigTypeOK
<1>5. \A q \in Refreshers : loading'[s][q] # 0 =>
        running'[s] < loading'[s][q] /\ \A p \in Refreshers : loading'[s][p] # 0 => p = q
  BY <1>1, <1>2, <1>3, <1>4
<1> QED
  BY <1>3, <1>4, <1>5, LoadingTyped DEF ConfigTypeOK

\* The refresh of one process ends, and leaves l.mu to nobody.
LEMMA RefreshEndsTyped ==
  ASSUME ConfigTypeOK, NEW s \in Servers, NEW r \in Refreshers, NEW m \in {running[s], loading[s][r]},
         loading[s][r] # 0, running' = [running EXCEPT ![s] = m],
         loading' = [loading EXCEPT ![s][r] = 0],
         UNCHANGED <<revisions, releases>>, edit' \in [Servers -> Edit]
  PROVE  ConfigTypeOK' /\ Grown
<1>1. Live \in Nat /\ m \in 0 .. Live
  BY SequencesTyped DEF ConfigTypeOK
<1>2. /\ loading' \in [Servers -> [Refreshers -> 0 .. Live]]
      /\ running' \in [Servers -> 0 .. Live]
      /\ \A t \in Servers : t # s => running'[t] = running[t] /\ loading'[t] = loading[t]
  BY <1>1 DEF ConfigTypeOK
<1>3. \A q \in Refreshers : loading'[s][q] = 0
  BY DEF ConfigTypeOK
<1> QED
  BY <1>2, <1>3, LoadingTyped

\* Nothing but a release that loads and is newer comes to run.
LEMMA SwapTyped ==
  ASSUME ConfigTypeOK, NEW s \in Servers, NEW r \in Refreshers, Swap(s, r)
  PROVE  /\ ConfigTypeOK' /\ Grown /\ UNCHANGED <<revisions, releases>>
         /\ \/ UNCHANGED running
            \/ /\ running[s] < loading[s][r] /\ loading[s][r] \in DOMAIN releases
               /\ Loads(Holds(loading[s][r]))
               /\ running' = [running EXCEPT ![s] = loading[s][r]]
<1> DEFINE n == loading[s][r]
           m == IF Loads(Holds(n)) THEN n ELSE running[s]
<1>1. edit[s] \in Edit
  BY DEF ConfigTypeOK
<1>2. edit' \in [Servers -> Edit]
  BY <1>1, AtRestTyped, EditMoves DEF Swap
<1>3. running' = [running EXCEPT ![s] = m] /\ loading' = [loading EXCEPT ![s][r] = 0] /\ n # 0
  BY DEF Swap, ConfigTypeOK
<1>4. UNCHANGED <<revisions, releases>>
  BY DEF Swap
<1>5. n \in 0 .. Live /\ running[s] < n /\ n \in DOMAIN releases
  BY <1>3, SequencesTyped DEF ConfigTypeOK
<1>6. ConfigTypeOK' /\ Grown
  BY <1>2, <1>3, <1>4, RefreshEndsTyped
<1>7. \/ UNCHANGED running
      \/ Loads(Holds(n)) /\ running' = [running EXCEPT ![s] = n]
  BY <1>3 DEF ConfigTypeOK
<1> QED
  BY <1>4, <1>5, <1>6, <1>7

LEMMA RefreshFailsTyped ==
  ASSUME ConfigTypeOK, NEW s \in Servers, NEW r \in Refreshers, RefreshFails(s, r)
  PROVE  ConfigTypeOK' /\ Grown
<1>1. edit' \in [Servers -> Edit]
  BY AtRestTyped, EditMoves DEF RefreshFails, ConfigTypeOK
<1>2. running' = [running EXCEPT ![s] = running[s]]
  BY DEF RefreshFails, ConfigTypeOK
<1> QED
  BY <1>1, <1>2, RefreshEndsTyped DEF RefreshFails

-----------------------------------------------------------------------------
(* Every step is typed, keeps what is stored, and implements Releases.     *)

Made == [n \in DOMAIN releases |-> Holds(n)]

LEMMA MadeTyped ==
  ConfigTypeOK /\ ReleasesAreWhole => Len(Made) = Live /\ DOMAIN Made = 1 .. Live
<1> SUFFICES ASSUME ConfigTypeOK, ReleasesAreWhole
             PROVE  Len(Made) = Live /\ DOMAIN Made = 1 .. Live
  OBVIOUS
<1>1. Live \in Nat /\ DOMAIN releases = 1 .. Live
  BY SequencesTyped
<1>2. Made \in [1 .. Live -> DocumentSets]
  BY <1>1, HoldsTyped DEF Made
<1>3. Made \in Seq(DocumentSets)
  BY <1>1, <1>2, SeqDef
<1>4. Len(Made) \in Nat /\ DOMAIN Made = 1 .. Len(Made) /\ DOMAIN Made = 1 .. Live
  BY <1>2, <1>3, LenProperties
<1>5. \A k, m \in Nat : 1 .. k = 1 .. m => k = m
  <2> SUFFICES ASSUME NEW k \in Nat, NEW m \in Nat, 1 .. k = 1 .. m PROVE k = m
    OBVIOUS
  <2>1. k \in 1 .. k \/ k = 0
    OBVIOUS
  <2>2. m \in 1 .. m \/ m = 0
    OBVIOUS
  <2> QED
    BY <2>1, <2>2
<1> QED
  BY <1>1, <1>4, <1>5

\* The releases there are stay what they are.
LEMMA MadeKept ==
  ASSUME ConfigTypeOK, ReleasesAreWhole, Grown
  PROVE  /\ \A n \in DOMAIN releases : Publishable(releases[n].members)' /\ Made'[n] = Made[n]
         /\ UNCHANGED releases => ReleasesAreWhole' /\ UNCHANGED Made
<1>1. ASSUME NEW n \in DOMAIN releases
      PROVE  Publishable(releases[n].members)' /\ Holds(n)' = Holds(n)
  <2>1. n \in DOMAIN releases' /\ releases'[n] = releases[n]
    BY DEF Grown
  <2>2. PICK ids : ids = releases[n].members
    OBVIOUS
  <2>3. Publishable(ids)
    BY <2>2 DEF ReleasesAreWhole
  <2>4. Publishable(ids)' /\ DocumentsOf(ids)' = DocumentsOf(ids)
    BY <2>3, WholeKept
  <2>5. ids = releases'[n].members
    BY <2>1, <2>2
  <2>6. Publishable(releases[n].members)'
    BY <2>4, <2>5 DEF Publishable
  <2>7. Holds(n) = DocumentsOf(ids) /\ Holds(n)' = DocumentsOf(ids)'
    BY <2>2, <2>5 DEF Holds, DocumentsOf
  <2> QED
    BY <2>4, <2>6, <2>7
<1>2. \A n \in DOMAIN releases : n \in DOMAIN releases'
  BY DEF Grown
<1> QED
  BY <1>1, <1>2 DEF Made, ReleasesAreWhole

\* What is stored only grows, and only StorePublish adds a release.
LEMMA NextTyped ==
  ASSUME ConfigTypeOK, ReleasesAreWhole, [ConfigNext]_configVars
  PROVE  /\ ConfigTypeOK' /\ Grown
         /\ UNCHANGED releases \/ \E s \in Servers : StorePublish(s)
<1>1. Kept /\ edit' \in [Servers -> Edit] =>
        ConfigTypeOK' /\ Grown /\ UNCHANGED releases
  BY EditedTyped DEF Kept
<1>2. CASE UNCHANGED configVars
  BY <1>1, <1>2 DEF configVars, Kept, ConfigTypeOK
<1>3. ASSUME NEW s \in Servers, EditorStep(s)
      PROVE  ConfigTypeOK' /\ Grown /\ (UNCHANGED releases \/ StorePublish(s))
  <2>1. CASE \E w \in Edits : Change(s, w[1], w[2])
    BY <1>1, <2>1, ChangeTyped
  <2>2. CASE \E d \in EditableDocs : Restore(s, d)
    BY <1>1, <2>2, RestoreTyped
  <2>3. CASE \E w \in edit[s].left : Put(s, w)
    BY <2>3, PutTyped DEF Put
  <2>4. CASE StorePublish(s)
    BY <2>4, StorePublishTyped
  <2>5. CASE \/ CheckRestored(s) \/ Publish(s) \/ CheckDraft(s) \/ Converge(s) \/ Reread(s)
             \/ StoreFails(s) \/ \E n \in DOMAIN releases : Rollback(s, n)
    BY <1>1, <2>5, EditorTyped
  <2> QED
    BY <1>3, <2>1, <2>2, <2>3, <2>4, <2>5 DEF EditorStep
<1>4. ASSUME NEW s \in Servers, Start(s) \/ Exit(s)
      PROVE  ConfigTypeOK' /\ Grown /\ UNCHANGED releases
  BY <1>1, <1>4, StartTyped, ExitTyped DEF Exit
<1>5. ASSUME NEW s \in Servers, NEW r \in Refreshers, Poll(s, r) \/ Swap(s, r) \/ RefreshFails(s, r)
      PROVE  ConfigTypeOK' /\ Grown /\ UNCHANGED releases
  BY <1>5, PollTyped, SwapTyped, RefreshFailsTyped DEF Poll, Swap, RefreshFails
<1> QED
  BY <1>2, <1>3, <1>4, <1>5 DEF ConfigNext

LEMMA NextWhole ==
  ASSUME ConfigTypeOK, ReleasesAreWhole, [ConfigNext]_configVars
  PROVE  ReleasesAreWhole'
<1>1. ConfigTypeOK' /\ Grown
  BY NextTyped
<1>2. CASE UNCHANGED releases
  BY <1>1, <1>2, MadeKept
<1>3. ASSUME NEW s \in Servers, StorePublish(s) PROVE ReleasesAreWhole'
  <2>1. \A n \in DOMAIN releases : Publishable(releases[n].members)'
    BY <1>1, MadeKept
  <2>2. /\ releases' = Append(releases, [members |-> edit[s].members, by |-> edit[s].by, to |-> edit[s].to])
        /\ UNCHANGED revisions /\ Publishable(edit[s].members)
    BY <1>3 DEF StorePublish
  <2>3. \A n \in DOMAIN releases' : n \in DOMAIN releases \/ releases'[n].members = edit[s].members
    BY <2>2 DEF ConfigTypeOK
  <2> QED
    BY <2>1, <2>2, <2>3 DEF ReleasesAreWhole, Publishable
<1> QED
  BY <1>2, <1>3, NextTyped

LEMMA NextImplements ==
  ASSUME ConfigTypeOK, ReleasesAreWhole, [ConfigNext]_configVars
  PROVE  [Promise!Next]_<<Made, running>>
<1>1. /\ ConfigTypeOK' /\ ReleasesAreWhole' /\ Grown
      /\ \A n \in DOMAIN releases : Made'[n] = Made[n]
      /\ UNCHANGED releases => UNCHANGED Made
  BY NextTyped, NextWhole, MadeKept
<1>2. DOMAIN Made = DOMAIN releases
  BY DEF Made
<1>3. ASSUME NEW s \in Servers, StorePublish(s) PROVE Promise!Make
  <2>1. Live' = Live + 1 /\ UNCHANGED running
    BY <1>3, StorePublishTyped
  <2>2. Len(Made) = Live /\ (ConfigTypeOK /\ ReleasesAreWhole => Len(Made) = Live)'
    BY MadeTyped, PTL
  <2> QED
    BY <1>1, <1>2, <2>1, <2>2 DEF Promise!Make, Made
<1>4. ASSUME NEW s \in Servers, Exit(s) PROVE Promise!Stop(s)
  BY <1>1, <1>4 DEF Promise!Stop, Exit, Made
<1>5. ASSUME NEW s \in Servers, NEW r \in Refreshers, Swap(s, r)
      PROVE  UNCHANGED <<Made, running>> \/ \E n \in DOMAIN Made : Promise!Move(s, n)
  <2> DEFINE n == loading[s][r]
  <2>1. UNCHANGED Made
    BY <1>1, <1>5, SwapTyped
  <2>2. CASE UNCHANGED running
    BY <2>1, <2>2
  <2>3. CASE /\ running[s] < n /\ n \in DOMAIN releases /\ Loads(Holds(n))
             /\ running' = [running EXCEPT ![s] = n]
    <3>1. Made[n] \in Loadable
      BY <2>3, HoldsTyped DEF Made, Loadable
    <3> QED
      BY <1>2, <2>1, <2>3, <3>1 DEF Promise!Move, Made
  <2> QED
    BY <1>5, <2>2, <2>3, SwapTyped
<1>6. UNCHANGED <<releases, running>> => UNCHANGED <<Made, running>>
  BY <1>1
<1>7. ASSUME NEW s \in Servers, EditorStep(s), ~StorePublish(s)
      PROVE  UNCHANGED <<releases, running>>
  <2>1. CASE \/ \E w \in Edits : Change(s, w[1], w[2])
             \/ \E d \in EditableDocs : Restore(s, d)
             \/ CheckRestored(s) \/ \E w \in edit[s].left : Put(s, w)
    BY <2>1 DEF Change, Restore, CheckRestored, Put, restVars
  <2>2. CASE \/ Publish(s) \/ CheckDraft(s) \/ \E n \in DOMAIN releases : Rollback(s, n)
             \/ Converge(s) \/ Reread(s) \/ StoreFails(s)
    BY <2>2 DEF Publish, CheckDraft, Rollback, Converge, Reread, StoreFails, restVars
  <2> QED
    BY <1>7, <2>1, <2>2 DEF EditorStep
<1>8. ASSUME NEW s \in Servers, Start(s) PROVE UNCHANGED <<releases, running>>
  BY <1>8 DEF Start
<1>9. ASSUME NEW s \in Servers, NEW r \in Refreshers, Poll(s, r) \/ RefreshFails(s, r)
      PROVE  UNCHANGED <<releases, running>>
  BY <1>9 DEF Poll, RefreshFails
<1>10. CASE UNCHANGED configVars
  BY <1>6, <1>10 DEF configVars
<1>11. CASE ConfigNext
  <2>1. PICK s \in Servers : \/ EditorStep(s) \/ Start(s) \/ Exit(s)
                             \/ \E r \in Refreshers : Poll(s, r) \/ Swap(s, r) \/ RefreshFails(s, r)
    BY <1>11 DEF ConfigNext
  <2>2. CASE StorePublish(s)
    BY <1>3, <2>2 DEF Promise!Next
  <2>3. CASE Exit(s)
    BY <1>4, <2>3 DEF Promise!Next
  <2>4. CASE \E r \in Refreshers : Swap(s, r)
    BY <1>5, <2>4 DEF Promise!Next, Made
  <2> QED
    BY <1>6, <1>7, <1>8, <1>9, <2>1, <2>2, <2>3, <2>4
<1> QED
  BY <1>10, <1>11

-----------------------------------------------------------------------------
\* Revisions, releases and what processes load are well formed, and a release
\* names stored revisions for ever, one for each document it holds.
THEOREM ReleasesStayWhole == ConfigSafe => [](ConfigTypeOK /\ ReleasesAreWhole)
<1>1. ConfigInit => ConfigTypeOK /\ ReleasesAreWhole
  <2> SUFFICES ASSUME ConfigInit PROVE ConfigTypeOK /\ ReleasesAreWhole
    OBVIOUS
  <2>1. Live = 0 /\ releases = <<>> /\ revisions = <<>>
    BY DEF ConfigInit, Live
  <2> QED
    BY <2>1, AtRestTyped DEF ConfigInit, ConfigTypeOK, ReleasesAreWhole
<1>2. ConfigTypeOK /\ ReleasesAreWhole /\ [ConfigNext]_configVars
      => (ConfigTypeOK /\ ReleasesAreWhole)'
  BY NextTyped, NextWhole
<1> QED
  BY <1>1, <1>2, PTL DEF ConfigSafe

\* Whatever processes edit, publish and roll back at once, fail or exit, each
\* runs a release that loads and moves only to newer ones (live.go:47).
THEOREM StoreImplementsReleases == ConfigSafe => ImplementsReleases
<1>1. ConfigInit => Promise!Init
  <2> SUFFICES ASSUME ConfigInit PROVE Promise!Init
    OBVIOUS
  <2>1. releases = <<>> /\ running = [s \in Servers |-> 0]
    BY DEF ConfigInit
  <2> QED
    BY <2>1 DEF Promise!Init
<1>2. ConfigTypeOK /\ ReleasesAreWhole /\ [ConfigNext]_configVars => [Promise!Next]_<<Made, running>>
  BY NextImplements
<1>3. ConfigTypeOK /\ ReleasesAreWhole /\ [ConfigNext]_configVars
      => [Promise!Next]_(Promise!releasesVars)
  BY <1>2 DEF Made, Promise!releasesVars
<1> QED
  BY <1>1, <1>3, ReleasesStayWhole, PTL DEF ConfigSafe, ImplementsReleases, Promise!Spec

-----------------------------------------------------------------------------
(***************************************************************************)
(* What is published was checked.  Between its check and StorePublish an   *)
(* editor holds on to revisions that never change, but what a rollback or  *)
(* a seed checked it reads back from the heads: nobody else may have       *)
(* written, which is known of a process alone on the store only.           *)
(***************************************************************************)

\* Writing what is left makes the documents there are those wanted.
Reaches(have, left, want) ==
  /\ \A d \in Documents : have[d] = want[d] \/ <<d, want[d]>> \in left
  /\ \A w \in left : w[1] \in Documents /\ w = <<w[1], want[w[1]]>>

\* While only one process has been up at a time, the others are down; what a
\* process loads, or has yet to, it loads while it is up or starts.
AloneInv ==
  /\ overlapped \in BOOLEAN /\ unread \in [Servers -> BOOLEAN]
  /\ ~overlapped => \A s, t \in Servers : s # t => Down(s) \/ Down(t)
  /\ \A s \in Servers :
       /\ unread[s] => Up(s)
       /\ \A r \in Refreshers : loading[s][r] # 0 => Up(s) \/ edit[s].at = "load"

\* What an editor is at, it is at for a reason.
StagesOf(by) ==
  CASE by = "nobody"  -> {"rest", "load"}
    [] by = "change"  -> {"draft", "put"}
    [] by = "publish" -> {"live", "publish"}
    [] by = "import"  -> {"put", "publish"}
    [] OTHER          -> {"converge", "put", "heads", "publish"}

\* A draft that is published was read whole, and loads.
PublishInv(e) ==
  e.by = "publish" =>
    Publishable(e.members) /\ (e.at = "publish" => Loads(DocumentsOf(e.members)))

\* An import makes of its members documents that load, what is edited being as
\* a release had it; what it has to write its members do not hold.
ImportInv(e) ==
  e.by = "import" =>
    /\ Publishable(e.members)
    /\ \A w \in e.left : DocumentsOf(e.members)[w[1]] = Gone
    /\ e.at = "publish" => e.left = {}
    /\ \E m \in DOMAIN releases, want \in DocumentSets :
         /\ m = Live \/ overlapped
         /\ Loads(want)
         /\ \A d \in EditableDocs : want[d] = Holds(m)[d]
         /\ Reaches(DocumentsOf(e.members), e.left, want)

\* A rollback, or a seed, of a process alone makes of the heads what it wants.
ConvergeInv(e) ==
  e.by \in {"rollback", "seed"} =>
    /\ e.at \in {"heads", "publish"} => e.left = {}
    /\ e.at = "publish" => Publishable(e.members)
    /\ ~overlapped =>
         /\ Loads(e.want)
         /\ e.at \in {"put", "heads"} => Reaches(DocumentsOf(Heads), e.left, e.want)
         /\ e.at = "publish" => DocumentsOf(e.members) = e.want

\* A rollback wants what a release had, and git's documents as they are live.
RollbackInv(e) ==
  e.by = "rollback" =>
    /\ e.to \in DOMAIN releases
    /\ ~overlapped =>
         /\ \A d \in EditableDocs : e.want[d] = Holds(e.to)[d]
         /\ \A d \in GitDocs : e.want[d] = Holds(Live)[d]

EditInv(e) ==
  /\ e.at \in StagesOf(e.by)
  /\ e.by = "nobody" => e = AtRest \/ e = [AtRest EXCEPT !.at = "load"]
  /\ PublishInv(e) /\ ImportInv(e) /\ ConvergeInv(e) /\ RollbackInv(e)

\* A release is rolled back to an earlier one.
RollbacksLookBack ==
  \A n \in DOMAIN releases : releases[n].by = "rollback" => releases[n].to \in 1 .. (n - 1)

CheckedEdits == \A e \in {edit[s] : s \in Servers} : EditInv(e)

LEMMA HeadsWhole == ConfigTypeOK => Publishable(Heads)
<1> SUFFICES ASSUME ConfigTypeOK PROVE Publishable(Heads)
  OBVIOUS
<1>1. \A i \in Heads : i \in DOMAIN revisions /\ revisions[i].says # Gone /\ i \in Nat
  BY SequencesTyped DEF Heads
<1>2. \A i, j \in Heads : revisions[j].doc = revisions[i].doc => j <= i
  BY DEF Heads
<1> QED
  BY <1>1, <1>2 DEF Publishable

\* Publishable, of any revisions.
WholeIn(revs, ids) ==
  \A i \in ids : /\ i \in DOMAIN revs /\ revs[i].says # Gone
                 /\ \A j \in ids : revs[j].doc = revs[i].doc => j = i

\* Whole revisions hold what they say, and Gone of every other document.
LEMMA SaysIn ==
  ASSUME NEW revs, NEW ids, WholeIn(revs, ids), NEW d, NEW says,
         says = IF \E i \in ids : revs[i].doc = d
                THEN revs[CHOOSE i \in ids : revs[i].doc = d].says ELSE Gone
  PROVE  /\ \A i \in ids : revs[i].doc = d => says = revs[i].says
         /\ says = Gone <=> \A i \in ids : revs[i].doc # d
<1>1. ASSUME NEW i \in ids, revs[i].doc = d
      PROVE  says = revs[i].says /\ revs[i].says # Gone
  <2>1. \A j \in ids : revs[j].doc = d => j = i
    BY <1>1 DEF WholeIn
  <2>2. (CHOOSE j \in ids : revs[j].doc = d) = i
    BY <1>1, <2>1
  <2> QED
    BY <1>1, <2>2 DEF WholeIn
<1>2. (\A i \in ids : revs[i].doc # d) => says = Gone
  OBVIOUS
<1> QED
  BY <1>1, <1>2

LEMMA WholeSays ==
  ASSUME NEW ids, Publishable(ids), NEW d \in Documents
  PROVE  /\ \A i \in ids : revisions[i].doc = d => DocumentsOf(ids)[d] = revisions[i].says
         /\ DocumentsOf(ids)[d] = Gone <=> \A i \in ids : revisions[i].doc # d
<1>1. WholeIn(revisions, ids)
  BY DEF Publishable, WholeIn
<1>2. DocumentsOf(ids)[d] = IF \E i \in ids : revisions[i].doc = d
                            THEN revisions[CHOOSE i \in ids : revisions[i].doc = d].says ELSE Gone
  BY DEF DocumentsOf
<1> QED
  BY <1>1, <1>2, SaysIn

LEMMA WholeSaysNext ==
  ASSUME NEW ids, Publishable(ids)', NEW d \in Documents
  PROVE  /\ \A i \in ids : revisions'[i].doc = d => DocumentsOf(ids)'[d] = revisions'[i].says
         /\ DocumentsOf(ids)'[d] = Gone <=> \A i \in ids : revisions'[i].doc # d
<1>1. WholeIn(revisions', ids)
  BY DEF Publishable, WholeIn
<1>2. DocumentsOf(ids)'[d] = IF \E i \in ids : revisions'[i].doc = d
                             THEN revisions'[CHOOSE i \in ids : revisions'[i].doc = d].says ELSE Gone
  BY DEF DocumentsOf
<1> QED
  BY <1>1, <1>2, SaysIn

\* A revision that is stored is what the draft says of its document.
LEMMA HeadsAfterPut ==
  ASSUME ConfigTypeOK, NEW d \in Documents, NEW v \in Says,
         revisions' = Append(revisions, [doc |-> d, says |-> v])
  PROVE  DocumentsOf(Heads)' = [DocumentsOf(Heads) EXCEPT ![d] = v]
<1> DEFINE id == Len(revisions) + 1
<1>1. /\ revisions \in Seq(Revision) /\ Len(revisions) \in Nat
      /\ [doc |-> d, says |-> v] \in Revision
  BY DEF ConfigTypeOK, Revision, Says
<1>2. /\ DOMAIN revisions = 1 .. Len(revisions) /\ DOMAIN revisions' = 1 .. id
      /\ revisions'[id] = [doc |-> d, says |-> v]
      /\ \A i \in DOMAIN revisions : revisions'[i] = revisions[i]
  BY <1>1
<1>3. \A i \in DOMAIN revisions : i \in Nat /\ i < id
  BY <1>1, <1>2
<1>4. ASSUME NEW i
      PROVE  i \in Heads' <=> ((i = id /\ v # Gone) \/ (i \in Heads /\ revisions[i].doc # d))
  <2>1. /\ id \in Nat /\ id \notin DOMAIN revisions
        /\ \A j : j \in DOMAIN revisions' <=> j = id \/ j \in DOMAIN revisions
        /\ \A j \in DOMAIN revisions : j <= id /\ ~(id <= j)
    BY <1>1, <1>2, <1>3
  <2>2. CASE i = id
    BY <1>2, <2>1, <2>2 DEF Heads
  <2>3. CASE i \in DOMAIN revisions
    <3>1. i \in Heads' <=> /\ revisions[i].says # Gone
                           /\ \A j \in DOMAIN revisions : revisions[j].doc = revisions[i].doc => j <= i
                           /\ d # revisions[i].doc
      BY <1>2, <2>1, <2>3 DEF Heads
    <3> QED
      BY <2>1, <2>3, <3>1 DEF Heads
  <2> QED
    BY <2>1, <2>2, <2>3 DEF Heads
<1>5. Publishable(Heads)
  BY HeadsWhole
<1>6. PICK new : new = Heads'
  OBVIOUS
<1>7. \A i \in new : \/ i = id /\ v # Gone
                     \/ i \in Heads /\ revisions[i].doc # d
  BY <1>4, <1>6
<1>8. Publishable(new)'
  <2>1. \A i \in Heads : /\ i \in DOMAIN revisions /\ revisions[i].says # Gone
                         /\ \A j \in Heads : revisions[j].doc = revisions[i].doc => j = i
    BY <1>5 DEF Publishable
  <2>2. \A i \in new : /\ i \in DOMAIN revisions' /\ revisions'[i].says # Gone
    BY <1>2, <1>7, <2>1, <1>1
  <2>3. \A i, j \in new : revisions'[j].doc = revisions'[i].doc => j = i
    BY <1>2, <1>7, <2>1
  <2> QED
    BY <2>2, <2>3 DEF Publishable
<1>9. ASSUME NEW c \in Documents PROVE DocumentsOf(new)'[c] = IF c = d THEN v ELSE DocumentsOf(Heads)[c]
  <2>1. /\ \A i \in new : revisions'[i].doc = c => DocumentsOf(new)'[c] = revisions'[i].says
        /\ DocumentsOf(new)'[c] = Gone <=> \A i \in new : revisions'[i].doc # c
    BY <1>8, WholeSaysNext
  <2>2. /\ \A i \in Heads : revisions[i].doc = c => DocumentsOf(Heads)[c] = revisions[i].says
        /\ DocumentsOf(Heads)[c] = Gone <=> \A i \in Heads : revisions[i].doc # c
    BY <1>5, WholeSays
  <2>3. CASE c = d /\ v # Gone
    <3>1. id \in new
      BY <1>4, <1>6, <2>3
    <3> QED
      BY <1>2, <2>1, <2>3, <3>1
  <2>4. CASE c = d /\ v = Gone
    <3>1. \A i \in new : revisions'[i].doc # d
      BY <1>2, <1>7, <2>4, HeadsStored
    <3> QED
      BY <3>1, <2>1, <2>4
  <2>5. CASE c # d
    <3>1. CASE \E i \in Heads : revisions[i].doc = c
      <4>1. PICK i \in Heads : revisions[i].doc = c
        BY <3>1
      <4>2. i \in new /\ revisions'[i] = revisions[i]
        BY <1>2, <1>4, <1>6, <2>5, <4>1, HeadsStored
      <4> QED
        BY <2>1, <2>2, <2>5, <4>1, <4>2
    <3>2. CASE \A i \in Heads : revisions[i].doc # c
      <4>1. \A i \in new : revisions'[i].doc # c
        BY <1>2, <1>7, <2>5, <3>2, HeadsStored
      <4> QED
        BY <2>1, <2>2, <2>5, <3>2, <4>1
    <3> QED
      BY <3>1, <3>2
  <2> QED
    BY <2>3, <2>4, <2>5
<1>10. DocumentsOf(Heads)' = [c \in Documents |-> DocumentsOf(new)'[c]]
  BY <1>6 DEF DocumentsOf
<1>11. DocumentsOf(Heads) = [c \in Documents |-> DocumentsOf(Heads)[c]]
  BY DEF DocumentsOf
<1> QED
  BY <1>9, <1>10, <1>11

\* A new revision can be named beside whole ones that hold nothing of its document.
LEMMA MembersAfterPut ==
  ASSUME ConfigTypeOK, NEW ids, Publishable(ids), NEW d \in Documents, DocumentsOf(ids)[d] = Gone,
         NEW v \in Values, revisions' = Append(revisions, [doc |-> d, says |-> v]),
         NEW more, \A i : i \in more <=> i \in ids \/ i = Len(revisions) + 1
  PROVE  Publishable(more)' /\ DocumentsOf(more)' = [DocumentsOf(ids) EXCEPT ![d] = v]
<1> DEFINE id == Len(revisions) + 1
<1>1. /\ revisions \in Seq(Revision) /\ Len(revisions) \in Nat /\ v \in Says /\ v # Gone
      /\ [doc |-> d, says |-> v] \in Revision
  BY ValuesAssumption DEF ConfigTypeOK, Revision, Says
<1>2. /\ DOMAIN revisions = 1 .. Len(revisions) /\ DOMAIN revisions' = 1 .. id
      /\ revisions'[id] = [doc |-> d, says |-> v]
      /\ \A i \in DOMAIN revisions : revisions'[i] = revisions[i]
  BY <1>1
<1>3. \A i \in ids : /\ i \in DOMAIN revisions /\ i \in DOMAIN revisions' /\ revisions'[i] = revisions[i]
                     /\ revisions[i].says # Gone /\ revisions[i].doc # d
                     /\ \A j \in ids : revisions[j].doc = revisions[i].doc => j = i
  BY <1>1, <1>2, WholeSays DEF Publishable
<1>4. Publishable(more)'
  <2>1. \A i \in more : i \in DOMAIN revisions' /\ revisions'[i].says # Gone
    BY <1>1, <1>2, <1>3
  <2>2. \A i, j \in more : revisions'[j].doc = revisions'[i].doc => j = i
    BY <1>2, <1>3
  <2> QED
    BY <2>1, <2>2 DEF Publishable
<1>5. ASSUME NEW c \in Documents PROVE DocumentsOf(more)'[c] = IF c = d THEN v ELSE DocumentsOf(ids)[c]
  <2>1. /\ \A i \in more : revisions'[i].doc = c => DocumentsOf(more)'[c] = revisions'[i].says
        /\ DocumentsOf(more)'[c] = Gone <=> \A i \in more : revisions'[i].doc # c
    BY <1>4, WholeSaysNext
  <2>2. /\ \A i \in ids : revisions[i].doc = c => DocumentsOf(ids)[c] = revisions[i].says
        /\ DocumentsOf(ids)[c] = Gone <=> \A i \in ids : revisions[i].doc # c
    BY WholeSays
  <2>3. CASE c = d
    BY <1>2, <2>1, <2>3
  <2>4. CASE c # d
    <3>1. CASE \E i \in ids : revisions[i].doc = c
      <4>1. PICK i \in ids : revisions[i].doc = c
        BY <3>1
      <4>2. i \in more /\ revisions'[i] = revisions[i]
        BY <1>3, <4>1
      <4> QED
        BY <2>1, <2>4, <2>2, <4>1, <4>2
    <3>2. CASE \A i \in ids : revisions[i].doc # c
      <4>1. \A i \in more : revisions'[i].doc # c
        BY <1>2, <1>3, <2>4, <3>2
      <4> QED
        BY <2>1, <2>4, <2>2, <3>2, <4>1
    <3> QED
      BY <3>1, <3>2
  <2> QED
    BY <2>3, <2>4
<1>6. /\ DocumentsOf(more)' = [c \in Documents |-> DocumentsOf(more)'[c]]
      /\ DocumentsOf(ids) = [c \in Documents |-> DocumentsOf(ids)[c]]
  BY DEF DocumentsOf
<1> QED
  BY <1>4, <1>5, <1>6

LEMMA ReachesWritten ==
  ASSUME NEW have, NEW left, NEW want, Reaches(have, left, want), NEW w \in left,
         NEW then, \A d \in Documents : then[d] = IF d = w[1] THEN w[2] ELSE have[d],
         NEW rest, \A x : x \in rest <=> x \in left /\ x # w
  PROVE  Reaches(then, rest, want)
<1>1. w[1] \in Documents /\ w = <<w[1], want[w[1]]>> /\ w[2] = want[w[1]]
  BY DEF Reaches
<1>2. ASSUME NEW d \in Documents PROVE then[d] = want[d] \/ <<d, want[d]>> \in rest
  <2>1. CASE d = w[1]
    BY <1>1, <2>1
  <2>2. CASE d # w[1]
    BY <1>1, <2>2 DEF Reaches
  <2> QED
    BY <2>1, <2>2
<1> QED
  BY <1>2 DEF Reaches

LEMMA ReachesDone ==
  ASSUME NEW have \in DocumentSets, NEW want \in DocumentSets, Reaches(have, {}, want)
  PROVE  have = want
BY DEF Reaches, DocumentSets

-----------------------------------------------------------------------------
(* What an editor holds on to stays, whatever the other processes do.      *)

LEMMA HoldsKept ==
  ASSUME ConfigTypeOK, ReleasesAreWhole, Grown, NEW n \in DOMAIN releases
  PROVE  n \in DOMAIN releases' /\ releases'[n] = releases[n] /\ Holds(n)' = Holds(n)
<1>1. n \in DOMAIN releases' /\ releases'[n] = releases[n]
  BY DEF Grown
<1> QED
  BY <1>1, MadeKept DEF Made

LEMMA NothingWritten ==
  ASSUME UNCHANGED <<revisions, releases>>
  PROVE  /\ Live' = Live /\ Holds(Live)' = Holds(Live)
         /\ DocumentsOf(Heads)' = DocumentsOf(Heads)
BY DEF Live, Holds, Heads, DocumentsOf

LEMMA EditKept ==
  ASSUME ConfigTypeOK, ReleasesAreWhole, Grown, NEW e \in Edit, EditInv(e),
         overlapped => overlapped', ~overlapped' => UNCHANGED <<revisions, releases>>
  PROVE  EditInv(e)'
<1>1. Publishable(e.members) =>
        Publishable(e.members)' /\ DocumentsOf(e.members)' = DocumentsOf(e.members)
  BY WholeKept
<1>2. PublishInv(e)'
  BY <1>1 DEF EditInv, PublishInv, Loads
<1>3. ImportInv(e)'
  <2> SUFFICES ASSUME e.by = "import" PROVE ImportInv(e)'
    BY DEF ImportInv
  <2>1. /\ Publishable(e.members)
        /\ \A w \in e.left : DocumentsOf(e.members)[w[1]] = Gone
        /\ e.at = "publish" => e.left = {}
    BY DEF EditInv, ImportInv
  <2>2. PICK m \in DOMAIN releases, want \in DocumentSets :
          /\ m = Live \/ overlapped
          /\ Loads(want)
          /\ \A d \in EditableDocs : want[d] = Holds(m)[d]
          /\ Reaches(DocumentsOf(e.members), e.left, want)
    BY DEF EditInv, ImportInv
  <2>3. m \in DOMAIN releases' /\ Holds(m)' = Holds(m)
    BY HoldsKept
  <2>4. m = Live' \/ overlapped'
    BY <2>2, NothingWritten
  <2>5. Reaches(DocumentsOf(e.members)', e.left, want)
    BY <1>1, <2>1, <2>2
  <2> QED
    BY <1>1, <2>1, <2>2, <2>3, <2>4, <2>5 DEF ImportInv
<1>4. ConvergeInv(e)'
  BY <1>1, NothingWritten DEF EditInv, ConvergeInv
<1>5. RollbackInv(e)'
  <2> SUFFICES ASSUME e.by = "rollback" PROVE RollbackInv(e)'
    BY DEF RollbackInv
  <2>1. e.to \in DOMAIN releases
    BY DEF EditInv, RollbackInv
  <2>2. e.to \in DOMAIN releases' /\ Holds(e.to)' = Holds(e.to)
    BY <2>1, HoldsKept
  <2> QED
    BY <2>1, <2>2, NothingWritten DEF EditInv, RollbackInv
<1> QED
  BY <1>2, <1>3, <1>4, <1>5 DEF EditInv

-----------------------------------------------------------------------------
(* What an editor goes on to, when nothing is written.                     *)

LEMMA RestInv ==
  ASSUME NEW e, e.by = "nobody", e = AtRest \/ e = [AtRest EXCEPT !.at = "load"]
  PROVE  EditInv(e)
<1>1. e.at \in {"rest", "load"}
  BY DEF AtRest
<1> QED
  BY <1>1 DEF EditInv, StagesOf, PublishInv, ImportInv, ConvergeInv, RollbackInv

LEMMA ChangeInv ==
  ASSUME NEW e, e.by = "change", e.at \in {"draft", "put"}
  PROVE  EditInv(e)
BY DEF EditInv, StagesOf, PublishInv, ImportInv, ConvergeInv, RollbackInv

\* Who an editor is, by what it is at.
LEMMA EditsAre ==
  ASSUME NEW e \in Edit, EditInv(e)
  PROVE  /\ e.at = "draft" => e.by = "change"
         /\ e.at = "live" => e.by = "publish"
         /\ e.at \in {"converge", "heads"} => e.by \in {"rollback", "seed"}
         /\ e.at = "put" => e.by \in {"change", "import", "rollback", "seed"}
         /\ e.at = "publish" => e.by \in {"publish", "import", "rollback", "seed"}
         /\ e.at = "load" => e.by = "nobody"
BY DEF EditInv, StagesOf, Edit, By

EditGoesOn(s) == \E e : EditInv(e) /\ edit' = [edit EXCEPT ![s] = e]

LEMMA PublishGoesOn ==
  ASSUME ConfigTypeOK, NEW s \in Servers, NEW e \in Edit, e = edit[s], EditInv(e),
         Publish(s) \/ CheckDraft(s)
  PROVE  EditGoesOn(s)
<1>1. CASE Publish(s)
  <2> DEFINE f == [e EXCEPT !.at = "live", !.by = "publish", !.members = Heads]
  <2>1. edit' = [edit EXCEPT ![s] = f]
    BY <1>1 DEF Publish, ConfigTypeOK
  <2>2. f.at = "live" /\ f.by = "publish" /\ f.members = Heads
    BY DEF Edit
  <2> HIDE DEF f
  <2>3. EditInv(f)
    BY <2>2, HeadsWhole DEF EditInv, StagesOf, PublishInv, ImportInv, ConvergeInv, RollbackInv
  <2> QED
    BY <2>1, <2>3 DEF EditGoesOn
<1>2. CASE CheckDraft(s)
  <2> DEFINE f == [e EXCEPT !.at = "publish"]
  <2>1. \/ edit' = [edit EXCEPT ![s] = AtRest]
        \/ edit' = [edit EXCEPT ![s] = f] /\ Loads(DocumentsOf(e.members))
    BY <1>2 DEF CheckDraft
  <2>2. e.by = "publish" /\ Publishable(e.members)
    BY <1>2, EditsAre DEF CheckDraft, EditInv, PublishInv
  <2>3. f.at = "publish" /\ f.by = "publish" /\ f.members = e.members
    BY <2>2 DEF Edit
  <2> HIDE DEF f
  <2>4. Loads(DocumentsOf(e.members)) => EditInv(f)
    BY <2>2, <2>3 DEF EditInv, StagesOf, PublishInv, ImportInv, ConvergeInv, RollbackInv
  <2>5. EditInv(AtRest)
    BY RestInv DEF AtRest
  <2> QED
    BY <2>1, <2>4, <2>5 DEF EditGoesOn
<1> QED
  BY <1>1, <1>2

LEMMA ConvergeGoesOn ==
  ASSUME ConfigTypeOK, NEW s \in Servers, NEW e \in Edit, e = edit[s], EditInv(e),
         Converge(s) \/ Reread(s)
  PROVE  EditGoesOn(s)
<1>1. e.by \in {"rollback", "seed"} /\ ConvergeInv(e) /\ RollbackInv(e) /\ e.want \in DocumentSets
  BY EditsAre DEF Converge, Reread, EditInv, Edit
<1>2. Heads \in SUBSET DOMAIN revisions /\ DocumentsOf(Heads) \in DocumentSets
  BY HeadsStored, DocumentsTyped
<1>3. CASE Converge(s)
  <2> DEFINE left == Differing(Documents, DocumentsOf(Heads), e.want)
             f == [e EXCEPT !.at = IF left = {} THEN "heads" ELSE "put", !.left = left]
  <2>1. edit' = [edit EXCEPT ![s] = f]
    BY <1>3 DEF Converge, ConfigTypeOK
  <2>2. /\ f.by = e.by /\ f.want = e.want /\ f.left = left /\ f.to = e.to
        /\ f.at = IF left = {} THEN "heads" ELSE "put"
    BY DEF Edit
  <2>3. ~overlapped => Loads(e.want)
    BY <1>1 DEF ConvergeInv
  <2>4. Reaches(DocumentsOf(Heads), left, e.want)
    BY DEF Reaches, Differing
  <2> HIDE DEF f, left
  <2>5. ConvergeInv(f)
    BY <2>2, <2>3, <2>4 DEF ConvergeInv
  <2>6. RollbackInv(f)
    BY <1>1, <2>2 DEF RollbackInv
  <2>7. EditInv(f)
    BY <1>1, <2>2, <2>5, <2>6 DEF EditInv, StagesOf, PublishInv, ImportInv
  <2> QED
    BY <2>1, <2>7 DEF EditGoesOn
<1>4. CASE Reread(s)
  <2> DEFINE f == [e EXCEPT !.at = "publish", !.members = Heads]
  <2>1. edit' = [edit EXCEPT ![s] = f] /\ e.at = "heads"
    BY <1>4 DEF Reread, ConfigTypeOK
  <2>2. /\ f.by = e.by /\ f.want = e.want /\ f.left = e.left /\ f.to = e.to
        /\ f.at = "publish" /\ f.members = Heads
    BY DEF Edit
  <2>3. e.left = {}
    BY <1>1, <2>1 DEF ConvergeInv
  <2>4. ~overlapped => Loads(e.want) /\ DocumentsOf(Heads) = e.want
    BY <1>1, <1>2, <2>1, <2>3, ReachesDone DEF ConvergeInv
  <2> HIDE DEF f
  <2>5. ConvergeInv(f)
    BY <2>2, <2>3, <2>4, HeadsWhole DEF ConvergeInv
  <2>6. RollbackInv(f)
    BY <1>1, <2>2 DEF RollbackInv
  <2>7. EditInv(f)
    BY <1>1, <2>2, <2>5, <2>6 DEF EditInv, StagesOf, PublishInv, ImportInv
  <2> QED
    BY <2>1, <2>7 DEF EditGoesOn
<1> QED
  BY <1>3, <1>4

LEMMA RollbackGoesOn ==
  ASSUME ConfigTypeOK, ReleasesAreWhole, NEW s \in Servers, NEW n \in DOMAIN releases, Rollback(s, n)
  PROVE  EditGoesOn(s)
<1> DEFINE want == [d \in Documents |-> IF d \in GitDocs THEN Holds(Live)[d] ELSE Holds(n)[d]]
           f == [AtRest EXCEPT !.at = "converge", !.by = "rollback", !.want = want, !.to = n]
<1>1. edit' = [edit EXCEPT ![s] = f] /\ Loads(want)
  BY DEF Rollback, MayEdit, ConfigTypeOK
<1>2. f.at = "converge" /\ f.by = "rollback" /\ f.want = want /\ f.to = n
  BY DEF AtRest
<1>3. /\ \A d \in EditableDocs : want[d] = Holds(n)[d]
      /\ \A d \in GitDocs : want[d] = Holds(Live)[d]
  BY DocsAssumption DEF Documents
<1> HIDE DEF f, want
<1>4. EditInv(f)
  BY <1>1, <1>2, <1>3 DEF EditInv, StagesOf, PublishInv, ImportInv, ConvergeInv, RollbackInv
<1> QED
  BY <1>1, <1>4 DEF EditGoesOn

LEMMA SeedGoesOn ==
  ASSUME ConfigTypeOK, NEW s \in Servers, edit[s] = AtRest, NEW catalog \in Catalogs, Seed(s, catalog)
  PROVE  EditGoesOn(s)
<1> DEFINE f == [AtRest EXCEPT !.at = "converge", !.by = "seed", !.want = catalog]
<1>1. edit' = [edit EXCEPT ![s] = f] /\ Loads(catalog)
  BY DEF Seed, ConfigTypeOK
<1>2. f.at = "converge" /\ f.by = "seed" /\ f.want = catalog
  BY DEF AtRest
<1> HIDE DEF f
<1>3. EditInv(f)
  BY <1>1, <1>2 DEF EditInv, StagesOf, PublishInv, ImportInv, ConvergeInv, RollbackInv
<1> QED
  BY <1>1, <1>3 DEF EditGoesOn

\* What an import takes over from a release is what it wants of it.
LEMMA ImportedReaches ==
  ASSUME ConfigTypeOK, ReleasesAreWhole, Live \in DOMAIN releases, NEW want \in DocumentSets,
         \A d \in EditableDocs : want[d] = Holds(Live)[d],
         NEW ids, ids = imported(want),
         NEW left, left = Differing(GitDocs, Holds(Live), want)
  PROVE  /\ Publishable(ids) /\ Reaches(DocumentsOf(ids), left, want)
         /\ \A w \in left : DocumentsOf(ids)[w[1]] = Gone
<1> DEFINE all == releases[Live].members
<1>1. Publishable(all) /\ Holds(Live) = DocumentsOf(all)
  BY DEF ReleasesAreWhole, Holds
<1>2. \A i \in ids : i \in all /\ (\/ revisions[i].doc \in EditableDocs
                                   \/ revisions[i].says = want[revisions[i].doc])
  BY DEF imported
<1>3. \A i \in all : \/ i \in ids
                     \/ /\ revisions[i].doc \notin EditableDocs
                        /\ revisions[i].says # want[revisions[i].doc]
  BY DEF imported
<1>4. Publishable(ids)
  BY <1>1, <1>2 DEF Publishable
<1> HIDE DEF all
<1>5. ASSUME NEW d \in Documents
      PROVE  /\ DocumentsOf(ids)[d] = want[d] \/ <<d, want[d]>> \in left
             /\ d \in GitDocs /\ Holds(Live)[d] # want[d] => DocumentsOf(ids)[d] = Gone
  <2>1. /\ \A i \in ids : revisions[i].doc = d => DocumentsOf(ids)[d] = revisions[i].says
        /\ DocumentsOf(ids)[d] = Gone <=> \A i \in ids : revisions[i].doc # d
    BY <1>4, WholeSays
  <2>2. /\ \A i \in all : revisions[i].doc = d => Holds(Live)[d] = revisions[i].says
        /\ Holds(Live)[d] = Gone <=> \A i \in all : revisions[i].doc # d
    BY <1>1, WholeSays
  <2>3. CASE Holds(Live)[d] = want[d]
    <3>1. CASE \E i \in all : revisions[i].doc = d
      <4>1. PICK i \in all : revisions[i].doc = d
        BY <3>1
      <4>2. i \in ids
        BY <1>3, <2>2, <2>3, <4>1
      <4> QED
        BY <2>1, <2>2, <2>3, <4>1, <4>2
    <3>2. CASE \A i \in all : revisions[i].doc # d
      BY <1>2, <2>1, <2>2, <2>3, <3>2
    <3> QED
      BY <2>3, <3>1, <3>2
  <2>4. CASE Holds(Live)[d] # want[d]
    <3>1. d \in GitDocs /\ d \notin EditableDocs
      BY <2>4, DocsAssumption DEF Documents
    <3>2. \A i \in ids : revisions[i].doc # d
      BY <1>2, <2>2, <2>4, <3>1
    <3> QED
      BY <2>1, <2>4, <3>1, <3>2 DEF Differing
  <2> QED
    BY <2>3, <2>4
<1>6. \A w \in left : /\ w[1] \in GitDocs /\ Holds(Live)[w[1]] # want[w[1]]
                      /\ w[1] \in Documents /\ w = <<w[1], want[w[1]]>>
  BY DEF Differing, Documents
<1> QED
  BY <1>4, <1>5, <1>6 DEF Reaches

LEMMA ImportGoesOn ==
  ASSUME ConfigTypeOK, ReleasesAreWhole, NEW s \in Servers, edit[s] = AtRest,
         NEW catalog \in Catalogs, ImportGitKinds(s, catalog)
  PROVE  EditGoesOn(s)
<1> DEFINE want == [d \in Documents |-> IF d \in GitDocs THEN catalog[d] ELSE Holds(Live)[d]]
           left == Differing(GitDocs, Holds(Live), want)
           f == [AtRest EXCEPT !.at = "put", !.by = "import", !.members = imported(want), !.left = left]
           g == [AtRest EXCEPT !.at = "load"]
<1>1. Live \in DOMAIN releases
  BY SequencesTyped DEF ImportGitKinds, ConfigTypeOK, Live
<1>2. \/ edit' = [edit EXCEPT ![s] = g]
      \/ edit' = [edit EXCEPT ![s] = f] /\ Loads(want)
  BY DEF ImportGitKinds, ConfigTypeOK
<1>3. EditInv(g)
  BY RestInv DEF AtRest
<1>4. ASSUME Loads(want) PROVE EditInv(f)
  <2>1. want \in DocumentSets /\ \A d \in EditableDocs : want[d] = Holds(Live)[d]
    <3>1. Holds(Live) \in DocumentSets /\ catalog \in DocumentSets
      BY <1>1, HoldsTyped, CatalogsAssumption
    <3> QED
      BY <3>1, DocsAssumption DEF DocumentSets, Documents
  <2>2. f.at = "put" /\ f.by = "import" /\ f.members = imported(want) /\ f.left = left
    BY DEF AtRest
  <2> HIDE DEF f, want
  <2>3. /\ Publishable(f.members) /\ Reaches(DocumentsOf(f.members), f.left, want)
        /\ \A w \in f.left : DocumentsOf(f.members)[w[1]] = Gone
    BY <1>1, <2>1, <2>2, ImportedReaches
  <2>4. ImportInv(f)
    BY <1>1, <1>4, <2>1, <2>2, <2>3 DEF ImportInv
  <2> QED
    BY <2>2, <2>4 DEF EditInv, StagesOf, PublishInv, ConvergeInv, RollbackInv
<1> QED
  BY <1>2, <1>3, <1>4 DEF EditGoesOn

\* The editor of one process goes on, and nothing is written.
LEMMA QuietInv ==
  ASSUME ConfigTypeOK, ReleasesAreWhole, NEW s \in Servers, NEW e \in Edit, e = edit[s], EditInv(e),
         \/ \E w \in Edits : Change(s, w[1], w[2])
         \/ \E d \in EditableDocs : Restore(s, d)
         \/ CheckRestored(s) \/ Publish(s) \/ CheckDraft(s) \/ Converge(s) \/ Reread(s)
         \/ StoreFails(s) \/ Start(s) \/ Exit(s)
         \/ \E n \in DOMAIN releases : Rollback(s, n)
         \/ \E r \in Refreshers : Poll(s, r) \/ Swap(s, r) \/ RefreshFails(s, r)
  PROVE  EditGoesOn(s)
<1>1. EditInv(AtRest)
  BY RestInv DEF AtRest
<1>2. (edit' = [edit EXCEPT ![s] = AtRest] \/ edit' = [edit EXCEPT ![s] = e]) => EditGoesOn(s)
  BY <1>1 DEF EditGoesOn
<1>3. ASSUME NEW left, NEW at \in {"draft", "put"},
             edit' = [edit EXCEPT ![s] = [e EXCEPT !.at = at, !.by = "change", !.left = left]]
      PROVE  EditGoesOn(s)
  <2> DEFINE f == [e EXCEPT !.at = at, !.by = "change", !.left = left]
  <2>1. f.by = "change" /\ f.at = at
    BY DEF Edit
  <2> HIDE DEF f
  <2>2. EditInv(f)
    BY <2>1, ChangeInv
  <2> QED
    BY <1>3, <2>2 DEF EditGoesOn, f
<1>4. ASSUME NEW w \in Edits, Change(s, w[1], w[2]) PROVE EditGoesOn(s)
  <2>1. edit' = [edit EXCEPT ![s] = [e EXCEPT !.at = "put", !.by = "change", !.left = {<<w[1], w[2]>>}]]
    BY <1>4 DEF Change, ConfigTypeOK
  <2> QED
    BY <1>3, <2>1
<1>5. ASSUME NEW d \in EditableDocs, Restore(s, d) PROVE EditGoesOn(s)
  <2>1. PICK last : edit' = [edit EXCEPT ![s].at = "draft", ![s].by = "change",
                                         ![s].left = {<<d, revisions[last].says>>}]
    BY <1>5 DEF Restore
  <2>2. edit' = [edit EXCEPT ![s] = [e EXCEPT !.at = "draft", !.by = "change",
                                              !.left = {<<d, revisions[last].says>>}]]
    BY <2>1 DEF ConfigTypeOK
  <2> QED
    BY <1>3, <2>2
<1>6. CASE CheckRestored(s)
  <2>1. e.by = "change"
    BY <1>6, EditsAre DEF CheckRestored
  <2>2. \/ edit' = [edit EXCEPT ![s] = AtRest]
        \/ edit' = [edit EXCEPT ![s] = [e EXCEPT !.at = "put"]]
    BY <1>6 DEF CheckRestored
  <2> DEFINE f == [e EXCEPT !.at = "put"]
  <2>3. f.by = "change" /\ f.at = "put"
    BY <2>1 DEF Edit
  <2> HIDE DEF f
  <2>4. EditInv(f)
    BY <2>3, ChangeInv
  <2> QED
    BY <1>2, <2>2, <2>4 DEF EditGoesOn, f
<1>7. CASE StoreFails(s) \/ Exit(s)
  BY <1>2, <1>7 DEF StoreFails, Exit
<1>8. ASSUME NEW r \in Refreshers, Poll(s, r) \/ Swap(s, r) \/ RefreshFails(s, r)
      PROVE  EditGoesOn(s)
  <2>1. edit = [edit EXCEPT ![s] = e]
    BY DEF ConfigTypeOK
  <2>2. \/ edit' = edit \/ edit' = [edit EXCEPT ![s] = AtRest] \/ edit' = [edit EXCEPT ![s] = e]
    BY <1>8 DEF Poll, Swap, RefreshFails
  <2> QED
    BY <1>2, <2>1, <2>2
<1>9. CASE Start(s)
  BY <1>9, SeedGoesOn, ImportGoesOn DEF Start, Down
<1> QED
  BY <1>4, <1>5, <1>6, <1>7, <1>8, <1>9, PublishGoesOn, ConvergeGoesOn, RollbackGoesOn

-----------------------------------------------------------------------------
(* What an editor writes, and publishes.                                   *)

\* An import that stores a revision names it, and no other of its document.
LEMMA ImportPuts ==
  ASSUME ConfigTypeOK, ReleasesAreWhole, Grown, NEW e \in Edit, EditInv(e), e.by = "import",
         NEW w \in e.left, w \in Documents \X Says,
         revisions' = Append(revisions, [doc |-> w[1], says |-> w[2]]),
         UNCHANGED <<releases, overlapped>>,
         NEW f, f.by = "import", f.left = e.left \ {w},
         \A i : i \in f.members <=>
           i \in e.members \/ (w[2] # Gone /\ i = Len(revisions) + 1),
         f.at = IF f.left = {} THEN "publish" ELSE "put"
  PROVE  EditInv(f)'
<1> DEFINE have == DocumentsOf(e.members)
<1>1. Publishable(e.members) /\ \A x \in e.left : have[x[1]] = Gone
  BY DEF EditInv, ImportInv
<1>2. PICK m \in DOMAIN releases, want \in DocumentSets :
        /\ m = Live \/ overlapped
        /\ Loads(want)
        /\ \A d \in EditableDocs : want[d] = Holds(m)[d]
        /\ Reaches(have, e.left, want)
  BY DEF EditInv, ImportInv
<1>3. w[1] \in Documents /\ w[2] \in Says /\ have[w[1]] = Gone
  BY <1>1
<1>4. have \in DocumentSets
  BY <1>1, DocumentsTyped DEF Publishable
<1>5. Publishable(f.members)' /\ DocumentsOf(f.members)' = [have EXCEPT ![w[1]] = w[2]]
  <2>1. CASE w[2] = Gone
    <3>1. f.members = e.members
      BY <2>1
    <3>2. [have EXCEPT ![w[1]] = w[2]] = have
      BY <1>3, <1>4, <2>1 DEF DocumentSets
    <3> QED
      BY <1>1, <3>1, <3>2, WholeKept
  <2>2. CASE w[2] # Gone
    <3>1. w[2] \in Values /\ \A i : i \in f.members <=> i \in e.members \/ i = Len(revisions) + 1
      BY <1>3, <2>2 DEF Says
    <3>2. PICK ids, more : ids = e.members /\ more = f.members
      OBVIOUS
    <3>3. Publishable(more)' /\ DocumentsOf(more)' = [DocumentsOf(ids) EXCEPT ![w[1]] = w[2]]
      BY <1>1, <1>3, <3>1, <3>2, MembersAfterPut
    <3> QED
      BY <3>2, <3>3
  <2> QED
    BY <2>1, <2>2
<1>6. Reaches(DocumentsOf(f.members)', f.left, want)
  <2>1. \A d \in Documents : DocumentsOf(f.members)'[d] = IF d = w[1] THEN w[2] ELSE have[d]
    BY <1>4, <1>5 DEF DocumentSets
  <2>2. \A x : x \in f.left <=> x \in e.left /\ x # w
    OBVIOUS
  <2>3. PICK then, rest : then = DocumentsOf(f.members)' /\ rest = f.left
    OBVIOUS
  <2>4. Reaches(then, rest, want)
    BY <1>2, <2>1, <2>2, <2>3, ReachesWritten
  <2> QED
    BY <2>3, <2>4
<1>7. ASSUME NEW x \in f.left PROVE DocumentsOf(f.members)'[x[1]] = Gone
  <2>1. x \in e.left /\ x # w /\ x[1] \in Documents /\ have[x[1]] = Gone
    BY <1>1, <1>2 DEF Reaches
  <2>2. x[1] # w[1]
    BY <1>2, <2>1 DEF Reaches
  <2> QED
    BY <1>4, <1>5, <2>1, <2>2 DEF DocumentSets
<1>8. m \in DOMAIN releases' /\ Holds(m)' = Holds(m) /\ Live' = Live
  BY HoldsKept DEF Live
<1>9. ImportInv(f)'
  BY <1>2, <1>5, <1>6, <1>7, <1>8 DEF ImportInv
<1> QED
  BY <1>9 DEF EditInv, StagesOf, PublishInv, ConvergeInv, RollbackInv

\* A rollback, or a seed, has one document less to write to the heads.
LEMMA ConvergePuts ==
  ASSUME ConfigTypeOK, ReleasesAreWhole, Grown, NEW e \in Edit, EditInv(e), e.at = "put",
         e.by \in {"rollback", "seed"},
         NEW w \in e.left, w \in Documents \X Says,
         revisions' = Append(revisions, [doc |-> w[1], says |-> w[2]]),
         UNCHANGED <<releases, overlapped>>,
         NEW f, f.by = e.by, f.left = e.left \ {w}, f.want = e.want, f.to = e.to,
         f.at = IF f.left = {} THEN "heads" ELSE "put"
  PROVE  EditInv(f)'
<1>1. w[1] \in Documents /\ w[2] \in Says
  OBVIOUS
<1>2. Heads \in SUBSET DOMAIN revisions /\ DocumentsOf(Heads) \in DocumentSets
  BY HeadsStored, DocumentsTyped
<1>3. DocumentsOf(Heads)' = [DocumentsOf(Heads) EXCEPT ![w[1]] = w[2]]
  BY <1>1, HeadsAfterPut
<1>4. ~overlapped => Reaches(DocumentsOf(Heads), e.left, e.want) /\ Loads(e.want)
  BY DEF EditInv, ConvergeInv
<1>5. ~overlapped => Reaches(DocumentsOf(Heads)', f.left, f.want)
  <2> SUFFICES ASSUME ~overlapped PROVE Reaches(DocumentsOf(Heads)', f.left, f.want)
    OBVIOUS
  <2>1. PICK have, then, left, rest : /\ have = DocumentsOf(Heads) /\ then = DocumentsOf(Heads)'
                                      /\ left = e.left /\ rest = f.left
    OBVIOUS
  <2>2. \A d \in Documents : then[d] = IF d = w[1] THEN w[2] ELSE have[d]
    BY <1>2, <1>3, <2>1 DEF DocumentSets
  <2>3. \A x : x \in rest <=> x \in left /\ x # w
    BY <2>1
  <2>4. Reaches(then, rest, e.want)
    BY <1>4, <2>1, <2>2, <2>3, ReachesWritten
  <2> QED
    BY <2>1, <2>4
<1>6. ConvergeInv(f)'
  BY <1>4, <1>5 DEF ConvergeInv
<1>7. RollbackInv(f)'
  <2> SUFFICES ASSUME f.by = "rollback" PROVE RollbackInv(f)'
    BY DEF RollbackInv
  <2>1. e.to \in DOMAIN releases
    BY DEF EditInv, RollbackInv
  <2>2. Holds(e.to)' = Holds(e.to) /\ e.to \in DOMAIN releases'
    BY <2>1, HoldsKept
  <2>3. ~overlapped => /\ \A d \in EditableDocs : e.want[d] = Holds(e.to)[d]
                       /\ \A d \in GitDocs : e.want[d] = Holds(Live)[d]
    BY DEF EditInv, RollbackInv
  <2>4. Holds(Live)' = Holds(Live)
    <3>1. PICK n : n = Live
      OBVIOUS
    <3>2. n \in DOMAIN releases /\ Live' = n
      BY <2>1, <3>1, SequencesTyped DEF Live
    <3>3. Holds(n)' = Holds(n)
      BY <3>2, HoldsKept
    <3>4. Holds(Live)' = Holds(n)'
      BY <3>2 DEF Holds, DocumentsOf
    <3> QED
      BY <3>1, <3>3, <3>4
  <2> QED
    BY <2>2, <2>3, <2>4 DEF RollbackInv
<1> QED
  BY <1>6, <1>7 DEF EditInv, StagesOf, PublishInv, ImportInv

LEMMA PutGoesOn ==
  ASSUME ConfigTypeOK, ReleasesAreWhole, NEW s \in Servers, NEW e \in Edit, e = edit[s], EditInv(e),
         NEW w \in e.left, Put(s, w)
  PROVE  \E f : EditInv(f)' /\ edit' = [edit EXCEPT ![s] = f]
<1> DEFINE id == Len(revisions) + 1
<1>0. PICK members : members = IF e.by = "import" /\ w[2] # Gone THEN e.members \cup {id} ELSE e.members
  OBVIOUS
<1> DEFINE g == [e EXCEPT !.left = e.left \ {w}, !.members = members]
           f == IF g.left = {} THEN Written(g) ELSE g
<1>1. edit' = [edit EXCEPT ![s] = f]
  BY <1>0 DEF Put, Edit
<1>2. /\ e.at = "put" /\ revisions' = Append(revisions, [doc |-> w[1], says |-> w[2]])
      /\ UNCHANGED <<releases, overlapped>>
  BY DEF Put, restVars
<1>3. Grown /\ w \in Documents \X Says
  BY PutTyped DEF Edit, Says
<1>4. e.by \in {"change", "import", "rollback", "seed"}
  BY <1>2, EditsAre
<1>5. CASE e.by = "change"
  <2>1. g.by = "change" /\ g.at = "put"
    BY <1>2, <1>5 DEF Edit
  <2>2. (f.by = "change" /\ f.at = "put") \/ (f = AtRest /\ f.by = "nobody" /\ f.at = "rest")
    BY <2>1 DEF Written, AtRest
  <2> HIDE DEF f
  <2>3. EditInv(f)'
    BY <2>2 DEF EditInv, StagesOf, PublishInv, ImportInv, ConvergeInv, RollbackInv
  <2> QED
    BY <1>1, <2>3
<1>6. CASE e.by = "import"
  <2>1. /\ f.by = "import" /\ f.left = e.left \ {w} /\ f.members = members
        /\ f.at = IF f.left = {} THEN "publish" ELSE "put"
    BY <1>2, <1>6 DEF Edit, Written
  <2> HIDE DEF f
  <2>2. EditInv(f)'
    BY <1>0, <1>2, <1>3, <1>6, <2>1, ImportPuts
  <2> QED
    BY <1>1, <2>2
<1>7. CASE e.by \in {"rollback", "seed"}
  <2>1. /\ f.by = e.by /\ f.left = e.left \ {w} /\ f.want = e.want /\ f.to = e.to
        /\ f.at = IF f.left = {} THEN "heads" ELSE "put"
    BY <1>2, <1>7 DEF Edit, Written
  <2> HIDE DEF f
  <2>2. EditInv(f)'
    BY <1>2, <1>3, <1>7, <2>1, ConvergePuts
  <2> QED
    BY <1>1, <2>2
<1> QED
  BY <1>4, <1>5, <1>6, <1>7

\* What is published loads, and is what was asked for.
LEMMA Published ==
  ASSUME ConfigTypeOK, ReleasesAreWhole, ReleasesLoad, DraftsStayDrafts, RollbacksReturn,
         RollbacksLookBack, NEW s \in Servers, NEW e \in Edit, e = edit[s], EditInv(e), StorePublish(s)
  PROVE  (ReleasesLoad /\ DraftsStayDrafts /\ RollbacksReturn /\ RollbacksLookBack)'
<1> DEFINE new == [members |-> e.members, by |-> e.by, to |-> e.to]
<1>1. /\ e.at = "publish" /\ Publishable(e.members) /\ releases' = Append(releases, new)
      /\ UNCHANGED <<revisions, overlapped>>
  BY DEF StorePublish
<1>2. Grown /\ Live \in Nat /\ DOMAIN releases = 1 .. Live
  BY StorePublishTyped, SequencesTyped
<1>3. PICK n : n = Live + 1
  OBVIOUS
<1>4. n \in Nat \ {0} /\ n - 1 = Live /\ n \notin DOMAIN releases
  BY <1>2, <1>3
<1>5. releases'[n] = new /\ DOMAIN releases' = DOMAIN releases \cup {n}
  BY <1>1, <1>2, <1>3 DEF ConfigTypeOK, Live
<1>6. ASSUME NEW m \in DOMAIN releases
      PROVE  releases'[m] = releases[m] /\ Holds(m)' = Holds(m)
  BY <1>2, HoldsKept
<1>7. Holds(n)' = DocumentsOf(e.members)
  <2>1. PICK ids : ids = e.members
    OBVIOUS
  <2>2. ids = releases'[n].members
    BY <1>5, <2>1
  <2>3. Holds(n)' = DocumentsOf(ids)'
    BY <2>2 DEF Holds, DocumentsOf
  <2>4. DocumentsOf(ids)' = DocumentsOf(ids)
    BY <1>1 DEF DocumentsOf
  <2> QED
    BY <2>1, <2>3, <2>4
<1>8. /\ e.by \in {"publish", "import", "rollback", "seed"} /\ PublishInv(e)
      /\ ImportInv(e) /\ ConvergeInv(e) /\ RollbackInv(e)
  BY <1>1, EditsAre DEF EditInv
<1>9. releases'[n].by = e.by /\ releases'[n].to = e.to
  BY <1>5
<1>10. ASSUME e.by = "import"
       PROVE  /\ Loads(DocumentsOf(e.members))
              /\ \E m \in DOMAIN releases :
                   /\ \A d \in EditableDocs : DocumentsOf(e.members)[d] = Holds(m)[d]
                   /\ m = Live \/ overlapped
  <2>1. PICK m \in DOMAIN releases, want \in DocumentSets :
          /\ m = Live \/ overlapped
          /\ Loads(want)
          /\ \A d \in EditableDocs : want[d] = Holds(m)[d]
          /\ Reaches(DocumentsOf(e.members), e.left, want) /\ e.left = {}
    BY <1>1, <1>8, <1>10 DEF ImportInv
  <2>2. DocumentsOf(e.members) \in DocumentSets
    BY <1>1, DocumentsTyped DEF Publishable
  <2>3. DocumentsOf(e.members) = want
    BY <2>1, <2>2, ReachesDone
  <2> QED
    BY <2>1, <2>3
<1>11. Loads(DocumentsOf(e.members)) \/ (overlapped /\ e.by \in {"rollback", "seed"})
  BY <1>1, <1>8, <1>10 DEF PublishInv, ConvergeInv
<1>12. ReleasesLoad'
  <2>1. \A m \in DOMAIN releases : Loads(Holds(m)') \/ (overlapped' /\ releases'[m].by \in {"rollback", "seed"})
    BY <1>1, <1>6 DEF ReleasesLoad
  <2>2. Loads(Holds(n)') \/ (overlapped' /\ releases'[n].by \in {"rollback", "seed"})
    BY <1>1, <1>7, <1>9, <1>11
  <2>3. \A m \in DOMAIN releases' : Loads(Holds(m)') \/ (overlapped' /\ releases'[m].by \in {"rollback", "seed"})
    BY <1>5, <2>1, <2>2
  <2> QED
    BY <2>3 DEF ReleasesLoad
<1>13. DraftsStayDrafts'
  <2>1. ASSUME NEW k \in DOMAIN releases', releases'[k].by = "import"
        PROVE  \E m \in 1 .. (k - 1) : /\ \A d \in EditableDocs : Holds(k)'[d] = Holds(m)'[d]
                                       /\ m = k - 1 \/ overlapped'
    <3>1. CASE k = n
      <4>1. PICK m \in DOMAIN releases : /\ \A d \in EditableDocs : DocumentsOf(e.members)[d] = Holds(m)[d]
                                         /\ m = Live \/ overlapped
        BY <1>9, <1>10, <2>1, <3>1
      <4>2. m \in 1 .. (k - 1) /\ (m = k - 1 \/ overlapped')
        BY <1>1, <1>2, <1>4, <3>1, <4>1
      <4>3. \A d \in EditableDocs : Holds(k)'[d] = Holds(m)'[d]
        BY <1>6, <1>7, <3>1, <4>1
      <4> QED
        BY <4>2, <4>3
    <3>2. CASE k \in DOMAIN releases
      <4>1. PICK m \in 1 .. (k - 1) : /\ \A d \in EditableDocs : Holds(k)[d] = Holds(m)[d]
                                      /\ m = k - 1 \/ overlapped
        BY <1>6, <2>1, <3>2 DEF DraftsStayDrafts
      <4>2. m \in DOMAIN releases
        BY <1>2, <3>2, <4>1
      <4> QED
        BY <1>1, <1>6, <3>2, <4>1, <4>2
    <3> QED
      BY <1>5, <2>1, <3>1, <3>2
  <2> QED
    BY <2>1 DEF DraftsStayDrafts
<1>14. RollbacksLookBack'
  <2>1. \A k \in DOMAIN releases : releases'[k].by = "rollback" => releases'[k].to \in 1 .. (k - 1)
    BY <1>6 DEF RollbacksLookBack
  <2>2. e.by = "rollback" => e.to \in 1 .. (n - 1)
    BY <1>2, <1>4, <1>8 DEF RollbackInv
  <2> QED
    BY <1>5, <1>9, <2>1, <2>2 DEF RollbacksLookBack
<1>15. RollbacksReturn'
  <2>1. ASSUME NEW k \in DOMAIN releases', releases'[k].by = "rollback", ~overlapped',
               NEW to, to = releases'[k].to, NEW last, last = k - 1
        PROVE  /\ \A d \in EditableDocs : Holds(k)'[d] = Holds(to)'[d]
               /\ \A d \in GitDocs : Holds(k)'[d] = Holds(last)'[d]
    <3>1. to = releases'[k].to /\ last = k - 1
      BY <2>1
    <3>2. CASE k = n
      <4>1. to = e.to /\ to \in DOMAIN releases /\ last = Live
        BY <1>4, <1>8, <1>9, <2>1, <3>1, <3>2 DEF RollbackInv
      <4>2. last \in DOMAIN releases
        BY <1>2, <4>1
      <4>3. /\ \A d \in EditableDocs : Holds(k)'[d] = Holds(to)[d]
            /\ \A d \in GitDocs : Holds(k)'[d] = Holds(last)[d]
        BY <1>1, <1>7, <1>8, <1>9, <2>1, <3>2, <4>1 DEF ConvergeInv, RollbackInv
      <4>4. Holds(to)' = Holds(to) /\ Holds(last)' = Holds(last)
        BY <1>6, <4>1, <4>2
      <4> QED
        BY <4>3, <4>4
    <3>3. CASE k \in DOMAIN releases
      <4>1. releases[k].by = "rollback" /\ ~overlapped /\ to = releases[k].to
        BY <1>1, <1>6, <2>1, <3>1, <3>3
      <4>2. to \in 1 .. (k - 1) /\ to \in DOMAIN releases /\ last \in DOMAIN releases
        BY <1>2, <3>1, <3>3, <4>1 DEF RollbacksLookBack
      <4>3. /\ \A d \in EditableDocs : Holds(k)[d] = Holds(to)[d]
            /\ \A d \in GitDocs : Holds(k)[d] = Holds(last)[d]
        BY <3>1, <3>3, <4>1 DEF RollbacksReturn
      <4>4. Holds(to)' = Holds(to) /\ Holds(last)' = Holds(last) /\ Holds(k)' = Holds(k)
        BY <1>6, <3>3, <4>2
      <4> QED
        BY <4>3, <4>4
    <3> QED
      BY <1>5, <3>2, <3>3
  <2> QED
    <3> SUFFICES ASSUME NEW k \in DOMAIN releases', releases'[k].by = "rollback", ~overlapped'
                 PROVE  (/\ \A d \in EditableDocs : Holds(k)[d] = Holds(releases[k].to)[d]
                         /\ \A d \in GitDocs : Holds(k)[d] = Holds(k - 1)[d])'
      BY DEF RollbacksReturn
    <3>1. PICK to, last : to = releases'[k].to /\ last = k - 1
      OBVIOUS
    <3>2. /\ \A d \in EditableDocs : Holds(k)'[d] = Holds(to)'[d]
          /\ \A d \in GitDocs : Holds(k)'[d] = Holds(last)'[d]
      BY <2>1, <3>1
    <3>3. Holds(releases[k].to)' = Holds(to)' /\ Holds(k - 1)' = Holds(last)'
      BY <3>1 DEF Holds, DocumentsOf
    <3> QED
      BY <3>2, <3>3
<1> QED
  BY <1>12, <1>13, <1>14, <1>15

-----------------------------------------------------------------------------
(* Nobody else is up while a process is alone on the store.                *)

\* A process that is up, or starts, moves by itself.
Moves(s) ==
  /\ ~Down(s) /\ UNCHANGED overlapped
  /\ \A t \in Servers : t # s => /\ edit'[t] = edit[t] /\ running'[t] = running[t]
                                 /\ unread'[t] = unread[t] /\ loading'[t] = loading[t]

LEMMA MovesAlone ==
  ASSUME AloneInv, NEW s \in Servers, Moves(s), unread' \in [Servers -> BOOLEAN],
         unread'[s] => running'[s] # 0,
         \A r \in Refreshers : loading'[s][r] # 0 => running'[s] # 0 \/ edit'[s].at = "load"
  PROVE  AloneInv'
<1>1. ASSUME NEW t \in Servers, t # s
      PROVE  (Down(t) => Down(t)') /\ (unread'[t] => Up(t)')
             /\ \A r \in Refreshers : loading'[t][r] # 0 => Up(t)' \/ edit'[t].at = "load"
  BY <1>1 DEF AloneInv, Moves, Down, Up
<1>2. ~overlapped' => \A t, u \in Servers : t # u => Down(t)' \/ Down(u)'
  <2> SUFFICES ASSUME ~overlapped', NEW t \in Servers, NEW u \in Servers, t # u
               PROVE  Down(t)' \/ Down(u)'
    OBVIOUS
  <2>1. \A x \in Servers : x # s => Down(x)
    BY DEF AloneInv, Moves
  <2> QED
    BY <1>1, <2>1
<1>3. overlapped' \in BOOLEAN
  BY DEF AloneInv, Moves
<1>4. (unread'[s] => Up(s)')
      /\ \A r \in Refreshers : loading'[s][r] # 0 => Up(s)' \/ edit'[s].at = "load"
  BY DEF Up
<1>5. \A t \in Servers : /\ unread'[t] => Up(t)'
                         /\ \A r \in Refreshers : loading'[t][r] # 0 => Up(t)' \/ edit'[t].at = "load"
  BY <1>1, <1>4
<1> QED
  BY <1>2, <1>3, <1>5 DEF AloneInv, Up

\* The editor of a process that runs, or has nothing to load, goes on.
LEMMA EditorAlone ==
  ASSUME ConfigTypeOK, AloneInv, NEW s \in Servers, NEW e \in Edit, e = edit[s],
         e.at # "load", Up(s) \/ e # AtRest,
         NEW f, edit' = [edit EXCEPT ![s] = f],
         UNCHANGED <<running, loading, overlapped>>,
         unread' = unread \/ unread' = [unread EXCEPT ![s] = Up(s)]
  PROVE  AloneInv'
<1>1. Moves(s) /\ unread' \in [Servers -> BOOLEAN]
  BY DEF AloneInv, ConfigTypeOK, Moves, Down, Up
<1>2. unread'[s] => running'[s] # 0
  BY DEF AloneInv, Up
<1>3. \A r \in Refreshers : loading'[s][r] # 0 => running'[s] # 0 \/ edit'[s].at = "load"
  BY DEF AloneInv, Up
<1> QED
  BY <1>1, <1>2, <1>3, MovesAlone

LEMMA RefreshAlone ==
  ASSUME ConfigTypeOK, AloneInv, NEW s \in Servers, NEW r \in Refreshers,
         Poll(s, r) \/ Swap(s, r) \/ RefreshFails(s, r)
  PROVE  AloneInv'
<1>1. ~Down(s)
  BY DEF AloneInv, Poll, Swap, RefreshFails, Down, Up, AtRest
<1>2. Moves(s) /\ unread' \in [Servers -> BOOLEAN]
  <2>1. unread \in [Servers -> BOOLEAN] /\ edit \in [Servers -> Edit]
    BY DEF AloneInv, ConfigTypeOK
  <2>2. \A t \in Servers : t # s => /\ edit'[t] = edit[t] /\ running'[t] = running[t]
                                   /\ loading'[t] = loading[t]
    BY <2>1 DEF Poll, Swap, RefreshFails, ConfigTypeOK
  <2>3. unread' = unread \/ unread' = [unread EXCEPT ![s] = FALSE]
    BY DEF Poll, Swap, RefreshFails
  <2>4. UNCHANGED overlapped
    BY DEF Poll, Swap, RefreshFails
  <2> QED
    BY <1>1, <2>1, <2>2, <2>3, <2>4 DEF Moves
<1>3. CASE Poll(s, r)
  <2>1. UNCHANGED <<edit, running>> /\ (unread'[s] => unread[s])
    BY <1>3 DEF Poll, AloneInv
  <2>2. Up(s) \/ edit[s].at = "load"
    BY <1>3 DEF Poll, AloneInv
  <2> QED
    BY <1>2, <2>1, <2>2, MovesAlone DEF AloneInv, Up
<1>4. CASE Swap(s, r) \/ RefreshFails(s, r)
  <2>1. UNCHANGED unread /\ loading' = [loading EXCEPT ![s][r] = 0] /\ loading[s][r] # 0
    BY <1>4 DEF Swap, RefreshFails
  <2>2. \A q \in Refreshers : loading'[s][q] = 0
    BY <2>1 DEF ConfigTypeOK
  <2>3. running[s] # 0 => running'[s] # 0
    BY <1>4 DEF Swap, RefreshFails, ConfigTypeOK
  <2>4. unread'[s] => running'[s] # 0
    BY <2>1, <2>3 DEF AloneInv, Up
  <2> QED
    BY <1>2, <2>2, <2>4, MovesAlone
<1> QED
  BY <1>3, <1>4

LEMMA ExitAlone ==
  ASSUME ConfigTypeOK, AloneInv, NEW s \in Servers, Exit(s)
  PROVE  AloneInv'
<1>1. Moves(s) /\ unread' \in [Servers -> BOOLEAN] /\ ~unread'[s]
  BY DEF AloneInv, ConfigTypeOK, Moves, Exit
<1>2. \A r \in Refreshers : loading'[s][r] = 0
  BY DEF ConfigTypeOK, Exit
<1> QED
  BY <1>1, <1>2, MovesAlone

LEMMA StartAlone ==
  ASSUME ConfigTypeOK, AloneInv, NEW s \in Servers, Start(s)
  PROVE  AloneInv' /\ (overlapped => overlapped')
                   /\ (~overlapped' => \A t \in Servers : t # s => Down(t))
<1>1. /\ overlapped' = (overlapped \/ \E t \in Servers \ {s} : ~Down(t))
      /\ UNCHANGED <<running, loading, unread>> /\ Down(s)
  BY DEF Start
<1>2. \A t \in Servers : t # s => edit'[t] = edit[t]
  BY DEF Start, Seed, ImportGitKinds, ConfigTypeOK
<1>3. ASSUME NEW t \in Servers, t # s PROVE Down(t) => Down(t)'
  BY <1>1, <1>2, <1>3 DEF Down, Up
<1>4. ~overlapped' => \A t \in Servers : t # s => Down(t) /\ Down(t)'
  BY <1>1, <1>3
<1>5. \A r \in Refreshers : loading[s][r] = 0
  BY <1>1 DEF AloneInv, Down, AtRest
<1>6. \A t \in Servers : /\ unread'[t] => Up(t)'
                         /\ \A r \in Refreshers : loading'[t][r] # 0 => Up(t)' \/ edit'[t].at = "load"
  BY <1>1, <1>2, <1>5 DEF AloneInv, Up
<1>7. overlapped' \in BOOLEAN /\ unread' \in [Servers -> BOOLEAN]
  BY <1>1 DEF AloneInv
<1>8. ~overlapped' => \A t, u \in Servers : t # u => Down(t)' \/ Down(u)'
  BY <1>4
<1> QED
  BY <1>1, <1>4, <1>6, <1>7, <1>8 DEF AloneInv

-----------------------------------------------------------------------------
(* Every step keeps what was checked.                                      *)

\* The others' steps leave an editor what it has.
LEMMA OthersKept ==
  ASSUME ConfigTypeOK, ReleasesAreWhole, Grown, AloneInv, NEW s \in Servers, ~Down(s),
         UNCHANGED overlapped, NEW t \in Servers, t # s, NEW e \in Edit, e = edit[t], EditInv(e)
  PROVE  EditInv(e)'
<1>1. CASE overlapped
  BY <1>1, EditKept
<1>2. CASE ~overlapped
  <2>1. e = AtRest
    BY <1>2 DEF AloneInv, Down
  <2> QED
    BY <2>1 DEF AtRest, EditInv, StagesOf, PublishInv, ImportInv, ConvergeInv, RollbackInv
<1> QED
  BY <1>1, <1>2

\* One editor went on, and the others have what they had.
LEMMA EditsKept ==
  ASSUME ConfigTypeOK, NEW s \in Servers, NEW f, EditInv(f)', edit' = [edit EXCEPT ![s] = f],
         \A t \in Servers : \A e \in {edit[t]} : t # s => EditInv(e)'
  PROVE  CheckedEdits'
<1>1. ASSUME NEW t \in Servers, NEW e, e = edit'[t] PROVE EditInv(e)'
  <2>1. CASE t = s
    BY <1>1, <2>1 DEF ConfigTypeOK
  <2>2. CASE t # s
    <3>1. e = edit[t]
      BY <1>1, <2>2 DEF ConfigTypeOK
    <3> QED
      BY <2>2, <3>1
  <2> QED
    BY <2>1, <2>2
<1>2. \A e \in {edit'[t] : t \in Servers} : EditInv(e)'
  BY <1>1
<1> QED
  BY <1>2 DEF CheckedEdits

LEMMA QuietKept ==
  ASSUME ConfigTypeOK, ReleasesAreWhole, Grown, CheckedEdits, NEW s \in Servers, EditGoesOn(s),
         UNCHANGED <<revisions, releases>>, overlapped => overlapped', edit' \in [Servers -> Edit]
  PROVE  CheckedEdits'
<1>1. PICK f : EditInv(f) /\ edit' = [edit EXCEPT ![s] = f]
  BY DEF EditGoesOn
<1>2. f \in Edit
  BY <1>1 DEF ConfigTypeOK
<1>3. EditInv(f)'
  BY <1>1, <1>2, EditKept
<1>4. ASSUME NEW t \in Servers, NEW e \in {edit[t]} PROVE EditInv(e)'
  BY EditKept DEF CheckedEdits, ConfigTypeOK
<1> QED
  BY <1>1, <1>3, <1>4, EditsKept

\* The releases there are stay checked when none is added.
LEMMA ReleasesKept ==
  ASSUME ConfigTypeOK, ReleasesAreWhole, Grown, UNCHANGED releases, overlapped => overlapped',
         ReleasesLoad, DraftsStayDrafts, RollbacksReturn, RollbacksLookBack
  PROVE  (ReleasesLoad /\ DraftsStayDrafts /\ RollbacksReturn /\ RollbacksLookBack)'
<1>1. \A n \in DOMAIN releases : Holds(n)' = Holds(n)
  BY HoldsKept
<1>2. Live \in Nat /\ DOMAIN releases = 1 .. Live
  BY SequencesTyped
<1>3. ReleasesLoad'
  <2>1. \A n \in DOMAIN releases' : Loads(Holds(n)') \/ (overlapped' /\ releases'[n].by \in {"rollback", "seed"})
    BY <1>1 DEF ReleasesLoad
  <2> QED
    BY <2>1 DEF ReleasesLoad
<1>4. DraftsStayDrafts'
  <2>1. ASSUME NEW n \in DOMAIN releases, releases[n].by = "import"
        PROVE  \E m \in 1 .. (n - 1) : /\ \A d \in EditableDocs : Holds(n)'[d] = Holds(m)'[d]
                                       /\ m = n - 1 \/ overlapped'
    <3>1. PICK m \in 1 .. (n - 1) : /\ \A d \in EditableDocs : Holds(n)[d] = Holds(m)[d]
                                    /\ m = n - 1 \/ overlapped
      BY <2>1 DEF DraftsStayDrafts
    <3>2. m \in DOMAIN releases
      BY <1>2
    <3> QED
      BY <1>1, <3>1, <3>2
  <2> QED
    BY <2>1 DEF DraftsStayDrafts
<1>5. RollbacksReturn'
  <2>1. ASSUME NEW n \in DOMAIN releases, releases[n].by = "rollback", ~overlapped'
        PROVE  (/\ \A d \in EditableDocs : Holds(n)[d] = Holds(releases[n].to)[d]
                /\ \A d \in GitDocs : Holds(n)[d] = Holds(n - 1)[d])'
    <3>1. PICK to, last : to = releases[n].to /\ last = n - 1
      OBVIOUS
    <3>2. to \in DOMAIN releases /\ last \in DOMAIN releases
      BY <1>2, <2>1, <3>1 DEF RollbacksLookBack
    <3>3. /\ \A d \in EditableDocs : Holds(n)[d] = Holds(to)[d]
          /\ \A d \in GitDocs : Holds(n)[d] = Holds(last)[d]
      BY <2>1, <3>1 DEF RollbacksReturn
    <3>4. Holds(releases[n].to)' = Holds(to)' /\ Holds(n - 1)' = Holds(last)'
      BY <3>1 DEF Holds, DocumentsOf
    <3> QED
      BY <1>1, <3>2, <3>3, <3>4
  <2> QED
    BY <2>1 DEF RollbacksReturn
<1> QED
  BY <1>3, <1>4, <1>5 DEF RollbacksLookBack

LEMMA NextChecked ==
  ASSUME ConfigInv, RollbacksLookBack, AloneInv, CheckedEdits, [ConfigNext]_configVars
  PROVE  (ConfigInv /\ RollbacksLookBack /\ AloneInv /\ CheckedEdits)'
<1>1. /\ ConfigTypeOK /\ ReleasesAreWhole /\ ReleasesLoad /\ DraftsStayDrafts /\ RollbacksReturn
      /\ ConfigTypeOK' /\ ReleasesAreWhole' /\ Grown
  BY NextTyped, NextWhole DEF ConfigInv
<1>2. edit' \in [Servers -> Edit]
  BY <1>1 DEF ConfigTypeOK
<1>3. ASSUME NEW s \in Servers PROVE edit[s] \in Edit /\ \E e \in Edit : e = edit[s] /\ EditInv(e)
  BY <1>1 DEF CheckedEdits, ConfigTypeOK
<1>4. UNCHANGED releases /\ (overlapped => overlapped') =>
        (ReleasesLoad /\ DraftsStayDrafts /\ RollbacksReturn /\ RollbacksLookBack)'
  BY <1>1, ReleasesKept
<1> SUFFICES (/\ ReleasesLoad /\ DraftsStayDrafts /\ RollbacksReturn /\ RollbacksLookBack
              /\ AloneInv /\ CheckedEdits)'
  BY <1>1 DEF ConfigInv
<1>5. CASE UNCHANGED configVars
  <2>1. UNCHANGED <<revisions, releases, edit, running, loading, unread, overlapped>>
    BY <1>5 DEF configVars
  <2>2. AloneInv'
    BY <2>1 DEF AloneInv, Down, Up
  <2>3. ASSUME NEW s \in Servers, NEW e \in {edit[s]} PROVE EditInv(e)'
    BY <1>1, <1>3, <2>1, EditKept
  <2>4. \A e \in {edit'[s] : s \in Servers} : EditInv(e)'
    BY <2>1, <2>3
  <2>5. CheckedEdits'
    BY <2>4 DEF CheckedEdits
  <2> QED
    BY <1>4, <2>1, <2>2, <2>5
<1>6. ASSUME NEW s \in Servers,
             \/ \E w \in Edits : Change(s, w[1], w[2])
             \/ \E d \in EditableDocs : Restore(s, d)
             \/ CheckRestored(s) \/ Publish(s) \/ CheckDraft(s) \/ Converge(s) \/ Reread(s)
             \/ StoreFails(s) \/ \E n \in DOMAIN releases : Rollback(s, n)
      PROVE  (/\ ReleasesLoad /\ DraftsStayDrafts /\ RollbacksReturn /\ RollbacksLookBack
              /\ AloneInv /\ CheckedEdits)'
  <2>1. PICK e \in Edit : e = edit[s] /\ EditInv(e)
    BY <1>3
  <2>2. UNCHANGED <<revisions, releases, running, loading, unread, overlapped>>
    <3>1. CASE \/ \E w \in Edits : Change(s, w[1], w[2])
               \/ \E d \in EditableDocs : Restore(s, d)
               \/ CheckRestored(s)
      BY <3>1 DEF Change, Restore, CheckRestored, restVars
    <3>2. CASE \/ Publish(s) \/ CheckDraft(s) \/ Converge(s) \/ Reread(s)
               \/ StoreFails(s) \/ \E n \in DOMAIN releases : Rollback(s, n)
      BY <3>2 DEF Publish, CheckDraft, Converge, Reread, StoreFails, Rollback, restVars
    <3> QED
      BY <1>6, <3>1, <3>2
  <2>3. EditGoesOn(s)
    BY <1>1, <1>6, <2>1, QuietInv
  <2>4. CheckedEdits'
    BY <1>1, <1>2, <2>2, <2>3, QuietKept
  <2>5. e.at # "load" /\ (Up(s) \/ e # AtRest)
    <3>1. CASE \/ \E w \in Edits : Change(s, w[1], w[2])
               \/ \E d \in EditableDocs : Restore(s, d)
               \/ Publish(s) \/ \E n \in DOMAIN releases : Rollback(s, n)
      <4>1. MayEdit(s)
        BY <3>1 DEF Change, Restore, Publish, Rollback
      <4> QED
        BY <2>1, <4>1 DEF MayEdit, AtRest
    <3>2. CASE CheckRestored(s) \/ CheckDraft(s) \/ Converge(s) \/ Reread(s) \/ StoreFails(s)
      BY <2>1, <3>2 DEF CheckRestored, CheckDraft, Converge, Reread, StoreFails, AtRest
    <3> QED
      BY <1>6, <3>1, <3>2
  <2>6. PICK f : edit' = [edit EXCEPT ![s] = f]
    BY <2>3 DEF EditGoesOn
  <2>7. AloneInv'
    BY <1>1, <2>1, <2>2, <2>5, <2>6, EditorAlone
  <2> QED
    BY <1>4, <2>2, <2>4, <2>7
<1>7. ASSUME NEW s \in Servers, NEW w \in edit[s].left, Put(s, w)
      PROVE  (/\ ReleasesLoad /\ DraftsStayDrafts /\ RollbacksReturn /\ RollbacksLookBack
              /\ AloneInv /\ CheckedEdits)'
  <2>1. PICK e \in Edit : e = edit[s] /\ EditInv(e)
    BY <1>3
  <2>2. UNCHANGED <<releases, running, loading, unread, overlapped>> /\ e.at = "put"
    BY <1>7, <2>1 DEF Put, restVars
  <2>3. e.at # "load" /\ e # AtRest /\ ~Down(s)
    BY <2>1, <2>2 DEF AtRest, Down
  <2>4. PICK f : EditInv(f)' /\ edit' = [edit EXCEPT ![s] = f]
    BY <1>1, <1>7, <2>1, PutGoesOn
  <2>5. AloneInv'
    BY <1>1, <2>1, <2>2, <2>3, <2>4, EditorAlone
  <2>6. ASSUME NEW t \in Servers, NEW g \in {edit[t]}, t # s PROVE EditInv(g)'
    BY <1>1, <1>3, <2>2, <2>3, <2>6, OthersKept
  <2>7. CheckedEdits'
    BY <1>1, <2>4, <2>6, EditsKept
  <2> QED
    BY <1>4, <2>2, <2>5, <2>7
<1>8. ASSUME NEW s \in Servers, StorePublish(s)
      PROVE  (/\ ReleasesLoad /\ DraftsStayDrafts /\ RollbacksReturn /\ RollbacksLookBack
              /\ AloneInv /\ CheckedEdits)'
  <2>1. PICK e \in Edit : e = edit[s] /\ EditInv(e)
    BY <1>3
  <2>2. /\ UNCHANGED <<running, loading, overlapped>> /\ e.at = "publish"
        /\ unread' = [unread EXCEPT ![s] = Up(s)]
    BY <1>8, <2>1 DEF StorePublish
  <2>3. e.at # "load" /\ e # AtRest /\ ~Down(s)
    BY <2>1, <2>2 DEF AtRest, Down
  <2>4. PICK f : f \in {AtRest, [AtRest EXCEPT !.at = "load"]} /\ edit' = [edit EXCEPT ![s] = f]
    BY <1>8 DEF StorePublish
  <2>5. f.by = "nobody" /\ f.at \in {"rest", "load"}
    BY <2>4 DEF AtRest
  <2>6. EditInv(f)'
    BY <2>4, <2>5 DEF EditInv, StagesOf, PublishInv, ImportInv, ConvergeInv, RollbackInv
  <2>7. AloneInv'
    BY <1>1, <2>1, <2>2, <2>3, <2>4, EditorAlone
  <2>8. ASSUME NEW t \in Servers, NEW g \in {edit[t]}, t # s PROVE EditInv(g)'
    BY <1>1, <1>3, <2>2, <2>3, <2>8, OthersKept
  <2>9. CheckedEdits'
    BY <1>1, <2>4, <2>6, <2>8, EditsKept
  <2> QED
    BY <1>1, <1>8, <2>1, <2>7, <2>9, Published
<1>9. ASSUME NEW s \in Servers,
             Start(s) \/ Exit(s) \/ \E r \in Refreshers : Poll(s, r) \/ Swap(s, r) \/ RefreshFails(s, r)
      PROVE  (/\ ReleasesLoad /\ DraftsStayDrafts /\ RollbacksReturn /\ RollbacksLookBack
              /\ AloneInv /\ CheckedEdits)'
  <2>1. PICK e \in Edit : e = edit[s] /\ EditInv(e)
    BY <1>3
  <2>2. UNCHANGED <<revisions, releases>>
    BY <1>9 DEF Start, Exit, Poll, Swap, RefreshFails
  <2>3. overlapped => overlapped'
    BY <1>9 DEF Start, Exit, Poll, Swap, RefreshFails
  <2>4. EditGoesOn(s)
    BY <1>1, <1>9, <2>1, QuietInv
  <2>5. CheckedEdits'
    BY <1>1, <1>2, <2>2, <2>3, <2>4, QuietKept
  <2>6. AloneInv'
    BY <1>1, <1>9, StartAlone, ExitAlone, RefreshAlone
  <2> QED
    BY <1>4, <2>2, <2>3, <2>5, <2>6
<1>10. CASE ConfigNext
  <2>1. PICK s \in Servers : \/ EditorStep(s) \/ Start(s) \/ Exit(s)
                             \/ \E r \in Refreshers : Poll(s, r) \/ Swap(s, r) \/ RefreshFails(s, r)
    BY <1>10 DEF ConfigNext
  <2>2. CASE EditorStep(s)
    BY <1>6, <1>7, <1>8, <2>2 DEF EditorStep
  <2> QED
    BY <1>9, <2>1, <2>2
<1> QED
  BY <1>5, <1>10

\* Whatever is edited, imported, published and rolled back at once, and wherever
\* a process fails or exits: a release loads, but for rollbacks and seeds while
\* two processes were up; an import publishes nobody's draft (seed.go:82); a
\* rollback of a process alone brings back what it should (editor.go:119).
THEOREM ReleasesAreChecked == ConfigSafe => []ConfigInv
<1>1. ConfigInit => ConfigInv /\ RollbacksLookBack /\ AloneInv /\ CheckedEdits
  <2> SUFFICES ASSUME ConfigInit PROVE ConfigInv /\ RollbacksLookBack /\ AloneInv /\ CheckedEdits
    OBVIOUS
  <2>1. /\ Live = 0 /\ releases = <<>> /\ revisions = <<>> /\ ~overlapped /\ overlapped \in BOOLEAN
        /\ \A s \in Servers : edit[s] = AtRest /\ running[s] = 0 /\ unread[s] = FALSE
        /\ \A s \in Servers, r \in Refreshers : loading[s][r] = 0
        /\ unread \in [Servers -> BOOLEAN]
    BY DEF ConfigInit, Live
  <2>2. ConfigTypeOK
    BY <2>1, AtRestTyped DEF ConfigInit, ConfigTypeOK
  <2>3. ReleasesAreWhole /\ ReleasesLoad /\ DraftsStayDrafts /\ RollbacksReturn /\ RollbacksLookBack
    BY <2>1 DEF ReleasesAreWhole, ReleasesLoad, DraftsStayDrafts, RollbacksReturn, RollbacksLookBack
  <2>4. AloneInv
    BY <2>1 DEF AloneInv, Down, Up
  <2>5. EditInv(AtRest)
    BY RestInv DEF AtRest
  <2> QED
    BY <2>1, <2>2, <2>3, <2>4, <2>5 DEF ConfigInv, CheckedEdits
<1>2. ConfigInv /\ RollbacksLookBack /\ AloneInv /\ CheckedEdits /\ [ConfigNext]_configVars
      => (ConfigInv /\ RollbacksLookBack /\ AloneInv /\ CheckedEdits)'
  BY NextChecked
<1> QED
  BY <1>1, <1>2, PTL DEF ConfigSafe

=============================================================================
