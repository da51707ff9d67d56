--------------------------- MODULE RecordingProofs ---------------------------
(***************************************************************************)
(* Proofs about Recording, for any number of handlers, people, tracks and  *)
(* recordings and for every setting of its constants.                      *)
(***************************************************************************)
EXTENDS Recording, TLAPS

-------------------------------------------------------------------------------
(* How a handler moves keeps the types.                                    *)

LEMMA ReturnTypeOK ==
  ASSUME HandlersTypeOK, NEW h \in Handlers, Return(h)
  PROVE  HandlersTypeOK'
<1>1. /\ op' \in [Handlers -> Ops]
      /\ pc' \in [Handlers -> PCs]
      /\ cur' \in [Handlers -> Egresses \cup {None}]
      /\ todo' \in [Handlers -> SUBSET Egresses]
      /\ arg' \in [Handlers -> People \cup Tracks \cup {None}]
      /\ endsNow' \in [Handlers -> BOOLEAN]
      /\ holder' \in Handlers \cup {None}
      /\ claims' \in SUBSET Tracks
      /\ crashes' \in 0 .. MaxCrashes
  BY DEF Return, HandlersTypeOK, Ops, PCs
<1>2. ASSUME NEW g \in Handlers
      PROVE  /\ WellPlaced(op[g], pc[g], arg[g])'
             /\ (cur[g] # None <=> pc[g] \in {"add", "undo"})'
             /\ (todo[g] # {} <=> pc[g] \in {"probe", "settle", "stop", "lookup"})'
  <2>1. CASE g = h
    BY <2>1 DEF Return, HandlersTypeOK, WellPlaced
  <2>2. CASE g # h
    BY <2>2 DEF Return, HandlersTypeOK
  <2> QED
    BY <2>1, <2>2
<1> QED
  BY <1>1, <1>2 DEF HandlersTypeOK

LEMMA GotoTypeOK ==
  ASSUME HandlersTypeOK, NEW h \in Handlers, NEW at \in PCs, NEW T \in SUBSET Egresses,
         Goto(h, at, T), WellPlaced(op[h], at, arg[h]),
         pc[h] \notin {"add", "undo"}, at \notin {"add", "undo"},
         T # {} <=> at \in {"probe", "settle", "stop", "lookup"}
  PROVE  HandlersTypeOK'
BY DEF Goto, HandlersTypeOK

LEMMA ServeTypeOK ==
  ASSUME HandlersTypeOK, NEW h \in Handlers, NEW o \in Ops, NEW at \in PCs, NEW a,
         Free(h), Serve(h, o, at, a), claims' \in SUBSET Tracks,
         WellPlaced(o, at, a), a \in People \cup Tracks \cup {None},
         at \notin {"add", "undo", "probe", "settle", "stop", "lookup"}
  PROVE  HandlersTypeOK'
<1>1. cur[h] = None /\ todo[h] = {}
  BY DEF Free, HandlersTypeOK, WellPlaced
<1> QED
  BY <1>1 DEF Serve, HandlersTypeOK

LEMMA LookedTypeOK ==
  ASSUME HandlersTypeOK, NEW h \in Handlers, NEW e \in todo[h], Looked(h, e),
         pc[h] \in {"probe", "settle", "stop", "lookup"}
  PROVE  HandlersTypeOK'
<1> DEFINE rest == todo[h] \ {e}
<1>1. rest \in SUBSET Egresses
  BY DEF HandlersTypeOK
<1>2. CASE rest # {} /\ Goto(h, LoopTop(h), rest)
  <2>1. WellPlaced(op[h], LoopTop(h), arg[h]) /\ LoopTop(h) \in {"probe", "stop"}
    BY DEF LoopTop, HandlersTypeOK, WellPlaced
  <2> QED
    BY <1>1, <1>2, <2>1, GotoTypeOK DEF PCs
<1>3. CASE op[h] = "join" /\ Goto(h, "start", {})
  <2>1. WellPlaced(op[h], "start", arg[h])
    BY <1>3 DEF HandlersTypeOK, WellPlaced
  <2> QED
    BY <1>3, <2>1, GotoTypeOK DEF PCs
<1>4. CASE op[h] = "finish" /\ Goto(h, "close", {})
  <2>1. WellPlaced(op[h], "close", arg[h])
    BY <1>4 DEF HandlersTypeOK, WellPlaced
  <2> QED
    BY <1>4, <2>1, GotoTypeOK DEF PCs
<1>5. CASE Return(h)
  BY <1>5, ReturnTypeOK
<1> QED
  BY <1>2, <1>3, <1>4, <1>5 DEF Looked

\* Rows are never taken out of the store.
LEMMA TodoKept ==
  ASSUME TypeOK, NEW h \in Handlers,
         \A e \in Egresses : rows[e] # "none" => rows'[e] # "none",
         \A g \in Handlers : g # h => todo'[g] = todo[g],
         \A e \in todo'[h] : e \in Egresses /\ rows[e] # "none"
  PROVE  TodoStored'
BY DEF TypeOK, TodoStored, HandlersTypeOK

LEMMA GotoTodo ==
  ASSUME TypeOK, NEW h \in Handlers, NEW at, NEW T \in SUBSET Egresses, Goto(h, at, T),
         \A e \in T : rows[e] # "none",
         \A e \in Egresses : rows[e] # "none" => rows'[e] # "none"
  PROVE  TodoStored'
<1>1. todo'[h] = T /\ \A g \in Handlers : g # h => todo'[g] = todo[g]
  BY DEF Goto, TypeOK, HandlersTypeOK
<1> QED
  BY <1>1, TodoKept

LEMMA ReturnTodo ==
  ASSUME TypeOK, NEW h \in Handlers, Return(h),
         \A e \in Egresses : rows[e] # "none" => rows'[e] # "none"
  PROVE  TodoStored'
<1>1. todo'[h] = {} /\ \A g \in Handlers : g # h => todo'[g] = todo[g]
  BY DEF Return, TypeOK, HandlersTypeOK
<1> QED
  BY <1>1, TodoKept

LEMMA LookedTodo ==
  ASSUME TypeOK, NEW h \in Handlers, NEW e \in todo[h], Looked(h, e),
         \A f \in Egresses : rows[f] # "none" => rows'[f] # "none"
  PROVE  TodoStored'
<1>1. todo[h] \ {e} \in SUBSET Egresses /\ \A f \in todo[h] \ {e} : rows[f] # "none"
  BY DEF TypeOK, HandlersTypeOK, TodoStored
<1>2. {} \in SUBSET Egresses /\ \A f \in {} : rows[f] # "none"
  OBVIOUS
<1> QED
  BY <1>1, <1>2, GotoTodo, ReturnTodo DEF Looked

-------------------------------------------------------------------------------
(* Every action keeps the types.                                           *)

LEMMA StartEgressTypeOK ==
  ASSUME TypeOK, NEW h \in Handlers, StartEgress(h)
  PROVE  TypeOK'
<1>1. PICK e \in Egresses :
        /\ Fresh(e)
        /\ media' = [media EXCEPT ![e] = "running"]
        /\ kind' = [kind EXCEPT ![e] = Requested[op[h]]]
        /\ track' = [track EXCEPT ![e] = IF op[h] \in {"start", "voice"} THEN arg[h] ELSE None]
        /\ cur' = [cur EXCEPT ![h] = e]
  BY DEF StartEgress, Begin
<1>2. op[h] \in {"create", "join", "start", "voice"}
  BY DEF StartEgress, Begin, TypeOK, HandlersTypeOK, WellPlaced
<1>3. Requested[op[h]] \in Kinds
  BY <1>2 DEF Requested, Kinds
<1>4. (IF op[h] \in {"start", "voice"} THEN arg[h] ELSE None) \in Tracks \cup {None}
  BY <1>2 DEF TypeOK, HandlersTypeOK, WellPlaced
<1>5. StoreTypeOK' /\ TodoStored'
  BY DEF StartEgress, Begin, TypeOK, StoreTypeOK, storeVars, TodoStored
<1>6. MediaTypeOK'
  <2>1. media' \in [Egresses -> {"unused", "running", "ending", "ended", "forgotten"}]
    BY <1>1 DEF TypeOK, MediaTypeOK
  <2>2. kind' \in [Egresses -> Kinds] /\ track' \in [Egresses -> Tracks \cup {None}]
    BY <1>1, <1>3, <1>4 DEF TypeOK, MediaTypeOK
  <2>3. room' \in BOOLEAN /\ (inside' # {} => room')
    BY DEF StartEgress, Begin, TypeOK, MediaTypeOK
  <2> QED
    BY <2>1, <2>2, <2>3 DEF StartEgress, Begin, TypeOK, MediaTypeOK, Hooks
<1>7. HandlersTypeOK'
  <2>1. pc' = [pc EXCEPT ![h] = "add"] /\ WellPlaced(op[h], "add", arg[h]) /\ todo[h] = {}
    BY <1>2 DEF StartEgress, Begin, TypeOK, HandlersTypeOK, WellPlaced
  <2>2. e # None
    BY NoneAssumption
  <2> QED
    BY <1>1, <2>1, <2>2 DEF StartEgress, Begin, TypeOK, HandlersTypeOK, PCs
<1> QED
  BY <1>5, <1>6, <1>7 DEF TypeOK

\* Answering keeps the types if what it leaves open does.
LEMMA AnswerTypeOK ==
  ASSUME TypeOK, NEW h \in Handlers, Answer(h), StoreTypeOK',
         room' \in BOOLEAN, room => room',
         media' \in [Egresses -> {"unused", "running", "ending", "ended", "forgotten"}],
         \A e \in Egresses : rows[e] # "none" => rows'[e] # "none"
  PROVE  TypeOK'
<1>1. HandlersTypeOK'
  BY ReturnTypeOK DEF Answer, Respond, TypeOK
<1>2. TodoStored'
  BY ReturnTodo DEF Answer, Respond
<1>3. tokens \subseteq tokens' /\ tokens' \in SUBSET People
  BY DEF Answer, Respond, TypeOK, MediaTypeOK, HandlersTypeOK, WellPlaced
<1>4. MediaTypeOK'
  BY <1>3 DEF Answer, Respond, TypeOK, MediaTypeOK, Hooks
<1> QED
  BY <1>1, <1>2, <1>4 DEF TypeOK

LEMMA StartEgressFailsTypeOK ==
  ASSUME TypeOK, NEW h \in Handlers, StartEgressFails(h)
  PROVE  TypeOK'
<1>1. CASE Answer(h) /\ UNCHANGED media
  BY <1>1, AnswerTypeOK DEF StartEgressFails, storeVars, TypeOK, StoreTypeOK, MediaTypeOK
<1>2. CASE Respond(h) /\ \E e \in Egresses : Begin(h, e)
  <2>1. PICK e \in Egresses : Begin(h, e)
    BY <1>2
  <2>2. op[h] \in {"create", "join", "start", "voice"} /\ arg[h] \in People \cup Tracks \cup {None}
    BY DEF StartEgressFails, TypeOK, HandlersTypeOK, WellPlaced
  <2>3. Requested[op[h]] \in Kinds
    BY <2>2 DEF Requested, Kinds
  <2>4. (IF op[h] \in {"start", "voice"} THEN arg[h] ELSE None) \in Tracks \cup {None}
    BY <2>2 DEF StartEgressFails, TypeOK, HandlersTypeOK, WellPlaced
  <2>5. HandlersTypeOK'
    BY <1>2, ReturnTypeOK DEF Respond, TypeOK
  <2>6. StoreTypeOK' /\ TodoStored'
    BY <1>2, ReturnTodo DEF Respond, StartEgressFails, TypeOK, StoreTypeOK, storeVars
  <2>7. media' \in [Egresses -> {"unused", "running", "ending", "ended", "forgotten"}]
    BY <2>1 DEF Begin, TypeOK, MediaTypeOK
  <2>8. kind' \in [Egresses -> Kinds] /\ track' \in [Egresses -> Tracks \cup {None}]
    BY <2>1, <2>3, <2>4 DEF Begin, TypeOK, MediaTypeOK
  <2>9. tokens \subseteq tokens' /\ tokens' \in SUBSET People
    BY <1>2 DEF Respond, StartEgressFails, TypeOK, MediaTypeOK, HandlersTypeOK, WellPlaced
  <2>10. MediaTypeOK'
    BY <1>2, <2>7, <2>8, <2>9 DEF Respond, StartEgressFails, TypeOK, MediaTypeOK, Hooks
  <2> QED
    BY <2>5, <2>6, <2>10 DEF TypeOK
<1> QED
  BY <1>1, <1>2 DEF StartEgressFails

LEMMA StoreEgressTypeOK ==
  ASSUME TypeOK, NEW h \in Handlers, StoreEgress(h)
  PROVE  TypeOK'
<1>1. cur[h] \in Egresses
  BY DEF StoreEgress, TypeOK, HandlersTypeOK
<1>2. StoreTypeOK' /\ \A e \in Egresses : rows[e] # "none" => rows'[e] # "none"
  BY <1>1 DEF StoreEgress, AddEgress, TypeOK, StoreTypeOK
<1>3. CASE op[h] = "create"
  <2>1. MediaTypeOK'
    BY <1>3 DEF StoreEgress, mediaVars, TypeOK, MediaTypeOK, Hooks
  <2>2. /\ pc' = [pc EXCEPT ![h] = "reply"]
        /\ cur' = [cur EXCEPT ![h] = None]
        /\ UNCHANGED <<op, todo, arg, endsNow, holder, claims, crashes>>
    BY <1>3 DEF StoreEgress
  <2>3. WellPlaced(op[h], "reply", arg[h]) /\ todo[h] = {}
    BY <1>3 DEF StoreEgress, TypeOK, HandlersTypeOK, WellPlaced
  <2>4. HandlersTypeOK'
    BY <2>2, <2>3 DEF TypeOK, HandlersTypeOK, PCs
  <2>5. TodoStored'
    BY <1>2, <2>2 DEF TypeOK, HandlersTypeOK, TodoStored
  <2> QED
    BY <1>2, <2>1, <2>4, <2>5 DEF TypeOK
<1>4. CASE op[h] # "create"
  BY <1>2, <1>4, AnswerTypeOK DEF StoreEgress, TypeOK, MediaTypeOK
<1> QED
  BY <1>3, <1>4

LEMMA StoreEgressFailsTypeOK ==
  ASSUME TypeOK, NEW h \in Handlers, StoreEgressFails(h)
  PROVE  TypeOK'
<1>1. WellPlaced(op[h], "undo", arg[h])
  BY DEF StoreEgressFails, TypeOK, HandlersTypeOK, WellPlaced
<1>2. HandlersTypeOK'
  BY <1>1 DEF StoreEgressFails, TypeOK, HandlersTypeOK, PCs
<1> QED
  BY <1>2 DEF StoreEgressFails, storeVars, mediaVars, TypeOK, StoreTypeOK, MediaTypeOK, TodoStored, Hooks

LEMMA UndoEgressTypeOK ==
  ASSUME TypeOK, NEW h \in Handlers, UndoEgress(h)
  PROVE  TypeOK'
<1>1. cur[h] \in Egresses
  BY DEF UndoEgress, TypeOK, HandlersTypeOK
<1>2. media' \in [Egresses -> {"unused", "running", "ending", "ended", "forgotten"}]
  BY <1>1 DEF UndoEgress, StopAccepted, TypeOK, MediaTypeOK
<1> QED
  BY <1>2, AnswerTypeOK DEF UndoEgress, storeVars, TypeOK, StoreTypeOK, MediaTypeOK

\* A step that leaves the media server alone keeps its types, and one that
\* leaves the store alone keeps the store's.
LEMMA FramesTypeOK ==
  ASSUME TypeOK
  PROVE  /\ UNCHANGED mediaVars => MediaTypeOK'
         /\ UNCHANGED storeVars => StoreTypeOK' /\ \A e \in Egresses : rows[e] # "none" => rows'[e] # "none"
BY DEF TypeOK, MediaTypeOK, StoreTypeOK, mediaVars, storeVars, Hooks

LEMMA AnswerCreatorTypeOK ==
  ASSUME TypeOK, NEW h \in Handlers, AnswerCreator(h)
  PROVE  TypeOK'
<1>1. HandlersTypeOK' /\ TodoStored'
  BY ReturnTypeOK, ReturnTodo DEF AnswerCreator, TypeOK
<1>2. arg[h] \in People
  BY DEF AnswerCreator, TypeOK, HandlersTypeOK, WellPlaced
<1>3. StoreTypeOK' /\ MediaTypeOK'
  BY <1>2 DEF AnswerCreator, TypeOK, StoreTypeOK, MediaTypeOK, Hooks
<1> QED
  BY <1>1, <1>3 DEF TypeOK

LEMMA LockTypeOK ==
  ASSUME TypeOK, NEW h \in Handlers, Lock(h)
  PROVE  TypeOK'
<1>1. PICK at \in {"list", "end"} : pc' = [pc EXCEPT ![h] = at] /\ WellPlaced(op[h], at, arg[h])
  BY DEF Lock, TypeOK, HandlersTypeOK, WellPlaced
<1>2. HandlersTypeOK'
  BY <1>1 DEF Lock, TypeOK, HandlersTypeOK, PCs
<1>3. StoreTypeOK' /\ MediaTypeOK' /\ TodoStored'
  BY FramesTypeOK DEF Lock, TypeOK, TodoStored, storeVars
<1> QED
  BY <1>2, <1>3 DEF TypeOK

LEMMA ListTypeOK ==
  ASSUME TypeOK, NEW h \in Handlers, List(h)
  PROVE  TypeOK'
<1>1. pc[h] = "list" /\ UNCHANGED <<storeVars, mediaVars>>
  BY DEF List, ListToResume, ListToSweep, ListToStop, ListSources, ListVoices
<1>2. \A e \in Egresses : e \in ActiveRows => rows[e] # "none"
  BY DEF ActiveRows
<1>3. ActiveRows \in SUBSET Egresses
  BY DEF ActiveRows
<1>4. ASSUME NEW at \in {"start", "probe", "close", "stop", "owner"}, NEW T \in SUBSET ActiveRows,
             Goto(h, at, T), WellPlaced(op[h], at, arg[h]), T # {} <=> at \in {"probe", "stop"}
      PROVE  TypeOK'
  <2>1. at \in PCs /\ T \in SUBSET Egresses
    BY <1>3 DEF PCs
  <2>2. \A e \in T : rows[e] # "none"
    BY <1>2, <1>3
  <2> QED
    BY <1>1, <1>4, <2>1, <2>2, GotoTypeOK, GotoTodo, FramesTypeOK DEF TypeOK
<1>5. ASSUME Return(h)
      PROVE  TypeOK'
  BY <1>1, <1>5, ReturnTypeOK, ReturnTodo, FramesTypeOK DEF TypeOK
<1>6. WellPlaced(op[h], pc[h], arg[h])
  BY DEF TypeOK, HandlersTypeOK
<1>7. CASE ListToResume(h)
  <2>1. PICK found \in SUBSET ActiveRows :
          Goto(h, IF found = {} THEN "start" ELSE "probe", found)
    BY <1>7 DEF ListToResume
  <2>2. WellPlaced(op[h], "start", arg[h]) /\ WellPlaced(op[h], "probe", arg[h])
    BY <1>6, <1>7 DEF ListToResume, WellPlaced
  <2>3. CASE found = {}
    <3>1. Goto(h, "start", found)
      BY <2>1, <2>3
    <3> QED
      BY <1>4, <2>2, <2>3, <3>1
  <2>4. CASE found # {}
    <3>1. Goto(h, "probe", found)
      BY <2>1, <2>4
    <3> QED
      BY <1>4, <2>2, <2>4, <3>1
  <2> QED
    BY <2>3, <2>4
<1>8. CASE ListToSweep(h)
  <2>1. WellPlaced(op[h], "close", arg[h]) /\ WellPlaced(op[h], "stop", arg[h])
    BY <1>6, <1>8 DEF ListToSweep, WellPlaced
  <2>2. PICK found \in SUBSET ActiveRows :
          Goto(h, IF found = {} THEN "close" ELSE "stop", found)
    BY <1>8 DEF ListToSweep
  <2>3. CASE found = {}
    <3>1. Goto(h, "close", found)
      BY <2>2, <2>3
    <3> QED
      BY <1>4, <2>1, <2>3, <3>1
  <2>4. CASE found # {}
    <3>1. Goto(h, "stop", found)
      BY <2>2, <2>4
    <3> QED
      BY <1>4, <2>1, <2>4, <3>1
  <2> QED
    BY <2>3, <2>4
<1>9. CASE ListToStop(h)
  <2>1. WellPlaced(op[h], "stop", arg[h])
    BY <1>6, <1>9 DEF ListToStop, WellPlaced
  <2>2. CASE \E T \in SUBSET ActiveRows : T # {} /\ Goto(h, "stop", T)
    <3>1. PICK T \in SUBSET ActiveRows : T # {} /\ Goto(h, "stop", T)
      BY <2>2
    <3> QED
      BY <1>4, <2>1, <3>1
  <2>3. CASE Return(h)
    BY <1>5, <2>3
  <2>4. (\E T \in SUBSET ActiveRows : T # {} /\ Goto(h, "stop", T)) \/ Return(h)
    BY <1>9 DEF ListToStop
  <2> QED
    BY <2>2, <2>3, <2>4
<1>10. CASE ListSources(h)
  <2>1. WellPlaced(op[h], "probe", arg[h])
    BY <1>6, <1>10 DEF ListSources, WellPlaced
  <2>2. CASE \E T \in SUBSET ActiveRows : T # {} /\ Goto(h, "probe", T)
    <3>1. PICK T \in SUBSET ActiveRows : T # {} /\ Goto(h, "probe", T)
      BY <2>2
    <3> QED
      BY <1>4, <2>1, <3>1
  <2>3. CASE Return(h)
    BY <1>5, <2>3
  <2>4. (\E T \in SUBSET ActiveRows : T # {} /\ Goto(h, "probe", T)) \/ Return(h)
    BY <1>10 DEF ListSources
  <2> QED
    BY <2>2, <2>3, <2>4
<1>11. CASE ListVoices(h)
  <2>1. WellPlaced(op[h], "owner", arg[h]) /\ {} \in SUBSET ActiveRows
    BY <1>6, <1>11 DEF ListVoices, WellPlaced
  <2>2. Goto(h, "owner", {}) \/ Return(h)
    BY <1>11 DEF ListVoices
  <2>3. CASE Goto(h, "owner", {})
    BY <1>4, <2>1, <2>3
  <2> QED
    BY <1>5, <2>2, <2>3
<1> QED
  BY <1>7, <1>8, <1>9, <1>10, <1>11 DEF List

LEMMA ListFailsTypeOK ==
  ASSUME TypeOK, NEW h \in Handlers, ListFails(h)
  PROVE  TypeOK'
<1>1. StoreTypeOK' /\ \A e \in Egresses : rows[e] # "none" => rows'[e] # "none"
  BY FramesTypeOK DEF ListFails
<1>2. CASE op[h] = "finish" /\ Goto(h, "close", {}) /\ UNCHANGED mediaVars
  <2>1. WellPlaced(op[h], "close", arg[h]) /\ "close" \in PCs
    BY <1>2 DEF TypeOK, HandlersTypeOK, WellPlaced, PCs
  <2>2. HandlersTypeOK' /\ TodoStored'
    BY <1>1, <1>2, <2>1, GotoTypeOK, GotoTodo DEF ListFails, TypeOK
  <2> QED
    BY <1>1, <1>2, <2>2, FramesTypeOK DEF TypeOK
<1>3. CASE Answer(h) /\ UNCHANGED <<room, media>>
  BY <1>1, <1>3, AnswerTypeOK DEF TypeOK, MediaTypeOK
<1> QED
  BY <1>2, <1>3 DEF ListFails

\* The loops over rows.
LEMMA LoopTypeOK ==
  ASSUME TypeOK, NEW h \in Handlers, NEW e \in Egresses,
         ProbeToResume(h, e) \/ ProbeSource(h, e) \/ Settle(h, e) \/ Stop(h, e) \/ Lookup(h, e)
  PROVE  TypeOK'
<1>1. /\ pc[h] \in {"probe", "settle", "stop", "lookup"}
      /\ e \in todo[h]
      /\ todo[h] \in SUBSET Egresses /\ todo[h] # {}
      /\ \A f \in todo[h] : rows[f] # "none"
  BY DEF ProbeToResume, ProbeSource, Settle, Stop, Lookup, Due, TypeOK, HandlersTypeOK, TodoStored
<1>2. \A f \in Egresses : rows[f] # "none" => rows'[f] # "none"
  BY DEF ProbeToResume, ProbeSource, Settle, Stop, Lookup, StopEgressRow, storeVars, TypeOK, StoreTypeOK
<1>3. StoreTypeOK'
  <2>1. CASE Settle(h, e)
    BY <2>1 DEF Settle, StopEgressRow, TypeOK, StoreTypeOK
  <2>2. CASE UNCHANGED storeVars
    BY <2>2, FramesTypeOK
  <2> QED
    BY <2>1, <2>2 DEF ProbeToResume, ProbeSource, Stop, Lookup
<1>4. ASSUME NEW at \in {"settle", "lookup"}, Goto(h, at, todo[h]), WellPlaced(op[h], at, arg[h])
      PROVE  HandlersTypeOK' /\ TodoStored'
  BY <1>1, <1>2, <1>4, GotoTypeOK, GotoTodo DEF TypeOK, PCs
<1>5. ASSUME Looked(h, e)
      PROVE  HandlersTypeOK' /\ TodoStored'
  BY <1>1, <1>2, <1>5, LookedTypeOK, LookedTodo DEF TypeOK
<1>6. ASSUME Return(h)
      PROVE  HandlersTypeOK' /\ TodoStored'
  BY <1>2, <1>6, ReturnTypeOK, ReturnTodo DEF TypeOK
<1>7. WellPlaced(op[h], pc[h], arg[h])
  BY DEF TypeOK, HandlersTypeOK
<1>8. CASE ProbeToResume(h, e)
  <2>1. WellPlaced(op[h], "settle", arg[h])
    BY <1>7, <1>8 DEF ProbeToResume, WellPlaced
  <2>2. CASE Goto(h, "settle", todo[h]) /\ UNCHANGED mediaVars
    BY <1>3, <1>4, <2>1, <2>2, FramesTypeOK DEF TypeOK
  <2>3. CASE Answer(h) /\ UNCHANGED <<room, media>>
    BY <1>2, <1>3, <2>3, AnswerTypeOK DEF TypeOK, MediaTypeOK
  <2> QED
    BY <1>8, <2>2, <2>3 DEF ProbeToResume
<1>9. CASE ProbeSource(h, e)
  <2>1. WellPlaced(op[h], "settle", arg[h])
    BY <1>7, <1>9 DEF ProbeSource, WellPlaced
  <2>2. HandlersTypeOK' /\ TodoStored'
    BY <1>4, <1>5, <1>6, <1>9, <2>1 DEF ProbeSource
  <2> QED
    BY <1>3, <1>9, <2>2, FramesTypeOK DEF ProbeSource, TypeOK
<1>10. CASE Settle(h, e)
  <2>1. HandlersTypeOK' /\ TodoStored'
    BY <1>5, <1>6, <1>10 DEF Settle
  <2> QED
    BY <1>3, <1>10, <2>1, FramesTypeOK DEF Settle, TypeOK
<1>11. CASE Stop(h, e)
  <2>1. WellPlaced(op[h], "settle", arg[h]) /\ WellPlaced(op[h], "lookup", arg[h])
    BY <1>7, <1>11 DEF Stop, WellPlaced
  <2>2. HandlersTypeOK' /\ TodoStored'
    BY <1>4, <1>11, <2>1 DEF Stop
  <2>3. MediaTypeOK'
    BY <1>11 DEF Stop, StopAccepted, TypeOK, MediaTypeOK, Hooks
  <2> QED
    BY <1>3, <2>2, <2>3 DEF TypeOK
<1>12. CASE Lookup(h, e)
  <2>1. WellPlaced(op[h], "settle", arg[h])
    BY <1>7, <1>12 DEF Lookup, WellPlaced
  <2>2. HandlersTypeOK' /\ TodoStored'
    BY <1>4, <1>5, <1>6, <1>12, <2>1 DEF Lookup
  <2> QED
    BY <1>3, <1>12, <2>2, FramesTypeOK DEF Lookup, TypeOK
<1> QED
  BY <1>8, <1>9, <1>10, <1>11, <1>12

LEMMA FindOwnerTypeOK ==
  ASSUME TypeOK, NEW h \in Handlers, FindOwner(h)
  PROVE  TypeOK'
<1>1. StoreTypeOK' /\ MediaTypeOK' /\ \A e \in Egresses : rows[e] # "none" => rows'[e] # "none"
  BY FramesTypeOK DEF FindOwner
<1>2. WellPlaced(op[h], "start", arg[h]) /\ "start" \in PCs
  BY DEF FindOwner, TypeOK, HandlersTypeOK, WellPlaced, PCs
<1>3. CASE Goto(h, "start", {})
  BY <1>1, <1>2, <1>3, GotoTypeOK, GotoTodo DEF FindOwner, TypeOK
<1>4. CASE Return(h)
  BY <1>1, <1>4, ReturnTypeOK, ReturnTodo DEF TypeOK
<1> QED
  BY <1>3, <1>4 DEF FindOwner

LEMMA MarkEndedTypeOK ==
  ASSUME TypeOK, NEW h \in Handlers, MarkEnded(h)
  PROVE  TypeOK'
<1>1. StoreTypeOK' /\ \A e \in Egresses : rows[e] # "none" => rows'[e] # "none"
  BY DEF MarkEnded, EndSession, storeVars, TypeOK, StoreTypeOK
<1>2. MediaTypeOK'
  BY FramesTypeOK DEF MarkEnded
<1>3. CASE pc' = [pc EXCEPT ![h] = "list"] /\ endsNow' = [endsNow EXCEPT ![h] = EndsNow]
           /\ UNCHANGED <<op, cur, todo, arg, holder, claims, crashes>>
  <2>1. WellPlaced(op[h], "list", arg[h]) /\ EndsNow \in BOOLEAN
    BY DEF MarkEnded, TypeOK, StoreTypeOK, HandlersTypeOK, WellPlaced, EndsNow
  <2>2. HandlersTypeOK'
    BY <1>3, <2>1 DEF MarkEnded, TypeOK, HandlersTypeOK, PCs
  <2>3. TodoStored'
    BY <1>1, <1>3 DEF TypeOK, HandlersTypeOK, TodoStored
  <2> QED
    BY <1>1, <1>2, <2>2, <2>3 DEF TypeOK
<1>4. CASE Return(h)
  BY <1>1, <1>2, <1>4, ReturnTypeOK, ReturnTodo DEF TypeOK
<1> QED
  BY <1>3, <1>4 DEF MarkEnded

LEMMA CloseDialInTypeOK ==
  ASSUME TypeOK, NEW h \in Handlers, CloseDialIn(h)
  PROVE  TypeOK'
<1>1. StoreTypeOK'
  BY DEF CloseDialIn, EndDialIn, TypeOK, StoreTypeOK
<1> QED
  BY <1>1, ReturnTypeOK, ReturnTodo, FramesTypeOK DEF CloseDialIn, TypeOK

\* A handler takes up a request.
LEMMA RequestTypeOK ==
  ASSUME TypeOK, NEW h \in Handlers, Request(h)
  PROVE  TypeOK'
<1>1. ASSUME NEW o \in Ops, NEW at \in PCs, NEW a, Free(h), Serve(h, o, at, a),
             claims' \in SUBSET Tracks, WellPlaced(o, at, a), a \in People \cup Tracks \cup {None},
             at \in {"start", "reply", "lock", "list", "owner"}, UNCHANGED <<rows>>
      PROVE  HandlersTypeOK' /\ TodoStored'
  BY <1>1, ServeTypeOK DEF TypeOK, TodoStored, Serve
<1>2. claims \in SUBSET Tracks
  BY DEF TypeOK, HandlersTypeOK
<1>3. CASE StartRecording(h)
  <2>1. CASE Serve(h, "start", "start", None)
    <3>1. WellPlaced("start", "start", None) /\ "start" \in Ops /\ "start" \in PCs
      BY DEF WellPlaced, Ops, PCs
    <3> QED
      BY <1>1, <1>2, <1>3, <2>1, <3>1, FramesTypeOK DEF StartRecording, TypeOK, storeVars
  <2>2. CASE \E t \in Tracks : Serve(h, "start", "owner", t)
    <3>1. PICK t \in Tracks : Serve(h, "start", "owner", t)
      BY <2>2
    <3>2. WellPlaced("start", "owner", t) /\ "start" \in Ops /\ "owner" \in PCs
      BY DEF WellPlaced, Ops, PCs
    <3> QED
      BY <1>1, <1>2, <1>3, <3>1, <3>2, FramesTypeOK DEF StartRecording, TypeOK, storeVars
  <2> QED
    BY <1>3, <2>1, <2>2 DEF StartRecording
<1>4. CASE StopRecording(h)
  <2>1. WellPlaced("stop", "list", None) /\ "stop" \in Ops /\ "list" \in PCs
    BY DEF WellPlaced, Ops, PCs
  <2> QED
    BY <1>1, <1>2, <1>4, <2>1, FramesTypeOK DEF StopRecording, TypeOK, storeVars
<1>5. CASE TranscriptionSources(h)
  <2>1. WellPlaced("sources", "list", None) /\ "sources" \in Ops /\ "list" \in PCs
    BY DEF WellPlaced, Ops, PCs
  <2> QED
    BY <1>1, <1>2, <1>5, <2>1, FramesTypeOK DEF TranscriptionSources, TypeOK, storeVars
<1>6. ASSUME NEW p \in People, CreateSession(h, p)
      PROVE  TypeOK'
  <2>1. StoreTypeOK' /\ MediaTypeOK'
    BY <1>6, FramesTypeOK, RecordingAssumption DEF CreateSession, TypeOK, StoreTypeOK
  <2>2. ASSUME NEW at \in {"start", "reply"}, Serve(h, "create", at, p)
        PROVE  HandlersTypeOK' /\ TodoStored'
    <3>1. WellPlaced("create", at, p) /\ "create" \in Ops /\ at \in PCs
      BY DEF WellPlaced, Ops, PCs
    <3> QED
      BY <1>1, <1>2, <1>6, <2>2, <3>1 DEF CreateSession
  <2>3. CASE UNCHANGED <<op, pc, cur, todo, arg, endsNow, holder, crashes>>
    BY <1>6, <2>1, <2>3 DEF CreateSession, TypeOK, HandlersTypeOK, TodoStored
  <2>4. CASE \E at \in {"start", "reply"} : Serve(h, "create", at, p)
    BY <2>1, <2>2, <2>4 DEF TypeOK
  <2>5. (IF SessionCreate THEN "start" ELSE "reply") \in {"start", "reply"}
    OBVIOUS
  <2>6. \/ \E at \in {"start", "reply"} : Serve(h, "create", at, p)
        \/ UNCHANGED <<op, pc, cur, todo, arg, endsNow, holder, crashes>>
    BY <1>6, <2>5 DEF CreateSession
  <2> QED
    BY <2>1, <2>3, <2>4, <2>6 DEF TypeOK
<1>7. ASSUME NEW p \in People, Join(h, p)
      PROVE  TypeOK'
  <2>1. CASE Serve(h, "join", "lock", p) /\ UNCHANGED mediaVars
    <3>1. WellPlaced("join", "lock", p) /\ "join" \in Ops /\ "lock" \in PCs
      BY DEF WellPlaced, Ops, PCs
    <3> QED
      BY <1>1, <1>2, <1>7, <2>1, <3>1, FramesTypeOK DEF Join, TypeOK, storeVars
  <2>2. CASE ~SessionCreate
    <3>1. StoreTypeOK' /\ HandlersTypeOK' /\ TodoStored'
      BY <1>7, <2>2, FramesTypeOK DEF Join, Serve, TypeOK, HandlersTypeOK, TodoStored, storeVars
    <3>2. MediaTypeOK'
      BY <1>7, <2>2 DEF Join, TypeOK, MediaTypeOK, Hooks
    <3> QED
      BY <3>1, <3>2 DEF TypeOK
  <2> QED
    BY <1>7, <2>1, <2>2 DEF Join
<1> QED
  BY <1>3, <1>4, <1>5, <1>6, <1>7 DEF Request

\* A webhook is taken up.
LEMMA HookTypeOK ==
  ASSUME TypeOK, HandleHook
  PROVE  TypeOK'
<1>1. ASSUME NEW k, Take(k)
      PROVE  MediaTypeOK'
  BY <1>1 DEF Take, TypeOK, MediaTypeOK
<1>2. CASE ParticipantJoined
  BY <1>1, <1>2
  DEF ParticipantJoined, MarkJoined, TypeOK, StoreTypeOK, HandlersTypeOK, TodoStored, handlerVars
<1>3. ASSUME NEW e \in Egresses, EgressEnded(e)
      PROVE  TypeOK'
  <2>1. StoreTypeOK' /\ \A f \in Egresses : rows[f] # "none" => rows'[f] # "none"
    BY <1>3 DEF EgressEnded, StopEgressRow, TypeOK, StoreTypeOK
  <2>2. HandlersTypeOK' /\ TodoStored'
    BY <1>3, <2>1 DEF EgressEnded, TypeOK, HandlersTypeOK, TodoStored, handlerVars
  <2> QED
    BY <1>1, <1>3, <2>1, <2>2 DEF EgressEnded, TypeOK
<1>4. ASSUME NEW t \in Tracks, TrackIgnored(t)
      PROVE  TypeOK'
  BY <1>1, <1>4 DEF TrackIgnored, TypeOK, StoreTypeOK, HandlersTypeOK, TodoStored, storeVars, handlerVars
<1>5. ASSUME NEW h \in Handlers, RoomFinished(h)
      PROVE  TypeOK'
  <2>1. WellPlaced("finish", "lock", None) /\ "finish" \in Ops /\ "lock" \in PCs
    BY DEF WellPlaced, Ops, PCs
  <2>2. HandlersTypeOK'
    BY <1>5, <2>1, ServeTypeOK DEF RoomFinished, TypeOK, HandlersTypeOK
  <2> QED
    BY <1>1, <1>5, <2>2, FramesTypeOK DEF RoomFinished, Serve, TypeOK, TodoStored, storeVars
<1>6. ASSUME NEW h \in Handlers, NEW t \in Tracks, TrackPublished(h, t)
      PROVE  TypeOK'
  <2>1. WellPlaced("voice", "list", t) /\ "voice" \in Ops /\ "list" \in PCs
    BY DEF WellPlaced, Ops, PCs
  <2>2. claims' \in SUBSET Tracks
    BY <1>6 DEF TrackPublished, TypeOK, HandlersTypeOK
  <2>3. HandlersTypeOK'
    BY <1>6, <2>1, <2>2, ServeTypeOK DEF TrackPublished, TypeOK
  <2> QED
    BY <1>1, <1>6, <2>3, FramesTypeOK DEF TrackPublished, Serve, TypeOK, TodoStored, storeVars
<1> QED
  BY <1>2, <1>3, <1>4, <1>5, <1>6 DEF HandleHook

LEMMA InitTypeOK == Init => TypeOK
<1> SUFFICES ASSUME Init PROVE TypeOK
  OBVIOUS
<1>1. StoreTypeOK /\ MediaTypeOK
  BY DEF Init, StoreInit, MediaInit, StoreTypeOK, MediaTypeOK, Kinds
<1>2. HandlersTypeOK
  BY RecordingAssumption DEF Init, HandlersTypeOK, WellPlaced, Ops, PCs
<1>3. TodoStored
  BY DEF Init, TodoStored
<1> QED
  BY <1>1, <1>2, <1>3 DEF TypeOK

LEMMA MediaStepTypeOK ==
  ASSUME TypeOK, MediaStep, UNCHANGED <<storeVars, handlerVars>>
  PROVE  TypeOK'
<1>1. MediaTypeOK'
  <2> USE DEF TypeOK, MediaTypeOK
  <2>1. ASSUME NEW p \in People, Enter(p) PROVE MediaTypeOK'
    BY <2>1 DEF Enter, Hooks
  <2>2. ASSUME NEW p \in People, Leave(p) PROVE MediaTypeOK'
    BY <2>2 DEF Leave, Unpublished, Hooks
  <2>3. ASSUME NEW t \in Tracks, Publish(t) PROVE MediaTypeOK'
    BY <2>3 DEF Publish, Hooks
  <2>4. CASE RoomCloses
    BY <2>4 DEF RoomCloses, Hooks
  <2>5. ASSUME NEW e \in Egresses, EgressFinishes(e) PROVE MediaTypeOK'
    BY <2>5 DEF EgressFinishes, Hooks
  <2>6. ASSUME NEW e \in Egresses, Forget(e) PROVE MediaTypeOK'
    BY <2>6 DEF Forget, Hooks
  <2> QED
    BY <2>1, <2>2, <2>3, <2>4, <2>5, <2>6 DEF MediaStep
<1> QED
  BY <1>1 DEF TypeOK, StoreTypeOK, HandlersTypeOK, TodoStored, storeVars, handlerVars

LEMMA CrashTypeOK ==
  ASSUME TypeOK, Crash
  PROVE  TypeOK'
<1>1. HandlersTypeOK'
  BY RecordingAssumption DEF Crash, TypeOK, HandlersTypeOK, WellPlaced, Ops, PCs
<1> QED
  BY <1>1, FramesTypeOK DEF Crash, TypeOK, TodoStored

LEMMA LoseHookTypeOK ==
  ASSUME TypeOK, NEW k \in Hooks, LoseHook(k)
  PROVE  TypeOK'
BY DEF LoseHook, TypeOK, StoreTypeOK, MediaTypeOK, HandlersTypeOK, TodoStored, storeVars, handlerVars

LEMMA NextTypeOK == TypeOK /\ [Next]_vars => TypeOK'
<1> SUFFICES ASSUME TypeOK, [Next]_vars PROVE TypeOK'
  OBVIOUS
<1>1. ASSUME NEW h \in Handlers, Work(h) PROVE TypeOK'
  BY <1>1, StartEgressTypeOK, StartEgressFailsTypeOK, StoreEgressTypeOK, StoreEgressFailsTypeOK,
     UndoEgressTypeOK, AnswerCreatorTypeOK, LockTypeOK, ListTypeOK, ListFailsTypeOK, LoopTypeOK,
     FindOwnerTypeOK, MarkEndedTypeOK, CloseDialInTypeOK
  DEF Work
<1>2. CASE UNCHANGED vars
  BY <1>2, FramesTypeOK DEF vars, TypeOK, HandlersTypeOK, TodoStored, handlerVars, storeVars
<1> QED
  BY <1>1, <1>2, RequestTypeOK, HookTypeOK, MediaStepTypeOK, CrashTypeOK, LoseHookTypeOK DEF Next

\* The handlers, the store and the media server stay within their types, and
\* a handler's place, its argument and its loop agree, whatever fails.
THEOREM TypeCorrect == Spec => []TypeOK
BY InitTypeOK, NextTypeOK, PTL DEF Spec

-------------------------------------------------------------------------------
(* The session lock.                                                       *)

\* Nobody but h is concerned by a step of h that leaves the lock as it is, or
\* takes it when it is free, or gives back its own.
LEMMA LockKept ==
  ASSUME TypeOK, LockHeldByWorker, NEW h \in Handlers,
         \A g \in Handlers : g # h => op'[g] = op[g] /\ pc'[g] = pc[g],
         \/ holder' = holder /\ (InLock(h)' <=> InLock(h))
         \/ holder = None /\ holder' = h /\ InLock(h)'
         \/ holder' = (IF holder = h THEN None ELSE holder) /\ ~InLock(h)'
  PROVE  LockHeldByWorker'
BY RecordingAssumption DEF LockHeldByWorker, InLock, TypeOK, HandlersTypeOK

LEMMA ReturnLock ==
  ASSUME TypeOK, LockHeldByWorker, NEW h \in Handlers, Return(h)
  PROVE  LockHeldByWorker'
<1>1. op'[h] = "none" /\ \A g \in Handlers : g # h => op'[g] = op[g] /\ pc'[g] = pc[g]
  BY DEF Return, TypeOK, HandlersTypeOK
<1>2. holder' = (IF holder = h THEN None ELSE holder) /\ ~InLock(h)'
  BY <1>1 DEF Return, InLock
<1> QED
  BY <1>1, <1>2, LockKept

LEMMA GotoLock ==
  ASSUME TypeOK, LockHeldByWorker, NEW h \in Handlers, NEW at, NEW T, Goto(h, at, T),
         op[h] \in {"join", "finish"} => pc[h] \in Locked /\ at \in Locked
  PROVE  LockHeldByWorker'
<1>1. pc'[h] = at /\ op'[h] = op[h] /\ \A g \in Handlers : g # h => op'[g] = op[g] /\ pc'[g] = pc[g]
  BY DEF Goto, TypeOK, HandlersTypeOK
<1>2. holder' = holder /\ (InLock(h)' <=> InLock(h))
  BY <1>1 DEF Goto, InLock
<1> QED
  BY <1>1, <1>2, LockKept

LEMMA ServeLock ==
  ASSUME TypeOK, LockHeldByWorker, NEW h \in Handlers, NEW o, NEW at, NEW a,
         Free(h), Serve(h, o, at, a), at \notin Locked \/ o \notin {"join", "finish"}
  PROVE  LockHeldByWorker'
<1>1. op'[h] = o /\ pc'[h] = at /\ \A g \in Handlers : g # h => op'[g] = op[g] /\ pc'[g] = pc[g]
  BY DEF Serve, TypeOK, HandlersTypeOK
<1>2. holder' = holder /\ (InLock(h)' <=> InLock(h))
  BY <1>1 DEF Serve, Free, InLock
<1> QED
  BY <1>1, <1>2, LockKept

LEMMA LookedLock ==
  ASSUME TypeOK, LockHeldByWorker, NEW h \in Handlers, NEW e, Looked(h, e), pc[h] \in Locked
  PROVE  LockHeldByWorker'
<1>1. LoopTop(h) \in Locked /\ "start" \in Locked /\ "close" \in Locked
  BY DEF LoopTop, Locked
<1> QED
  BY <1>1, GotoLock, ReturnLock DEF Looked

LEMMA WorkLock ==
  ASSUME TypeOK, LockHeldByWorker, NEW h \in Handlers, Work(h)
  PROVE  LockHeldByWorker'
<1> USE DEF Locked
<1>1. CASE StartEgress(h) \/ StoreEgressFails(h)
  <2>1. /\ pc[h] \in Locked /\ pc'[h] \in Locked /\ op'[h] = op[h] /\ holder' = holder
        /\ \A g \in Handlers : g # h => op'[g] = op[g] /\ pc'[g] = pc[g]
    BY <1>1 DEF StartEgress, Begin, StoreEgressFails, TypeOK, HandlersTypeOK
  <2> QED
    BY <2>1, LockKept DEF InLock
<1>2. CASE StoreEgress(h)
  <2>1. CASE op[h] = "create"
    <3>1. /\ op'[h] = "create" /\ holder' = holder
          /\ \A g \in Handlers : g # h => op'[g] = op[g] /\ pc'[g] = pc[g]
      BY <1>2, <2>1 DEF StoreEgress, TypeOK, HandlersTypeOK
    <3> QED
      BY <2>1, <3>1, LockKept DEF InLock
  <2>2. CASE op[h] # "create"
    BY <1>2, <2>2, ReturnLock DEF StoreEgress, Answer, Respond
  <2> QED
    BY <2>1, <2>2
<1>3. CASE StartEgressFails(h) \/ UndoEgress(h) \/ AnswerCreator(h)
  BY <1>3, ReturnLock DEF StartEgressFails, UndoEgress, AnswerCreator, Answer, Respond
<1>4. CASE Lock(h)
  <2>1. /\ op[h] \in {"join", "finish"} /\ op'[h] = op[h] /\ pc'[h] \in Locked
        /\ holder = None /\ holder' = h
        /\ \A g \in Handlers : g # h => op'[g] = op[g] /\ pc'[g] = pc[g]
    BY <1>4 DEF Lock, TypeOK, HandlersTypeOK, WellPlaced
  <2> QED
    BY <2>1, LockKept DEF InLock
<1>5. CASE List(h)
  BY <1>5, GotoLock, ReturnLock
  DEF List, ListToResume, ListToSweep, ListToStop, ListSources, ListVoices
<1>6. CASE ListFails(h)
  BY <1>6, GotoLock, ReturnLock DEF ListFails, Answer, Respond
<1>7. ASSUME NEW e \in Egresses,
             ProbeToResume(h, e) \/ ProbeSource(h, e) \/ Settle(h, e) \/ Stop(h, e) \/ Lookup(h, e)
      PROVE  LockHeldByWorker'
  BY <1>7, GotoLock, ReturnLock, LookedLock
  DEF ProbeToResume, ProbeSource, Settle, Stop, Lookup, Answer, Respond
<1>8. CASE FindOwner(h)
  <2>1. op[h] \notin {"join", "finish"}
    BY <1>8 DEF FindOwner, TypeOK, HandlersTypeOK, WellPlaced
  <2> QED
    BY <1>8, <2>1, GotoLock, ReturnLock DEF FindOwner
<1>9. CASE MarkEnded(h)
  <2>1. CASE Return(h)
    BY <2>1, ReturnLock
  <2>2. CASE pc' = [pc EXCEPT ![h] = "list"] /\ UNCHANGED <<op, holder>>
    <3>1. /\ pc[h] \in Locked /\ pc'[h] \in Locked /\ op'[h] = op[h] /\ holder' = holder
          /\ \A g \in Handlers : g # h => op'[g] = op[g] /\ pc'[g] = pc[g]
      BY <1>9, <2>2 DEF MarkEnded, TypeOK, HandlersTypeOK
    <3> QED
      BY <3>1, LockKept DEF InLock
  <2> QED
    BY <1>9, <2>1, <2>2 DEF MarkEnded
<1>10. CASE CloseDialIn(h)
  BY <1>10, ReturnLock DEF CloseDialIn
<1> QED
  BY <1>1, <1>2, <1>3, <1>4, <1>5, <1>6, <1>7, <1>8, <1>9, <1>10 DEF Work

LEMMA NextLock == TypeOK /\ LockHeldByWorker /\ [Next]_vars => LockHeldByWorker'
<1> SUFFICES ASSUME TypeOK, LockHeldByWorker, [Next]_vars PROVE LockHeldByWorker'
  OBVIOUS
<1>1. CASE UNCHANGED handlerVars
  BY <1>1 DEF handlerVars, LockHeldByWorker, InLock
<1>2. ASSUME NEW h \in Handlers, Request(h) PROVE LockHeldByWorker'
  BY <1>1, <1>2, ServeLock
  DEF Request, StartRecording, StopRecording, TranscriptionSources, CreateSession, Join, Locked, handlerVars
<1>3. CASE HandleHook
  BY <1>1, <1>3, ServeLock
  DEF HandleHook, ParticipantJoined, EgressEnded, TrackIgnored, RoomFinished, TrackPublished, Locked
<1>4. CASE Crash
  BY <1>4, RecordingAssumption DEF Crash, LockHeldByWorker, InLock
<1>5. CASE MediaStep /\ UNCHANGED <<storeVars, handlerVars>>
  BY <1>1, <1>5
<1>6. CASE \E k \in Hooks : LoseHook(k)
  BY <1>1, <1>6 DEF LoseHook
<1> QED
  BY <1>1, <1>2, <1>3, <1>4, <1>5, <1>6, WorkLock DEF Next, vars

\* However many handlers join, sweep, fail or restart, the session lock is
\* held by exactly the one that works under it, and left held by none.
THEOREM LockDiscipline == Spec => []LockInv
<1>1. Init => LockHeldByWorker
  BY RecordingAssumption DEF Init, LockHeldByWorker, InLock
<1>2. TypeOK /\ LockHeldByWorker => LockInv
  BY DEF LockInv
<1> QED
  BY <1>1, <1>2, TypeCorrect, NextLock, PTL DEF Spec
-------------------------------------------------------------------------------
(* Settled rows and running egresses.                                      *)

\* What is said of an egress is said once the media server knows it: a row, an
\* unstored egress and a row about to be settled.
EgressInv ==
  /\ \A e \in Egresses : rows[e] # "none" => media[e] # "unused"
  /\ \A h \in Handlers : cur[h] # None => media[cur[h]] # "unused"
  /\ \A e \in Egresses : EgressHook(e) \in hooks => media[e] \in {"ended", "forgotten"}
  /\ \A h \in Handlers, e \in Egresses :
       pc[h] = "settle" /\ Due(h, e) => media[e] \in {"ending", "ended", "forgotten"}
  /\ StoppedIsOver

\* Before the creator is answered nobody knows the session, so nobody else can
\* record it; and one handler creates it.
CreationInv ==
  /\ session = "none" =>
       /\ \A e \in Egresses : media[e] = "unused"
       /\ \A h \in Handlers : op[h] = "none"
       /\ ~room /\ hooks = {}
  /\ session # "open" =>
       /\ tokens = {}
       /\ \A t \in Tracks : TrackHook(t) \notin hooks
       /\ \A h \in Handlers : op[h] \in {"none", "create", "finish"}
  /\ \A h \in Handlers : op[h] = "create" => session = "stored"
  /\ \A g, h \in Handlers : op[g] = "create" /\ op[h] = "create" => g = h

\* The running recordings on the record that creation and joins asked for.
AutoRecordings == {e \in Running : kind[e] = "auto" /\ OnRecord(e)}

\* A handler about to start such a recording has seen to it that there is
\* none: what of them is left is among the rows it still looks at.
AutoInv ==
  /\ \A e \in Egresses : kind[e] = "auto" => track[e] = None
  /\ \A h \in Handlers : cur[h] # None /\ kind[cur[h]] = "auto" => op[h] \in {"create", "join"}
  /\ \A h \in Handlers : op[h] = "join" /\ pc[h] \in {"probe", "settle"} => AutoRecordings \subseteq todo[h]
  /\ \A h \in Handlers : op[h] \in {"create", "join"} /\ pc[h] = "start" => AutoRecordings = {}
  /\ \A h \in Handlers : op[h] \in {"create", "join"} /\ pc[h] \in {"add", "undo"} => AutoRecordings \subseteq {cur[h]}
  /\ OneAutoRecording
\* The statuses of an egress that was told to stop or ended.
Over == {"ending", "ended", "forgotten"}

\* What one step may do to the status of an egress.
MediaMoves(a, b) ==
  \/ a = b
  \/ a = "unused" /\ b = "running"
  \/ a = "running" /\ b \in {"ending", "ended"}
  \/ a = "ending" /\ b = "ended"
  \/ a = "ended" /\ b = "forgotten"

LEMMA MediaMovesOn ==
  ASSUME TypeOK, [Next]_vars
  PROVE  \A e \in Egresses : MediaMoves(media[e], media'[e])
<1> USE DEF MediaMoves
<1>1. CASE UNCHANGED media
  BY <1>1
<1>2. ASSUME NEW h \in Handlers, Work(h)
      PROVE  \A e \in Egresses : MediaMoves(media[e], media'[e])
  <2>1. CASE StartEgress(h)
    BY <2>1 DEF StartEgress, Begin, Fresh, TypeOK, MediaTypeOK
  <2>2. CASE UndoEgress(h)
    BY <2>2 DEF UndoEgress, StopAccepted, TypeOK, MediaTypeOK
  <2>3. ASSUME NEW e \in Egresses, Stop(h, e)
        PROVE  \A f \in Egresses : MediaMoves(media[f], media'[f])
    BY <2>3 DEF Stop, StopAccepted, TypeOK, MediaTypeOK
  <2>4. CASE UNCHANGED media
    BY <2>4
  <2>5. CASE StartEgressFails(h)
    BY <2>5 DEF StartEgressFails, Begin, Fresh, TypeOK, MediaTypeOK
  <2> QED
    BY <1>2, <2>1, <2>2, <2>3, <2>4, <2>5
    DEF Work, StoreEgress, StoreEgressFails, AnswerCreator, Lock, List, ListToResume,
        ListToSweep, ListToStop, ListSources, ListVoices, ListFails, ProbeToResume, ProbeSource, Settle,
        Lookup, FindOwner, MarkEnded, CloseDialIn, mediaVars
<1>3. ASSUME NEW h \in Handlers, Request(h)
      PROVE  UNCHANGED media
  BY <1>3 DEF Request, StartRecording, StopRecording, TranscriptionSources, CreateSession, Join, mediaVars
<1>4. CASE HandleHook
  BY <1>4 DEF HandleHook, Take, ParticipantJoined, EgressEnded, TrackIgnored, RoomFinished, TrackPublished
<1>5. CASE MediaStep
  <2>1. ASSUME NEW e \in Egresses, EgressFinishes(e) \/ Forget(e)
        PROVE  \A f \in Egresses : MediaMoves(media[f], media'[f])
    BY <2>1 DEF EgressFinishes, Forget, TypeOK, MediaTypeOK
  <2>2. CASE RoomCloses
    BY <2>2 DEF RoomCloses, TypeOK, MediaTypeOK
  <2> QED
    BY <1>5, <2>1, <2>2 DEF MediaStep, Enter, Leave, Publish
<1>6. CASE Crash
  BY <1>6 DEF Crash, mediaVars
<1>7. CASE \E k \in Hooks : LoseHook(k)
  BY <1>7 DEF LoseHook
<1> QED
  BY <1>1, <1>2, <1>3, <1>4, <1>5, <1>6, <1>7 DEF Next, vars, mediaVars

\* A row changes when its handler stores it, and when its egress is over.
LEMMA RowsMoveOn ==
  ASSUME TypeOK, EgressInv, [Next]_vars
  PROVE  \A e \in Egresses :
           \/ rows'[e] = rows[e]
           \/ rows'[e] = "active" /\ \E h \in Handlers : pc[h] = "add" /\ cur[h] = e
           \/ rows[e] = "active" /\ rows'[e] = "stopped" /\ media[e] \in Over
<1> DEFINE Moves == \A e \in Egresses :
           \/ rows'[e] = rows[e]
           \/ rows'[e] = "active" /\ \E h \in Handlers : pc[h] = "add" /\ cur[h] = e
           \/ rows[e] = "active" /\ rows'[e] = "stopped" /\ media[e] \in Over
<1>1. CASE UNCHANGED rows
  BY <1>1
<1>2. ASSUME NEW h \in Handlers, Work(h)
      PROVE  Moves
  <2>1. CASE StoreEgress(h)
    BY <2>1 DEF StoreEgress, AddEgress, TypeOK, StoreTypeOK
  <2>2. ASSUME NEW e \in Egresses, Settle(h, e)
        PROVE  Moves
    BY <2>2 DEF Settle, StopEgressRow, EgressInv, Over, TypeOK, StoreTypeOK
  <2> QED
    BY <1>1, <1>2, <2>1, <2>2
    DEF Work, StartEgress, Begin, StartEgressFails, StoreEgressFails, UndoEgress, AnswerCreator, Lock, List,
        ListToResume, ListToSweep, ListToStop, ListSources, ListVoices, ListFails, ProbeToResume,
        ProbeSource, Stop, Lookup, FindOwner, MarkEnded, CloseDialIn, storeVars
<1>3. ASSUME NEW h \in Handlers, Request(h)
      PROVE  UNCHANGED rows
  BY <1>3 DEF Request, StartRecording, StopRecording, TranscriptionSources, CreateSession, Join, storeVars
<1>4. CASE HandleHook
  <2>1. ASSUME NEW e \in Egresses, EgressEnded(e)
        PROVE  Moves
    BY <2>1 DEF EgressEnded, Take, StopEgressRow, EgressInv, Over, TypeOK, StoreTypeOK
  <2> QED
    BY <1>1, <1>4, <2>1
    DEF HandleHook, ParticipantJoined, TrackIgnored, RoomFinished, TrackPublished, storeVars
<1>5. CASE Crash \/ (MediaStep /\ UNCHANGED <<storeVars, handlerVars>>) \/ (\E k \in Hooks : LoseHook(k))
  BY <1>1, <1>5 DEF Crash, LoseHook, storeVars
<1> QED
  BY <1>1, <1>2, <1>3, <1>4, <1>5 DEF Next, vars, storeVars

\* The end of an egress is reported when it has ended.
LEMMA HooksMoveOn ==
  ASSUME TypeOK, [Next]_vars
  PROVE  \A e \in Egresses : EgressHook(e) \in hooks' => EgressHook(e) \in hooks \/ media'[e] = "ended"
<1> DEFINE Moves == \A e \in Egresses : EgressHook(e) \in hooks' => EgressHook(e) \in hooks \/ media'[e] = "ended"
<1>1. CASE UNCHANGED hooks
  BY <1>1
<1>2. ASSUME NEW h \in Handlers, Work(h) \/ Request(h)
      PROVE  UNCHANGED hooks
  BY <1>2
  DEF Work, StartEgress, Begin, StartEgressFails, StoreEgress, StoreEgressFails, UndoEgress, Answer, Respond,
      AnswerCreator, Lock, List, ListToResume, ListToSweep, ListToStop, ListSources, ListVoices,
      ListFails, ProbeToResume, ProbeSource, Settle, Stop, Lookup, FindOwner, MarkEnded, CloseDialIn,
      Request, StartRecording, StopRecording, TranscriptionSources, CreateSession, Join, mediaVars
<1>3. CASE HandleHook
  BY <1>3 DEF HandleHook, Take, ParticipantJoined, EgressEnded, TrackIgnored, RoomFinished, TrackPublished
<1>4. CASE MediaStep
  <2>1. ASSUME NEW e \in Egresses, EgressFinishes(e)
        PROVE  Moves
    BY <2>1 DEF EgressFinishes, EgressHook, TypeOK, MediaTypeOK
  <2>2. ASSUME NEW p \in People, Enter(p)
        PROVE  Moves
    BY <2>2 DEF Enter, EgressHook, JoinedHook
  <2>3. ASSUME NEW t \in Tracks, Publish(t)
        PROVE  Moves
    BY <2>3 DEF Publish, EgressHook, TrackHook
  <2>4. CASE RoomCloses
    BY <2>4 DEF RoomCloses, EgressHook, FinishedHook
  <2> QED
    BY <1>1, <1>4, <2>1, <2>2, <2>3, <2>4 DEF MediaStep, Leave, Forget
<1>5. CASE Crash \/ (\E k \in Hooks : LoseHook(k))
  BY <1>5 DEF Crash, LoseHook, mediaVars
<1> QED
  BY <1>1, <1>2, <1>3, <1>4, <1>5 DEF Next, vars, mediaVars
\* A handler's step leaves the other handlers where they are.
LEMMA OthersStay ==
  ASSUME TypeOK, NEW h \in Handlers, Work(h), NEW g \in Handlers, g # h
  PROVE  op'[g] = op[g] /\ pc'[g] = pc[g] /\ todo'[g] = todo[g] /\ cur'[g] = cur[g]
<1> USE DEF TypeOK, HandlersTypeOK
<1>1. CASE Return(h)
  BY <1>1 DEF Return
<1>2. ASSUME NEW at, NEW T, Goto(h, at, T)
      PROVE  op'[g] = op[g] /\ pc'[g] = pc[g] /\ todo'[g] = todo[g] /\ cur'[g] = cur[g]
  BY <1>2 DEF Goto
<1>3. CASE \E e \in Egresses : Looked(h, e)
  BY <1>1, <1>2, <1>3 DEF Looked
<1>4. CASE StartEgress(h) \/ StoreEgressFails(h) \/ Lock(h)
  BY <1>4 DEF StartEgress, Begin, StoreEgressFails, Lock
<1>5. CASE StoreEgress(h)
  BY <1>1, <1>5 DEF StoreEgress, Answer, Respond
<1>6. CASE MarkEnded(h)
  BY <1>1, <1>6 DEF MarkEnded
<1>7. CASE StartEgressFails(h) \/ UndoEgress(h) \/ AnswerCreator(h) \/ CloseDialIn(h)
  BY <1>1, <1>7 DEF StartEgressFails, UndoEgress, AnswerCreator, CloseDialIn, Answer, Respond
<1>8. CASE List(h) \/ ListFails(h) \/ FindOwner(h)
  BY <1>1, <1>2, <1>8
  DEF List, ListToResume, ListToSweep, ListToStop, ListSources, ListVoices, ListFails, FindOwner, Answer, Respond
<1>9. ASSUME NEW e \in Egresses,
             ProbeToResume(h, e) \/ ProbeSource(h, e) \/ Settle(h, e) \/ Stop(h, e) \/ Lookup(h, e)
      PROVE  op'[g] = op[g] /\ pc'[g] = pc[g] /\ todo'[g] = todo[g] /\ cur'[g] = cur[g]
  BY <1>1, <1>2, <1>3, <1>9 DEF ProbeToResume, ProbeSource, Settle, Stop, Lookup, Answer, Respond
<1> QED
  BY <1>4, <1>5, <1>6, <1>7, <1>8, <1>9 DEF Work

\* An egress becomes a handler's own when it has just been started.
LEMMA CurMovesOn ==
  ASSUME TypeOK, [Next]_vars
  PROVE  \A h \in Handlers : cur'[h] \in {cur[h], None} \/ media'[cur'[h]] = "running"
<1> DEFINE Moves == \A h \in Handlers : cur'[h] \in {cur[h], None} \/ media'[cur'[h]] = "running"
<1>1. CASE UNCHANGED cur
  BY <1>1
<1>2. ASSUME NEW h \in Handlers, Return(h)
      PROVE  Moves
  BY <1>2 DEF Return, TypeOK, HandlersTypeOK
<1>3. ASSUME NEW h \in Handlers, Work(h)
      PROVE  Moves
  <2>1. CASE StartEgress(h)
    BY <2>1 DEF StartEgress, Begin, TypeOK, MediaTypeOK, HandlersTypeOK
  <2>2. CASE StoreEgress(h)
    BY <1>2, <2>2 DEF StoreEgress, Answer, Respond, TypeOK, HandlersTypeOK
  <2>3. ASSUME NEW e \in Egresses, Looked(h, e)
        PROVE  Moves
    BY <1>1, <1>2, <2>3 DEF Looked, Goto
  <2>4. ASSUME NEW e \in Egresses,
               ProbeToResume(h, e) \/ ProbeSource(h, e) \/ Settle(h, e) \/ Stop(h, e) \/ Lookup(h, e)
        PROVE  Moves
    BY <1>1, <1>2, <2>3, <2>4 DEF ProbeToResume, ProbeSource, Settle, Stop, Lookup, Goto, Answer, Respond
  <2> QED
    BY <1>1, <1>2, <1>3, <2>1, <2>2, <2>4
    DEF Work, StartEgressFails, StoreEgressFails, UndoEgress, Answer, Respond, AnswerCreator, Lock, List,
        ListToResume, ListToSweep, ListToStop, ListSources, ListVoices, ListFails, FindOwner,
        MarkEnded, CloseDialIn, Goto
<1>4. ASSUME NEW h \in Handlers, Request(h)
      PROVE  UNCHANGED cur
  BY <1>4 DEF Request, StartRecording, StopRecording, TranscriptionSources, CreateSession, Join, Serve
<1>5. CASE HandleHook
  BY <1>1, <1>5
  DEF HandleHook, ParticipantJoined, EgressEnded, TrackIgnored, RoomFinished, TrackPublished, Serve, handlerVars
<1>6. CASE Crash
  BY <1>6 DEF Crash
<1> QED
  BY <1>1, <1>3, <1>4, <1>5, <1>6 DEF Next, LoseHook, vars, handlerVars
\* A handler settles the row its loop looks at when the egress is found over.
LEMMA SettleMovesOn ==
  ASSUME TypeOK, [Next]_vars
  PROVE  \A h \in Handlers, e \in Egresses :
           pc'[h] = "settle" /\ Due(h, e)' =>
             (pc[h] = "settle" /\ Due(h, e)) \/ media'[e] \in Over
<1> SUFFICES ASSUME NEW h \in Handlers, NEW e \in Egresses,
                    pc'[h] = "settle", Due(h, e)',
                    ~ (pc[h] = "settle" /\ Due(h, e))
             PROVE  media'[e] \in Over
  OBVIOUS
<1>1. ~ (pc'[h] = pc[h] /\ todo'[h] = todo[h])
  BY DEF Due
<1>2. ~ Return(h)
  BY DEF Return, TypeOK, HandlersTypeOK
<1>3. ASSUME NEW at, NEW T, Goto(h, at, T)
      PROVE  at = "settle" /\ todo'[h] = T
  BY <1>3 DEF Goto, TypeOK, HandlersTypeOK
<1>4. \A f \in Egresses : ~ Looked(h, f)
  <2>1. LoopTop(h) # "settle"
    BY DEF LoopTop
  <2> QED
    BY <1>2, <1>3, <2>1 DEF Looked
<1>5. ASSUME NEW f \in Egresses, Due(h, f), Goto(h, "settle", todo[h])
      PROVE  e = f
  <2>1. todo'[h] = todo[h]
    BY <1>3, <1>5
  <2> QED
    BY <1>5, <2>1, MaxEgressesAssumption DEF Due, Egresses
<1>6. ASSUME NEW g \in Handlers, Work(g)
      PROVE  media'[e] \in Over
  <2>1. g = h
    BY <1>1, <1>6, OthersStay
  <2>2. ASSUME NEW f \in Egresses,
               ProbeToResume(h, f) \/ ProbeSource(h, f) \/ Stop(h, f) \/ Lookup(h, f)
        PROVE  Due(h, f) /\ Goto(h, "settle", todo[h]) /\ media'[f] \in Over
    BY <1>2, <1>3, <1>4, <2>2
    DEF ProbeToResume, ProbeSource, Stop, StopAccepted, Lookup, Answer, Respond, Over, TypeOK, MediaTypeOK, mediaVars
  <2>3. \A f \in Egresses : ~ Settle(h, f)
    BY <1>2, <1>4 DEF Settle
  <2>4. ~ (StartEgress(h) \/ StoreEgressFails(h) \/ Lock(h))
    BY DEF StartEgress, Begin, StoreEgressFails, Lock, TypeOK, HandlersTypeOK
  <2>5. ~ (StoreEgress(h) \/ MarkEnded(h))
    BY <1>2 DEF StoreEgress, MarkEnded, Answer, Respond, TypeOK, HandlersTypeOK
  <2>6. ~ (StartEgressFails(h) \/ UndoEgress(h) \/ AnswerCreator(h) \/ CloseDialIn(h))
    BY <1>2 DEF StartEgressFails, UndoEgress, AnswerCreator, CloseDialIn, Answer, Respond
  <2>7. ~ List(h)
    <3>1. ~ (ListToResume(h) \/ ListToSweep(h))
      BY DEF ListToResume, ListToSweep, Goto, TypeOK, HandlersTypeOK
    <3>2. ~ ListToStop(h)
      BY <1>2, <1>3 DEF ListToStop
    <3>3. ~ (ListSources(h) \/ ListVoices(h))
      BY <1>2, <1>3 DEF ListSources, ListVoices
    <3> QED
      BY <3>1, <3>2, <3>3 DEF List
  <2>8. ~ (ListFails(h) \/ FindOwner(h))
    BY <1>2, <1>3 DEF ListFails, FindOwner, Answer, Respond
  <2> QED
    BY <1>5, <1>6, <2>1, <2>2, <2>3, <2>4, <2>5, <2>6, <2>7, <2>8 DEF Work
<1>7. ASSUME NEW g \in Handlers, NEW o, NEW at, NEW a,
             at \in {"start", "reply", "lock", "list", "owner"}, Serve(g, o, at, a)
      PROVE  FALSE
  BY <1>1, <1>7 DEF Serve, TypeOK, HandlersTypeOK
<1>8. ASSUME NEW g \in Handlers
      PROVE  ~ Request(g)
  BY <1>1, <1>7, <1>8
  DEF Request, StartRecording, StopRecording, TranscriptionSources, CreateSession, Join
<1>9. ~ HandleHook
  BY <1>1, <1>7
  DEF HandleHook, ParticipantJoined, EgressEnded, TrackIgnored, RoomFinished, TrackPublished, handlerVars
<1>10. ~ Crash
  BY DEF Crash
<1> QED
  BY <1>1, <1>6, <1>8, <1>9, <1>10 DEF Next, LoseHook, vars, handlerVars

LEMMA NextEgressInv == TypeOK /\ EgressInv /\ [Next]_vars => EgressInv'
<1> SUFFICES ASSUME TypeOK, EgressInv, [Next]_vars PROVE EgressInv'
  OBVIOUS
<1>1. \A e \in Egresses : MediaMoves(media[e], media'[e])
  BY MediaMovesOn
<1>2. \A e \in Egresses : media[e] # "unused" => media'[e] # "unused"
  BY <1>1 DEF MediaMoves
<1>3. \A e \in Egresses : media[e] \in Over => media'[e] \in Over
  BY <1>1 DEF MediaMoves, Over
<1>4. ASSUME NEW e \in Egresses
      PROVE  rows'[e] # "none" => media'[e] # "unused"
  BY <1>2, RowsMoveOn, NoneAssumption DEF EgressInv, Over
<1>5. ASSUME NEW h \in Handlers
      PROVE  cur'[h] # None => media'[cur'[h]] # "unused"
  BY <1>2, CurMovesOn DEF EgressInv, TypeOK, HandlersTypeOK
<1>6. ASSUME NEW e \in Egresses
      PROVE  EgressHook(e) \in hooks' => media'[e] \in {"ended", "forgotten"}
  BY <1>1, HooksMoveOn DEF EgressInv, MediaMoves
<1>7. ASSUME NEW h \in Handlers, NEW e \in Egresses
      PROVE  pc'[h] = "settle" /\ Due(h, e)' => media'[e] \in Over
  BY <1>3, SettleMovesOn DEF EgressInv, Over
<1>8. ASSUME NEW e \in Egresses, rows'[e] = "stopped"
      PROVE  media'[e] # "running"
  <2>1. CASE rows[e] = "stopped"
    BY <1>1, <2>1 DEF EgressInv, StoppedIsOver, MediaMoves
  <2>2. CASE media[e] \in Over
    BY <1>3, <2>2 DEF Over
  <2> QED
    BY <1>8, <2>1, <2>2, RowsMoveOn
<1> QED
  BY <1>4, <1>5, <1>6, <1>7, <1>8 DEF EgressInv, StoppedIsOver, EgressHook, Over

LEMMA InitEgressInv == Init => EgressInv
<1> SUFFICES ASSUME Init PROVE EgressInv
  OBVIOUS
<1>1. \A e \in Egresses : rows[e] = "none" /\ EgressHook(e) \notin hooks
  BY DEF Init, StoreInit, MediaInit
<1>2. \A h \in Handlers : cur[h] = None /\ pc[h] = "idle"
  BY DEF Init
<1> QED
  BY <1>1, <1>2 DEF EgressInv, StoppedIsOver

\* Whatever fails, is lost or restarts, a stored recording is called stopped
\* only once the media server has been told to stop it or has ended it.
THEOREM SettledRowsAreOver == Spec => []StoppedIsOver
<1>1. EgressInv => StoppedIsOver
  BY DEF EgressInv
<1> QED
  BY <1>1, InitEgressInv, TypeCorrect, NextEgressInv, PTL DEF Spec-------------------------------------------------------------------------------
(* What runs is on the record, while no call fails.                        *)

\* An egress runs from when a handler started it, and that handler holds it -
\* or never heard that it had.
LEMMA StartMovesOn ==
  ASSUME TypeOK, EgressInv, [Next]_vars,
         NEW e \in Egresses, media'[e] = "running", media[e] # "running"
  PROVE  \/ \E h \in Handlers : StartEgress(h) /\ cur'[h] = e /\ pc'[h] = "add"
         \/ Faults /\ ~ OnRecord(e)'
<1> DEFINE Unheard == Faults /\ ~ OnRecord(e)'
<1>1. media[e] = "unused"
  BY MediaMovesOn DEF MediaMoves
<1>2. ASSUME NEW h \in Handlers, StartEgress(h)
      PROVE  cur'[h] = e /\ pc'[h] = "add"
  BY <1>1, <1>2 DEF StartEgress, Begin, TypeOK, MediaTypeOK, HandlersTypeOK
<1>3. \A f \in Egresses : ~ (StopAccepted(f) \/ EgressFinishes(f) \/ Forget(f))
  BY <1>1 DEF StopAccepted, EgressFinishes, Forget, TypeOK, MediaTypeOK
<1>4. ~ RoomCloses
  BY <1>1 DEF RoomCloses, TypeOK, MediaTypeOK
<1>5. media' # media
  BY <1>1
<1>6. ASSUME NEW h \in Handlers, Work(h)
      PROVE  StartEgress(h) \/ Unheard
  <2>1. ~ UndoEgress(h)
    BY <1>3, <1>5 DEF UndoEgress, TypeOK, HandlersTypeOK
  <2>2. \A f \in Egresses : ~ Stop(h, f)
    BY <1>3, <1>5 DEF Stop
  <2>3. CASE StartEgressFails(h)
    <3>1. Faults /\ Return(h) /\ UNCHANGED rows
      BY <1>5, <2>3 DEF StartEgressFails, Respond, storeVars
    <3>2. rows'[e] # "active"
      BY <1>1, <3>1 DEF EgressInv
    <3>3. ASSUME NEW g \in Handlers, cur'[g] = e, pc'[g] = "add"
          PROVE  FALSE
      <4>1. g # h
        BY <3>1, <3>3 DEF Return, TypeOK, HandlersTypeOK
      <4>2. cur[g] = e
        BY <3>1, <3>3, <4>1 DEF Return, TypeOK, HandlersTypeOK
      <4> QED
        BY <1>1, <4>2, NoneAssumption DEF EgressInv
    <3> QED
      BY <3>1, <3>2, <3>3 DEF OnRecord
  <2> QED
    BY <1>5, <1>6, <2>1, <2>2, <2>3
    DEF Work, StoreEgress, StoreEgressFails, AnswerCreator, Lock, List, ListToResume,
        ListToSweep, ListToStop, ListSources, ListVoices, ListFails, ProbeToResume, ProbeSource, Settle,
        Lookup, FindOwner, MarkEnded, CloseDialIn, mediaVars
<1>7. ASSUME NEW h \in Handlers
      PROVE  ~ Request(h)
  BY <1>5, <1>7 DEF Request, StartRecording, StopRecording, TranscriptionSources, CreateSession, Join, mediaVars
<1>8. ~ (HandleHook \/ Crash)
  BY <1>5 DEF HandleHook, Take, ParticipantJoined, EgressEnded, TrackIgnored, RoomFinished, TrackPublished,
              Crash, mediaVars
<1>9. ~ MediaStep
  BY <1>3, <1>4, <1>5 DEF MediaStep, Enter, Leave, Publish
<1> QED
  BY <1>2, <1>5, <1>6, <1>7, <1>8, <1>9 DEF Next, LoseHook, vars, mediaVars

\* Without faults a handler that holds an egress goes on to store it.
LEMMA AddMovesOn ==
  ASSUME TypeOK, ~ Faults, MaxCrashes = 0, [Next]_vars,
         NEW h \in Handlers, pc[h] = "add"
  PROVE  \/ pc'[h] = "add" /\ cur'[h] = cur[h]
         \/ rows'[cur[h]] = "active"
<1> DEFINE Goal == \/ pc'[h] = "add" /\ cur'[h] = cur[h]
                   \/ rows'[cur[h]] = "active"
<1>1. op[h] \in {"create", "join", "start", "voice"} /\ cur[h] \in Egresses
  BY DEF TypeOK, HandlersTypeOK, WellPlaced
<1>2. CASE StoreEgress(h)
  BY <1>1, <1>2 DEF StoreEgress, AddEgress, TypeOK, StoreTypeOK
<1>3. ASSUME NEW g \in Handlers, Work(g), ~ StoreEgress(h)
      PROVE  Goal
  <2>1. CASE g # h
    BY <1>3, <2>1, OthersStay
  <2>2. CASE g = h
    BY <1>3, <2>2
    DEF Work, StartEgress, Begin, StartEgressFails, StoreEgressFails, UndoEgress, AnswerCreator, Lock, List,
        ListToResume, ListToSweep, ListToStop, ListSources, ListVoices, ListFails, ProbeToResume,
        ProbeSource, Settle, Stop, Lookup, FindOwner, MarkEnded, CloseDialIn
  <2> QED
    BY <2>1, <2>2
<1>4. ASSUME NEW g \in Handlers, NEW o, NEW at, NEW a, Free(g), Serve(g, o, at, a)
      PROVE  Goal
  BY <1>1, <1>4 DEF Serve, Free, TypeOK, HandlersTypeOK
<1>5. CASE UNCHANGED <<pc, cur>>
  BY <1>5
<1>6. ASSUME NEW g \in Handlers, Request(g)
      PROVE  Goal
  BY <1>4, <1>5, <1>6 DEF Request, StartRecording, StopRecording, TranscriptionSources, CreateSession, Join
<1>7. CASE HandleHook
  BY <1>4, <1>5, <1>7
  DEF HandleHook, ParticipantJoined, EgressEnded, TrackIgnored, RoomFinished, TrackPublished, handlerVars
<1>8. ~ Crash
  BY DEF Crash, TypeOK, HandlersTypeOK
<1> QED
  BY <1>2, <1>3, <1>5, <1>6, <1>7, <1>8 DEF Next, LoseHook, vars, handlerVars

LEMMA NextRunning ==
  ASSUME ~ Faults, MaxCrashes = 0, TypeOK, EgressInv, RunningIsRecorded, [Next]_vars
  PROVE  RunningIsRecorded'
<1> SUFFICES ASSUME NEW e \in Egresses, media'[e] = "running", media[e] = "running"
             PROVE  OnRecord(e)'
  BY StartMovesOn DEF RunningIsRecorded, Running, OnRecord
<1>1. CASE rows[e] = "active"
  BY <1>1, RowsMoveOn DEF OnRecord, Over
<1>2. CASE \E h \in Handlers : cur[h] = e /\ pc[h] = "add"
  BY <1>2, AddMovesOn DEF OnRecord
<1> QED
  BY <1>1, <1>2 DEF RunningIsRecorded, Running, OnRecord

\* While no call fails and the control plane stays up, the media server never
\* records what the store does not show as running.
THEOREM NothingRecordsUnseen ==
  ASSUME ~ Faults, MaxCrashes = 0
  PROVE  Spec => []RunningIsRecorded
<1>1. Init => RunningIsRecorded /\ EgressInv
  BY InitEgressInv DEF Init, MediaInit, RunningIsRecorded, Running
<1>2. TypeOK /\ EgressInv /\ RunningIsRecorded /\ [Next]_vars => RunningIsRecorded'
  BY NextRunning
<1> QED
  BY <1>1, <1>2, TypeCorrect, NextEgressInv, PTL DEF Spec-------------------------------------------------------------------------------
(* One automatic recording at a time.                                      *)

\* Only a handler that serves something works, and it serves that to its end.
LEMMA WorkServes ==
  ASSUME TypeOK, NEW h \in Handlers, Work(h)
  PROVE  op[h] # "none" /\ \A g \in Handlers : op'[g] \in {op[g], "none"}
<1> USE DEF TypeOK, HandlersTypeOK
<1>1. op[h] # "none"
  <2>1. pc[h] # "idle"
    BY DEF Work, StartEgress, Begin, StartEgressFails, StoreEgress, StoreEgressFails, UndoEgress, AnswerCreator,
           Lock, List, ListToResume, ListToSweep, ListToStop, ListSources, ListVoices, ListFails,
           ProbeToResume, ProbeSource, Settle, Stop, Lookup, FindOwner, MarkEnded, CloseDialIn
  <2> QED
    BY <2>1 DEF WellPlaced
<1>2. CASE Return(h)
  BY <1>1, <1>2 DEF Return
<1>3. CASE UNCHANGED op
  BY <1>1, <1>3
<1>4. ASSUME NEW e \in Egresses, Looked(h, e)
      PROVE  Return(h) \/ UNCHANGED op
  BY <1>4 DEF Looked, Goto
<1>5. CASE \E e \in Egresses : ProbeToResume(h, e) \/ ProbeSource(h, e) \/ Settle(h, e) \/ Stop(h, e) \/ Lookup(h, e)
  BY <1>2, <1>3, <1>4, <1>5 DEF ProbeToResume, ProbeSource, Settle, Stop, Lookup, Goto, Answer, Respond
<1>6. CASE StartEgress(h) \/ StoreEgress(h) \/ StoreEgressFails(h) \/ UndoEgress(h) \/ StartEgressFails(h)
  BY <1>2, <1>3, <1>6 DEF StartEgress, Begin, StoreEgress, StoreEgressFails, UndoEgress, StartEgressFails, Answer, Respond
<1>7. CASE List(h) \/ ListFails(h)
  BY <1>2, <1>3, <1>7
  DEF List, ListToResume, ListToSweep, ListToStop, ListSources, ListVoices, ListFails, Goto, Answer, Respond
<1> QED
  BY <1>2, <1>3, <1>5, <1>6, <1>7 DEF Work, AnswerCreator, Lock, FindOwner, MarkEnded, CloseDialIn, Goto

\* What a handler's step does to the session row, and to tokens and webhooks.
LEMMA WorkOpens ==
  ASSUME TypeOK, NEW h \in Handlers, Work(h)
  PROVE  /\ hooks' = hooks
         /\ session' = session \/ (session' = "open" /\ op[h] = "create" /\ op'[h] = "none")
         /\ tokens' = tokens \/ op[h] = "join" \/ session' = "open"
<1>1. CASE AnswerCreator(h)
  BY <1>1 DEF AnswerCreator, Return, TypeOK, HandlersTypeOK, WellPlaced, StoreTypeOK
<1>2. CASE ~ AnswerCreator(h)
  <2>1. hooks' = hooks
    BY <1>2
    DEF Work, StartEgress, Begin, StartEgressFails, StoreEgress, StoreEgressFails, UndoEgress, Answer, Respond,
        Lock, List, ListToResume, ListToSweep, ListToStop, ListSources, ListVoices,
        ListFails, ProbeToResume, ProbeSource, Settle, Stop, Lookup, FindOwner, MarkEnded, CloseDialIn, mediaVars
  <2>2. session' = session
    BY <1>2
    DEF Work, StartEgress, Begin, StartEgressFails, StoreEgress, StoreEgressFails, UndoEgress, Answer, Respond,
        Lock, List, ListToResume, ListToSweep, ListToStop, ListSources, ListVoices,
        ListFails, ProbeToResume, ProbeSource, Settle, Stop, Lookup, FindOwner, MarkEnded, CloseDialIn, storeVars
  <2>3. tokens' = tokens \/ op[h] = "join"
    BY <1>2
    DEF Work, StartEgress, Begin, StartEgressFails, StoreEgress, StoreEgressFails, UndoEgress, Answer, Respond,
        Lock, List, ListToResume, ListToSweep, ListToStop, ListSources, ListVoices,
        ListFails, ProbeToResume, ProbeSource, Settle, Stop, Lookup, FindOwner, MarkEnded, CloseDialIn, mediaVars
  <2> QED
    BY <2>1, <2>2, <2>3
<1> QED
  BY <1>1, <1>2
LEMMA NextCreationInv == TypeOK /\ CreationInv /\ [Next]_vars => CreationInv'
<1> SUFFICES ASSUME TypeOK, CreationInv, [Next]_vars PROVE CreationInv'
  OBVIOUS
<1>1. ASSUME NEW h \in Handlers, Work(h)
      PROVE  CreationInv'
  <2>1. op[h] # "none" /\ (\A g \in Handlers : op'[g] \in {op[g], "none"}) /\ hooks' = hooks
    BY <1>1, WorkServes, WorkOpens
  <2>2. session # "none" /\ session' # "none"
    BY <1>1, <2>1, WorkOpens DEF CreationInv
  <2>3. CASE session' = session
    <3>1. session' # "open" => tokens' = tokens
      BY <1>1, <2>3, WorkOpens DEF CreationInv
    <3> QED
      BY <2>1, <2>2, <2>3, <3>1 DEF CreationInv, TrackHook
  <2>4. CASE session' = "open" /\ op[h] = "create" /\ op'[h] = "none"
    <3>1. \A g \in Handlers : op'[g] # "create"
      BY <2>1, <2>4 DEF CreationInv
    <3> QED
      BY <2>4, <3>1 DEF CreationInv
  <2> QED
    BY <1>1, <2>3, <2>4, WorkOpens
<1>2. ASSUME NEW h \in Handlers, NEW p \in People, CreateSession(h, p)
      PROVE  CreationInv'
  <2>1. session = "none" /\ session' = "stored" /\ tokens' = tokens /\ hooks' = hooks
    BY <1>2 DEF CreateSession, mediaVars
  <2>2. \A g \in Handlers : op'[g] = "none" \/ (g = h /\ op'[g] = "create")
    BY <1>2, <2>1 DEF CreateSession, Serve, CreationInv, TypeOK, HandlersTypeOK
  <2> QED
    BY <2>1, <2>2 DEF CreationInv, TrackHook
<1>3. ASSUME NEW h \in Handlers, Request(h), session = "open"
      PROVE  CreationInv'
  <2>1. session' = session /\ \A g \in Handlers : op'[g] = op[g] \/ op'[g] # "create"
    BY <1>3
    DEF Request, StartRecording, StopRecording, TranscriptionSources, CreateSession, Join, Serve, storeVars,
        TypeOK, HandlersTypeOK
  <2> QED
    BY <1>3, <2>1 DEF CreationInv
<1>4. ASSUME NEW h \in Handlers, Request(h)
      PROVE  CreationInv'
  BY <1>2, <1>3, <1>4 DEF Request, StartRecording, StopRecording, TranscriptionSources, Join
<1>5. CASE HandleHook
  <2>1. hooks # {} /\ hooks' \subseteq hooks /\ session' = session /\ tokens' = tokens
    BY <1>5
    DEF HandleHook, Take, ParticipantJoined, EgressEnded, TrackIgnored, RoomFinished, TrackPublished, storeVars
  <2>2. \A g \in Handlers : op'[g] = op[g] \/ op'[g] = "finish" \/ (op'[g] = "voice" /\ session = "open")
    BY <1>5
    DEF HandleHook, Take, ParticipantJoined, EgressEnded, TrackIgnored, RoomFinished, TrackPublished, Serve,
        handlerVars, TypeOK, HandlersTypeOK, CreationInv
  <2> QED
    BY <2>1, <2>2 DEF CreationInv, TrackHook
<1>6. CASE MediaStep /\ UNCHANGED <<storeVars, handlerVars>>
  <2>1. session' = session /\ op' = op /\ tokens' = tokens
    BY <1>6 DEF MediaStep, Enter, Publish, Leave, RoomCloses, EgressFinishes, Forget, storeVars, handlerVars
  <2>2. session # "none"
    BY <1>6 DEF MediaStep, Enter, Publish, Leave, RoomCloses, EgressFinishes, Forget, CreationInv, TypeOK, MediaTypeOK
  <2>3. ASSUME session # "open", NEW t \in Tracks
        PROVE  TrackHook(t) \notin hooks'
    <3>1. inside = {}
      BY <2>3 DEF CreationInv, TypeOK, MediaTypeOK
    <3> QED
      BY <1>6, <2>3, <3>1
      DEF MediaStep, Enter, Publish, Leave, RoomCloses, EgressFinishes, Forget, CreationInv, TypeOK, MediaTypeOK,
          TrackHook, JoinedHook, FinishedHook, EgressHook
  <2> QED
    BY <2>1, <2>2, <2>3 DEF CreationInv, TrackHook
<1>7. CASE Crash \/ (\E k \in Hooks : LoseHook(k))
  <2>1. /\ session' = session /\ tokens' = tokens /\ room' = room /\ media' = media /\ hooks' \subseteq hooks
        /\ \A g \in Handlers : op'[g] \in {op[g], "none"}
    BY <1>7 DEF Crash, LoseHook, storeVars, mediaVars, handlerVars
  <2> QED
    BY <2>1 DEF CreationInv, TrackHook
<1>8. CASE UNCHANGED vars
  BY <1>8 DEF vars, storeVars, mediaVars, handlerVars, CreationInv, TrackHook
<1> QED
  BY <1>1, <1>4, <1>5, <1>6, <1>7, <1>8 DEF Next
\* What an egress was asked for never changes once it runs.
LEMMA KindMovesOn ==
  ASSUME TypeOK, [Next]_vars, NEW e \in Egresses
  PROVE  \/ kind'[e] = kind[e] /\ track'[e] = track[e]
         \/ /\ media[e] = "unused" /\ media'[e] = "running"
            /\ kind'[e] = "auto" => track'[e] = None
<1> DEFINE Moves == \/ kind'[e] = kind[e] /\ track'[e] = track[e]
                    \/ /\ media[e] = "unused" /\ media'[e] = "running"
                       /\ kind'[e] = "auto" => track'[e] = None
<1>1. CASE UNCHANGED <<kind, track>>
  BY <1>1
<1>2. ASSUME NEW h \in Handlers, StartEgress(h)
      PROVE  Moves
  BY <1>2 DEF StartEgress, Begin, Fresh, Requested, TypeOK, MediaTypeOK, HandlersTypeOK, WellPlaced
<1>6. ASSUME NEW h \in Handlers, StartEgressFails(h)
      PROVE  Moves
  <2>1. CASE UNCHANGED <<kind, track>>
    BY <2>1
  <2>2. CASE \E f \in Egresses : Begin(h, f)
    BY <1>6, <2>2
    DEF StartEgressFails, Begin, Fresh, Requested, TypeOK, MediaTypeOK, HandlersTypeOK, WellPlaced
  <2> QED
    BY <1>6, <2>1, <2>2 DEF StartEgressFails, Answer
<1>3. ASSUME NEW h \in Handlers, Work(h) \/ Request(h), ~ StartEgress(h), ~ StartEgressFails(h)
      PROVE  UNCHANGED <<kind, track>>
  BY <1>3
  DEF Work, StoreEgress, StoreEgressFails, UndoEgress, Answer, Respond,
      AnswerCreator, Lock, List, ListToResume, ListToSweep, ListToStop, ListSources, ListVoices,
      ListFails, ProbeToResume, ProbeSource, Settle, Stop, Lookup, FindOwner, MarkEnded, CloseDialIn,
      Request, StartRecording, StopRecording, TranscriptionSources, CreateSession, Join, mediaVars
<1>4. CASE HandleHook
  BY <1>4 DEF HandleHook, Take, ParticipantJoined, EgressEnded, TrackIgnored, RoomFinished, TrackPublished
<1>5. CASE MediaStep
  BY <1>5 DEF MediaStep, Enter, Publish, Leave, RoomCloses, EgressFinishes, Forget
<1> QED
  BY <1>1, <1>2, <1>3, <1>4, <1>5, <1>6 DEF Next, Crash, LoseHook, vars, mediaVars

\* A handler that is about to store an egress was so before, or has just
\* started it.
LEMMA AddComesFrom ==
  ASSUME TypeOK, [Next]_vars, NEW h \in Handlers, pc'[h] = "add"
  PROVE  (pc[h] = "add" /\ cur'[h] = cur[h]) \/ StartEgress(h)
<1> USE DEF TypeOK, HandlersTypeOK
<1> SUFFICES ASSUME ~ (pc[h] = "add" /\ cur'[h] = cur[h])
             PROVE  StartEgress(h)
  OBVIOUS
<1>1. ~ (pc'[h] = pc[h] /\ cur'[h] = cur[h])
  OBVIOUS
<1>2. ~ Return(h)
  BY DEF Return
<1>3. ASSUME NEW at, NEW T, Goto(h, at, T)
      PROVE  at = "add"
  BY <1>3 DEF Goto
<1>4. \A f \in Egresses : ~ Looked(h, f)
  <2>1. LoopTop(h) # "add"
    BY DEF LoopTop
  <2> QED
    BY <1>2, <1>3, <2>1 DEF Looked
<1>5. ASSUME NEW g \in Handlers, Work(g)
      PROVE  StartEgress(h)
  <2>1. g = h
    BY <1>1, <1>5, OthersStay
  <2>2. \A f \in Egresses : ~ (ProbeToResume(h, f) \/ ProbeSource(h, f) \/ Stop(h, f) \/ Lookup(h, f) \/ Settle(h, f))
    BY <1>2, <1>3, <1>4 DEF ProbeToResume, ProbeSource, Stop, Lookup, Answer, Respond, Settle
  <2>3. ~ (StoreEgressFails(h) \/ Lock(h))
    BY DEF StoreEgressFails, Lock
  <2>4. ~ (StoreEgress(h) \/ MarkEnded(h))
    BY <1>2 DEF StoreEgress, MarkEnded, Answer, Respond
  <2>5. ~ (StartEgressFails(h) \/ UndoEgress(h) \/ AnswerCreator(h) \/ CloseDialIn(h))
    BY <1>2 DEF StartEgressFails, UndoEgress, AnswerCreator, CloseDialIn, Answer, Respond
  <2>6. ~ (ListToResume(h) \/ ListToSweep(h))
    BY DEF ListToResume, ListToSweep, Goto
  <2>7. ~ ListToStop(h)
    BY <1>2, <1>3 DEF ListToStop
  <2>8. ~ (ListSources(h) \/ ListVoices(h))
    BY <1>2, <1>3 DEF ListSources, ListVoices
  <2>9. ~ (ListFails(h) \/ FindOwner(h))
    BY <1>2, <1>3 DEF ListFails, FindOwner, Answer, Respond
  <2> QED
    BY <1>5, <2>1, <2>2, <2>3, <2>4, <2>5, <2>6, <2>7, <2>8, <2>9 DEF Work, List
<1>6. ASSUME NEW g \in Handlers, NEW o, NEW at, NEW a,
             at \in {"start", "reply", "lock", "list", "owner"}, Serve(g, o, at, a)
      PROVE  FALSE
  BY <1>1, <1>6 DEF Serve
<1>7. ASSUME NEW g \in Handlers
      PROVE  ~ Request(g)
  BY <1>1, <1>6, <1>7
  DEF Request, StartRecording, StopRecording, TranscriptionSources, CreateSession, Join
<1>8. ~ HandleHook
  BY <1>1, <1>6
  DEF HandleHook, ParticipantJoined, EgressEnded, TrackIgnored, RoomFinished, TrackPublished, handlerVars
<1>9. ~ Crash
  BY DEF Crash
<1> QED
  BY <1>1, <1>5, <1>7, <1>8, <1>9 DEF Next, LoseHook, vars, handlerVars

\* Automatic recordings are added only by handlers that create or join.
LEMMA AutoMovesOn ==
  ASSUME TypeOK, EgressInv, [Next]_vars, NEW e \in Egresses, e \in AutoRecordings'
  PROVE  \/ e \in AutoRecordings
         \/ \E h \in Handlers : StartEgress(h) /\ op[h] \in {"create", "join"} /\ cur'[h] = e
<1>1. media'[e] = "running" /\ kind'[e] = "auto" /\ OnRecord(e)'
  BY DEF AutoRecordings, Running
<1>2. CASE media[e] = "running"
  <2>1. kind[e] = "auto"
    BY <1>1, <1>2, KindMovesOn
  <2>2. CASE rows'[e] = "active"
    BY <1>2, <2>1, <2>2, RowsMoveOn DEF OnRecord, AutoRecordings, Running
  <2>3. ASSUME NEW h \in Handlers, cur'[h] = e, pc'[h] = "add"
        PROVE  e \in AutoRecordings
    <3>1. ~ StartEgress(h)
      BY <1>2, <2>3, NoneAssumption DEF StartEgress, Begin, Fresh, TypeOK, HandlersTypeOK
    <3> QED
      BY <1>2, <2>1, <2>3, <3>1, AddComesFrom DEF OnRecord, AutoRecordings, Running
  <2> QED
    BY <1>1, <2>2, <2>3 DEF OnRecord
<1>3. CASE media[e] # "running"
  <2>1. PICK h \in Handlers : StartEgress(h) /\ cur'[h] = e
    BY <1>1, <1>3, StartMovesOn
  <2>2. kind'[e] = Requested[op[h]] /\ op[h] \in {"create", "join", "start", "voice"}
    BY <2>1 DEF StartEgress, Begin, TypeOK, HandlersTypeOK, MediaTypeOK, WellPlaced
  <2> QED
    BY <1>1, <2>1, <2>2 DEF Requested
<1> QED
  BY <1>2, <1>3
\* A handler keeps its egress as long as it serves the same request.
LEMMA CurComesFrom ==
  ASSUME TypeOK, [Next]_vars, NEW h \in Handlers, cur'[h] # None
  PROVE  (cur'[h] = cur[h] /\ op'[h] = op[h]) \/ StartEgress(h)
<1> USE DEF TypeOK, HandlersTypeOK
<1>1. ~ Return(h)
  BY DEF Return
<1>2. CASE UNCHANGED <<op, cur>>
  BY <1>2
<1>3. \A e \in Egresses : Looked(h, e) => UNCHANGED <<op, cur>>
  BY <1>1 DEF Looked, Goto
<1>4. ASSUME NEW g \in Handlers, Work(g)
      PROVE  (cur'[h] = cur[h] /\ op'[h] = op[h]) \/ StartEgress(h)
  <2>1. CASE g # h
    BY <1>4, <2>1, OthersStay
  <2>2. ASSUME NEW e \in Egresses,
               ProbeToResume(h, e) \/ ProbeSource(h, e) \/ Settle(h, e) \/ Stop(h, e) \/ Lookup(h, e)
        PROVE  UNCHANGED <<op, cur>>
    BY <1>1, <1>3, <2>2 DEF ProbeToResume, ProbeSource, Settle, Stop, Lookup, Answer, Respond, Goto
  <2>3. CASE List(h) \/ ListFails(h)
    BY <1>1, <2>3
    DEF List, ListToResume, ListToSweep, ListToStop, ListSources, ListVoices, ListFails, Answer, Respond, Goto
  <2>4. CASE StoreEgress(h) \/ StoreEgressFails(h) \/ MarkEnded(h)
    BY <1>1, <2>4 DEF StoreEgress, StoreEgressFails, MarkEnded, Answer, Respond
  <2> QED
    BY <1>1, <1>2, <1>4, <2>1, <2>2, <2>3, <2>4
    DEF Work, StartEgressFails, UndoEgress, AnswerCreator, Lock, FindOwner, CloseDialIn, Answer, Respond, Goto
<1>5. ASSUME NEW g \in Handlers, NEW o, NEW at, NEW a, Free(g), Serve(g, o, at, a)
      PROVE  cur'[h] = cur[h] /\ op'[h] = op[h]
  BY <1>5 DEF Serve, Free, WellPlaced
<1>6. ASSUME NEW g \in Handlers, Request(g)
      PROVE  cur'[h] = cur[h] /\ op'[h] = op[h]
  BY <1>2, <1>5, <1>6 DEF Request, StartRecording, StopRecording, TranscriptionSources, CreateSession, Join
<1>7. CASE HandleHook
  BY <1>2, <1>5, <1>7
  DEF HandleHook, ParticipantJoined, EgressEnded, TrackIgnored, RoomFinished, TrackPublished, handlerVars
<1>8. ~ Crash
  BY DEF Crash
<1> QED
  BY <1>2, <1>4, <1>6, <1>7, <1>8 DEF Next, LoseHook, vars, handlerVars

\* The handlers that may start an automatic recording.
Starter(h) == op[h] = "create" \/ (op[h] = "join" /\ pc[h] \in Locked)

LEMMA OneStarter ==
  ASSUME LockHeldByWorker, CreationInv,
         NEW g \in Handlers, NEW h \in Handlers, Starter(g), Starter(h)
  PROVE  g = h
BY DEF LockHeldByWorker, InLock, Starter, CreationInv

\* How a creator or a joiner gets to where it looks at rows, starts an egress
\* or stores one.
LEMMA StarterComesFrom ==
  ASSUME TypeOK, [Next]_vars, NEW h \in Handlers, op'[h] \in {"create", "join"},
         pc'[h] \in {"probe", "settle", "start", "add", "undo"}
  PROVE  \/ op'[h] = op[h] /\ pc'[h] = pc[h] /\ todo'[h] = todo[h] /\ cur'[h] = cur[h]
         \/ session = "none" /\ media' = media /\ pc'[h] = "start"
         \/ StartEgress(h)
         \/ StoreEgressFails(h)
         \/ ListToResume(h)
         \/ \E e \in Egresses : ProbeToResume(h, e) /\ Goto(h, "settle", todo[h])
         \/ \E e \in Egresses : Settle(h, e) /\ Looked(h, e)
<1> USE DEF TypeOK, HandlersTypeOK
<1> DEFINE Stays == op'[h] = op[h] /\ pc'[h] = pc[h] /\ todo'[h] = todo[h] /\ cur'[h] = cur[h]
<1>1. ~ Return(h)
  BY DEF Return
<1>2. CASE UNCHANGED <<op, pc, todo, cur>>
  BY <1>2
<1>3. ASSUME NEW g \in Handlers, Work(g)
      PROVE  \/ Stays
             \/ StartEgress(h)
             \/ StoreEgressFails(h)
             \/ ListToResume(h)
             \/ \E e \in Egresses : ProbeToResume(h, e) /\ Goto(h, "settle", todo[h])
             \/ \E e \in Egresses : Settle(h, e) /\ Looked(h, e)
  <2>1. CASE g # h
    BY <1>3, <2>1, OthersStay
  <2>2. CASE g = h
    <3>1. op[h] = op'[h]
      BY <1>3, <2>2, WorkServes
    <3>2. \A e \in Egresses : ~ (ProbeSource(h, e) \/ Stop(h, e) \/ Lookup(h, e))
      BY <3>1 DEF ProbeSource, Stop, Lookup, WellPlaced
    <3>3. \A e \in Egresses : ProbeToResume(h, e) => Goto(h, "settle", todo[h])
      BY <1>1 DEF ProbeToResume, Answer, Respond
    <3>4. \A e \in Egresses : Settle(h, e) => Looked(h, e)
      BY <1>1 DEF Settle
    <3>5. ~ (ListToSweep(h) \/ ListToStop(h) \/ ListSources(h) \/ ListVoices(h))
      BY <3>1 DEF ListToSweep, ListToStop, ListSources, ListVoices
    <3>6. ~ (ListFails(h) \/ StartEgressFails(h) \/ UndoEgress(h) \/ AnswerCreator(h) \/ CloseDialIn(h))
      BY <1>1, <3>1 DEF ListFails, StartEgressFails, UndoEgress, AnswerCreator, CloseDialIn, Answer, Respond
    <3>7. ~ (StoreEgress(h) \/ Lock(h))
      BY <1>1 DEF StoreEgress, Lock, Answer, Respond
    <3>8. ~ (MarkEnded(h) \/ FindOwner(h))
      BY <3>1 DEF MarkEnded, FindOwner, WellPlaced
    <3> QED
      BY <1>3, <2>2, <3>2, <3>3, <3>4, <3>5, <3>6, <3>7, <3>8 DEF Work, List
  <2> QED
    BY <2>1, <2>2
<1>4. ASSUME NEW g \in Handlers, NEW o, NEW at, NEW a,
             at \in {"lock", "list", "owner"} \/ o \notin {"create", "join"}, Serve(g, o, at, a)
      PROVE  Stays
  BY <1>4 DEF Serve
<1>5. ASSUME NEW g \in Handlers, NEW p \in People, CreateSession(g, p)
      PROVE  Stays \/ (session = "none" /\ media' = media /\ pc'[h] = "start")
  BY <1>5 DEF CreateSession, Serve, mediaVars
<1>6. ASSUME NEW g \in Handlers, Request(g)
      PROVE  Stays \/ (session = "none" /\ media' = media /\ pc'[h] = "start")
  BY <1>2, <1>4, <1>5, <1>6 DEF Request, StartRecording, StopRecording, TranscriptionSources, Join
<1>7. CASE HandleHook
  BY <1>2, <1>4, <1>7
  DEF HandleHook, ParticipantJoined, EgressEnded, TrackIgnored, RoomFinished, TrackPublished, handlerVars
<1>8. ~ Crash
  BY DEF Crash
<1> QED
  BY <1>2, <1>3, <1>6, <1>7, <1>8 DEF Next, LoseHook, vars, handlerVars
LEMMA NextAutoInv ==
  TypeOK /\ EgressInv /\ LockHeldByWorker /\ CreationInv /\ AutoInv /\ [Next]_vars => AutoInv'
<1> SUFFICES ASSUME TypeOK, EgressInv, LockHeldByWorker, CreationInv, AutoInv, [Next]_vars
             PROVE  AutoInv'
  OBVIOUS
<1> USE DEF TypeOK, HandlersTypeOK
<1>1. AutoRecordings \subseteq Egresses /\ AutoRecordings' \subseteq Egresses
  BY DEF AutoRecordings, Running
<1>2. ASSUME NEW h \in Handlers, StartEgress(h), op[h] \in {"create", "join"}
      PROVE  Starter(h) /\ AutoRecordings = {}
  BY <1>2 DEF StartEgress, Begin, Starter, Locked, AutoInv
<1>3. ASSUME NEW h \in Handlers, Starter(h), ~ StartEgress(h)
      PROVE  AutoRecordings' \subseteq AutoRecordings
  BY <1>1, <1>2, <1>3, AutoMovesOn, OneStarter
<1>4. ASSUME NEW h \in Handlers, StartEgress(h), op[h] \in {"create", "join"}
      PROVE  AutoRecordings' \subseteq {cur'[h]}
  BY <1>1, <1>2, <1>4, AutoMovesOn, OneStarter
<1>5. \A e \in Egresses : kind'[e] = "auto" => track'[e] = None
  BY KindMovesOn DEF AutoInv
<1>6. ASSUME NEW h \in Handlers, cur'[h] # None, kind'[cur'[h]] = "auto"
      PROVE  op'[h] \in {"create", "join"}
  <2>1. CASE cur'[h] = cur[h] /\ op'[h] = op[h]
    BY <1>6, <2>1, KindMovesOn DEF EgressInv, AutoInv
  <2>2. CASE StartEgress(h)
    BY <2>2, <1>6 DEF StartEgress, Begin, Requested, MediaTypeOK, WellPlaced
  <2> QED
    BY <1>6, <2>1, <2>2, CurComesFrom
<1>7. ASSUME NEW h \in Handlers, op'[h] \in {"create", "join"},
             pc'[h] \in {"probe", "settle", "start", "add", "undo"}
      PROVE  /\ op'[h] = "join" /\ pc'[h] \in {"probe", "settle"} => AutoRecordings' \subseteq todo'[h]
             /\ pc'[h] = "start" => AutoRecordings' = {}
             /\ pc'[h] \in {"add", "undo"} => AutoRecordings' \subseteq {cur'[h]}
  <2>1. CASE op'[h] = op[h] /\ pc'[h] = pc[h] /\ todo'[h] = todo[h] /\ cur'[h] = cur[h]
    <3>1. Starter(h)
      BY <1>7, <2>1 DEF Starter, Locked
    <3>2. ~ StartEgress(h)
      BY <2>1 DEF StartEgress, Begin
    <3> QED
      BY <1>3, <1>7, <2>1, <3>1, <3>2 DEF AutoInv
  <2>2. CASE session = "none" /\ media' = media /\ pc'[h] = "start"
    BY <2>2 DEF CreationInv, AutoRecordings, Running
  <2>3. CASE StartEgress(h)
    <3>1. op[h] = op'[h] /\ pc'[h] = "add"
      BY <2>3 DEF StartEgress, Begin
    <3> QED
      BY <1>4, <1>7, <2>3, <3>1
  <2>4. CASE StoreEgressFails(h)
    <3>1. op[h] = op'[h] /\ pc[h] = "add" /\ pc'[h] = "undo" /\ cur'[h] = cur[h]
      BY <2>4 DEF StoreEgressFails
    <3>2. Starter(h) /\ ~ StartEgress(h)
      BY <1>7, <3>1 DEF Starter, Locked, StartEgress, Begin
    <3> QED
      BY <1>3, <1>7, <3>1, <3>2 DEF AutoInv
  <2>5. CASE ListToResume(h)
    <3> DEFINE found == {e \in ActiveRows : ~ IsTrack(e)}
    <3>1. op[h] = "join" /\ pc[h] = "list" /\ todo'[h] = found
          /\ pc'[h] = IF found = {} THEN "start" ELSE "probe"
      BY <2>5 DEF ListToResume, Goto
    <3>2. Starter(h) /\ ~ StartEgress(h)
      BY <3>1 DEF Starter, Locked, StartEgress, Begin
    <3>3. ASSUME NEW e \in AutoRecordings
          PROVE  e \in found
      <4>1. kind[e] = "auto" /\ e \in Egresses /\ track[e] = None
        BY <1>1, <3>3 DEF AutoRecordings, AutoInv
      <4>2. ASSUME NEW g \in Handlers, cur[g] = e, pc[g] = "add"
            PROVE  FALSE
        <5>1. op[g] \in {"create", "join"}
          BY <4>1, <4>2, NoneAssumption DEF AutoInv
        <5>2. Starter(g)
          BY <4>2, <5>1 DEF Starter, Locked
        <5> QED
          BY <3>1, <3>2, <4>2, <5>2, OneStarter
      <4>3. rows[e] = "active"
        BY <3>3, <4>2 DEF AutoRecordings, OnRecord
      <4> QED
        BY <4>1, <4>3 DEF ActiveRows, IsTrack
    <3>4. AutoRecordings' \subseteq found
      BY <1>3, <3>2, <3>3
    <3> QED
      BY <3>1, <3>4
  <2>6. ASSUME NEW e \in Egresses, ProbeToResume(h, e), Goto(h, "settle", todo[h])
        PROVE  pc'[h] = "settle" /\ AutoRecordings' \subseteq todo'[h]
    <3>1. op[h] = "join" /\ pc[h] = "probe" /\ pc'[h] = "settle" /\ todo'[h] = todo[h]
      BY <2>6 DEF ProbeToResume, Goto
    <3>2. Starter(h) /\ ~ StartEgress(h)
      BY <3>1 DEF Starter, Locked, StartEgress, Begin
    <3> QED
      BY <1>3, <3>1, <3>2 DEF AutoInv
  <2>7. ASSUME NEW e \in Egresses, Settle(h, e), Looked(h, e)
        PROVE  \/ pc'[h] = "probe" /\ AutoRecordings' \subseteq todo'[h]
               \/ pc'[h] = "start" /\ AutoRecordings' = {}
    <3>1. pc[h] = "settle" /\ op[h] = op'[h]
      BY <1>7, <2>7 DEF Settle, Looked, Goto, Return
    <3>2. Starter(h) /\ ~ StartEgress(h) /\ op[h] = "join"
      BY <1>7, <3>1 DEF Starter, Locked, StartEgress, Begin, WellPlaced
    <3>3. e \notin AutoRecordings
      BY <2>7, <3>1 DEF Settle, EgressInv, AutoRecordings, Running
    <3>4. AutoRecordings' \subseteq todo[h] \ {e}
      BY <1>3, <3>1, <3>2, <3>3 DEF AutoInv
    <3>5. \/ pc'[h] = "probe" /\ todo'[h] = todo[h] \ {e}
          \/ pc'[h] = "start" /\ todo[h] \ {e} = {}
      BY <2>7, <3>2 DEF Looked, LoopTop, Goto
    <3> QED
      BY <3>4, <3>5
  <2> QED
    BY <1>7, <2>1, <2>2, <2>3, <2>4, <2>5, <2>6, <2>7, StarterComesFrom
<1>8. OneAutoRecording'
  <2>1. \A e, f \in AutoRecordings' : e = f
    <3>1. CASE \E h \in Handlers : StartEgress(h) /\ op[h] \in {"create", "join"}
      BY <1>4, <3>1
    <3>2. CASE ~ \E h \in Handlers : StartEgress(h) /\ op[h] \in {"create", "join"}
      BY <1>1, <3>2, AutoMovesOn DEF AutoInv, OneAutoRecording, AutoRecordings
    <3> QED
      BY <3>1, <3>2
  <2> QED
    BY <2>1 DEF OneAutoRecording, AutoRecordings
<1> QED
  BY <1>5, <1>6, <1>7, <1>8 DEF AutoInv

LEMMA InitAutoInv == Init => CreationInv /\ AutoInv
<1> SUFFICES ASSUME Init PROVE CreationInv /\ AutoInv
  OBVIOUS
<1>1. /\ \A h \in Handlers : op[h] = "none" /\ pc[h] = "idle" /\ cur[h] = None
      /\ \A e \in Egresses : media[e] = "unused" /\ kind[e] = "none"
      /\ ~ room /\ hooks = {} /\ tokens = {}
  BY DEF Init, MediaInit
<1>2. CreationInv
  BY <1>1 DEF CreationInv
<1>3. OneAutoRecording
  BY <1>1 DEF OneAutoRecording, Running
<1> QED
  BY <1>1, <1>2, <1>3 DEF AutoInv

\* Whoever joins meanwhile, whatever fails and however often the control plane
\* restarts: of the recordings that session creation and joins start, no two
\* run on the record at once.
THEOREM AutomaticRecordingsNeverDouble == Spec => []OneAutoRecording
<1>1. AutoInv => OneAutoRecording
  BY DEF AutoInv
<1>2. LockInv => LockHeldByWorker
  BY DEF LockInv
<1> QED
  BY <1>1, <1>2, InitEgressInv, InitAutoInv, TypeCorrect, LockDiscipline, NextEgressInv, NextCreationInv, NextAutoInv,
     PTL DEF Spec
-------------------------------------------------------------------------------
(* One recording of a published voice.                                     *)

\* A step of a handler either ends what it serves or changes nothing about it.
LEMMA WorkReturns ==
  ASSUME NEW h \in Handlers, Work(h)
  PROVE  Return(h) \/ UNCHANGED <<op, arg, claims>>
<1>1. \A e \in Egresses : Looked(h, e) => Return(h) \/ UNCHANGED <<op, arg, claims>>
  BY DEF Looked, Goto
<1>2. ASSUME NEW e \in Egresses,
             ProbeToResume(h, e) \/ ProbeSource(h, e) \/ Settle(h, e) \/ Stop(h, e) \/ Lookup(h, e)
      PROVE  Return(h) \/ UNCHANGED <<op, arg, claims>>
  BY <1>1, <1>2 DEF ProbeToResume, ProbeSource, Settle, Stop, Lookup, Answer, Respond, Goto
<1>3. CASE List(h) \/ ListFails(h) \/ FindOwner(h)
  BY <1>3
  DEF List, ListToResume, ListToSweep, ListToStop, ListSources, ListVoices, ListFails, FindOwner, Answer, Respond, Goto
<1>4. CASE StoreEgress(h) \/ MarkEnded(h)
  BY <1>4 DEF StoreEgress, MarkEnded, Answer, Respond
<1> QED
  BY <1>2, <1>3, <1>4
  DEF Work, StartEgress, Begin, StartEgressFails, StoreEgressFails, UndoEgress, AnswerCreator, Lock, CloseDialIn, Answer, Respond

LEMMA ReturnClaims ==
  ASSUME TypeOK, ClaimsAreWorked, NEW h \in Handlers, Return(h)
  PROVE  ClaimsAreWorked'
<1> USE DEF TypeOK, HandlersTypeOK
<1>1. /\ op'[h] = "none"
      /\ \A g \in Handlers : g # h => op'[g] = op[g] /\ arg'[g] = arg[g]
      /\ claims' = IF op[h] = "voice" THEN claims \ {arg[h]} ELSE claims
  BY DEF Return
<1>2. \A g \in Handlers : op'[g] = "voice" <=> g # h /\ op[g] = "voice"
  BY <1>1
<1> QED
  BY <1>1, <1>2 DEF ClaimsAreWorked

\* A request that is not about a voice leaves the claims as they are.
LEMMA ServeClaims ==
  ASSUME TypeOK, ClaimsAreWorked, NEW h \in Handlers, NEW o, NEW at, NEW a,
         Free(h), Serve(h, o, at, a), o # "voice", claims' = claims
  PROVE  ClaimsAreWorked'
<1> USE DEF TypeOK, HandlersTypeOK
<1>1. /\ op'[h] = o /\ op[h] = "none"
      /\ \A g \in Handlers : g # h => op'[g] = op[g] /\ arg'[g] = arg[g]
  BY DEF Serve, Free
<1>2. \A g \in Handlers : op'[g] = "voice" <=> op[g] = "voice"
  BY <1>1
<1>3. \A g \in Handlers : op[g] = "voice" => arg'[g] = arg[g]
  BY <1>1
<1> QED
  BY <1>2, <1>3 DEF ClaimsAreWorked

LEMMA NextClaims == TypeOK /\ ClaimsAreWorked /\ [Next]_vars => ClaimsAreWorked'
<1> SUFFICES ASSUME TypeOK, ClaimsAreWorked, [Next]_vars PROVE ClaimsAreWorked'
  OBVIOUS
<1>1. CASE UNCHANGED <<op, arg, claims>>
  BY <1>1 DEF ClaimsAreWorked
<1>2. ASSUME NEW h \in Handlers, Work(h) PROVE ClaimsAreWorked'
  BY <1>1, <1>2, WorkReturns, ReturnClaims
<1>3. ASSUME NEW h \in Handlers, Request(h) PROVE ClaimsAreWorked'
  BY <1>1, <1>3, ServeClaims
  DEF Request, StartRecording, StopRecording, TranscriptionSources, CreateSession, Join
<1>4. ASSUME NEW h \in Handlers, NEW t \in Tracks, TrackPublished(h, t)
      PROVE  ClaimsAreWorked'
  <2>1. /\ op'[h] = "voice" /\ op[h] = "none" /\ arg'[h] = t /\ t \notin claims
        /\ \A g \in Handlers : g # h => op'[g] = op[g] /\ arg'[g] = arg[g]
        /\ claims' = claims \cup {t}
    BY <1>4 DEF TrackPublished, Serve, Free, TypeOK, HandlersTypeOK
  <2>2. \A g \in Handlers : op'[g] = "voice" <=> g = h \/ op[g] = "voice"
    BY <2>1
  <2>3. \A g \in Handlers : op[g] = "voice" => arg'[g] = arg[g] /\ arg[g] # t
    BY <2>1 DEF ClaimsAreWorked
  <2>4. claims' = {arg'[g] : g \in {f \in Handlers : op'[f] = "voice"}}
    BY <2>1, <2>2, <2>3 DEF ClaimsAreWorked
  <2>5. \A f, g \in Handlers : op'[f] = "voice" /\ op'[g] = "voice" /\ arg'[f] = arg'[g] => f = g
    BY <2>1, <2>2, <2>3 DEF ClaimsAreWorked
  <2> QED
    BY <2>4, <2>5 DEF ClaimsAreWorked
<1>5. ASSUME NEW h \in Handlers, RoomFinished(h) PROVE ClaimsAreWorked'
  BY <1>5, ServeClaims DEF RoomFinished
<1>6. CASE HandleHook
  BY <1>1, <1>4, <1>5, <1>6 DEF HandleHook, ParticipantJoined, EgressEnded, TrackIgnored, handlerVars
<1>7. CASE Crash
  BY <1>7 DEF Crash, ClaimsAreWorked
<1> QED
  BY <1>1, <1>2, <1>3, <1>6, <1>7 DEF Next, LoseHook, vars, handlerVars

\* The running recordings of a voice on the record.
VoiceRecordings(t) == {e \in Running : kind[e] = "voice" /\ track[e] = t /\ OnRecord(e)}

\* A handler that found nothing recording its track has the track to itself:
\* until it starts its egress there is none, and then only its own.
VoiceInv ==
  /\ \A h \in Handlers :
       cur[h] # None /\ kind[cur[h]] = "voice" => op[h] = "voice" /\ track[cur[h]] = arg[h]
  /\ \A h \in Handlers : op[h] = "voice" /\ pc[h] \in {"owner", "start"} => VoiceRecordings(arg[h]) = {}
  /\ \A h \in Handlers : op[h] = "voice" /\ pc[h] \in {"add", "undo"} => VoiceRecordings(arg[h]) \subseteq {cur[h]}
  /\ OneVoicePerTrack

\* A voice's recordings on the record are added by the handler that serves it.
LEMMA VoiceMovesOn ==
  ASSUME TypeOK, EgressInv, [Next]_vars, NEW t, NEW e \in Egresses, e \in VoiceRecordings(t)'
  PROVE  \/ e \in VoiceRecordings(t)
         \/ \E h \in Handlers : StartEgress(h) /\ op[h] = "voice" /\ arg[h] = t /\ cur'[h] = e
<1>1. media'[e] = "running" /\ kind'[e] = "voice" /\ track'[e] = t /\ OnRecord(e)'
  BY DEF VoiceRecordings, Running
<1>2. CASE media[e] = "running"
  <2>1. kind[e] = "voice" /\ track[e] = t
    BY <1>1, <1>2, KindMovesOn
  <2>2. CASE rows'[e] = "active"
    BY <1>2, <2>1, <2>2, RowsMoveOn DEF OnRecord, VoiceRecordings, Running
  <2>3. ASSUME NEW h \in Handlers, cur'[h] = e, pc'[h] = "add"
        PROVE  e \in VoiceRecordings(t)
    <3>1. ~ StartEgress(h)
      BY <1>2, <2>3, NoneAssumption DEF StartEgress, Begin, Fresh, TypeOK, HandlersTypeOK
    <3> QED
      BY <1>2, <2>1, <2>3, <3>1, AddComesFrom DEF OnRecord, VoiceRecordings, Running
  <2> QED
    BY <1>1, <2>2, <2>3 DEF OnRecord
<1>3. CASE media[e] # "running"
  <2>1. PICK h \in Handlers : StartEgress(h) /\ cur'[h] = e
    BY <1>1, <1>3, StartMovesOn
  <2>2. kind'[e] = Requested[op[h]] /\ op[h] \in {"create", "join", "start", "voice"}
    BY <2>1 DEF StartEgress, Begin, TypeOK, HandlersTypeOK, MediaTypeOK, WellPlaced
  <2>3. op[h] = "voice"
    BY <1>1, <2>2 DEF Requested
  <2>4. track'[e] = arg[h]
    BY <2>1, <2>3 DEF StartEgress, Begin, TypeOK, HandlersTypeOK, MediaTypeOK
  <2> QED
    BY <1>1, <2>1, <2>3, <2>4
<1> QED
  BY <1>2, <1>3

\* How a handler of a voice gets to where it looks for the owner, starts an
\* egress or stores one.
LEMMA VoiceComesFrom ==
  ASSUME TypeOK, [Next]_vars, NEW h \in Handlers, op'[h] = "voice",
         pc'[h] \in {"owner", "start", "add", "undo"}
  PROVE  /\ op[h] = "voice" /\ arg'[h] = arg[h]
         /\ \/ pc'[h] = pc[h] /\ cur'[h] = cur[h]
            \/ StartEgress(h)
            \/ StoreEgressFails(h)
            \/ ListVoices(h) /\ pc'[h] = "owner"
            \/ pc[h] = "owner" /\ pc'[h] = "start"
<1> USE DEF TypeOK, HandlersTypeOK
<1> DEFINE Stays == op'[h] = op[h] /\ arg'[h] = arg[h] /\ pc'[h] = pc[h] /\ cur'[h] = cur[h]
<1>1. ~ Return(h)
  BY DEF Return
<1>2. CASE UNCHANGED <<op, arg, pc, cur>>
  BY <1>2
<1>3. ASSUME NEW g \in Handlers, Work(g), g # h
      PROVE  Stays
  BY <1>3, OthersStay, WorkReturns DEF Return
<1>4. ASSUME Work(h)
      PROVE  /\ op[h] = "voice" /\ arg'[h] = arg[h]
             /\ \/ StartEgress(h)
                \/ StoreEgressFails(h)
                \/ ListVoices(h) /\ pc'[h] = "owner"
                \/ pc[h] = "owner" /\ pc'[h] = "start"
  <2>1. op[h] = "voice" /\ arg'[h] = arg[h]
    BY <1>1, <1>4, WorkReturns
  <2>2. pc[h] \in {"list", "owner", "start", "add", "undo"}
    BY <2>1 DEF WellPlaced
  <2>3. CASE List(h) \/ ListFails(h)
    <3>1. ListVoices(h)
      BY <1>1, <2>1, <2>3 DEF List, ListToResume, ListToSweep, ListToStop, ListSources, ListFails, Answer, Respond
    <3> QED
      BY <1>1, <2>1, <3>1 DEF ListVoices, Goto
  <2>4. CASE FindOwner(h)
    BY <1>1, <2>1, <2>4 DEF FindOwner, Goto
  <2>5. ~ (StoreEgress(h) \/ StartEgressFails(h) \/ UndoEgress(h) \/ AnswerCreator(h) \/ Lock(h)
           \/ MarkEnded(h) \/ CloseDialIn(h))
    BY <1>1, <2>1, <2>2 DEF StoreEgress, StartEgressFails, UndoEgress, AnswerCreator, Lock, MarkEnded, CloseDialIn, Answer, Respond
  <2>6. \A e \in Egresses :
          ~ (ProbeToResume(h, e) \/ ProbeSource(h, e) \/ Settle(h, e) \/ Stop(h, e) \/ Lookup(h, e))
    BY <2>2 DEF ProbeToResume, ProbeSource, Settle, Stop, Lookup
  <2> QED
    BY <1>4, <2>1, <2>3, <2>4, <2>5, <2>6 DEF Work
<1>5. ASSUME NEW g \in Handlers, NEW o, NEW at, NEW a,
             at \in {"lock", "list"} \/ o # "voice", Serve(g, o, at, a)
      PROVE  Stays
  BY <1>5 DEF Serve
<1>6. ASSUME NEW g \in Handlers, Request(g)
      PROVE  Stays
  BY <1>2, <1>5, <1>6 DEF Request, StartRecording, StopRecording, TranscriptionSources, CreateSession, Join
<1>7. CASE HandleHook
  BY <1>2, <1>5, <1>7
  DEF HandleHook, ParticipantJoined, EgressEnded, TrackIgnored, RoomFinished, TrackPublished, handlerVars
<1>8. ~ Crash
  BY DEF Crash
<1> QED
  BY <1>2, <1>3, <1>4, <1>6, <1>7, <1>8 DEF Next, LoseHook, vars, handlerVars

LEMMA NextVoiceInv ==
  TypeOK /\ EgressInv /\ ClaimsAreWorked /\ VoiceInv /\ [Next]_vars => VoiceInv'
<1> SUFFICES ASSUME TypeOK, EgressInv, ClaimsAreWorked, VoiceInv, [Next]_vars
             PROVE  VoiceInv'
  OBVIOUS
<1> USE DEF TypeOK, HandlersTypeOK
<1>1. \A t : VoiceRecordings(t) \subseteq Egresses /\ VoiceRecordings(t)' \subseteq Egresses
  BY DEF VoiceRecordings, Running
<1>2. ASSUME NEW h \in Handlers, op[h] = "voice", ~ StartEgress(h), NEW t, t = arg[h]
      PROVE  VoiceRecordings(t)' \subseteq VoiceRecordings(t)
  BY <1>1, <1>2, VoiceMovesOn DEF ClaimsAreWorked
<1>3. ASSUME NEW h \in Handlers, op[h] = "voice", StartEgress(h), NEW t, t = arg[h]
      PROVE  VoiceRecordings(t)' \subseteq {cur'[h]}
  <2>1. VoiceRecordings(t) = {}
    BY <1>3 DEF StartEgress, Begin, VoiceInv
  <2> QED
    BY <1>1, <1>3, <2>1, VoiceMovesOn DEF ClaimsAreWorked
<1>4. ASSUME NEW h \in Handlers, cur'[h] # None, kind'[cur'[h]] = "voice"
      PROVE  op'[h] = "voice" /\ track'[cur'[h]] = arg'[h]
  <2>1. CASE StartEgress(h)
    <3>1. /\ op'[h] = op[h] /\ arg'[h] = arg[h] /\ op[h] \in {"create", "join", "start", "voice"}
          /\ kind'[cur'[h]] = Requested[op[h]]
          /\ op[h] = "voice" => track'[cur'[h]] = arg[h]
      BY <2>1 DEF StartEgress, Begin, MediaTypeOK, WellPlaced
    <3> QED
      BY <1>4, <3>1 DEF Requested
  <2>2. CASE ~ StartEgress(h)
    <3>1. cur'[h] = cur[h] /\ op'[h] = op[h]
      BY <1>4, <2>2, CurComesFrom
    <3>2. kind[cur[h]] = "voice" /\ track'[cur[h]] = track[cur[h]]
      BY <1>4, <3>1, KindMovesOn DEF EgressInv
    <3>3. op'[h] = "voice" /\ pc'[h] \in {"add", "undo"} /\ track[cur[h]] = arg[h]
      BY <1>4, <3>1, <3>2, NextTypeOK DEF VoiceInv
    <3>4. arg'[h] = arg[h]
      BY <3>3, VoiceComesFrom
    <3> QED
      BY <3>1, <3>2, <3>3, <3>4
  <2> QED
    BY <2>1, <2>2
<1>5. ASSUME NEW h \in Handlers, op'[h] = "voice", pc'[h] \in {"owner", "start", "add", "undo"}
      PROVE  /\ pc'[h] \in {"owner", "start"} => VoiceRecordings(arg[h])' = {}
             /\ pc'[h] \in {"add", "undo"} => VoiceRecordings(arg[h])' \subseteq {cur'[h]}
  <2>0. PICK t : t = arg[h]
    OBVIOUS
  <2>1. op[h] = "voice" /\ arg'[h] = t
    BY <1>5, <2>0, VoiceComesFrom
  <2> SUFFICES /\ pc'[h] \in {"owner", "start"} => VoiceRecordings(t)' = {}
               /\ pc'[h] \in {"add", "undo"} => VoiceRecordings(t)' \subseteq {cur'[h]}
    BY <2>1 DEF VoiceRecordings
  <2>2. CASE StartEgress(h)
    <3>1. pc'[h] = "add"
      BY <2>2 DEF StartEgress, Begin
    <3> QED
      BY <1>3, <2>0, <2>1, <2>2, <3>1
  <2>3. CASE ListVoices(h) /\ pc'[h] = "owner"
    <3>1. pc[h] = "list" /\ \A e \in ActiveRows : track[e] # t
      BY <2>0, <2>1, <2>3 DEF ListVoices, Return
    <3>2. ASSUME NEW e \in VoiceRecordings(t)
          PROVE  FALSE
      <4>1. kind[e] = "voice" /\ track[e] = t /\ e \in Egresses /\ OnRecord(e)
        BY <1>1, <3>2 DEF VoiceRecordings
      <4>2. PICK g \in Handlers : cur[g] = e /\ pc[g] = "add"
        BY <3>1, <4>1 DEF OnRecord, ActiveRows
      <4>3. op[g] = "voice" /\ arg[g] = t
        BY <4>1, <4>2, NoneAssumption DEF VoiceInv
      <4> QED
        BY <2>0, <2>1, <3>1, <4>2, <4>3 DEF ClaimsAreWorked
    <3>3. ~ StartEgress(h)
      BY <3>1 DEF StartEgress, Begin
    <3>4. VoiceRecordings(t)' \subseteq VoiceRecordings(t)
      BY <1>2, <2>0, <2>1, <3>3
    <3> QED
      BY <2>3, <3>2, <3>4
  <2>4. CASE \/ pc'[h] = pc[h] /\ cur'[h] = cur[h]
             \/ StoreEgressFails(h)
             \/ pc[h] = "owner" /\ pc'[h] = "start"
    <3>1. CASE ~ StartEgress(h)
      <4>1. VoiceRecordings(t)' \subseteq VoiceRecordings(t)
        BY <1>2, <2>0, <2>1, <3>1
      <4>2. /\ pc[h] \in {"owner", "start"} => VoiceRecordings(t) = {}
            /\ pc[h] \in {"add", "undo"} => VoiceRecordings(t) \subseteq {cur[h]}
        BY <2>0, <2>1 DEF VoiceInv
      <4>3. StoreEgressFails(h) => pc[h] = "add" /\ pc'[h] = "undo" /\ cur'[h] = cur[h]
        BY DEF StoreEgressFails
      <4> QED
        BY <1>5, <2>4, <4>1, <4>2, <4>3
    <3> QED
      BY <2>2, <3>1
  <2> QED
    BY <1>5, <2>2, <2>3, <2>4, VoiceComesFrom
<1>6. OneVoicePerTrack'
  <2>1. ASSUME NEW t, NEW e \in VoiceRecordings(t)', NEW f \in VoiceRecordings(t)'
        PROVE  e = f
    <3>1. CASE \E h \in Handlers : StartEgress(h) /\ op[h] = "voice" /\ arg[h] = t
      BY <1>3, <2>1, <3>1
    <3>2. CASE ~ \E h \in Handlers : StartEgress(h) /\ op[h] = "voice" /\ arg[h] = t
      <4>1. e \in VoiceRecordings(t) /\ f \in VoiceRecordings(t)
        BY <1>1, <2>1, <3>2, VoiceMovesOn
      <4> QED
        BY <4>1 DEF VoiceInv, OneVoicePerTrack, VoiceRecordings
    <3> QED
      BY <3>1, <3>2
  <2> QED
    BY <2>1 DEF OneVoicePerTrack, VoiceRecordings
<1> QED
  BY <1>4, <1>5, <1>6 DEF VoiceInv

\* However often and however concurrently its webhook arrives, one handler at a
\* time works on a published voice and one recording of it runs on the record,
\* whatever fails and however often the control plane restarts.
THEOREM VoicesAreRecordedOnce == Spec => []TracksAreClaimed
<1>1. Init => ClaimsAreWorked /\ VoiceInv
  <2> SUFFICES ASSUME Init PROVE ClaimsAreWorked /\ VoiceInv
    OBVIOUS
  <2>1. /\ \A h \in Handlers : op[h] = "none" /\ pc[h] = "idle" /\ cur[h] = None
        /\ \A e \in Egresses : media[e] = "unused" /\ kind[e] = "none"
        /\ claims = {}
    BY DEF Init, MediaInit
  <2>2. OneVoicePerTrack
    BY <2>1 DEF OneVoicePerTrack, Running
  <2> QED
    BY <2>1, <2>2 DEF ClaimsAreWorked, VoiceInv
<1>2. ClaimsAreWorked /\ VoiceInv => TracksAreClaimed
  BY DEF VoiceInv, TracksAreClaimed
<1> QED
  BY <1>1, <1>2, InitEgressInv, TypeCorrect, NextEgressInv, NextClaims, NextVoiceInv, PTL DEF Spec

-------------------------------------------------------------------------------
(* The dial-in of a call that ended, while no call fails.                  *)

\* The handler whose statement ended the call has that to go by until it comes
\* to the dial-in; and before the call is stored nothing has ended it.
ClosingInv ==
  /\ \A h \in Handlers :
       endsNow[h] => op[h] = "finish" /\ pc[h] \in {"list", "stop", "lookup", "settle", "close"}
  /\ session = "none" => ~ ended
  /\ EndedClosesDialIn

\* A handler that ended the call goes on to the dial-in and takes it out.
LEMMA WorkCloses ==
  ASSUME TypeOK, ~ Faults, ClosingInv, NEW h \in Handlers, Work(h), endsNow[h]
  PROVE  \/ dialIn' = FALSE /\ endsNow'[h] = FALSE
         \/ /\ op'[h] = op[h] /\ endsNow'[h] = endsNow[h]
            /\ pc'[h] \in {"list", "stop", "lookup", "settle", "close"}
<1> USE DEF TypeOK, HandlersTypeOK
<1>1. op[h] = "finish" /\ pc[h] \in {"list", "stop", "lookup", "settle", "close"}
  BY DEF ClosingInv
<1>2. ASSUME NEW at, NEW T, Goto(h, at, T)
      PROVE  op'[h] = op[h] /\ endsNow'[h] = endsNow[h] /\ pc'[h] = at
  BY <1>2 DEF Goto
<1>3. ASSUME NEW e \in Egresses, Looked(h, e)
      PROVE  op'[h] = op[h] /\ endsNow'[h] = endsNow[h] /\ pc'[h] \in {"stop", "close"}
  BY <1>1, <1>2, <1>3 DEF Looked, LoopTop
<1>4. ASSUME NEW e \in Egresses,
             ProbeToResume(h, e) \/ ProbeSource(h, e) \/ Settle(h, e) \/ Stop(h, e) \/ Lookup(h, e)
      PROVE  /\ op'[h] = op[h] /\ endsNow'[h] = endsNow[h]
             /\ pc'[h] \in {"list", "stop", "lookup", "settle", "close"}
  <2>1. ~ (ProbeToResume(h, e) \/ ProbeSource(h, e))
    BY <1>1 DEF ProbeToResume, ProbeSource
  <2> QED
    BY <1>1, <1>2, <1>3, <1>4, <2>1 DEF Settle, Stop, Lookup
<1>5. CASE List(h) \/ ListFails(h)
  BY <1>1, <1>2, <1>5
  DEF List, ListToResume, ListToSweep, ListToStop, ListSources, ListVoices, ListFails
<1>6. CASE CloseDialIn(h)
  BY <1>6 DEF CloseDialIn, EndDialIn, Return
<1> QED
  BY <1>1, <1>4, <1>5, <1>6
  DEF Work, StartEgress, Begin, StartEgressFails, StoreEgress, StoreEgressFails, UndoEgress, AnswerCreator, Lock,
      FindOwner, MarkEnded

\* What the steps of a handler leave of what others know of the end.
LEMMA EndsStay ==
  ASSUME TypeOK, NEW h \in Handlers, Work(h) \/ Request(h)
  PROVE  \A g \in Handlers : g # h => endsNow'[g] = endsNow[g]
<1> USE DEF TypeOK, HandlersTypeOK
<1>1. CASE Return(h)
  BY <1>1 DEF Return
<1>2. CASE UNCHANGED endsNow
  BY <1>2
<1>3. \A e \in Egresses : Looked(h, e) => Return(h) \/ UNCHANGED endsNow
  BY DEF Looked, Goto
<1>4. ASSUME NEW e \in Egresses,
             ProbeToResume(h, e) \/ ProbeSource(h, e) \/ Settle(h, e) \/ Stop(h, e) \/ Lookup(h, e)
      PROVE  Return(h) \/ UNCHANGED endsNow
  BY <1>3, <1>4 DEF ProbeToResume, ProbeSource, Settle, Stop, Lookup, Answer, Respond, Goto
<1>5. CASE List(h) \/ ListFails(h) \/ FindOwner(h)
  BY <1>1, <1>2, <1>5
  DEF List, ListToResume, ListToSweep, ListToStop, ListSources, ListVoices, ListFails, FindOwner, Answer, Respond, Goto
<1>6. CASE MarkEnded(h)
  BY <1>1, <1>6 DEF MarkEnded
<1>7. CASE StoreEgress(h)
  BY <1>1, <1>2, <1>7 DEF StoreEgress, Answer, Respond
<1>8. CASE Request(h)
  BY <1>2, <1>8
  DEF Request, StartRecording, StopRecording, TranscriptionSources, CreateSession, Join, Serve, handlerVars
<1> QED
  BY <1>1, <1>2, <1>4, <1>5, <1>6, <1>7, <1>8
  DEF Work, StartEgress, Begin, StartEgressFails, StoreEgressFails, UndoEgress, AnswerCreator, Lock, CloseDialIn, Answer, Respond

\* A handler that ended the call did so under MarkEnded.
LEMMA EndsComeFrom ==
  ASSUME TypeOK, NEW h \in Handlers, Work(h) \/ Request(h), endsNow'[h], ~ endsNow[h]
  PROVE  MarkEnded(h) /\ op[h] = "finish" /\ op'[h] = "finish" /\ pc'[h] = "list" /\ dialIn' = dialIn
<1> USE DEF TypeOK, HandlersTypeOK
<1>1. ~ Return(h)
  BY DEF Return
<1>2. ~ UNCHANGED endsNow
  OBVIOUS
<1>3. \A e \in Egresses : ~ Looked(h, e)
  BY <1>1, <1>2 DEF Looked, Goto
<1>4. \A e \in Egresses :
        ~ (ProbeToResume(h, e) \/ ProbeSource(h, e) \/ Settle(h, e) \/ Stop(h, e) \/ Lookup(h, e))
  BY <1>1, <1>2, <1>3 DEF ProbeToResume, ProbeSource, Settle, Stop, Lookup, Answer, Respond, Goto
<1>5. ~ (List(h) \/ ListFails(h) \/ FindOwner(h))
  BY <1>1, <1>2
  DEF List, ListToResume, ListToSweep, ListToStop, ListSources, ListVoices, ListFails, FindOwner, Answer, Respond, Goto
<1>6. ~ StoreEgress(h)
  BY <1>1, <1>2 DEF StoreEgress, Answer, Respond
<1>7. ~ Request(h)
  BY <1>2 DEF Request, StartRecording, StopRecording, TranscriptionSources, CreateSession, Join, Serve, handlerVars
<1>8. MarkEnded(h)
  BY <1>1, <1>2, <1>4, <1>5, <1>6, <1>7
  DEF Work, StartEgress, Begin, StartEgressFails, StoreEgressFails, UndoEgress, AnswerCreator, Lock, CloseDialIn, Answer, Respond
<1> QED
  BY <1>1, <1>8 DEF MarkEnded, WellPlaced

LEMMA NextClosingInv ==
  ASSUME ~ Faults, MaxCrashes = 0, TypeOK, CreationInv, ClosingInv, [Next]_vars
  PROVE  ClosingInv'
<1> USE DEF TypeOK, HandlersTypeOK
<1>1. CASE UNCHANGED <<op, pc, endsNow, session, ended, dialIn>>
  BY <1>1 DEF ClosingInv, EndedClosesDialIn
<1>2. ASSUME NEW h \in Handlers, Work(h)
      PROVE  ClosingInv'
  <2>1. session # "none" /\ session' # "none"
    BY <1>2, WorkServes, WorkOpens DEF CreationInv
  <2>2. ASSUME NEW g \in Handlers, endsNow'[g]
        PROVE  op'[g] = "finish" /\ pc'[g] \in {"list", "stop", "lookup", "settle", "close"}
    <3>1. CASE g # h
      BY <1>2, <2>2, <3>1, EndsStay, OthersStay DEF ClosingInv
    <3>2. CASE g = h /\ endsNow[h]
      BY <1>2, <2>2, <3>2, WorkCloses DEF ClosingInv
    <3>3. CASE g = h /\ ~ endsNow[h]
      BY <1>2, <2>2, <3>3, EndsComeFrom
    <3> QED
      BY <3>1, <3>2, <3>3
  <2>3. ASSUME ended', dialIn'
        PROVE  \E g \in Handlers : op'[g] = "finish" /\ endsNow'[g]
    <3>1. dialIn
      BY <1>2, <2>3
      DEF Work, StartEgress, Begin, StartEgressFails, StoreEgress, StoreEgressFails, UndoEgress, AnswerCreator, Lock,
          List, ListToResume, ListToSweep, ListToStop, ListSources, ListVoices, ListFails, ProbeToResume,
          ProbeSource, Settle, Stop, Lookup, FindOwner, MarkEnded, CloseDialIn, EndDialIn, storeVars,
          StoreTypeOK
    <3>2. CASE ended
      <4>1. PICK g \in Handlers : op[g] = "finish" /\ endsNow[g]
        BY <3>1, <3>2 DEF ClosingInv, EndedClosesDialIn
      <4>2. CASE g = h
        BY <1>2, <2>3, <4>1, <4>2, WorkCloses
      <4>3. CASE g # h
        BY <1>2, <4>1, <4>3, EndsStay, OthersStay
      <4> QED
        BY <4>2, <4>3
    <3>3. CASE ~ ended
      <4>1. MarkEnded(h)
        BY <1>2, <2>3, <3>3
        DEF Work, StartEgress, Begin, StartEgressFails, StoreEgress, StoreEgressFails, UndoEgress, AnswerCreator, Lock,
            List, ListToResume, ListToSweep, ListToStop, ListSources, ListVoices, ListFails, ProbeToResume,
            ProbeSource, Settle, Stop, Lookup, FindOwner, CloseDialIn, storeVars
      <4>2. op[h] = "finish" /\ op' = op /\ endsNow'[h] = EndsNow /\ joined
        BY <2>3, <3>3, <4>1 DEF MarkEnded, EndSession, WellPlaced, StoreTypeOK, storeVars
      <4> QED
        BY <3>3, <4>2 DEF EndsNow
    <3> QED
      BY <3>2, <3>3 DEF StoreTypeOK
  <2> QED
    BY <2>1, <2>2, <2>3 DEF ClosingInv, EndedClosesDialIn
<1>3. ASSUME NEW h \in Handlers, NEW o, NEW at, NEW a, Free(h), Serve(h, o, at, a)
      PROVE  \A g \in Handlers : endsNow'[g] => endsNow[g] /\ op'[g] = op[g] /\ pc'[g] = pc[g]
  BY <1>3 DEF Serve, Free, ClosingInv
<1>4. ASSUME endsNow' = endsNow, session' = session, ended' = ended, dialIn' = dialIn,
             \A g \in Handlers : endsNow'[g] => endsNow[g] /\ op'[g] = op[g] /\ pc'[g] = pc[g]
      PROVE  ClosingInv'
  BY <1>4 DEF ClosingInv, EndedClosesDialIn
<1>5. ASSUME NEW h \in Handlers, NEW p \in People, CreateSession(h, p)
      PROVE  ClosingInv'
  <2>1. /\ ~ ended' /\ session' # "none" /\ endsNow' = endsNow
        /\ \A g \in Handlers : endsNow'[g] => FALSE
    BY <1>5 DEF CreateSession, Serve, ClosingInv, CreationInv
  <2> QED
    BY <2>1 DEF ClosingInv, EndedClosesDialIn
<1>6. ASSUME NEW h \in Handlers, Request(h)
      PROVE  ClosingInv'
  BY <1>1, <1>3, <1>4, <1>5, <1>6
  DEF Request, StartRecording, StopRecording, TranscriptionSources, Join, Serve, storeVars
<1>7. CASE HandleHook
  BY <1>1, <1>3, <1>4, <1>7
  DEF HandleHook, ParticipantJoined, EgressEnded, TrackIgnored, RoomFinished, TrackPublished, Serve,
      storeVars, handlerVars
<1>8. ~ Crash
  BY DEF Crash
<1> QED
  BY <1>1, <1>2, <1>6, <1>7, <1>8 DEF Next, LoseHook, vars, storeVars, handlerVars

\* While no call fails and the control plane stays up, the end of a call takes
\* its PIN with it: the dial-in is gone, or the handler that ended the call is
\* on its way to it, whatever other closings are handled meanwhile.
THEOREM EndTakesTheDialIn ==
  ASSUME ~ Faults, MaxCrashes = 0
  PROVE  Spec => []EndedClosesDialIn
<1>1. Init => CreationInv /\ ClosingInv
  <2>1. Init => ClosingInv
    BY DEF Init, StoreInit, ClosingInv, EndedClosesDialIn
  <2> QED
    BY <2>1, InitAutoInv
<1>2. TypeOK /\ CreationInv /\ ClosingInv /\ [Next]_vars => ClosingInv'
  BY NextClosingInv
<1>3. ClosingInv => EndedClosesDialIn
  BY DEF ClosingInv
<1> QED
  BY <1>1, <1>2, <1>3, TypeCorrect, NextCreationInv, PTL DEF Spec
===============================================================================
