-------------------------- MODULE InboundCallsProofs --------------------------
(***************************************************************************)
(* Proofs about InboundCalls, for every number of calls and requests, with *)
(* responses lost, requests repeated while they are served, dial-backs     *)
(* that fail after they placed a leg, and restarts: the table of held      *)
(* calls stays consistent and within its limit, and no two legs are        *)
(* bridged under one token.                                                *)
(***************************************************************************)
EXTENDS InboundCalls, HeldCallsProofs, FiniteSetTheorems, TLAPS

-----------------------------------------------------------------------------
(* Type correctness.                                                       *)

LEMMA InitTypeOK == Init => TypeOK
BY HeldAssumption
DEF Init, TypeOK, RequestsOK, CarrierOK, LegsOK, HeldInit, HeldTypeOK, Idle,
    Request, Call, Token, Answering, CallingBack

\* A request moves on: to a place where it dials back only with a minted token.
LEMMA RequestMoved ==
  ASSUME RequestsOK, minted \subseteq minted', NEW h \in Handlers, NEW r \in Request,
         handler' = [handler EXCEPT ![h] = r],
         r.at # "idle" => r.call \in Calls, r.at \in CallingBack => r.token \in minted'
  PROVE  RequestsOK'
BY DEF RequestsOK, Call, Token

LEMMA GotoOK ==
  ASSUME RequestsOK, minted \subseteq minted', NEW h \in Handlers,
         NEW at \in {"hold", "place", "redial", "ok", "failed"}, Goto(h, at),
         handler[h].at # "idle", at # "hold" => handler[h].at \in CallingBack
  PROVE  RequestsOK'
<1> DEFINE r == [handler[h] EXCEPT !.at = at]
<1>1. r \in Request
  BY DEF RequestsOK, Request, Answering, CallingBack
<1>2. r.at = at /\ r.call = Call(h) /\ r.token = Token(h)
  BY DEF RequestsOK, Request, Call, Token
<1>3. r.at # "idle" => r.call \in Calls
  BY <1>2 DEF RequestsOK
<1>4. r.at \in CallingBack => r.token \in minted'
  BY <1>2 DEF RequestsOK, CallingBack
<1>5. handler' = [handler EXCEPT ![h] = r]
  BY DEF Goto
<1> HIDE DEF r
<1> QED
  BY <1>1, <1>3, <1>4, <1>5, RequestMoved

LEMMA AnswerWithOK ==
  ASSUME RequestsOK, minted \subseteq minted', NEW h \in Handlers,
         NEW t \in Tokens \cup {None}, AnswerWith(h, t), handler[h].at # "idle"
  PROVE  RequestsOK'
<1> DEFINE r == [[handler[h] EXCEPT !.at = "answered"] EXCEPT !.token = t]
<1>1. r \in Request
  BY DEF RequestsOK, Request, Answering
<1>2. r.at = "answered" /\ r.call = Call(h)
  BY DEF RequestsOK, Request, Call
<1>3. handler' = [handler EXCEPT ![h] = r]
  BY DEF AnswerWith, RequestsOK
<1>4. r.call \in Calls /\ r.at \notin CallingBack
  BY <1>2 DEF RequestsOK, CallingBack
<1> HIDE DEF r
<1> QED
  BY <1>1, <1>3, <1>4, RequestMoved

LEMMA DoneOK ==
  ASSUME RequestsOK, minted \subseteq minted', NEW h \in Handlers, Done(h)
  PROVE  RequestsOK'
<1>1. Idle \in Request /\ Idle.at = "idle" /\ Idle.at \notin CallingBack
  BY DEF Idle, Request, CallingBack
<1> QED
  BY <1>1, RequestMoved DEF Done

\* What leaves the table alone.
LEMMA HeldKept ==
  ASSUME HeldTypeOK, UNCHANGED heldVars
  PROVE  HeldTypeOK'
BY DEF HeldTypeOK, heldVars

LEMMA RequestsKept ==
  ASSUME RequestsOK, UNCHANGED handler, minted \subseteq minted'
  PROVE  RequestsOK'
BY DEF RequestsOK, Call, Token

LEMMA CarrierKept ==
  ASSUME CarrierOK, UNCHANGED carrierVars
  PROVE  CarrierOK'
BY DEF CarrierOK, carrierVars

LEMMA LegsKept ==
  ASSUME LegsOK, UNCHANGED legVars
  PROVE  LegsOK'
BY DEF LegsOK, legVars

LEMMA LegPlacedOK ==
  ASSUME LegsOK, NEW t \in Tokens, LegPlaced(t)
  PROVE  LegsOK'
BY DEF LegsOK, LegPlaced

LEMMA LegGoneOK ==
  ASSUME LegsOK, NEW t \in Tokens, ringing[t] > 0, LegGone(t), UNCHANGED placed,
         joined' = joined \/ joined' = [joined EXCEPT ![t] = @ + 1]
  PROVE  LegsOK'
BY DEF LegsOK, LegGone

LEMMA StepTypeOK ==
  ASSUME TypeOK, NEW h \in Handlers, Step(h)
  PROVE  TypeOK'
<1> USE DEF TypeOK
<1>1. CASE OpenSession(h)
  <2> USE <1>1 DEF OpenSession
  <2>1. Call(h) \in Calls
    BY DEF RequestsOK
  <2>2. opened' \in [Calls -> Nat]
    BY <2>1
  <2>3. RequestsOK'
    BY GotoOK, AnswerWithOK DEF heldVars
  <2> QED
    BY <2>2, <2>3, HeldKept, CarrierKept, LegsKept
<1>2. CASE Hold(h)
  <2> USE <1>2 DEF Hold
  <2>1. Call(h) \in Calls
    BY DEF RequestsOK
  <2>2. HeldTypeOK' /\ minted \subseteq minted'
    BY <2>1, HoldCallTyped, HeldKept DEF HoldCall, heldVars
  <2>3. RequestsOK'
    BY <2>2, AnswerWithOK
  <2> QED
    BY <2>2, <2>3, CarrierKept, LegsKept
<1>3. CASE Reply(h)
  <2> USE <1>3 DEF Reply
  <2>1. Call(h) \in Calls /\ Token(h) \in Tokens \cup {None}
    BY DEF RequestsOK, Request, Token
  <2>2. RequestsOK'
    BY DoneOK DEF heldVars
  <2>3. CarrierOK'
    <3>1. CASE UNCHANGED <<caller, conf, due>>
      BY <3>1 DEF CarrierOK
    <3>2. CASE ~UNCHANGED <<caller, conf, due>>
      <4> DEFINE b == Token(h) # None
      <4>1. /\ caller' = [caller EXCEPT ![Call(h)] = IF b THEN "held" ELSE "over"]
            /\ conf' = [conf EXCEPT ![Call(h)] = Token(h)]
            /\ due' = [due EXCEPT ![Call(h)] = b]
        BY <3>2
      <4>2. b \in BOOLEAN /\ (b => Token(h) # None)
        OBVIOUS
      <4> HIDE DEF b
      <4>3. caller' \in [Calls -> {"new", "ringing", "held", "over"}]
        BY <2>1, <4>1 DEF CarrierOK
      <4>4. conf' \in [Calls -> Tokens \cup {None}] /\ due' \in [Calls -> BOOLEAN]
        BY <2>1, <4>1, <4>2 DEF CarrierOK
      <4>5. \A c \in Calls : due'[c] => conf'[c] # None
        BY <2>1, <4>1, <4>2 DEF CarrierOK
      <4> QED
        BY <4>3, <4>4, <4>5 DEF CarrierOK
    <3> QED
      BY <3>1, <3>2
  <2> QED
    BY <2>2, <2>3, HeldKept, LegsKept
<1>4. CASE Dial(h)
  <2> USE <1>4 DEF Dial
  <2>1. Token(h) \in minted /\ Token(h) \in Tokens
    BY DEF RequestsOK, CallingBack, HeldTypeOK
  <2>2. HeldTypeOK' /\ minted' = minted
    BY <2>1, DialCallTyped, HeldKept DEF Dials, DialCall, heldVars
  <2>3. RequestsOK'
    BY <2>2, GotoOK DEF CallingBack
  <2> QED
    BY <2>2, <2>3, CarrierKept, LegsKept
<1>5. CASE PlaceCall(h)
  <2> USE <1>5 DEF PlaceCall
  <2>1. Token(h) \in Tokens
    BY DEF RequestsOK, CallingBack, HeldTypeOK
  <2>2. RequestsOK'
    BY GotoOK DEF CallingBack, heldVars
  <2> QED
    BY <2>1, <2>2, HeldKept, CarrierKept, LegPlacedOK
<1>6. CASE PlaceCallFails(h)
  <2> USE <1>6 DEF PlaceCallFails
  <2>1. Token(h) \in Tokens
    BY DEF RequestsOK, CallingBack, HeldTypeOK
  <2>2. RequestsOK'
    BY GotoOK DEF CallingBack, heldVars
  <2> QED
    BY <2>1, <2>2, HeldKept, CarrierKept, LegPlacedOK, LegsKept
<1>7. CASE Redial(h)
  <2> USE <1>7 DEF Redial
  <2>1. Token(h) \in Tokens
    BY DEF RequestsOK, CallingBack, HeldTypeOK
  <2>2. HeldTypeOK' /\ minted' = minted
    BY <2>1, RedialCallTyped DEF RedialCall
  <2>3. RequestsOK'
    BY <2>2, GotoOK DEF CallingBack
  <2> QED
    BY <2>2, <2>3, CarrierKept, LegsKept
<1>8. CASE CallBackReply(h)
  <2> USE <1>8 DEF CallBackReply
  <2>1. Call(h) \in Calls
    BY DEF RequestsOK
  <2>2. RequestsOK'
    BY DoneOK DEF heldVars
  <2>3. CarrierOK'
    BY <2>1 DEF CarrierOK
  <2> QED
    BY <2>2, <2>3, HeldKept, LegsKept
<1> QED
  BY <1>1, <1>2, <1>3, <1>4, <1>5, <1>6, <1>7, <1>8 DEF Step

\* A request is posted, and those it repeats are no longer heard.
LEMMA PostOK ==
  ASSUME RequestsOK, UNCHANGED minted, NEW h \in Handlers, NEW c \in Calls, NEW kind,
         NEW at \in {"open", "answered", "dial"}, NEW t \in Tokens \cup {None},
         Post(h, c, kind, at, t), at = "dial" => t \in minted
  PROVE  RequestsOK'
<1>1. \A g \in Handlers :
        LET r == [handler[g] EXCEPT !.heard = FALSE]
        IN  /\ r \in Request
            /\ r.at = handler[g].at /\ r.call = Call(g) /\ r.token = Token(g)
  BY DEF RequestsOK, Request, Call, Token
<1>2. [at |-> at, call |-> c, token |-> t, heard |-> TRUE] \in Request
  BY DEF Request, Answering, CallingBack
<1>3. \A g \in Handlers :
        /\ handler'[g] \in Request
        /\ \/ handler'[g] = [at |-> at, call |-> c, token |-> t, heard |-> TRUE]
           \/ /\ handler'[g].at = handler[g].at
              /\ handler'[g].call = Call(g) /\ handler'[g].token = Token(g)
  BY <1>1, <1>2 DEF Post, RequestsOK, Call, Token
<1>4. DOMAIN handler' = Handlers /\ handler' = [g \in Handlers |-> handler'[g]]
  BY DEF Post
<1>5. handler' \in [Handlers -> Request]
  BY <1>3, <1>4
<1>6. ASSUME NEW g \in Handlers
      PROVE  /\ handler'[g].at # "idle" => handler'[g].call \in Calls
             /\ handler'[g].at \in CallingBack => handler'[g].token \in minted'
  <2>1. CASE handler'[g] = [at |-> at, call |-> c, token |-> t, heard |-> TRUE]
    BY <2>1 DEF CallingBack
  <2>2. CASE /\ handler'[g].at = handler[g].at
             /\ handler'[g].call = Call(g) /\ handler'[g].token = Token(g)
    BY <2>2 DEF RequestsOK
  <2> QED
    BY <1>3, <2>1, <2>2
<1> QED
  BY <1>5, <1>6 DEF RequestsOK, Call, Token

LEMMA RequestTypeOK ==
  ASSUME TypeOK, NEW h \in Handlers, NEW c \in Calls, Ring(h, c) \/ CallBack(h, c)
  PROVE  TypeOK'
<1> USE DEF TypeOK
<1>1. CASE Ring(h, c)
  <2> USE <1>1 DEF Ring
  <2>1. byCall[c] \in Tokens \cup {None}
    BY DEF HeldTypeOK
  <2>2. RequestsOK'
    BY <2>1, PostOK DEF heldVars
  <2>3. CarrierOK'
    BY DEF CarrierOK
  <2> QED
    BY <2>2, <2>3, HeldKept, LegsKept
<1>2. CASE CallBack(h, c)
  <2> USE <1>2 DEF CallBack
  <2>1. conf[c] \in Tokens
    BY DEF CarrierOK
  <2>2. RequestsOK'
    BY <2>1, PostOK, KnownEntry DEF heldVars
  <2> QED
    BY <2>2, HeldKept, CarrierKept, LegsKept
<1> QED
  BY <1>1, <1>2

LEMMA LegTypeOK ==
  ASSUME TypeOK, NEW t \in Tokens, BridgeLeg(t) \/ RefuseLeg(t) \/ LegRingsOut(t)
  PROVE  TypeOK'
<1> USE DEF TypeOK
<1>1. CASE BridgeLeg(t)
  <2> USE <1>1 DEF BridgeLeg
  <2>1. HeldTypeOK' /\ minted' = minted
    BY BridgeCallTyped DEF Bridges, BridgeCall
  <2>2. LegsOK'
    BY LegGoneOK, LegsKept DEF legVars
  <2> QED
    BY <2>1, <2>2, RequestsKept, CarrierKept
<1>2. CASE RefuseLeg(t) \/ LegRingsOut(t)
  BY <1>2, HeldKept, RequestsKept, CarrierKept, LegGoneOK DEF RefuseLeg, LegRingsOut, heldVars
<1> QED
  BY <1>1, <1>2

LEMMA OutsideTypeOK ==
  ASSUME TypeOK, Crash \/ \E c \in Calls : CallerHangsUp(c) \/ HoldExpires(c)
  PROVE  TypeOK'
<1> USE DEF TypeOK
<1>1. CASE Crash
  <2>1. HeldTypeOK'
    BY <1>1, HeldLostTyped DEF Crash
  <2>2. Idle \in Request /\ Idle.at = "idle" /\ "idle" \notin CallingBack
    BY DEF Idle, Request, CallingBack
  <2>3. RequestsOK'
    BY <1>1, <2>2 DEF Crash, RequestsOK
  <2> QED
    BY <1>1, <2>1, <2>3, CarrierKept, LegsKept DEF Crash
<1>2. ASSUME NEW c \in Calls, CallerHangsUp(c) PROVE TypeOK'
  <2>1. CarrierOK'
    BY <1>2 DEF CallerHangsUp, CarrierOK
  <2> QED
    BY <1>2, <2>1, HeldKept, RequestsKept, LegsKept DEF CallerHangsUp, heldVars
<1>3. ASSUME NEW c \in Calls, HoldExpires(c) PROVE TypeOK'
  <2>1. HeldTypeOK' /\ minted' = minted
    BY <1>3, ExpireTyped DEF HoldExpires, Expire
  <2> QED
    BY <1>3, <2>1, RequestsKept, CarrierKept, LegsKept DEF HoldExpires
<1> QED
  BY <1>1, <1>2, <1>3

LEMMA NextTypeOK == TypeOK /\ [Next]_vars => TypeOK'
<1>1. TypeOK /\ Next => TypeOK'
  BY StepTypeOK, RequestTypeOK, LegTypeOK, OutsideTypeOK DEF Next
<1>2. TypeOK /\ UNCHANGED vars => TypeOK'
  BY HeldKept, RequestsKept, CarrierKept, LegsKept DEF TypeOK, vars, heldVars
<1> QED
  BY <1>1, <1>2

\* The table and the requests keep their types: what byCall leads to is the
\* entry of that call, entries have minted tokens, and a request that dials
\* back has one (held.go:39).
THEOREM TypeCorrect == Spec => []TypeOK
BY InitTypeOK, NextTypeOK, PTL DEF Spec

-----------------------------------------------------------------------------
(* The limit.                                                              *)

LEMMA WaitingFinite == IsFiniteSet(Waiting) /\ Cardinality(Waiting) \in Nat
BY HeldAssumption, FS_Subset, FS_CardinalityType DEF Waiting

\* A set that does not grow keeps within the limit.
LEMMA LimitKept ==
  ASSUME HoldLimit, Waiting' \subseteq Waiting
  PROVE  HoldLimit'
<1>1. IsFiniteSet(Waiting) /\ Cardinality(Waiting) \in Nat
  BY WaitingFinite
<1>2. Cardinality(Waiting') <= Cardinality(Waiting) /\ Cardinality(Waiting') \in Nat
  BY <1>1, FS_Subset, FS_CardinalityType
<1> QED
  BY <1>1, <1>2, HeldAssumption DEF HoldLimit

LEMMA HoldCallLimit ==
  ASSUME TypeOK, NEW c \in Calls, NEW t \in Tokens, HoldCall(c, t)
  PROVE  HoldLimit'
<1>1. IsFiniteSet(Waiting) /\ Cardinality(Waiting) \in Nat
  BY WaitingFinite
<1>2. Waiting' = Waiting \cup {c}
  BY HeldAssumption DEF Waiting, HoldCall, TypeOK, HeldTypeOK
<1>3. Cardinality(Waiting \cup {c}) \in {Cardinality(Waiting), Cardinality(Waiting) + 1}
  BY <1>1, FS_AddElement
<1>4. Cardinality(Waiting) < MaxHeld
  BY <1>1, HeldAssumption DEF HoldCall, Full
<1> QED
  BY <1>1, <1>2, <1>3, <1>4, HeldAssumption DEF HoldLimit

\* Only hold lets a call in.
LEMMA WaitingGrowsByHold ==
  ASSUME TypeOK, [Next]_vars
  PROVE  \/ \E c \in Calls, t \in Tokens : HoldCall(c, t)
         \/ Waiting' \subseteq Waiting
<1> USE DEF carrierVars, legVars, heldVars, Waiting
<1>1. ASSUME NEW h \in Handlers, Hold(h)
      PROVE  \/ \E c \in Calls, t \in Tokens : HoldCall(c, t)
             \/ Waiting' \subseteq Waiting
  <2>1. Call(h) \in Calls
    BY <1>1 DEF Hold, TypeOK, RequestsOK
  <2> QED
    BY <1>1, <2>1 DEF Hold
<1>2. ASSUME NEW h \in Handlers, Step(h), ~Hold(h) PROVE UNCHANGED byCall
  BY <1>2 DEF Step, OpenSession, Reply, Dial, DialCall, PlaceCall, PlaceCallFails,
     Redial, RedialCall, CallBackReply
<1>3. ASSUME NEW h \in Handlers, NEW c \in Calls, Ring(h, c) \/ CallBack(h, c)
      PROVE  UNCHANGED byCall
  BY <1>3 DEF Ring, CallBack
<1>4. ASSUME NEW t \in Tokens, BridgeLeg(t) \/ RefuseLeg(t) \/ LegRingsOut(t)
      PROVE  UNCHANGED byCall
  BY <1>4 DEF BridgeLeg, BridgeCall, RefuseLeg, LegRingsOut
<1>5. ASSUME NEW c \in Calls, CallerHangsUp(c) \/ HoldExpires(c)
      PROVE  Waiting' \subseteq Waiting
  BY <1>5 DEF CallerHangsUp, HoldExpires, Expire, TypeOK, HeldTypeOK
<1>6. CASE Crash
  BY <1>6 DEF Crash, HeldLost
<1>7. CASE UNCHANGED vars
  BY <1>7 DEF vars
<1> QED
  BY <1>1, <1>2, <1>3, <1>4, <1>5, <1>6, <1>7 DEF Next

\* No more than maxHeldCalls calls wait at a time (held.go:99).
THEOREM LimitHeld == Spec => []HoldLimit
<1>1. Init => HoldLimit
  <2> SUFFICES ASSUME Init PROVE HoldLimit
    OBVIOUS
  <2>1. Waiting = {}
    BY DEF Init, HeldInit, Waiting
  <2> QED
    BY <2>1, FS_EmptySet, HeldAssumption DEF HoldLimit
<1>2. TypeOK /\ HoldLimit /\ [Next]_vars => HoldLimit'
  BY WaitingGrowsByHold, HoldCallLimit, LimitKept
<1> QED
  BY <1>1, <1>2, TypeCorrect, PTL DEF Spec

-----------------------------------------------------------------------------
(* One leg is bridged.  A leg joins under a token that was minted, and the *)
(* entry of that token, as long as there is one, says that it is bridged.  *)
(* A token is never minted again, so the entry never starts afresh.        *)

JoinedIsBridged ==
  \A t \in Tokens : joined[t] = 1 => t \in minted /\ (Known(t) => byToken[t].bridged)

BridgedInv == BridgedOnce /\ JoinedIsBridged

\* What leaves joined alone and clears no entry's mark keeps the invariant.
LEMMA BridgedKept ==
  ASSUME TypeOK, BridgedInv, UNCHANGED joined, minted \subseteq minted',
         \A t \in minted : byToken'[t] # None => Known(t) /\ byToken'[t].bridged = byToken[t].bridged
  PROVE  BridgedInv'
BY DEF BridgedInv, BridgedOnce, JoinedIsBridged, Known

LEMMA StepBridged ==
  ASSUME TypeOK, BridgedInv, NEW h \in Handlers, Step(h)
  PROVE  BridgedInv'
<1> USE DEF carrierVars, legVars, heldVars, Call, Token, CallingBack
<1>1. CASE Hold(h)
  <2>1. CASE \E t \in Tokens : HoldCall(Call(h), t)
    <3>1. PICK t \in Tokens : HoldCall(Call(h), t)
      BY <2>1
    <3>2. /\ minted \subseteq minted'
          /\ \A u \in minted : u # t /\ byToken'[u] = byToken[u]
      BY <3>1 DEF HoldCall, TypeOK, HeldTypeOK
    <3> QED
      BY <1>1, <3>2, BridgedKept DEF Hold, Known
  <2>2. CASE UNCHANGED heldVars
    BY <1>1, <2>2, BridgedKept DEF Hold, Known
  <2> QED
    BY <1>1, <2>1, <2>2 DEF Hold
<1>2. CASE Dial(h)
  BY <1>2, BridgedKept DEF Dial, DialCall, Dials, Known, TypeOK, HeldTypeOK, HeldCall
<1>3. CASE Redial(h)
  BY <1>3, BridgedKept DEF Redial, RedialCall, Known, TypeOK, HeldTypeOK, HeldCall
<1>4. CASE OpenSession(h) \/ Reply(h) \/ PlaceCall(h) \/ PlaceCallFails(h) \/ CallBackReply(h)
  BY <1>4, BridgedKept
  DEF OpenSession, Reply, PlaceCall, PlaceCallFails, LegPlaced, CallBackReply, Known
<1> QED
  BY <1>1, <1>2, <1>3, <1>4 DEF Step

LEMMA BridgeLegBridged ==
  ASSUME TypeOK, BridgedInv, NEW t \in Tokens, BridgeLeg(t)
  PROVE  BridgedInv'
<1> USE HeldAssumption DEF carrierVars, legVars, heldVars
<1>1. t \in minted /\ joined[t] = 0
  <2>1. Known(t) /\ ~byToken[t].bridged /\ t \in minted
    BY KnownEntry DEF BridgeLeg, Bridges, TypeOK
  <2>2. joined[t] # 1 /\ joined[t] <= 1 /\ joined[t] \in Nat
    BY <2>1 DEF BridgedInv, BridgedOnce, JoinedIsBridged, TypeOK, LegsOK
  <2> QED
    BY <2>1, <2>2
<1>2. joined' = joined \/ joined' = [joined EXCEPT ![t] = @ + 1]
  BY DEF BridgeLeg
<1>3. /\ minted' = minted
      /\ byToken'[t].bridged
      /\ \A u \in Tokens \ {t} : byToken'[u] = byToken[u]
  BY DEF BridgeLeg, BridgeCall, Bridges, Known, TypeOK, HeldTypeOK, HeldCall
<1>4. \A u \in Tokens \ {t} : joined'[u] = joined[u]
  BY <1>2 DEF TypeOK, LegsOK
<1>5. joined'[t] \in {0, 1}
  BY <1>1, <1>2 DEF TypeOK, LegsOK
<1>6. BridgedOnce'
  BY <1>4, <1>5 DEF BridgedInv, BridgedOnce
<1>7. JoinedIsBridged'
  BY <1>1, <1>3, <1>4 DEF BridgedInv, JoinedIsBridged, Known
<1> QED
  BY <1>6, <1>7 DEF BridgedInv

LEMMA NextBridged == TypeOK /\ BridgedInv /\ [Next]_vars => BridgedInv'
<1> SUFFICES ASSUME TypeOK, BridgedInv, [Next]_vars PROVE BridgedInv'
  OBVIOUS
<1> USE DEF carrierVars, legVars, heldVars
<1>1. ASSUME NEW h \in Handlers, NEW c \in Calls, Ring(h, c) \/ CallBack(h, c)
      PROVE  BridgedInv'
  BY <1>1, BridgedKept DEF Ring, CallBack, Known
<1>2. ASSUME NEW t \in Tokens, RefuseLeg(t) \/ LegRingsOut(t) PROVE BridgedInv'
  BY <1>2, BridgedKept DEF RefuseLeg, LegRingsOut, Known
<1>3. ASSUME NEW c \in Calls, CallerHangsUp(c) PROVE BridgedInv'
  BY <1>3, BridgedKept DEF CallerHangsUp, Known
<1>4. ASSUME NEW c \in Calls, HoldExpires(c) PROVE BridgedInv'
  BY <1>4, BridgedKept DEF HoldExpires, Expire, Known, TypeOK, HeldTypeOK
<1>5. CASE Crash
  BY <1>5, BridgedKept DEF Crash, HeldLost, Known, TypeOK, HeldTypeOK
<1>6. CASE UNCHANGED vars
  BY <1>6, BridgedKept DEF vars, Known
<1> QED
  BY <1>1, <1>2, <1>3, <1>4, <1>5, <1>6, StepBridged, BridgeLegBridged DEF Next

\* At most one leg is bridged under a token, whatever is lost, repeated or
\* misreported (held.go:132).
THEOREM OneLegBridged == Spec => []BridgedOnce
<1>1. Init => BridgedInv
  BY DEF Init, BridgedInv, BridgedOnce, JoinedIsBridged
<1>2. BridgedInv => BridgedOnce
  BY DEF BridgedInv
<1> QED
  BY <1>1, <1>2, NextBridged, TypeCorrect, PTL DEF Spec

\* Both, for any number of calls, tokens and handlers, and any limit.
THEOREM LimitAndLegs == Spec => []HeldInv
<1>1. HoldLimit /\ BridgedOnce => HeldInv
  BY DEF HeldInv
<1> QED
  BY <1>1, LimitHeld, OneLegBridged, PTL

-----------------------------------------------------------------------------
(* A carrier that repeats a request only after it was answered has one     *)
(* answer under way for a call, so answered and hold, which are apart in   *)
(* answerCall, never let another answer of the same call between them.     *)

At(h) == handler[h].at

AloneInv ==
  /\ EveryEntryExpires
  /\ \A h \in Handlers : At(h) # "idle" => handler[h].heard
  /\ \A h, g \in Handlers :
       At(h) \in Answering /\ At(g) \in Answering /\ Call(h) = Call(g) => h = g
  /\ \A h \in Handlers : At(h) \in {"open", "hold"} => byCall[Call(h)] = None

\* A request stays where it is, ends, or moves on without a new call to hold.
MovesOn(h) ==
  \/ handler'[h] = handler[h]
  \/ At(h)' = "idle"
  \/ /\ At(h) # "idle" /\ Call(h)' = Call(h) /\ handler'[h].heard = handler[h].heard
     /\ At(h)' \in Answering => At(h) \in Answering
     /\ At(h)' \in {"open", "hold"} => At(h) \in {"open", "hold"}

LEMMA MovedAlone ==
  ASSUME AloneInv, EveryEntryExpires', \A h \in Handlers : MovesOn(h),
         \A h \in Handlers : At(h)' \in {"open", "hold"} => byCall'[Call(h)] = byCall[Call(h)]
                                                        \/ byCall'[Call(h)] = None
  PROVE  AloneInv'
<1>1. \A h \in Handlers : At(h)' # "idle" => handler'[h].heard
  BY DEF AloneInv, MovesOn, At
<1>2. \A h \in Handlers : At(h)' \in Answering => At(h) \in Answering /\ Call(h)' = Call(h)
  BY DEF MovesOn, At, Answering, Call
<1>3. \A h \in Handlers : At(h)' \in {"open", "hold"}
        => At(h) \in {"open", "hold"} /\ Call(h)' = Call(h)
  BY DEF MovesOn, At, Call
<1> QED
  BY <1>1, <1>2, <1>3 DEF AloneInv

\* Entries go, or change their marks.
LEMMA EntriesKept ==
  ASSUME EveryEntryExpires, UNCHANGED byCall,
         \A t \in Tokens : byToken'[t] # None => byToken[t] # None /\ byToken'[t].call = byToken[t].call
  PROVE  EveryEntryExpires'
BY DEF EveryEntryExpires

LEMMA GotoMoves ==
  ASSUME RequestsOK, NEW h \in Handlers, At(h) # "idle", NEW at,
         Goto(h, at),
         \/ at \notin Answering
         \/ at = "hold" /\ At(h) = "open"
  PROVE  \A g \in Handlers : MovesOn(g)
<1>1. /\ handler'[h].at = at
      /\ handler'[h].call = handler[h].call /\ handler'[h].heard = handler[h].heard
  BY DEF Goto, RequestsOK, Request
<1>2. \A g \in Handlers \ {h} : handler'[g] = handler[g]
  BY DEF Goto, RequestsOK
<1>3. MovesOn(h)
  BY <1>1 DEF MovesOn, At, Call, Answering
<1> QED
  BY <1>2, <1>3 DEF MovesOn

LEMMA AnswerWithMoves ==
  ASSUME RequestsOK, NEW h \in Handlers, At(h) \in Answering, NEW t, AnswerWith(h, t)
  PROVE  (\A g \in Handlers : MovesOn(g)) /\ At(h)' = "answered"
<1>1. /\ handler'[h].at = "answered"
      /\ handler'[h].call = handler[h].call /\ handler'[h].heard = handler[h].heard
  BY DEF AnswerWith, RequestsOK, Request
<1>2. \A g \in Handlers \ {h} : handler'[g] = handler[g]
  BY DEF AnswerWith, RequestsOK
<1>3. MovesOn(h)
  BY <1>1 DEF MovesOn, At, Call, Answering
<1> QED
  BY <1>1, <1>2, <1>3 DEF MovesOn, At

LEMMA DoneMoves ==
  ASSUME RequestsOK, NEW h \in Handlers, Done(h)
  PROVE  \A g \in Handlers : MovesOn(g)
BY DEF Done, Idle, RequestsOK, MovesOn, At

LEMMA HoldAlone ==
  ASSUME TypeOK, AloneInv, NEW h \in Handlers, Hold(h)
  PROVE  AloneInv'
<1> USE DEF Hold, TypeOK
<1>1. At(h) = "hold" /\ Call(h) \in Calls /\ byCall[Call(h)] = None
  BY DEF RequestsOK, AloneInv, At
<1>2. CASE UNCHANGED heldVars
  <2>1. (\A g \in Handlers : MovesOn(g)) /\ UNCHANGED <<byCall, byToken>>
    BY <1>1, <1>2, AnswerWithMoves DEF heldVars, Answering
  <2> QED
    BY <2>1, EntriesKept, MovedAlone DEF AloneInv
<1>3. ASSUME NEW t \in Tokens, HoldCall(Call(h), t), AnswerWith(h, t)
      PROVE  AloneInv'
  <2>1. (\A g \in Handlers : MovesOn(g)) /\ At(h)' = "answered"
    BY <1>1, <1>3, AnswerWithMoves DEF Answering
  <2>2. EveryEntryExpires'
    <3> SUFFICES ASSUME NEW u \in Tokens, byToken'[u] # None
                 PROVE  byCall'[byToken'[u].call] = u
      BY DEF EveryEntryExpires
    <3>1. CASE u = t
      BY <1>1, <1>3, <3>1 DEF HoldCall, HeldTypeOK
    <3>2. CASE u # t
      <4>1. byToken'[u] = byToken[u] /\ byToken[u] # None
        BY <1>3, <3>2 DEF HoldCall, HeldTypeOK
      <4>2. byCall[byToken[u].call] = u /\ byToken[u].call # Call(h)
        BY <1>1, <4>1, HeldAssumption DEF AloneInv, EveryEntryExpires
      <4> QED
        BY <1>3, <4>1, <4>2, KnownEntry DEF HoldCall, HeldTypeOK, Known
    <3> QED
      BY <3>1, <3>2
  <2>3. ASSUME NEW g \in Handlers, At(g)' \in {"open", "hold"}
        PROVE  byCall'[Call(g)] = byCall[Call(g)]
    <3>1. g # h /\ At(g) \in {"open", "hold"}
      BY <2>1, <2>3 DEF MovesOn, At
    <3>2. Call(g) # Call(h) /\ Call(g) \in Calls
      BY <1>1, <3>1 DEF AloneInv, Answering, RequestsOK, At
    <3> QED
      BY <1>3, <3>2 DEF HoldCall, HeldTypeOK
  <2> QED
    BY <2>1, <2>2, <2>3, MovedAlone
<1> QED
  BY <1>2, <1>3

LEMMA StepAlone ==
  ASSUME TypeOK, AloneInv, NEW h \in Handlers, Step(h)
  PROVE  AloneInv'
<1> USE DEF TypeOK
<1>1. CASE Hold(h)
  BY <1>1, HoldAlone
<1>2. ASSUME ~Hold(h) PROVE \A g \in Handlers : MovesOn(g)
  BY <1>2, GotoMoves, AnswerWithMoves, DoneMoves
  DEF Step, OpenSession, Reply, Dial, PlaceCall, PlaceCallFails, Redial,
      CallBackReply, At, Answering
<1>3. ASSUME ~Hold(h)
      PROVE  /\ UNCHANGED byCall
             /\ \A t \in Tokens :
                  byToken'[t] # None => byToken[t] # None /\ byToken'[t].call = byToken[t].call
  <2>1. CASE Dial(h)
    BY <2>1 DEF Dial, DialCall, Dials, Known, HeldTypeOK, HeldCall, heldVars
  <2>2. CASE Redial(h)
    BY <2>2 DEF Redial, RedialCall, Known, HeldTypeOK, HeldCall
  <2>3. CASE UNCHANGED <<byCall, byToken>>
    BY <2>3
  <2> QED
    BY <1>3, <2>1, <2>2, <2>3
    DEF Step, OpenSession, Reply, PlaceCall, PlaceCallFails, CallBackReply, heldVars
<1>4. CASE ~Hold(h)
  BY <1>2, <1>3, <1>4, EntriesKept, MovedAlone DEF AloneInv
<1> QED
  BY <1>1, <1>4

LEMMA RequestAlone ==
  ASSUME ~Overlap, TypeOK, AloneInv, NEW h \in Handlers, NEW c \in Calls,
         Ring(h, c) \/ CallBack(h, c)
  PROVE  AloneInv'
<1> USE DEF TypeOK
<1>1. UNCHANGED <<byCall, byToken>>
  BY DEF Ring, CallBack, heldVars
<1>2. EveryEntryExpires'
  BY <1>1, EntriesKept DEF AloneInv
<1>3. CASE Ring(h, c)
  <2>1. PICK at, t :
          /\ Post(h, c, Answering, at, t)
          /\ at = "open" => byCall[c] = None
          /\ at \in {"open", "answered"}
    BY <1>3 DEF Ring, Answered
  <2>2. Served(c, Answering) = {}
    BY <2>1 DEF Post
  <2>3. \A g \in Handlers \ {h} : handler'[g] = handler[g]
    BY <2>1, <2>2 DEF Post
  <2>4. At(h)' = at /\ Call(h)' = c /\ handler'[h].heard
    BY <2>1 DEF Post, At, Call
  <2>5. \A g \in Handlers : At(g) \in Answering => Call(g) # c
    BY <2>2 DEF Served, AloneInv, At, Answering
  <2>6. \A g \in Handlers : At(g)' # "idle" => handler'[g].heard
    BY <2>3, <2>4 DEF AloneInv, At
  <2>7. \A f, g \in Handlers :
          At(f)' \in Answering /\ At(g)' \in Answering /\ Call(f)' = Call(g)' => f = g
    BY <2>3, <2>4, <2>5 DEF AloneInv, At, Call
  <2>8. \A g \in Handlers : At(g)' \in {"open", "hold"} => byCall'[Call(g)'] = None
    BY <1>1, <2>1, <2>3, <2>4 DEF AloneInv, At, Call
  <2> QED
    BY <1>2, <2>6, <2>7, <2>8 DEF AloneInv
<1>4. CASE CallBack(h, c)
  <2>1. Post(h, c, CallingBack, "dial", conf[c])
    BY <1>4 DEF CallBack
  <2>2. \A g \in Handlers \ {h} : handler'[g] = handler[g]
    BY <2>1 DEF Post
  <2>3. At(h)' = "dial" /\ handler'[h].heard
    BY <2>1 DEF Post, At
  <2>4. \A g \in Handlers : At(g)' # "idle" => handler'[g].heard
    BY <2>2, <2>3 DEF AloneInv, At
  <2>5. \A g \in Handlers : At(g)' \in Answering => handler'[g] = handler[g]
    BY <2>2, <2>3 DEF Answering
  <2>6. \A f, g \in Handlers :
          At(f)' \in Answering /\ At(g)' \in Answering /\ Call(f)' = Call(g)' => f = g
    BY <2>5 DEF AloneInv, At, Call
  <2>7. \A g \in Handlers : At(g)' \in {"open", "hold"} => byCall'[Call(g)'] = None
    BY <1>1, <2>5 DEF AloneInv, At, Call, Answering
  <2> QED
    BY <1>2, <2>4, <2>6, <2>7 DEF AloneInv
<1> QED
  BY <1>3, <1>4

LEMMA NextAlone == ~Overlap /\ TypeOK /\ AloneInv /\ [Next]_vars => AloneInv'
<1> SUFFICES ASSUME ~Overlap, TypeOK, AloneInv, [Next]_vars PROVE AloneInv'
  OBVIOUS
<1> USE DEF TypeOK
<1>1. ASSUME UNCHANGED <<handler, byCall>>,
             \A t \in Tokens :
               byToken'[t] # None => byToken[t] # None /\ byToken'[t].call = byToken[t].call
      PROVE  AloneInv'
  BY <1>1, EntriesKept DEF AloneInv, At, Call
<1>2. ASSUME NEW t \in Tokens, BridgeLeg(t) \/ RefuseLeg(t) \/ LegRingsOut(t)
      PROVE  AloneInv'
  <2>1. CASE BridgeLeg(t)
    BY <1>1, <2>1 DEF BridgeLeg, BridgeCall, Bridges, Known, HeldTypeOK, HeldCall
  <2>2. CASE RefuseLeg(t) \/ LegRingsOut(t)
    BY <1>1, <2>2 DEF RefuseLeg, LegRingsOut, heldVars
  <2> QED
    BY <1>2, <2>1, <2>2
<1>3. ASSUME NEW c \in Calls, CallerHangsUp(c) PROVE AloneInv'
  BY <1>1, <1>3 DEF CallerHangsUp, heldVars
<1>4. ASSUME NEW c \in Calls, HoldExpires(c) PROVE AloneInv'
  <2>1. /\ byCall' = [byCall EXCEPT ![c] = None]
        /\ byToken' = [byToken EXCEPT ![byCall[c]] = None]
        /\ UNCHANGED handler
    BY <1>4 DEF HoldExpires, Expire
  <2>2. EveryEntryExpires'
    BY <2>1, KnownEntry DEF AloneInv, EveryEntryExpires, HeldTypeOK, Known
  <2>3. \A d \in Calls : byCall'[d] \in {byCall[d], None}
    BY <2>1 DEF HeldTypeOK
  <2>4. \A h \in Handlers : At(h) \in {"open", "hold"} => byCall'[Call(h)] = None
    BY <2>3 DEF AloneInv, RequestsOK, At
  <2> QED
    BY <2>1, <2>2, <2>4 DEF AloneInv, At, Call
<1>5. CASE Crash
  BY <1>5 DEF Crash, HeldLost, AloneInv, EveryEntryExpires, At, Call, Idle, Answering
<1>6. CASE UNCHANGED vars
  BY <1>1, <1>6 DEF vars, heldVars
<1> QED
  BY <1>2, <1>3, <1>4, <1>5, <1>6, StepAlone, RequestAlone DEF Next

\* Every entry of byToken is one prune finds through byCall (held.go:58), if
\* the carrier never repeats a request that is still being served.
THEOREM EntriesExpire ==
  ASSUME ~Overlap
  PROVE  Spec => []EveryEntryExpires
<1>1. Init => AloneInv
  BY DEF Init, HeldInit, Idle, AloneInv, EveryEntryExpires, At, Call, Answering
<1>2. TypeOK /\ AloneInv /\ [Next]_vars => AloneInv'
  BY NextAlone
<1>3. AloneInv => EveryEntryExpires
  BY DEF AloneInv
<1> QED
  BY <1>1, <1>2, <1>3, TypeCorrect, PTL DEF Spec
===============================================================================
