-------------------------- MODULE HeldCallsProofs ---------------------------
(***************************************************************************)
(* Every operation on the table of held calls keeps it consistent          *)
(* (HeldTypeOK), whoever uses it: InboundCalls and DialIn rest on these.   *)
(***************************************************************************)
EXTENDS HeldCalls, TLAPS

\* Writing an entry anew, or one there is, keeps the table consistent.
LEMMA EntryWritten ==
  ASSUME HeldTypeOK, NEW c \in Calls, NEW t \in Tokens, NEW e \in HeldCall, e.call = c,
         byToken' = [byToken EXCEPT ![t] = e],
         \/ t \notin minted /\ minted' = minted \cup {t} /\ byCall' = [byCall EXCEPT ![c] = t]
         \/ Known(t) /\ byToken[t].call = c /\ UNCHANGED <<byCall, minted>>
  PROVE  HeldTypeOK'
<1>1. e # None
  BY HeldAssumption
<1>2. byToken' \in [Tokens -> HeldCall \cup {None}]
  BY DEF HeldTypeOK
<1>3. byCall' \in [Calls -> Tokens \cup {None}] /\ minted' \subseteq Tokens
  BY DEF HeldTypeOK
<1>4. \A d \in Calls : byCall'[d] # None =>
        byToken'[byCall'[d]] # None /\ byToken'[byCall'[d]].call = d
  BY <1>1 DEF HeldTypeOK, Known
<1>5. \A u \in Tokens : byToken'[u] # None => u \in minted'
  BY <1>1 DEF HeldTypeOK, Known
<1> QED
  BY <1>2, <1>3, <1>4, <1>5 DEF HeldTypeOK

LEMMA HoldCallTyped ==
  ASSUME HeldTypeOK, NEW c \in Calls, NEW t \in Tokens, HoldCall(c, t)
  PROVE  HeldTypeOK'
<1> DEFINE e == [call |-> c, dialed |-> FALSE, bridged |-> FALSE]
<1>1. e \in HeldCall /\ e.call = c
  BY DEF HeldCall
<1>2. /\ byToken' = [byToken EXCEPT ![t] = e]
      /\ t \notin minted /\ minted' = minted \cup {t} /\ byCall' = [byCall EXCEPT ![c] = t]
  BY DEF HoldCall
<1> HIDE DEF e
<1> QED
  BY <1>1, <1>2, EntryWritten

LEMMA KnownEntry ==
  ASSUME HeldTypeOK, NEW t \in Tokens, Known(t)
  PROVE  byToken[t] \in HeldCall /\ byToken[t].call \in Calls /\ t \in minted
BY DEF HeldTypeOK, Known, HeldCall

LEMMA DialCallTyped ==
  ASSUME HeldTypeOK, NEW t \in Tokens, Known(t), DialCall(t)
  PROVE  HeldTypeOK'
<1> DEFINE e == [byToken[t] EXCEPT !.dialed = TRUE]
<1>1. e \in HeldCall /\ e.call = byToken[t].call
  BY KnownEntry DEF HeldCall
<1>2. byToken' = [byToken EXCEPT ![t] = e] /\ UNCHANGED <<byCall, minted>>
  BY DEF DialCall
<1> HIDE DEF e
<1> QED
  BY <1>1, <1>2, EntryWritten, KnownEntry

LEMMA RedialCallTyped ==
  ASSUME HeldTypeOK, NEW t \in Tokens, RedialCall(t)
  PROVE  HeldTypeOK'
<1>1. CASE ~Known(t)
  BY <1>1 DEF RedialCall, HeldTypeOK
<1>2. CASE Known(t)
  <2> DEFINE e == [byToken[t] EXCEPT !.dialed = FALSE]
  <2>1. e \in HeldCall /\ e.call = byToken[t].call
    BY <1>2, KnownEntry DEF HeldCall
  <2>2. byToken' = [byToken EXCEPT ![t] = e] /\ UNCHANGED <<byCall, minted>>
    BY <1>2 DEF RedialCall
  <2> HIDE DEF e
  <2> QED
    BY <1>2, <2>1, <2>2, EntryWritten, KnownEntry
<1> QED
  BY <1>1, <1>2

LEMMA BridgeCallTyped ==
  ASSUME HeldTypeOK, NEW t \in Tokens, Known(t), BridgeCall(t)
  PROVE  HeldTypeOK'
<1> DEFINE e == [byToken[t] EXCEPT !.bridged = TRUE]
<1>1. e \in HeldCall /\ e.call = byToken[t].call
  BY KnownEntry DEF HeldCall
<1>2. byToken' = [byToken EXCEPT ![t] = e] /\ UNCHANGED <<byCall, minted>>
  BY DEF BridgeCall
<1> HIDE DEF e
<1> QED
  BY <1>1, <1>2, EntryWritten, KnownEntry

LEMMA ExpireTyped ==
  ASSUME HeldTypeOK, NEW c \in Calls, Expire(c)
  PROVE  HeldTypeOK'
BY HeldAssumption DEF HeldTypeOK, Expire, HeldCall

LEMMA HeldLostTyped ==
  ASSUME HeldTypeOK, HeldLost
  PROVE  HeldTypeOK'
BY HeldAssumption DEF HeldTypeOK, HeldLost
=============================================================================
