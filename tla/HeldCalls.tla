------------------------------ MODULE HeldCalls ------------------------------
(***************************************************************************)
(* The table of callers that wait to be dialed back                        *)
(* (go/internal/control/held.go), by the carrier's call id and by the      *)
(* token minted for the call.  Every operator below is one method of       *)
(* heldCalls, run under its mutex.  Both maps point at one value per       *)
(* token, so what is written through one is read through the other; but    *)
(* holding a call twice leaves the first token in byToken alone, where     *)
(* nothing prunes it.                                                      *)
(*                                                                         *)
(* Every method that reads prunes first, so an entry that expires is gone  *)
(* at once for all of them; redial, which does not prune, can only write   *)
(* to an entry nobody will read.                                           *)
(***************************************************************************)
EXTENDS Naturals, FiniteSets

CONSTANTS
  Calls,     \* the carrier's ids of calls
  Tokens,    \* bridge tokens, minted at random and never twice
  None,      \* no token, no entry
  MaxHeld    \* maxHeldCalls

HeldCall == [call : Calls, dialed : BOOLEAN, bridged : BOOLEAN]

ASSUME HeldAssumption ==
  /\ None \notin Calls \cup Tokens \cup HeldCall
  /\ MaxHeld \in Nat \ {0}
  /\ IsFiniteSet(Calls)

VARIABLES
  byCall,    \* byCall[c]: the token of the entry c is held under
  byToken,   \* byToken[t]: the entry of token t
  minted     \* tokens that were ever minted

heldVars == <<byCall, byToken, minted>>

HeldInit ==
  /\ byCall = [c \in Calls |-> None]
  /\ byToken = [t \in Tokens |-> None]
  /\ minted = {}

\* byCall leads to the entry of its call, and every entry has a minted token.
HeldTypeOK ==
  /\ byCall \in [Calls -> Tokens \cup {None}]
  /\ byToken \in [Tokens -> HeldCall \cup {None}]
  /\ minted \subseteq Tokens
  /\ \A c \in Calls : byCall[c] # None =>
       byToken[byCall[c]] # None /\ byToken[byCall[c]].call = c
  /\ \A t \in Tokens : byToken[t] # None => t \in minted

Waiting == {c \in Calls : byCall[c] # None}

\* heldCalls.answered
Answered(c) == byCall[c] # None

\* heldCalls.hold refuses a call that is one too many.
Full == Cardinality(Waiting) >= MaxHeld

\* heldCalls.hold, with a token mintBridgeToken has just made.
HoldCall(c, t) ==
  /\ ~Full
  /\ t \notin minted
  /\ byCall' = [byCall EXCEPT ![c] = t]
  /\ byToken' = [byToken EXCEPT ![t] = [call |-> c, dialed |-> FALSE, bridged |-> FALSE]]
  /\ minted' = minted \cup {t}

\* heldCalls.known
Known(t) == byToken[t] # None

\* heldCalls.dial takes the callback of the held caller alone, and once.
Dials(t, c) == Known(t) /\ byToken[t].call = c /\ ~byToken[t].dialed

DialCall(t) ==
  /\ byToken' = [byToken EXCEPT ![t].dialed = TRUE]
  /\ UNCHANGED <<byCall, minted>>

\* Mutated form: a dial-back that failed is not forgotten.
RedialForgets(t) == UNCHANGED heldVars

\* heldCalls.redial
RedialCall(t) ==
  /\ byToken' = IF Known(t) THEN [byToken EXCEPT ![t].dialed = FALSE] ELSE byToken
  /\ UNCHANGED <<byCall, minted>>

\* Mutated form: a second leg is let into the conference.
BridgesAgain(t) == Known(t) /\ byToken[t].dialed

\* heldCalls.bridge takes one leg of a call that was dialed.
Bridges(t) == Known(t) /\ byToken[t].dialed /\ ~byToken[t].bridged

BridgeCall(t) ==
  /\ byToken' = [byToken EXCEPT ![t].bridged = TRUE]
  /\ UNCHANGED <<byCall, minted>>

\* Mutated form: the token of the call is not forgotten with it.
ExpireCall(c) ==
  /\ byCall[c] # None
  /\ byCall' = [byCall EXCEPT ![c] = None]
  /\ UNCHANGED <<byToken, minted>>

\* holdLifetime has passed: heldCalls.prune walks byCall.
Expire(c) ==
  /\ byCall[c] # None
  /\ byCall' = [byCall EXCEPT ![c] = None]
  /\ byToken' = [byToken EXCEPT ![byCall[c]] = None]
  /\ UNCHANGED minted

\* A restart of the process loses the table.
HeldLost ==
  /\ byCall' = [c \in Calls |-> None]
  /\ byToken' = [t \in Tokens |-> None]
  /\ UNCHANGED minted
===============================================================================
