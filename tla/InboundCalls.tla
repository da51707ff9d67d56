---------------------------- MODULE InboundCalls ----------------------------
(***************************************************************************)
(* A phone call reaches the agent in three webhooks of the carrier         *)
(* (go/internal/control/inbound.go): the answer opens a session and puts   *)
(* the caller on hold in a conference; the conference's "enter" callback   *)
(* has the media server dial back into the carrier; the leg that arrives   *)
(* there is bridged into the conference of the token it carries.           *)
(*                                                                         *)
(* One handler is one HTTP request.  The carrier repeats a request that    *)
(* failed or went unanswered.  It gives up on the one it repeats, so an    *)
(* answer to that one is no longer heard.                                  *)
(***************************************************************************)
EXTENDS HeldCalls

CONSTANTS
  Handlers,    \* requests being served at once
  MaxAnswers,  \* bound: answer webhooks the carrier posts for one call
  MaxLegs,     \* bound: legs a failing PlaceCall leaves behind for one token
  MaxCrashes,  \* bound: restarts of the process
  Lossy,       \* a response may get lost
  Overlap,     \* the carrier may repeat a request that is still being served
  Faults,      \* openSession and PlaceCall may fail
  Ambiguous    \* a PlaceCall that fails may have placed the leg

ASSUME InboundAssumption ==
  /\ {MaxAnswers, MaxLegs, MaxCrashes} \subseteq Nat
  /\ {Lossy, Overlap, Faults, Ambiguous} \subseteq BOOLEAN

VARIABLES
  handler,   \* handler[h]: where request h is
  opened,    \* opened[c]: sessions opened for the call
  caller,    \* caller[c]: the carrier's side of the call
  conf,      \* conf[c]: the conference, named by its token, the caller is in
  due,       \* due[c]: the carrier has the caller's "enter" still to deliver
  answers,   \* answers[c]: answer webhooks posted for the call
  placed,    \* placed[t]: legs dialed with the token
  ringing,   \* ringing[t]: those the carrier has not asked or heard about
  joined,    \* joined[t]: those let into the conference
  crashes

carrierVars == <<caller, conf, due, answers>>
legVars == <<placed, ringing, joined>>
vars == <<heldVars, handler, opened, carrierVars, legVars, crashes>>

Idle == [at |-> "idle", call |-> None, token |-> None, heard |-> FALSE]

Answering == {"open", "hold", "answered"}
CallingBack == {"dial", "place", "redial", "ok", "failed"}

Request == [at : {"idle"} \cup Answering \cup CallingBack, call : Calls \cup {None},
            token : Tokens \cup {None}, heard : BOOLEAN]

Init ==
  /\ HeldInit
  /\ handler = [h \in Handlers |-> Idle]
  /\ opened = [c \in Calls |-> 0]
  /\ caller = [c \in Calls |-> "new"]
  /\ conf = [c \in Calls |-> None]
  /\ due = [c \in Calls |-> FALSE]
  /\ answers = [c \in Calls |-> 0]
  /\ placed = [t \in Tokens |-> 0]
  /\ ringing = [t \in Tokens |-> 0]
  /\ joined = [t \in Tokens |-> 0]
  /\ crashes = 0

Call(h) == handler[h].call
Token(h) == handler[h].token

\* The requests of one kind that are being served for a call, and the carrier
\* still listens to.
Served(c, kind) == {h \in Handlers : Call(h) = c /\ handler[h].at \in kind /\ handler[h].heard}

\* The carrier posts a request; it hears no answer to the one it repeats.
Post(h, c, kind, at, t) ==
  /\ handler[h] = Idle
  /\ Overlap \/ Served(c, kind) = {}
  /\ handler' = [g \in Handlers |->
       IF g = h THEN [at |-> at, call |-> c, token |-> t, heard |-> TRUE]
       ELSE IF g \in Served(c, kind) THEN [handler[g] EXCEPT !.heard = FALSE]
       ELSE handler[g]]

Goto(h, at) == handler' = [handler EXCEPT ![h].at = at]
AnswerWith(h, t) == handler' = [handler EXCEPT ![h].at = "answered", ![h].token = t]
Done(h) == handler' = [handler EXCEPT ![h] = Idle]

-----------------------------------------------------------------------------
(* answerCall: the token of the Hold it answers with, None for a Hangup.   *)

\* A call held already is answered again with its own token.
Ring(h, c) ==
  /\ caller[c] \in {"new", "ringing"}
  /\ answers[c] < MaxAnswers
  /\ IF Answered(c) THEN Post(h, c, Answering, "answered", byCall[c])
                    ELSE Post(h, c, Answering, "open", None)
  /\ caller' = [caller EXCEPT ![c] = "ringing"]
  /\ answers' = [answers EXCEPT ![c] = @ + 1]
  /\ UNCHANGED <<heldVars, opened, conf, due, legVars, crashes>>

OpenSession(h) ==
  /\ handler[h].at = "open"
  /\ \/ /\ Goto(h, "hold")
        /\ opened' = [opened EXCEPT ![Call(h)] = @ + 1]
     \/ /\ Faults
        /\ AnswerWith(h, None)
        /\ UNCHANGED opened
  /\ UNCHANGED <<heldVars, carrierVars, legVars, crashes>>

\* Ids and tokens are random, which may fail as any call may.
Hold(h) ==
  /\ handler[h].at = "hold"
  /\ \/ \E t \in Tokens : HoldCall(Call(h), t) /\ AnswerWith(h, t)
     \/ (Full \/ Faults) /\ AnswerWith(h, None) /\ UNCHANGED heldVars
  /\ UNCHANGED <<opened, carrierVars, legVars, crashes>>

\* The answer reaches the carrier, which enters the caller into the conference
\* or hangs up; or it is lost, or nobody waits for it any more.
Reply(h) ==
  /\ handler[h].at = "answered"
  /\ Done(h)
  /\ \/ /\ handler[h].heard /\ caller[Call(h)] = "ringing"
        /\ caller' = [caller EXCEPT ![Call(h)] = IF Token(h) = None THEN "over" ELSE "held"]
        /\ conf' = [conf EXCEPT ![Call(h)] = Token(h)]
        /\ due' = [due EXCEPT ![Call(h)] = Token(h) # None]
     \/ /\ Lossy \/ ~handler[h].heard \/ caller[Call(h)] # "ringing"
        /\ UNCHANGED <<caller, conf, due>>
  /\ UNCHANGED <<heldVars, opened, answers, legVars, crashes>>

-----------------------------------------------------------------------------
(* callHeld.  Under a token nobody knows it answers 403 and does nothing;  *)
(* the carrier goes on repeating the callback, so that is no step.         *)

CallBack(h, c) ==
  /\ due[c] /\ Known(conf[c])
  /\ Post(h, c, CallingBack, "dial", conf[c])
  /\ UNCHANGED <<heldVars, opened, carrierVars, legVars, crashes>>

Dial(h) ==
  /\ handler[h].at = "dial"
  /\ \/ Dials(Token(h), Call(h)) /\ DialCall(Token(h)) /\ Goto(h, "place")
     \/ ~Dials(Token(h), Call(h)) /\ UNCHANGED heldVars /\ Goto(h, "ok")
  /\ UNCHANGED <<opened, carrierVars, legVars, crashes>>

LegPlaced(t) ==
  /\ placed' = [placed EXCEPT ![t] = @ + 1]
  /\ ringing' = [ringing EXCEPT ![t] = @ + 1]
  /\ UNCHANGED joined

PlaceCall(h) ==
  /\ handler[h].at = "place"
  /\ LegPlaced(Token(h))
  /\ Goto(h, "ok")
  /\ UNCHANGED <<heldVars, opened, carrierVars, crashes>>

PlaceCallFails(h) ==
  /\ Faults
  /\ handler[h].at = "place"
  /\ \/ UNCHANGED legVars
     \/ Ambiguous /\ placed[Token(h)] < MaxLegs /\ LegPlaced(Token(h))
  /\ Goto(h, "redial")
  /\ UNCHANGED <<heldVars, opened, carrierVars, crashes>>

Redial(h) ==
  /\ handler[h].at = "redial"
  /\ RedialCall(Token(h))
  /\ Goto(h, "failed")
  /\ UNCHANGED <<opened, carrierVars, legVars, crashes>>

\* 200 settles the callback; 503, or a response that is lost, has it repeated.
CallBackReply(h) ==
  /\ handler[h].at \in {"ok", "failed"}
  /\ Done(h)
  /\ \/ /\ handler[h].at = "ok" /\ handler[h].heard
        /\ due' = [due EXCEPT ![Call(h)] = FALSE]
     \/ /\ handler[h].at = "failed" \/ ~handler[h].heard \/ Lossy
        /\ UNCHANGED due
  /\ UNCHANGED <<heldVars, opened, caller, conf, answers, legVars, crashes>>

-----------------------------------------------------------------------------
(* bridgeCall touches the table once and answers, so it is one step.       *)

LegGone(t) == ringing' = [ringing EXCEPT ![t] = @ - 1]

\* The leg is let in; if that answer is lost, the carrier will ask again.
BridgeLeg(t) ==
  /\ ringing[t] > 0
  /\ Bridges(t) /\ BridgeCall(t)
  /\ \/ LegGone(t) /\ joined' = [joined EXCEPT ![t] = @ + 1]
     \/ Lossy /\ UNCHANGED <<ringing, joined>>
  /\ UNCHANGED <<handler, opened, carrierVars, placed, crashes>>

RefuseLeg(t) ==
  /\ ringing[t] > 0
  /\ ~Bridges(t)
  /\ LegGone(t)
  /\ UNCHANGED <<heldVars, handler, opened, carrierVars, placed, joined, crashes>>

-----------------------------------------------------------------------------
(* What happens around the code.                                           *)

\* The leg ends before the carrier asks what to do with it.
LegRingsOut(t) ==
  /\ ringing[t] > 0
  /\ LegGone(t)
  /\ UNCHANGED <<heldVars, handler, opened, carrierVars, placed, joined, crashes>>

CallerHangsUp(c) ==
  /\ caller[c] \in {"ringing", "held"}
  /\ caller' = [caller EXCEPT ![c] = "over"]
  /\ UNCHANGED <<heldVars, handler, opened, conf, due, answers, legVars, crashes>>

\* holdLifetime is much longer than a carrier lets a call ring unanswered.
HoldExpires(c) ==
  /\ caller[c] # "ringing"
  /\ Expire(c)
  /\ UNCHANGED <<handler, opened, carrierVars, legVars, crashes>>

Crash ==
  /\ crashes < MaxCrashes
  /\ crashes' = crashes + 1
  /\ HeldLost
  /\ handler' = [h \in Handlers |-> Idle]
  /\ UNCHANGED <<opened, carrierVars, legVars>>

Step(h) ==
  \/ OpenSession(h) \/ Hold(h) \/ Reply(h)
  \/ Dial(h) \/ PlaceCall(h) \/ PlaceCallFails(h) \/ Redial(h) \/ CallBackReply(h)

Next ==
  \/ \E h \in Handlers : Step(h)
  \/ \E h \in Handlers, c \in Calls : Ring(h, c) \/ CallBack(h, c)
  \/ \E t \in Tokens : BridgeLeg(t) \/ RefuseLeg(t) \/ LegRingsOut(t)
  \/ \E c \in Calls : CallerHangsUp(c) \/ HoldExpires(c)
  \/ Crash

Spec == Init /\ [][Next]_vars

\* A request is served to its end, the carrier delivers its callbacks, and a
\* dial-back that is tried again and again succeeds in the end.
Fairness ==
  /\ \A h \in Handlers : WF_vars(Step(h))
  /\ \A c \in Calls :
       /\ WF_vars(\E h \in Handlers : CallBack(h, c))
       /\ SF_vars(\E h \in Handlers : Call(h) = c /\ PlaceCall(h))

FairSpec == Spec /\ Fairness

-----------------------------------------------------------------------------
\* Requests are well formed, and one that calls back has a minted token.
RequestsOK ==
  /\ handler \in [Handlers -> Request]
  /\ \A h \in Handlers :
       /\ handler[h].at # "idle" => Call(h) \in Calls
       /\ handler[h].at \in CallingBack => Token(h) \in minted

\* Callbacks are due to callers in a conference.
CarrierOK ==
  /\ caller \in [Calls -> {"new", "ringing", "held", "over"}]
  /\ conf \in [Calls -> Tokens \cup {None}]
  /\ due \in [Calls -> BOOLEAN]
  /\ answers \in [Calls -> Nat]
  /\ \A c \in Calls : due[c] => conf[c] # None

LegsOK ==
  /\ placed \in [Tokens -> Nat]
  /\ ringing \in [Tokens -> Nat]
  /\ joined \in [Tokens -> Nat]

TypeOK ==
  /\ HeldTypeOK
  /\ RequestsOK
  /\ CarrierOK
  /\ LegsOK
  /\ opened \in [Calls -> Nat]
  /\ crashes \in Nat

\* No more than maxHeldCalls calls wait to be dialed back (held.go:99), however
\* many answers are served at once: each opens its session without the table's
\* mutex and finds out only afterwards whether there is room for the call.
HoldLimit == Cardinality(Waiting) <= MaxHeld

\* Every entry of byToken is the one byCall leads to, so that prune finds it
\* when its time is over (held.go:58): none stays for ever.  It rests on a
\* call being held once, which answerCall (inbound.go:34) looks up long before
\* it holds the call.
EveryEntryExpires == \A t \in Tokens : byToken[t] # None => byCall[byToken[t].call] = t

\* One leg at most is let into the conference of a held caller (held.go:132),
\* even when a dial-back that was reported as failed had placed a leg, and the
\* retry places another.
BridgedOnce == \A t \in Tokens : joined[t] <= 1

\* However requests overlap, the calls that wait stay within the limit and no
\* conference gets a second leg.
HeldInv == HoldLimit /\ BridgedOnce

\* A call opens one session (inbound.go:34).
OneSessionPerCall == \A c \in Calls : opened[c] <= 1

\* A held caller is dialed back, unless they hang up or the hold expires first
\* (inbound.go:91-100): a dial-back that failed is taken back and answered so
\* that the carrier repeats its callback.
HeldIsDialed ==
  \A c \in Calls :
    caller[c] = "held" ~>
      \/ caller[c] = "over"
      \/ \E t \in Tokens : conf[c] = t /\ (placed[t] > 0 \/ ~Known(t))
=============================================================================
