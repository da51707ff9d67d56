---------------------------- MODULE DialInProofs ----------------------------
(***************************************************************************)
(* Proofs about DialIn, for any number of meetings, callers, PINs, faults  *)
(* and restarts: who is let in, how often a caller is asked, and that no   *)
(* scan ends a dial-in on what it no longer knows.                         *)
(***************************************************************************)
EXTENDS DialIn, HeldCallsProofs, FiniteSetTheorems, TLAPS

\* Who scans.
A == Calls \cup {Sweep}

\* A caller who was not answered was not asked, and one who keys was asked less
\* than the bound.
CallersOK ==
  \A c \in Calls : /\ caller[c] \in {"new", "ringing"} => asked[c] = 0
                   /\ caller[c] = "keyed" => asked[c] < MaxAsked

\* A caller is held for a session.
HeldForOne == \A t \in Tokens : Known(t) => heldFor[t] # None

TypeInv == TypeOK /\ CallersOK /\ HeldForOne

\* Rows are of sessions that exist, their PINs differ, and the numbers they
\* allow were allowed by somebody.
RowsOK ==
  /\ \A s \in dialIn : pin[s] # None
  /\ \A r, s \in dialIn : pin[r] = pin[s] => r = s
  /\ \A s \in Sessions : \A c \in numbers[s] : <<s, c>> \in vouched

Rang(c) == caller[c] \in {"ringing", "over"}
Keyed(c) == caller[c] \in {"keyed", "over"}
Asking == {"look", "settle"}

\* A request of a caller that is under way is for a call that is not held, with
\* digits if it looks a PIN up.
PlaceOK(c) ==
  /\ scan[c].at # "idle" => ~Answered(c) /\ caller[c] \in {"ringing", "keyed", "over"}
  /\ scan[c].at \in {"list", "begin"} => Rang(c)
  /\ scan[c].at \in {"pin", "retry", "allows"} => Keyed(c)
  /\ scan[c].at \in Asking /\ scan[c].by = "number" => Rang(c)
  /\ scan[c].at \in Asking /\ scan[c].by # "number" => Keyed(c)

\* c came to s by the door that s states.
Stated(s, c) ==
  /\ s \notin NumberOnly => keyed[c] = pin[s]
  /\ s \in ChecksNumber => <<s, c>> \in vouched

\* What a request knows of the rows it read: which it found by number were
\* allowed; the PIN is that of one row; who is about to be held came by the door.
DoorOK(c) ==
  /\ scan[c].at \in Asking \cup {"allows", "hold"} => \A s \in scan[c].rows : pin[s] # None
  /\ scan[c].at \in Asking => scan[c].open \subseteq scan[c].rows
  /\ scan[c].at \in Asking /\ scan[c].by = "number" =>
       \A s \in scan[c].rows : <<s, c>> \in vouched
  /\ scan[c].at = "allows" \/ (scan[c].at \in Asking /\ scan[c].by = "pin") =>
       /\ \A s \in scan[c].rows : keyed[c] = pin[s]
       /\ \A s, t \in scan[c].rows : s = t
  /\ scan[c].at \in Asking => scan[c].by \in {"number", "pin"}
  /\ scan[c].at = "hold" => \A s \in scan[c].rows : Stated(s, c)

\* A held caller is to be dialed into a session that exists, and its call leads
\* to its entry.
MayBeHeld == {"ringing", "keyed", "held", "over"}

EntryOK(t) ==
  Known(t) =>
    /\ byCall[byToken[t].call] = t
    /\ heldFor[t] \in Sessions /\ pin[heldFor[t]] # None
    /\ caller[byToken[t].call] \in MayBeHeld
    /\ Stated(heldFor[t], byToken[t].call)

AdmitInv ==
  /\ RowsOK /\ NumbersEndWithDialIn
  /\ \A c \in Calls : PlaceOK(c) /\ DoorOK(c)
  /\ \A t \in Tokens : EntryOK(t)

\* The prompts that restarts add.
Again == crashes * (PinAttempts - 1)

\* What a caller was asked, by what prompts counts of the caller.
CountOK(c) ==
  /\ asked[c] <= PinAttempts + Again
  /\ c \in prompting => attempts[c] < PinAttempts
  /\ caller[c] \in {"asked", "keyed"} =>
       IF c \in prompting THEN asked[c] <= attempts[c] + 1 + Again
       ELSE scan[c].at # "hold" => asked[c] <= 1 + Again

CountsOK == \A c \in Calls : CountOK(c)

\* What a scan knows: a row opened was open when some scan asked, one it may end
\* and did not see open ran or is a day old, and a session ends that ran.
ScanOK(a) ==
  /\ scan[a].at \in Asking => scan[a].open \subseteq open \cup ran
  /\ scan[a].at = "look" => scan[a].old \subseteq open \cup ran
  /\ scan[a].at = "settle" => scan[a].old \ scan[a].open \subseteq ran \cup aged

ScansOK ==
  /\ opened \subseteq open \cup ran
  /\ ending \cup finished \subseteq ran
  /\ \A a \in A : ScanOK(a)

-----------------------------------------------------------------------------
(* Types.                                                                  *)

LEMMA HeldTypeKept == HeldTypeOK /\ UNCHANGED heldVars => HeldTypeOK'
  BY DEF HeldTypeOK, heldVars

LEMMA QuietIsScan == Quiet \in Scan
  BY DEF Quiet, Scan

LEMMA Written ==
  ASSUME TypeOK, NEW a \in A, NEW r \in Scan, scan' = [scan EXCEPT ![a] = r]
  PROVE  scan' \in [A -> Scan]
  BY DEF TypeOK, A

LEMMA GotoTyped ==
  ASSUME TypeOK, NEW a \in A,
         NEW to \in {"idle", "list", "pin", "look", "settle", "allows", "hold", "begin", "retry"},
         Goto(a, to)
  PROVE  scan' \in [A -> Scan]
<1> DEFINE r == [scan[a] EXCEPT !.at = to]
<1>1. r \in Scan
  <2>1. PICK q \in Scan : q = scan[a]
    BY DEF TypeOK, A
  <2> QED  BY <2>1 DEF Scan
<1>2. scan' = [scan EXCEPT ![a] = r]
  BY DEF Goto
<1> HIDE DEF r
<1> QED  BY <1>1, <1>2, Written

LEMMA ReadTyped ==
  ASSUME TypeOK, NEW a \in A, NEW by \in {"number", "pin", "sweep"},
         NEW rs \in SUBSET Sessions, Read(a, by, rs)
  PROVE  scan' \in [A -> Scan]
<1> DEFINE r == [Quiet EXCEPT !.at = "look", !.by = by, !.rows = rs, !.old = rs \cap opened]
<1>1. r \in Scan
  BY DEF Scan, Quiet
<1>2. scan' = [scan EXCEPT ![a] = r]
  BY DEF Read
<1> HIDE DEF r
<1> QED  BY <1>1, <1>2, Written

LEMMA LookTyped ==
  ASSUME TypeOK, NEW a \in A, Look(a)
  PROVE  scan' \in [A -> Scan]
<1> DEFINE r == [scan[a] EXCEPT !.at = "settle", !.open = scan[a].rows \cap open,
                                !.todo = scan[a].rows,
                                !.old = scan[a].rows \cap (scan[a].old \cup aged)]
<1>1. r \in Scan
  <2>1. PICK q \in Scan : q = scan[a]
    BY DEF TypeOK, A
  <2>2. /\ q.rows \cap open \in SUBSET Sessions /\ q.rows \in SUBSET Sessions
        /\ q.rows \cap (q.old \cup aged) \in SUBSET Sessions
    BY DEF Scan
  <2> QED  BY <2>1, <2>2 DEF Scan
<1>2. scan' = [scan EXCEPT ![a] = r]
  BY DEF Look, TypeOK, A
<1> HIDE DEF r
<1> QED  BY <1>1, <1>2, Written

LEMMA TellTyped ==
  ASSUME TypeInv, NEW c \in Calls, NEW to \in {"asked", "held", "over"}, Tell(c, to)
  PROVE  /\ scan' \in [A -> Scan]
         /\ caller' \in [Calls -> {"new", "ringing", "asked", "keyed", "held", "over"}]
         /\ asked' \in [Calls -> 0..MaxAsked]
         /\ keyed' \in [Calls -> Pins \cup {None}]
         /\ CallersOK'
<1>1. scan' \in [A -> Scan]
  BY QuietIsScan, Written DEF Tell, A, TypeInv
<1>2. keyed' \in [Calls -> Pins \cup {None}]
  BY DEF Tell, TypeInv, TypeOK
<1>3. CASE UNCHANGED <<caller, asked>>
  BY <1>1, <1>2, <1>3 DEF TypeInv, TypeOK, CallersOK
<1>4. CASE /\ caller[c] \in {"ringing", "keyed"}
           /\ caller' = [caller EXCEPT ![c] = to]
           /\ asked' = [asked EXCEPT ![c] = IF to = "asked" THEN @ + 1 ELSE @]
  <2>1. asked[c] < MaxAsked /\ asked[c] \in Nat
    BY <1>4, DialInAssumption DEF TypeInv, TypeOK, CallersOK
  <2>2. asked' \in [Calls -> 0..MaxAsked]
    BY <1>4, <2>1, DialInAssumption DEF TypeInv, TypeOK
  <2>3. caller' \in [Calls -> {"new", "ringing", "asked", "keyed", "held", "over"}]
    BY <1>4 DEF TypeInv, TypeOK
  <2>4. CallersOK'
    BY <1>4 DEF TypeInv, TypeOK, CallersOK
  <2> QED  BY <1>1, <1>2, <2>2, <2>3, <2>4
<1> QED  BY <1>3, <1>4 DEF Tell

\* The parts of TypeOK that change together.
RowTypes ==
  /\ pin \in [Sessions -> Pins \cup {None}] /\ numbers \in [Sessions -> SUBSET Calls]
  /\ dialIn \subseteq Sessions /\ opened \subseteq dialIn /\ vouched \subseteq Sessions \X Calls

RoomTypes ==
  /\ open \subseteq Sessions /\ ran \subseteq Sessions /\ finished \subseteq Sessions
  /\ opens \in [Sessions -> 0..MaxOpens]

SessionTypes ==
  aged \subseteq Sessions /\ joined \subseteq Sessions /\ ended \subseteq Sessions /\ ending \subseteq Sessions

PromptTypes == prompting \subseteq Calls /\ attempts \in [Calls -> 0..PinAttempts]

CallerTypes ==
  /\ caller \in [Calls -> {"new", "ringing", "asked", "keyed", "held", "over"}]
  /\ keyed \in [Calls -> Pins \cup {None}]
  /\ asked \in [Calls -> 0..MaxAsked]
  /\ CallersOK

HeldTypes == HeldTypeOK /\ heldFor \in [Tokens -> Sessions \cup {None}] /\ HeldForOne

LEMMA Parts ==
  TypeInv <=> /\ HeldTypes /\ RowTypes /\ RoomTypes /\ SessionTypes
              /\ scan \in [A -> Scan] /\ PromptTypes /\ CallerTypes
              /\ faults \in 0..MaxFaults /\ crashes \in 0..MaxCrashes
  BY DEF TypeInv, TypeOK, HeldTypes, RowTypes, RoomTypes, SessionTypes, PromptTypes,
         CallerTypes, A

LEMMA PartsNext ==
  ASSUME HeldTypes', RowTypes', RoomTypes', SessionTypes', scan' \in [A -> Scan],
         PromptTypes', CallerTypes', faults' \in 0..MaxFaults, crashes' \in 0..MaxCrashes
  PROVE  TypeInv'
  BY DEF TypeInv, TypeOK, HeldTypes, RowTypes, RoomTypes, SessionTypes, PromptTypes,
         CallerTypes, A

\* What is left alone keeps its type.
LEMMA TypesKept ==
  /\ HeldTypes /\ UNCHANGED <<heldVars, heldFor>> => HeldTypes'
  /\ RowTypes /\ UNCHANGED rowVars => RowTypes'
  /\ RoomTypes /\ UNCHANGED roomVars => RoomTypes'
  /\ SessionTypes /\ UNCHANGED sessionVars => SessionTypes'
  /\ scan \in [A -> Scan] /\ UNCHANGED scan => scan' \in [A -> Scan]
  /\ PromptTypes /\ UNCHANGED promptVars => PromptTypes'
  /\ CallerTypes /\ UNCHANGED callerVars => CallerTypes'
<1>1. HeldTypes /\ UNCHANGED <<heldVars, heldFor>> => HeldTypes'
  BY HeldTypeKept DEF HeldTypes, HeldForOne, Known, heldVars
<1>2. RowTypes /\ UNCHANGED rowVars => RowTypes'
  BY DEF RowTypes, rowVars
<1>3. RoomTypes /\ UNCHANGED roomVars => RoomTypes'
  BY DEF RoomTypes, roomVars
<1>4. SessionTypes /\ UNCHANGED sessionVars => SessionTypes'
  BY DEF SessionTypes, sessionVars
<1>5. PromptTypes /\ UNCHANGED promptVars => PromptTypes'
  BY DEF PromptTypes, promptVars
<1>6. CallerTypes /\ UNCHANGED callerVars => CallerTypes'
  BY DEF CallerTypes, CallersOK, callerVars
<1> QED  BY <1>1, <1>2, <1>3, <1>4, <1>5, <1>6

\* Rows of the store.
LEMMA RowsTyped ==
  ASSUME RowTypes, NEW s \in Sessions,
         \/ EndDialIn(s) \/ MarkDialInOpened(s) \/ UNCHANGED rowVars
         \/ \E a \in A : Settled(a, s)
         \/ \E p \in Pins : CreateSession(s, p)
         \/ \E ns \in SUBSET Calls : SetNumbers(s, ns)
  PROVE  RowTypes'
<1>1. CASE EndDialIn(s)
  BY <1>1 DEF EndDialIn, RowTypes
<1>2. CASE MarkDialInOpened(s)
  BY <1>2 DEF MarkDialInOpened, RowTypes
<1>3. CASE UNCHANGED rowVars
  BY <1>3, TypesKept
<1>4. CASE \E a \in A : Settled(a, s)
  BY <1>1, <1>2, <1>3, <1>4 DEF Settled
<1>5. CASE \E p \in Pins : CreateSession(s, p)
  BY <1>5 DEF CreateSession, RowTypes
<1>6. CASE \E ns \in SUBSET Calls : SetNumbers(s, ns)
  BY <1>6 DEF SetNumbers, RowTypes
<1> QED  BY <1>1, <1>2, <1>3, <1>4, <1>5, <1>6

\* A request moves on without an answer, or is answered.
LEMMA RequestTyped ==
  ASSUME TypeInv, NEW c \in Calls,
         \/ Ring(c) \/ PostDigits(c) \/ AnsweredAgain(c) \/ ListByNumber(c) \/ LookupPin(c)
         \/ DecideByNumber(c) \/ DecideByPin(c) \/ Allows(c) \/ Admit(c) \/ Begin(c) \/ Retry(c)
  PROVE  scan' \in [A -> Scan] /\ CallerTypes'
<1> c \in A
  BY DEF A
<1>a. CallerTypes /\ scan \in [A -> Scan]
  BY Parts
<1>1. CASE Ring(c)
  <2>1. scan' \in [A -> Scan]
    BY <1>1, GotoTyped DEF Ring, TypeInv
  <2>2. CallerTypes'
    BY <1>1, <1>a DEF Ring, CallerTypes, CallersOK
  <2> QED  BY <2>1, <2>2
<1>2. CASE PostDigits(c)
  BY <1>2, <1>a, TypesKept, GotoTyped DEF PostDigits, TypeInv
<1>3. CASE AnsweredAgain(c)
  BY <1>3, TellTyped DEF AnsweredAgain, CallerTypes
<1>4. CASE ListByNumber(c)
  <2> DEFINE rs == {s \in dialIn : c \in numbers[s]}
  <2>1. rs \in SUBSET Sessions
    BY DEF TypeInv, TypeOK
  <2>2. Goto(c, "begin") \/ Read(c, "number", rs)
    BY <1>4 DEF ListByNumber
  <2>3. UNCHANGED callerVars
    BY <1>4 DEF ListByNumber
  <2> HIDE DEF rs
  <2>4. scan' \in [A -> Scan]
    BY <2>1, <2>2, GotoTyped, ReadTyped DEF TypeInv
  <2> QED  BY <2>3, <2>4, <1>a, TypesKept
<1>5. CASE LookupPin(c)
  <2> DEFINE rs == {s \in dialIn : keyed[c] = pin[s]}
  <2>1. rs \in SUBSET Sessions
    BY DEF TypeInv, TypeOK
  <2>2. Goto(c, "retry") \/ Read(c, "pin", rs)
    BY <1>5 DEF LookupPin
  <2>3. UNCHANGED callerVars
    BY <1>5 DEF LookupPin
  <2> HIDE DEF rs
  <2>4. scan' \in [A -> Scan]
    BY <2>1, <2>2, GotoTyped, ReadTyped DEF TypeInv
  <2> QED  BY <2>3, <2>4, <1>a, TypesKept
<1>6. CASE DecideByNumber(c)
  <2>1. UNCHANGED callerVars
    BY <1>6 DEF DecideByNumber
  <2>2. CASE scan' = [scan EXCEPT ![c].at = "hold", ![c].rows = RunningByNumber(c)]
    <3>1. PICK q \in Scan : q = scan[c]
      BY <1>a
    <3>2. PICK rs \in SUBSET Sessions : rs = RunningByNumber(c)
      BY <3>1 DEF RunningByNumber, Scan
    <3> DEFINE r == [q EXCEPT !.at = "hold", !.rows = rs]
    <3>3. r \in Scan
      BY DEF Scan
    <3>4. scan' = [scan EXCEPT ![c] = r]
      BY <1>a, <2>2, <3>1, <3>2
    <3> HIDE DEF r
    <3>5. scan' \in [A -> Scan]
      BY <3>3, <3>4, Written DEF TypeInv
    <3> QED  BY <3>5, <2>1, <1>a, TypesKept
  <2>3. CASE Goto(c, "begin")
    BY <2>1, <2>3, <1>a, TypesKept, GotoTyped DEF TypeInv
  <2> QED  BY <1>6, <2>2, <2>3 DEF DecideByNumber
<1>7. CASE DecideByPin(c)
  BY <1>7, <1>a, TypesKept, GotoTyped DEF DecideByPin, Found, TypeInv
<1>8. CASE Allows(c)
  BY <1>8, <1>a, TypesKept, GotoTyped DEF Allows, Found, TypeInv
<1>9. CASE Admit(c)
  BY <1>9, TellTyped DEF Admit, CallerTypes
<1>10. CASE Begin(c)
  BY <1>10, TellTyped DEF Begin, CallerTypes
<1>11. CASE Retry(c)
  BY <1>11, TellTyped DEF Retry, CallerTypes
<1> QED  BY <1>1, <1>2, <1>3, <1>4, <1>5, <1>6, <1>7, <1>8, <1>9, <1>10, <1>11

LEMMA PromptsTyped ==
  ASSUME TypeInv, NEW c \in Calls, Begin(c) \/ Retry(c) \/ Found(c)
  PROVE  PromptTypes'
<1>a. PromptTypes
  BY Parts
<1>1. CASE Begin(c)
  BY <1>1, <1>a, DialInAssumption DEF Begin, PromptTypes, promptVars
<1>2. CASE Retry(c)
  BY <1>2, <1>a, DialInAssumption DEF Retry, PromptTypes, promptVars, Attempts, RetriesLeft
<1>3. CASE Found(c)
  BY <1>3, <1>a DEF Found, PromptTypes
<1> QED  BY <1>1, <1>2, <1>3

LEMMA HeldTyped ==
  ASSUME TypeInv, NEW c \in Calls,
         Admit(c) \/ DialBack(c) \/ AnsweredAgain(c) \/ (Expire(c) /\ UNCHANGED heldFor)
  PROVE  HeldTypes'
<1>a. HeldTypeOK /\ HeldTypes
  BY Parts DEF HeldTypes
<1>1. CASE Admit(c)
  <2>1. CASE UNCHANGED <<heldVars, heldFor>>
    BY <2>1, <1>a, TypesKept
  <2>2. ASSUME NEW t \in Tokens, NEW s \in scan[c].rows, HoldCall(c, t),
               heldFor' = [heldFor EXCEPT ![t] = s]
        PROVE  HeldTypes'
    <3>1. s \in Sessions
      BY <2>2 DEF TypeInv, TypeOK, Scan
    <3>2. HeldTypeOK'
      BY <2>2, <1>a, HoldCallTyped
    <3>3. s # None
      BY <3>1, DialInAssumption
    <3> QED  BY <2>2, <3>1, <3>2, <3>3, <1>a DEF HeldTypes, HeldForOne, HoldCall, HeldTypeOK, Known
  <2> QED  BY <1>1, <2>1, <2>2 DEF Admit
<1>2. CASE DialBack(c)
  <2>1. byCall[c] \in Tokens /\ Known(byCall[c]) /\ DialCall(byCall[c])
    BY <1>2, <1>a DEF DialBack, Answered, Dials, HeldTypeOK
  <2>2. HeldTypeOK'
    BY <2>1, <1>a, DialCallTyped
  <2> QED  BY <1>2, <2>1, <2>2, <1>a DEF DialBack, HeldTypes, HeldForOne, DialCall, Known, HeldTypeOK
<1>3. CASE AnsweredAgain(c)
  BY <1>3, <1>a, TypesKept DEF AnsweredAgain
<1>4. CASE Expire(c) /\ UNCHANGED heldFor
  BY <1>4, <1>a, ExpireTyped DEF HeldTypes, HeldForOne, Expire, Known, HeldTypeOK
<1> QED  BY <1>1, <1>2, <1>3, <1>4

LEMMA CallTyped ==
  ASSUME TypeInv, NEW c \in Calls, CallStep(c)
  PROVE  TypeInv'
<1>a. /\ HeldTypes /\ RowTypes /\ RoomTypes /\ SessionTypes /\ scan \in [A -> Scan]
      /\ PromptTypes /\ CallerTypes /\ faults \in 0..MaxFaults /\ crashes \in 0..MaxCrashes
  BY Parts
<1>1. CASE \/ Ring(c) \/ PostDigits(c) \/ ListByNumber(c) \/ LookupPin(c) \/ DecideByNumber(c)
  <2>1. UNCHANGED <<heldVars, heldFor, rowVars, roomVars, sessionVars, promptVars, faults, crashes>>
    BY <1>1 DEF Ring, PostDigits, ListByNumber, LookupPin, DecideByNumber
  <2>2. scan' \in [A -> Scan] /\ CallerTypes'
    BY <1>1, RequestTyped
  <2> QED  BY <2>1, <2>2, <1>a, TypesKept, PartsNext
<1>2. CASE DecideByPin(c) \/ Allows(c)
  <2>1. UNCHANGED <<heldVars, heldFor, rowVars, roomVars, sessionVars, faults, crashes>>
    BY <1>2 DEF DecideByPin, Allows
  <2>2. scan' \in [A -> Scan] /\ CallerTypes'
    BY <1>2, RequestTyped
  <2>3. PromptTypes'
    BY <1>2, <1>a, PromptsTyped, TypesKept DEF DecideByPin, Allows
  <2> QED  BY <2>1, <2>2, <2>3, <1>a, TypesKept, PartsNext
<1>3. CASE Begin(c) \/ Retry(c)
  <2>1. UNCHANGED <<heldVars, heldFor, rowVars, roomVars, sessionVars, faults, crashes>>
    BY <1>3 DEF Begin, Retry
  <2> QED  BY <1>3, <2>1, <1>a, TypesKept, RequestTyped, PromptsTyped, PartsNext
<1>4. CASE Admit(c) \/ AnsweredAgain(c)
  <2>1. UNCHANGED <<rowVars, roomVars, sessionVars, promptVars, faults, crashes>>
    BY <1>4 DEF Admit, AnsweredAgain
  <2>2. HeldTypes'
    BY <1>4, HeldTyped
  <2>3. scan' \in [A -> Scan] /\ CallerTypes'
    BY <1>4, RequestTyped
  <2> QED  BY <2>1, <2>2, <2>3, <1>a, TypesKept, PartsNext
<1>5. CASE DialBack(c)
  <2>1. /\ UNCHANGED <<rowVars, sessionVars, scan, promptVars, callerVars, faults, crashes>>
        /\ UNCHANGED <<opens, ran, finished>> /\ open' = open \cup {heldFor[byCall[c]]}
    BY <1>5 DEF DialBack
  <2>2. byCall[c] \in Tokens /\ Known(byCall[c])
    BY <1>5, <1>a DEF DialBack, Answered, Dials, HeldTypes, HeldTypeOK
  <2>3. heldFor[byCall[c]] \in Sessions
    BY <1>5, <2>2, <1>a DEF HeldTypes, HeldForOne
  <2>4. RoomTypes'
    BY <2>1, <2>3, <1>a DEF RoomTypes
  <2>5. HeldTypes'
    BY <1>5, HeldTyped
  <2> QED  BY <2>1, <2>4, <2>5, <1>a, TypesKept, PartsNext
<1>6. CASE CallerHangsUp(c) \/ \E p \in Pins \cup {None} : KeyIn(c, p)
  <2>1. /\ UNCHANGED <<heldVars, heldFor, rowVars, roomVars, sessionVars, scan, promptVars>>
        /\ UNCHANGED <<faults, crashes>>
    BY <1>6 DEF CallerHangsUp, KeyIn
  <2>2. CallerTypes'
    BY <1>6, <1>a DEF CallerHangsUp, KeyIn, CallerTypes, CallersOK
  <2> QED  BY <2>1, <2>2, <1>a, TypesKept, PartsNext
<1>7. CASE Expires(c)
  <2>1. UNCHANGED <<heldFor, rowVars, roomVars, sessionVars, scan, callerVars, faults, crashes>>
    BY <1>7 DEF Expires
  <2>2. HeldTypes' /\ PromptTypes'
    BY <1>7, <1>a, TypesKept, HeldTyped DEF Expires, PromptTypes
  <2> QED  BY <2>1, <2>2, <1>a, TypesKept, PartsNext
<1> QED  BY <1>1, <1>2, <1>3, <1>4, <1>5, <1>6, <1>7 DEF CallStep

LEMMA SessionTyped ==
  ASSUME TypeInv, NEW s \in Sessions, SessionStep(s)
  PROVE  TypeInv'
<1>a. /\ HeldTypes /\ RowTypes /\ RoomTypes /\ SessionTypes /\ scan \in [A -> Scan]
      /\ PromptTypes /\ CallerTypes /\ faults \in 0..MaxFaults /\ crashes \in 0..MaxCrashes
  BY Parts
<1>1. CASE (\E p \in Pins : CreateSession(s, p)) \/ \E ns \in SUBSET Calls : SetNumbers(s, ns)
  <2>1. UNCHANGED <<heldVars, heldFor, roomVars, sessionVars, scan, promptVars, callerVars,
                    faults, crashes>>
    BY <1>1 DEF CreateSession, SetNumbers
  <2>2. RowTypes'
    BY <1>1, <1>a, RowsTyped
  <2> QED  BY <2>1, <2>2, <1>a, TypesKept, PartsNext
<1>2. CASE RoomOpens(s) \/ RoomCloses(s)
  <2>1. UNCHANGED <<heldVars, heldFor, rowVars, sessionVars, scan, promptVars, callerVars,
                    faults, crashes>>
    BY <1>2 DEF RoomOpens, RoomCloses
  <2>2. RoomTypes'
    BY <1>2, <1>a, DialInAssumption DEF RoomOpens, RoomCloses, RoomTypes
  <2> QED  BY <2>1, <2>2, <1>a, TypesKept, PartsNext
<1>3. CASE MarkJoined(s) \/ Age(s)
  <2>1. UNCHANGED <<heldVars, heldFor, rowVars, roomVars, scan, promptVars, callerVars,
                    faults, crashes>>
    BY <1>3 DEF MarkJoined, Age
  <2>2. SessionTypes'
    BY <1>3, <1>a DEF MarkJoined, Age, SessionTypes
  <2> QED  BY <2>1, <2>2, <1>a, TypesKept, PartsNext
<1>4. CASE RoomFinished(s)
  <2>1. UNCHANGED <<heldVars, heldFor, rowVars, scan, promptVars, callerVars, faults, crashes>>
    BY <1>4 DEF RoomFinished
  <2>2. SessionTypes' /\ RoomTypes'
    BY <1>4, <1>a DEF RoomFinished, SessionTypes, RoomTypes
  <2> QED  BY <2>1, <2>2, <1>a, TypesKept, PartsNext
<1>5. CASE CloseDialIn(s)
  <2>1. UNCHANGED <<heldVars, heldFor, roomVars, scan, promptVars, callerVars, crashes>>
    BY <1>5 DEF CloseDialIn
  <2>2. SessionTypes' /\ faults' \in 0..MaxFaults
    BY <1>5, <1>a, DialInAssumption DEF CloseDialIn, SessionTypes
  <2>3. RowTypes'
    BY <1>5, <1>a, RowsTyped DEF CloseDialIn
  <2> QED  BY <2>1, <2>2, <2>3, <1>a, TypesKept, PartsNext
<1> QED  BY <1>1, <1>2, <1>3, <1>4, <1>5 DEF SessionStep

\* What a scan does to itself.
LEMMA SettleTyped ==
  ASSUME TypeInv, NEW a \in A, NEW s \in Sessions, scan' = [scan EXCEPT ![a].todo = @ \ {s}]
  PROVE  scan' \in [A -> Scan]
<1>1. PICK q \in Scan : q = scan[a]
  BY DEF TypeInv, TypeOK, A
<1> DEFINE r == [q EXCEPT !.todo = q.todo \ {s}]
<1>2. r \in Scan
  BY DEF Scan
<1>3. scan' = [scan EXCEPT ![a] = r]
  BY <1>1
<1> HIDE DEF r
<1> QED  BY <1>2, <1>3, Written DEF TypeInv

LEMMA SweepTyped ==
  ASSUME TypeInv,
         \/ SweepList \/ SweepDone
         \/ \E a \in A : Look(a) \/ ScanFails(a) \/ \E s \in Sessions : Settle(a, s)
  PROVE  TypeInv'
<1>a. /\ HeldTypes /\ RowTypes /\ RoomTypes /\ SessionTypes /\ scan \in [A -> Scan]
      /\ PromptTypes /\ CallerTypes /\ faults \in 0..MaxFaults /\ crashes \in 0..MaxCrashes
  BY Parts
<1>b. Sweep \in A /\ TypeOK /\ dialIn \in SUBSET Sessions
  BY DEF A, TypeInv, TypeOK
<1>1. CASE SweepList \/ SweepDone \/ \E a \in A : Look(a)
  <2>1. UNCHANGED <<heldVars, heldFor, rowVars, roomVars, sessionVars, promptVars,
                    callerVars, faults, crashes>>
    BY <1>1 DEF SweepList, SweepDone, Look
  <2>2. scan' \in [A -> Scan]
    BY <1>1, <1>b, ReadTyped, LookTyped, Written, QuietIsScan DEF SweepList, SweepDone
  <2> QED  BY <2>1, <2>2, <1>a, TypesKept, PartsNext
<1>2. ASSUME NEW a \in A, ScanFails(a)
      PROVE  TypeInv'
  <2>1. UNCHANGED <<heldVars, heldFor, rowVars, roomVars, sessionVars, promptVars, crashes>>
    BY <1>2 DEF ScanFails
  <2>2. faults' \in 0..MaxFaults
    BY <1>2, <1>a, DialInAssumption DEF ScanFails
  <2>3. CASE a \in Calls /\ Tell(a, "over")
    <3>1. scan' \in [A -> Scan] /\ CallerTypes'
      BY <2>3, TellTyped DEF CallerTypes
    <3> QED  BY <2>1, <2>2, <3>1, <1>a, TypesKept, PartsNext
  <2>4. CASE scan' = [scan EXCEPT ![a] = Quiet] /\ UNCHANGED callerVars
    BY <2>1, <2>2, <2>4, <1>a, <1>b, QuietIsScan, Written, TypesKept, PartsNext
  <2> QED  BY <1>2, <2>3, <2>4 DEF ScanFails
<1>3. ASSUME NEW a \in A, NEW s \in Sessions, Settle(a, s)
      PROVE  TypeInv'
  <2>1. UNCHANGED <<heldVars, heldFor, roomVars, sessionVars, promptVars, callerVars,
                    faults, crashes>>
    BY <1>3 DEF Settle
  <2>2. RowTypes'
    BY <1>3, <1>a, RowsTyped DEF Settle
  <2>3. scan' \in [A -> Scan]
    BY <1>3, SettleTyped DEF Settle
  <2> QED  BY <2>1, <2>2, <2>3, <1>a, TypesKept, PartsNext
<1> QED  BY <1>1, <1>2, <1>3

LEMMA CrashTyped == TypeInv /\ Crash => TypeInv'
<1> SUFFICES ASSUME TypeInv, Crash
             PROVE  TypeInv'
  OBVIOUS
<1>a. /\ HeldTypes /\ RowTypes /\ RoomTypes /\ SessionTypes /\ scan \in [A -> Scan]
      /\ PromptTypes /\ CallerTypes /\ faults \in 0..MaxFaults /\ crashes \in 0..MaxCrashes
  BY Parts
<1>1. UNCHANGED <<rowVars, roomVars, callerVars, faults>>
  BY DEF Crash
<1>2. HeldTypeOK' /\ HeldForOne'
  BY <1>a, HeldLostTyped DEF Crash, HeldTypes, HeldForOne, HeldLost, Known
<1>3. HeldTypes' /\ SessionTypes' /\ PromptTypes'
  BY <1>a, <1>2 DEF Crash, HeldTypes, SessionTypes, PromptTypes
<1>4. scan' \in [A -> Scan] /\ crashes' \in 0..MaxCrashes
  BY <1>a, QuietIsScan, DialInAssumption DEF Crash, A
<1> QED  BY <1>1, <1>3, <1>4, <1>a, TypesKept, PartsNext

LEMMA NextTyped == TypeInv /\ [Next]_vars => TypeInv'
<1> SUFFICES ASSUME TypeInv, [Next]_vars
             PROVE  TypeInv'
  OBVIOUS
<1>1. CASE Next
  BY <1>1, CallTyped, SessionTyped, SweepTyped, CrashTyped DEF Next, A
<1>2. CASE UNCHANGED vars
  <2>1. UNCHANGED <<heldVars, heldFor, rowVars, roomVars, sessionVars, scan, promptVars,
                    callerVars, faults, crashes>>
    BY <1>2 DEF vars
  <2> QED  BY <2>1, Parts, TypesKept, PartsNext
<1> QED  BY <1>1, <1>2

LEMMA InitTyped == Init => TypeInv
<1> SUFFICES ASSUME Init
             PROVE  TypeInv
  OBVIOUS
<1>1. HeldTypeOK
  BY HeldAssumption DEF Init, HeldInit, HeldTypeOK
<1>2. HeldTypes
  BY <1>1 DEF Init, HeldInit, HeldTypes, HeldForOne, Known
<1>3. scan \in [A -> Scan]
  BY QuietIsScan DEF Init, A
<1>4. RowTypes /\ RoomTypes /\ SessionTypes
  BY DialInAssumption DEF Init, RowTypes, RoomTypes, SessionTypes
<1>5. PromptTypes /\ CallerTypes /\ faults \in 0..MaxFaults /\ crashes \in 0..MaxCrashes
  BY DialInAssumption DEF Init, PromptTypes, CallerTypes, CallersOK
<1> QED  BY <1>2, <1>3, <1>4, <1>5, Parts

-----------------------------------------------------------------------------
(* Who is let in.                                                          *)

\* A session keeps its PIN, and who was vouched for stays so.
StoreGrows ==
  /\ \A s \in Sessions : pin[s] # None => pin'[s] = pin[s]
  /\ vouched \subseteq vouched'

LEMMA StatedKept ==
  ASSUME StoreGrows, NEW s \in Sessions, NEW c \in Calls, pin[s] # None, Stated(s, c),
         keyed'[c] = keyed[c]
  PROVE  Stated(s, c)'
  BY DEF StoreGrows, Stated

SameRows(c) ==
  /\ scan'[c].at = scan[c].at /\ scan'[c].by = scan[c].by
  /\ scan'[c].rows = scan[c].rows /\ scan'[c].open = scan[c].open

LEMMA DoorKept ==
  ASSUME TypeInv, StoreGrows, NEW c \in Calls, DoorOK(c), SameRows(c), keyed'[c] = keyed[c]
  PROVE  DoorOK(c)'
<1>1. scan[c].rows \subseteq Sessions
  BY DEF TypeInv, TypeOK, Scan
<1>2. \A s \in scan[c].rows : pin[s] # None => pin'[s] = pin[s]
  BY <1>1 DEF StoreGrows
<1>3. scan[c].at = "hold" => \A s \in scan[c].rows : Stated(s, c)'
  BY <1>1, StatedKept DEF DoorOK
<1> QED  BY <1>2, <1>3 DEF DoorOK, StoreGrows, SameRows

LEMMA EntryKept ==
  ASSUME StoreGrows, NEW t \in Tokens, EntryOK(t), byToken[t].call \in Calls,
         Known(t)' => /\ Known(t) /\ byToken'[t].call = byToken[t].call
                      /\ byCall'[byToken[t].call] = byCall[byToken[t].call]
                      /\ heldFor'[t] = heldFor[t]
                      /\ caller'[byToken[t].call] \in MayBeHeld
                      /\ keyed'[byToken[t].call] = keyed[byToken[t].call]
  PROVE  EntryOK(t)'
<1> SUFFICES ASSUME Known(t)'
             PROVE  /\ byCall'[byToken'[t].call] = t
                    /\ heldFor'[t] \in Sessions /\ pin'[heldFor'[t]] # None
                    /\ caller'[byToken'[t].call] \in MayBeHeld
                    /\ heldFor'[t] \notin NumberOnly =>
                         keyed'[byToken'[t].call] = pin'[heldFor'[t]]
                    /\ heldFor'[t] \in ChecksNumber =>
                         <<heldFor'[t], byToken'[t].call>> \in vouched'
  BY DEF EntryOK, Stated
<1> QED  BY DEF EntryOK, StoreGrows, Stated

\* A step of one request that leaves the table, the store and the digits alone.
LEMMA RequestAdmits ==
  ASSUME TypeInv, AdmitInv, NEW c \in Calls,
         UNCHANGED <<heldVars, heldFor, rowVars, keyed>>,
         \A d \in Calls \ {c} : scan'[d] = scan[d] /\ caller'[d] = caller[d],
         PlaceOK(c)', DoorOK(c)', Answered(c) => caller'[c] \in MayBeHeld
  PROVE  AdmitInv'
<1>a. StoreGrows
  BY DEF StoreGrows, rowVars
<1>1. RowsOK' /\ NumbersEndWithDialIn'
  BY DEF AdmitInv, RowsOK, NumbersEndWithDialIn, rowVars
<1>2. ASSUME NEW d \in Calls, d # c
      PROVE  PlaceOK(d)' /\ DoorOK(d)'
  <2>1. PlaceOK(d) /\ DoorOK(d) /\ scan'[d] = scan[d] /\ caller'[d] = caller[d] /\ keyed'[d] = keyed[d]
    BY <1>2 DEF AdmitInv
  <2>2. PlaceOK(d)'
    BY <2>1 DEF PlaceOK, Answered, heldVars, Rang, Keyed
  <2> QED  BY <2>1, <2>2, <1>a, DoorKept DEF SameRows
<1>3. ASSUME NEW t \in Tokens
      PROVE  EntryOK(t)'
  <2>1. CASE Known(t)'
    <3>1. Known(t) /\ byToken'[t] = byToken[t] /\ byCall' = byCall /\ heldFor' = heldFor
      BY <2>1 DEF Known, heldVars
    <3>2. EntryOK(t) /\ byToken[t].call \in Calls
      BY <3>1 DEF AdmitInv, TypeInv, TypeOK, HeldTypeOK, HeldCall, Known
    <3>3. caller'[byToken[t].call] \in MayBeHeld
      BY <3>1, <3>2, DialInAssumption, HeldAssumption DEF EntryOK, Answered
    <3> QED  BY <1>a, <3>1, <3>2, <3>3, EntryKept
  <2>2. CASE ~Known(t)'
    BY <2>2 DEF EntryOK
  <2> QED  BY <2>1, <2>2
<1> QED  BY <1>1, <1>2, <1>3 DEF AdmitInv

LEMMA ScanOf ==
  ASSUME TypeInv, NEW a \in A
  PROVE  scan[a] \in Scan /\ scan[a].rows \subseteq Sessions
  BY DEF TypeInv, TypeOK, A, Scan

\* An answer, but for one that asks a caller who is held.
LEMMA TellAdmits ==
  ASSUME TypeInv, AdmitInv, NEW c \in Calls, NEW to \in {"asked", "held", "over"},
         UNCHANGED <<heldVars, heldFor, rowVars>>, Tell(c, to),
         Answered(c) => to # "asked"
  PROVE  AdmitInv'
<1>1. keyed' = keyed /\ scan' = [scan EXCEPT ![c] = Quiet]
  BY DEF Tell
<1>2. scan \in [A -> Scan] /\ caller \in [Calls -> {"new", "ringing", "asked", "keyed", "held", "over"}]
  BY DEF TypeInv, TypeOK, A
<1>3. /\ \A d \in Calls \ {c} : scan'[d] = scan[d] /\ caller'[d] = caller[d]
      /\ scan'[c] = Quiet
  BY <1>1, <1>2 DEF Tell, A
<1>4. caller'[c] = to \/ caller'[c] = caller[c]
  BY <1>2 DEF Tell
<1>5. PlaceOK(c)' /\ DoorOK(c)'
  BY <1>3 DEF PlaceOK, DoorOK, Quiet, Asking
<1>6. Answered(c) => caller[c] \in MayBeHeld
  <2> SUFFICES ASSUME Answered(c)
               PROVE  caller[c] \in MayBeHeld
    OBVIOUS
  <2>1. byCall[c] \in Tokens /\ Known(byCall[c]) /\ byToken[byCall[c]].call = c
    BY DEF Answered, TypeInv, TypeOK, HeldTypeOK, Known
  <2> QED  BY <2>1 DEF AdmitInv, EntryOK
<1>7. Answered(c) => caller'[c] \in MayBeHeld
  BY <1>4, <1>6 DEF MayBeHeld
<1> QED  BY <1>1, <1>3, <1>5, <1>7, RequestAdmits

\* A request that goes on, for a call that is not held, without an answer.
LEMMA MoveAdmits ==
  ASSUME TypeInv, AdmitInv, NEW c \in Calls, NEW r,
         UNCHANGED <<heldVars, heldFor, rowVars, callerVars>>,
         scan' = [scan EXCEPT ![c] = r], ~Answered(c), PlaceOK(c)', DoorOK(c)'
  PROVE  AdmitInv'
<1>1. scan \in [A -> Scan]
  BY DEF TypeInv, TypeOK, A
<1>2. \A d \in Calls \ {c} : scan'[d] = scan[d] /\ caller'[d] = caller[d]
  BY <1>1 DEF callerVars, A
<1> QED  BY <1>2, RequestAdmits DEF callerVars

LEMMA RingAdmits ==
  ASSUME TypeInv, AdmitInv, NEW c \in Calls, Ring(c) \/ PostDigits(c)
  PROVE  AdmitInv'
<1>1. /\ UNCHANGED <<heldVars, heldFor, rowVars, keyed>> /\ ~Answered(c) /\ ~Answered(c)'
  BY DEF Ring, PostDigits, callerVars, Answered, heldVars
<1>2. /\ scan \in [A -> Scan] /\ c \in A
      /\ caller \in [Calls -> {"new", "ringing", "asked", "keyed", "held", "over"}]
  BY DEF TypeInv, TypeOK, A
<1>3. /\ \A d \in Calls \ {c} : scan'[d] = scan[d] /\ caller'[d] = caller[d]
  BY <1>2 DEF Ring, PostDigits, Goto, A, callerVars
<1>4. \/ scan'[c].at \in {"list", "begin"} /\ caller'[c] = "ringing"
      \/ scan'[c].at = "pin" /\ caller'[c] = "keyed"
  <2>1. PICK q \in Scan : scan[c] = q
    BY <1>2
  <2> QED  BY <2>1, <1>2 DEF Ring, PostDigits, Goto, callerVars, Scan
<1>5. PlaceOK(c)' /\ DoorOK(c)'
  BY <1>1, <1>4 DEF PlaceOK, DoorOK, Asking, Rang, Keyed
<1> QED  BY <1>1, <1>3, <1>5, RequestAdmits

\* The rows a request reads.
LEMMA ReadAdmits ==
  ASSUME TypeInv, AdmitInv, NEW c \in Calls, ListByNumber(c) \/ LookupPin(c)
  PROVE  AdmitInv'
<1>1. UNCHANGED <<heldVars, heldFor, rowVars, callerVars>>
  BY DEF ListByNumber, LookupPin
<1>2. scan[c].at \in {"list", "pin"} /\ PlaceOK(c) /\ ~Answered(c) /\ ~Answered(c)'
  BY <1>1 DEF ListByNumber, LookupPin, AdmitInv, PlaceOK, heldVars, Answered
<1>3. PICK q \in Scan : scan[c] = q
  BY ScanOf DEF A
<1>4. scan \in [A -> Scan] /\ c \in A
  BY DEF TypeInv, TypeOK, A
<1>5. UNCHANGED <<caller, keyed, pin, vouched>>
  BY <1>1 DEF callerVars, rowVars
<1>6. CASE ListByNumber(c)
  <2> DEFINE rs == {s \in dialIn : c \in numbers[s]}
  <2>1. \A s \in rs : pin[s] # None /\ <<s, c>> \in vouched
    BY DEF AdmitInv, RowsOK, TypeInv, TypeOK
  <2>2. Goto(c, "begin") \/ Read(c, "number", rs)
    BY <1>6 DEF ListByNumber
  <2>3. Rang(c)
    BY <1>2, <1>6 DEF PlaceOK, ListByNumber
  <2> HIDE DEF rs
  <2>4. CASE Goto(c, "begin")
    <3> DEFINE r == [q EXCEPT !.at = "begin"]
    <3>1. scan' = [scan EXCEPT ![c] = r] /\ r.at = "begin"
      BY <2>4, <1>3 DEF Goto, Scan
    <3> HIDE DEF r
    <3>2. scan'[c].at = "begin"
      BY <3>1, <1>4
    <3>3. PlaceOK(c)' /\ DoorOK(c)'
      BY <3>2, <2>3, <1>2, <1>5 DEF PlaceOK, DoorOK, Asking, Rang, Keyed
    <3> QED  BY <3>1, <3>3, <1>1, <1>2, MoveAdmits
  <2>5. CASE Read(c, "number", rs)
    <3> DEFINE r == [Quiet EXCEPT !.at = "look", !.by = "number", !.rows = rs, !.old = rs \cap opened]
    <3>1. scan' = [scan EXCEPT ![c] = r]
      BY <2>5 DEF Read
    <3>2. r.at = "look" /\ r.by = "number" /\ r.rows = rs /\ r.open = {}
      BY DEF Quiet
    <3> HIDE DEF r
    <3>3. scan'[c] = r
      BY <3>1, <1>4
    <3>4. PlaceOK(c)' /\ DoorOK(c)'
      BY <3>2, <3>3, <2>1, <2>3, <1>2, <1>5 DEF PlaceOK, DoorOK, Asking, Rang, Keyed
    <3> QED  BY <3>1, <3>4, <1>1, <1>2, MoveAdmits
  <2> QED  BY <2>2, <2>4, <2>5
<1>7. CASE LookupPin(c)
  <2> DEFINE rs == {s \in dialIn : keyed[c] = pin[s]}
  <2>1. \A s \in rs : pin[s] # None /\ keyed[c] = pin[s] /\ \A t \in rs : s = t
    BY DEF AdmitInv, RowsOK
  <2>2. Goto(c, "retry") \/ Read(c, "pin", rs)
    BY <1>7 DEF LookupPin
  <2>3. Keyed(c)
    BY <1>2, <1>7 DEF PlaceOK, LookupPin
  <2> HIDE DEF rs
  <2>4. CASE Goto(c, "retry")
    <3> DEFINE r == [q EXCEPT !.at = "retry"]
    <3>1. scan' = [scan EXCEPT ![c] = r] /\ r.at = "retry"
      BY <2>4, <1>3 DEF Goto, Scan
    <3> HIDE DEF r
    <3>2. scan'[c].at = "retry"
      BY <3>1, <1>4
    <3>3. PlaceOK(c)' /\ DoorOK(c)'
      BY <3>2, <2>3, <1>2, <1>5 DEF PlaceOK, DoorOK, Asking, Rang, Keyed
    <3> QED  BY <3>1, <3>3, <1>1, <1>2, MoveAdmits
  <2>5. CASE Read(c, "pin", rs)
    <3> DEFINE r == [Quiet EXCEPT !.at = "look", !.by = "pin", !.rows = rs, !.old = rs \cap opened]
    <3>1. scan' = [scan EXCEPT ![c] = r]
      BY <2>5 DEF Read
    <3>2. r.at = "look" /\ r.by = "pin" /\ r.rows = rs /\ r.open = {}
      BY DEF Quiet
    <3> HIDE DEF r
    <3>3. scan'[c] = r
      BY <3>1, <1>4
    <3>4. PlaceOK(c)' /\ DoorOK(c)'
      BY <3>2, <3>3, <2>1, <2>3, <1>2, <1>5 DEF PlaceOK, DoorOK, Asking, Rang, Keyed
    <3> QED  BY <3>1, <3>4, <1>1, <1>2, MoveAdmits
  <2> QED  BY <2>2, <2>4, <2>5
<1> QED  BY <1>6, <1>7

LEMMA GotoAt ==
  ASSUME TypeInv, NEW a \in A, NEW to, Goto(a, to)
  PROVE  \E r : /\ scan' = [scan EXCEPT ![a] = r] /\ scan'[a] = r
                /\ r.at = to /\ r.by = scan[a].by /\ r.rows = scan[a].rows /\ r.open = scan[a].open
<1>1. PICK q \in Scan : scan[a] = q
  BY ScanOf
<1> DEFINE r == [q EXCEPT !.at = to]
<1>2. scan' = [scan EXCEPT ![a] = r]
  BY <1>1 DEF Goto
<1>3. r.at = to /\ r.by = q.by /\ r.rows = q.rows /\ r.open = q.open
  BY DEF Scan
<1>4. scan'[a] = r
  BY <1>2 DEF TypeInv, TypeOK, A
<1> HIDE DEF r
<1> QED  BY <1>1, <1>2, <1>3, <1>4

LEMMA LookAt ==
  ASSUME TypeInv, NEW a \in A, Look(a)
  PROVE  /\ scan'[a].at = "settle" /\ scan'[a].by = scan[a].by
         /\ scan'[a].rows = scan[a].rows /\ scan'[a].open = scan[a].rows \cap open
         /\ scan'[a].old = scan[a].rows \cap (scan[a].old \cup aged)
         /\ \A b \in A \ {a} : scan'[b] = scan[b]
<1>1. PICK q \in Scan : scan[a] = q
  BY ScanOf
<1> DEFINE r == [q EXCEPT !.at = "settle", !.open = q.rows \cap open, !.todo = q.rows,
                          !.old = q.rows \cap (q.old \cup aged)]
<1>2. scan' = [scan EXCEPT ![a] = r]
  BY <1>1 DEF Look, TypeInv, TypeOK, A
<1>3. /\ r.at = "settle" /\ r.by = q.by /\ r.rows = q.rows /\ r.open = q.rows \cap open
      /\ r.old = q.rows \cap (q.old \cup aged)
  BY DEF Scan
<1>4. scan'[a] = r /\ \A b \in A \ {a} : scan'[b] = scan[b]
  BY <1>2 DEF TypeInv, TypeOK, A
<1> HIDE DEF r
<1> QED  BY <1>1, <1>3, <1>4

\* A step that leaves the callers and what their requests know alone.
LEMMA OutsideAdmits ==
  ASSUME TypeInv, AdmitInv, StoreGrows, RowsOK', NumbersEndWithDialIn',
         UNCHANGED <<heldVars, heldFor, callerVars>>, \A c \in Calls : SameRows(c)
  PROVE  AdmitInv'
<1>1. ASSUME NEW d \in Calls
      PROVE  PlaceOK(d)' /\ DoorOK(d)'
  <2>1. PlaceOK(d) /\ DoorOK(d) /\ SameRows(d) /\ caller' = caller /\ keyed' = keyed
    BY DEF AdmitInv, callerVars
  <2>2. PlaceOK(d)'
    BY <2>1 DEF PlaceOK, Answered, heldVars, Rang, Keyed, SameRows
  <2> QED  BY <2>1, <2>2, DoorKept
<1>2. ASSUME NEW t \in Tokens
      PROVE  EntryOK(t)'
  <2>1. CASE Known(t)'
    <3>1. Known(t) /\ byToken'[t] = byToken[t] /\ byCall' = byCall /\ heldFor' = heldFor
      BY <2>1 DEF Known, heldVars
    <3>2. EntryOK(t) /\ byToken[t].call \in Calls
      BY <3>1 DEF AdmitInv, TypeInv, TypeOK, HeldTypeOK, HeldCall, Known
    <3>3. caller'[byToken[t].call] \in MayBeHeld /\ keyed' = keyed
      BY <3>1, <3>2 DEF EntryOK, callerVars
    <3> QED  BY <3>1, <3>2, <3>3, EntryKept
  <2>2. CASE ~Known(t)'
    BY <2>2 DEF EntryOK
  <2> QED  BY <2>1, <2>2
<1> QED  BY <1>1, <1>2 DEF AdmitInv

LEMMA LookAdmits ==
  ASSUME TypeInv, AdmitInv, NEW a \in A, Look(a)
  PROVE  AdmitInv'
<1>1. UNCHANGED <<heldVars, heldFor, rowVars, callerVars>>
  BY DEF Look
<1>2. UNCHANGED <<caller, keyed, pin, vouched>>
  BY <1>1 DEF callerVars, rowVars
<1>3. CASE a \in Calls
  <2>1. scan[a].at = "look" /\ PlaceOK(a) /\ DoorOK(a)
    BY <1>3 DEF Look, AdmitInv
  <2>2. ~Answered(a) /\ ~Answered(a)'
    BY <2>1, <1>1 DEF PlaceOK, Answered, heldVars
  <2>3. PlaceOK(a)' /\ DoorOK(a)'
    BY <2>1, <2>2, <1>2, LookAt DEF PlaceOK, DoorOK, Asking, Rang, Keyed
  <2>4. \A d \in Calls \ {a} : scan'[d] = scan[d] /\ caller'[d] = caller[d]
    BY <1>2, LookAt DEF A
  <2> QED  BY <1>1, <1>3, <2>2, <2>3, <2>4, RequestAdmits DEF callerVars
<1>4. CASE a \notin Calls
  <2>1. \A c \in Calls : SameRows(c)
    BY <1>4, LookAt DEF SameRows, A
  <2>2. StoreGrows /\ RowsOK' /\ NumbersEndWithDialIn'
    BY <1>1 DEF StoreGrows, AdmitInv, RowsOK, NumbersEndWithDialIn, rowVars
  <2> QED  BY <1>1, <2>1, <2>2, OutsideAdmits
<1> QED  BY <1>3, <1>4

\* A request decides whom the rows it read admit.
LEMMA DecideAdmits ==
  ASSUME TypeInv, AdmitInv, NEW c \in Calls,
         DecideByNumber(c) \/ DecideByPin(c) \/ Allows(c)
  PROVE  AdmitInv'
<1>1. UNCHANGED <<heldVars, heldFor, rowVars, callerVars>>
  BY DEF DecideByNumber, DecideByPin, Allows
<1>2. UNCHANGED <<caller, keyed, pin, vouched>>
  BY <1>1 DEF callerVars, rowVars
<1>3. scan[c].at \in {"settle", "allows"} /\ PlaceOK(c) /\ DoorOK(c) /\ c \in A
  BY DEF DecideByNumber, DecideByPin, Allows, ScanDone, AdmitInv, A
<1>4. ~Answered(c) /\ ~Answered(c)'
  BY <1>1, <1>3 DEF PlaceOK, Answered, heldVars
<1>5. ASSUME NEW to \in {"begin", "retry", "allows", "hold"}, Goto(c, to),
             to = "begin" => Rang(c), to = "retry" => Keyed(c),
             to = "allows" => scan[c].at = "settle" /\ scan[c].by = "pin",
             to = "hold" => \A s \in scan[c].rows : Stated(s, c)
      PROVE  AdmitInv'
  <2>1. PICK r : /\ scan' = [scan EXCEPT ![c] = r] /\ scan'[c] = r
                 /\ r.at = to /\ r.by = scan[c].by /\ r.rows = scan[c].rows /\ r.open = scan[c].open
    BY <1>3, <1>5, GotoAt
  <2>2. PlaceOK(c)'
    BY <2>1, <1>2, <1>3, <1>4, <1>5 DEF PlaceOK, Asking, Rang, Keyed
  <2>3. (scan'[c].at = "hold" => \A s \in scan'[c].rows : Stated(s, c)')
    BY <2>1, <1>2, <1>5 DEF Stated
  <2>4. DoorOK(c)'
    BY <2>1, <2>3, <1>2, <1>3, <1>5 DEF DoorOK, Asking
  <2> QED  BY <2>1, <2>2, <2>4, <1>1, <1>4, MoveAdmits
<1>6. CASE DecideByNumber(c)
  <2>1. Rang(c) /\ scan[c].at = "settle" /\ scan[c].by = "number"
    BY <1>3, <1>6 DEF DecideByNumber, ScanDone, PlaceOK, Asking
  <2>2. CASE scan' = [scan EXCEPT ![c].at = "hold", ![c].rows = RunningByNumber(c)]
    <3>1. PICK q \in Scan : scan[c] = q
      BY <1>3, ScanOf
    <3>2. PICK rs : rs = RunningByNumber(c)
      OBVIOUS
    <3>3. \A s \in rs : s \in NumberOnly /\ s \in scan[c].rows
      BY <3>2, <2>1, <1>3 DEF RunningByNumber, DoorOK, Asking
    <3> DEFINE r == [q EXCEPT !.at = "hold", !.rows = rs]
    <3>4. scan' = [scan EXCEPT ![c] = r]
      BY <2>2, <3>1, <3>2, <1>3 DEF TypeInv, TypeOK, A
    <3>5. r.at = "hold" /\ r.rows = rs
      BY DEF Scan
    <3> HIDE DEF r
    <3>6. scan'[c] = r
      BY <3>4, <1>3 DEF TypeInv, TypeOK, A
    <3>7. PlaceOK(c)'
      BY <3>5, <3>6, <2>1, <1>2, <1>3, <1>4 DEF PlaceOK, Asking, Rang, Keyed
    <3>8. \A s \in rs : pin[s] # None /\ <<s, c>> \in vouched
      BY <3>3, <2>1, <1>3 DEF DoorOK, Asking
    <3>9. \A s \in rs : Stated(s, c)'
      BY <3>3, <3>8, <1>2 DEF Stated
    <3>10. DoorOK(c)'
      BY <3>5, <3>6, <3>8, <3>9, <1>2 DEF DoorOK, Asking
    <3> QED  BY <3>4, <3>7, <3>10, <1>1, <1>4, MoveAdmits
  <2> QED  BY <1>5, <1>6, <2>1, <2>2 DEF DecideByNumber
<1>7. CASE DecideByPin(c)
  <2>1. Keyed(c) /\ scan[c].at = "settle" /\ scan[c].by = "pin"
    BY <1>3, <1>7 DEF DecideByPin, ScanDone, PlaceOK, Asking
  <2>2. ASSUME scan[c].open # {}, scan[c].open \cap ChecksNumber = {}
        PROVE  \A s \in scan[c].rows : Stated(s, c)
    <3>1. \A s \in scan[c].rows : s \in scan[c].open /\ keyed[c] = pin[s]
      BY <2>1, <2>2, <1>3 DEF DoorOK, Asking
    <3> QED  BY <2>2, <3>1 DEF Stated
  <2> QED  BY <1>5, <1>7, <2>1, <2>2 DEF DecideByPin, Found
<1>8. CASE Allows(c)
  <2>1. Keyed(c) /\ scan[c].at = "allows"
    BY <1>3, <1>8 DEF Allows, PlaceOK
  <2>2. ASSUME NEW s \in scan[c].rows, c \in numbers[s]
        PROVE  \A t \in scan[c].rows : Stated(t, c)
    <3>1. \A t \in scan[c].rows : t = s /\ keyed[c] = pin[t]
      BY <2>1, <2>2, <1>3 DEF DoorOK
    <3>2. <<s, c>> \in vouched
      BY <2>2, <1>3, ScanOf DEF AdmitInv, RowsOK
    <3> QED  BY <3>1, <3>2 DEF Stated
  <2> QED  BY <1>5, <1>8, <2>1, <2>2 DEF Allows, Found
<1> QED  BY <1>6, <1>7, <1>8

\* Holding a call enters it by the door its request found.
LEMMA HoldAdmits ==
  ASSUME TypeInv, AdmitInv, NEW c \in Calls, Admit(c)
  PROVE  AdmitInv'
<1>1. /\ scan[c].at = "hold" /\ PlaceOK(c) /\ DoorOK(c) /\ ~Answered(c)
      /\ UNCHANGED <<rowVars, pin, vouched, dialIn, numbers>>
  BY DEF Admit, AdmitInv, PlaceOK, rowVars
<1>2. CASE Full /\ Tell(c, "over") /\ UNCHANGED <<heldVars, heldFor>>
  BY <1>1, <1>2, TellAdmits
<1>3. ASSUME NEW t \in Tokens, NEW s \in scan[c].rows, HoldCall(c, t),
             heldFor' = [heldFor EXCEPT ![t] = s], Tell(c, "held")
      PROVE  AdmitInv'
  <2>a. /\ keyed' = keyed /\ scan' = [scan EXCEPT ![c] = Quiet]
        /\ caller' = caller \/ caller' = [caller EXCEPT ![c] = "held"]
    BY <1>3 DEF Tell
  <2>b. /\ scan \in [A -> Scan] /\ caller \in [Calls -> {"new", "ringing", "asked", "keyed", "held", "over"}]
        /\ heldFor \in [Tokens -> Sessions \cup {None}] /\ HeldTypeOK
        /\ byToken \in [Tokens -> HeldCall \cup {None}] /\ byCall \in [Calls -> Tokens \cup {None}]
    BY DEF TypeInv, TypeOK, A, HeldTypeOK
  <2>1. StoreGrows /\ RowsOK' /\ NumbersEndWithDialIn'
    BY <1>1 DEF StoreGrows, AdmitInv, RowsOK, NumbersEndWithDialIn
  <2>2. s \in Sessions /\ pin[s] # None /\ Stated(s, c)
    BY <1>1, ScanOf DEF DoorOK, A
  <2>3. Stated(s, c)'
    BY <2>1, <2>2, <2>a, StatedKept
  <2>4. caller'[c] \in MayBeHeld
    BY <1>1, <2>a, <2>b DEF PlaceOK, MayBeHeld
  <2>5. ASSUME NEW d \in Calls
        PROVE  PlaceOK(d)' /\ DoorOK(d)'
    <3>1. CASE d = c
      <4>1. scan'[d] = Quiet
        BY <3>1, <2>a, <2>b DEF A
      <4> QED  BY <4>1 DEF PlaceOK, DoorOK, Quiet, Asking
    <3>2. CASE d # c
      <4>1. /\ scan'[d] = scan[d] /\ caller'[d] = caller[d] /\ keyed'[d] = keyed[d]
            /\ byCall'[d] = byCall[d] /\ PlaceOK(d) /\ DoorOK(d)
        BY <3>2, <1>3, <2>a, <2>b DEF A, AdmitInv, HoldCall
      <4>2. PlaceOK(d)'
        BY <4>1 DEF PlaceOK, Rang, Keyed, Answered
      <4> QED  BY <4>1, <4>2, <2>1, DoorKept DEF SameRows
    <3> QED  BY <3>1, <3>2
  <2>6. ASSUME NEW u \in Tokens
        PROVE  EntryOK(u)'
    <3>1. CASE u = t
      <4>1. /\ byToken'[u].call = c /\ byCall'[c] = u /\ heldFor'[u] = s
        BY <3>1, <1>3, <2>b DEF HoldCall
      <4>2. pin'[s] # None
        BY <1>1, <2>2
      <4> QED  BY <4>1, <4>2, <2>2, <2>3, <2>4 DEF EntryOK, Stated
    <3>2. CASE u # t /\ Known(u)
      <4>1. /\ byToken'[u] = byToken[u] /\ heldFor'[u] = heldFor[u] /\ EntryOK(u)
        BY <3>2, <1>3, <2>b DEF HoldCall, AdmitInv
      <4>2. byToken[u].call \in Calls /\ byCall[byToken[u].call] = u /\ u # None
        BY <3>2, <4>1, <2>b, KnownEntry, HeldAssumption DEF EntryOK
      <4>3. byToken[u].call # c
        BY <1>1, <4>2 DEF Answered
      <4>4. byCall'[byToken[u].call] = byCall[byToken[u].call]
        BY <1>3, <4>2, <4>3, <2>b DEF HoldCall
      <4>5. /\ caller'[byToken[u].call] = caller[byToken[u].call]
            /\ caller[byToken[u].call] \in MayBeHeld
        BY <3>2, <2>a, <2>b, <4>1, <4>2, <4>3 DEF EntryOK
      <4> QED  BY <3>2, <2>1, <2>a, <4>1, <4>2, <4>4, <4>5, EntryKept
    <3>3. CASE u # t /\ ~Known(u)
      BY <3>3, <1>3, <2>b DEF HoldCall, Known, EntryOK
    <3> QED  BY <3>1, <3>2, <3>3
  <2> QED  BY <2>1, <2>5, <2>6 DEF AdmitInv
<1> QED  BY <1>2, <1>3 DEF Admit

\* Steps of the table and of the caller that admit nobody.
LEMMA CallerAdmits ==
  ASSUME TypeInv, AdmitInv, NEW c \in Calls,
         \/ DialBack(c) \/ CallerHangsUp(c) \/ Expires(c)
         \/ \E p \in Pins \cup {None} : KeyIn(c, p)
  PROVE  AdmitInv'
<1>a. UNCHANGED <<heldFor, rowVars, scan>>
  BY DEF DialBack, CallerHangsUp, Expires, KeyIn
<1>b. /\ caller \in [Calls -> {"new", "ringing", "asked", "keyed", "held", "over"}]
      /\ keyed \in [Calls -> Pins \cup {None}] /\ HeldTypeOK
      /\ byToken \in [Tokens -> HeldCall \cup {None}] /\ byCall \in [Calls -> Tokens \cup {None}]
  BY DEF TypeInv, TypeOK, HeldTypeOK
<1>1. StoreGrows /\ RowsOK' /\ NumbersEndWithDialIn'
  BY <1>a DEF StoreGrows, AdmitInv, RowsOK, NumbersEndWithDialIn, rowVars
<1>2. \A d \in Calls : byCall'[d] = byCall[d] \/ byCall'[d] = None
  BY <1>b DEF DialBack, DialCall, CallerHangsUp, Expires, Expire, KeyIn, heldVars
<1>3. \A d \in Calls : \/ caller'[d] = caller[d] /\ keyed'[d] = keyed[d]
                       \/ caller'[d] = "over" /\ keyed'[d] = keyed[d]
                       \/ caller[d] = "asked" /\ caller'[d] = "keyed"
  BY <1>b DEF DialBack, CallerHangsUp, Expires, KeyIn, callerVars
<1>4. ASSUME NEW d \in Calls
      PROVE  PlaceOK(d)' /\ DoorOK(d)'
  <2>0. PlaceOK(d) /\ DoorOK(d) /\ scan'[d] = scan[d]
    BY <1>a DEF AdmitInv
  <2>1. CASE scan[d].at = "idle"
    BY <2>0, <2>1 DEF PlaceOK, DoorOK, Asking
  <2>2. CASE scan[d].at # "idle"
    <3>1. ~Answered(d) /\ ~Answered(d)' /\ caller[d] # "asked"
      BY <2>0, <2>2, <1>2 DEF PlaceOK, Answered
    <3>2. keyed'[d] = keyed[d] /\ (caller'[d] = caller[d] \/ caller'[d] = "over")
      BY <3>1, <1>3
    <3>3. PlaceOK(d)'
      BY <2>0, <3>1, <3>2 DEF PlaceOK, Rang, Keyed
    <3> QED  BY <2>0, <3>2, <3>3, <1>1, DoorKept DEF SameRows
  <2> QED  BY <2>1, <2>2
<1>5. ASSUME NEW t \in Tokens
      PROVE  EntryOK(t)'
  <2>1. CASE ~Known(t)'
    BY <2>1 DEF EntryOK
  <2>2. CASE Known(t)'
    <3>1. Known(t) /\ byToken'[t].call = byToken[t].call
      BY <2>2, <1>b DEF Known, DialBack, Dials, DialCall, CallerHangsUp, Expires, Expire, KeyIn,
                        heldVars, Answered, HeldCall
    <3>2. EntryOK(t) /\ byToken[t].call \in Calls
      BY <3>1, <1>b, KnownEntry DEF AdmitInv
    <3>3. byCall'[byToken[t].call] = byCall[byToken[t].call]
      <4>1. CASE Expire(c) /\ Expires(c)
        <5>1. byToken'[byCall[c]] = None
          BY <4>1, <1>b DEF Expire
        <5>2. t # byCall[c]
          BY <2>2, <5>1 DEF Known
        <5>3. byToken[t].call # c
          BY <3>1, <3>2, <5>2 DEF EntryOK
        <5> QED  BY <4>1, <5>3, <3>2, <1>b DEF Expire
      <4>2. CASE byCall' = byCall
        BY <4>2
      <4> QED  BY <4>1, <4>2 DEF DialBack, DialCall, CallerHangsUp, Expires, KeyIn, heldVars
    <3>4. /\ caller'[byToken[t].call] \in MayBeHeld
          /\ keyed'[byToken[t].call] = keyed[byToken[t].call]
      BY <1>3, <3>1, <3>2 DEF EntryOK, MayBeHeld
    <3> QED  BY <1>1, <1>a, <3>1, <3>2, <3>3, <3>4, EntryKept
  <2> QED  BY <2>1, <2>2
<1> QED  BY <1>1, <1>4, <1>5 DEF AdmitInv

\* Steps of the store, of people and of rooms.
LEMMA SessionAdmits ==
  ASSUME TypeInv, AdmitInv, NEW s \in Sessions, SessionStep(s)
  PROVE  AdmitInv'
<1>1. /\ UNCHANGED <<heldVars, heldFor, callerVars, scan>>
  BY DEF SessionStep, CreateSession, SetNumbers, RoomOpens, MarkJoined, RoomCloses, Age,
         RoomFinished, CloseDialIn
<1>2. \A c \in Calls : SameRows(c)
  BY <1>1 DEF SameRows
<1>3. /\ pin \in [Sessions -> Pins \cup {None}] /\ numbers \in [Sessions -> SUBSET Calls]
      /\ dialIn \subseteq Sessions
  BY DEF TypeInv, TypeOK
<1>4. RowsOK /\ NumbersEndWithDialIn
  BY DEF AdmitInv
<1>5. StoreGrows /\ RowsOK' /\ NumbersEndWithDialIn'
  <2>1. CASE \E p \in Pins : CreateSession(s, p)
    <3>1. PICK p \in Pins : CreateSession(s, p)
      BY <2>1
    <3>2. p # None
      BY DialInAssumption
    <3> QED  BY <3>1, <3>2, <1>3, <1>4 DEF CreateSession, StoreGrows, RowsOK, NumbersEndWithDialIn
  <2>2. CASE \E ns \in SUBSET Calls : SetNumbers(s, ns)
    BY <2>2, <1>3, <1>4 DEF SetNumbers, StoreGrows, RowsOK, NumbersEndWithDialIn
  <2>3. CASE EndDialIn(s)
    BY <2>3, <1>3, <1>4 DEF EndDialIn, StoreGrows, RowsOK, NumbersEndWithDialIn
  <2>4. CASE UNCHANGED rowVars
    BY <2>4, <1>4 DEF rowVars, StoreGrows, RowsOK, NumbersEndWithDialIn
  <2> QED  BY <2>1, <2>2, <2>3, <2>4 DEF SessionStep, RoomOpens, MarkJoined, RoomCloses, Age,
                                         RoomFinished, CloseDialIn
<1> QED  BY <1>1, <1>2, <1>5, OutsideAdmits

LEMMA SweepAdmits ==
  ASSUME TypeInv, AdmitInv,
         \/ SweepList \/ SweepDone
         \/ \E a \in A : Look(a) \/ ScanFails(a) \/ \E s \in Sessions : Settle(a, s)
  PROVE  AdmitInv'
<1>a. /\ scan \in [A -> Scan] /\ numbers \in [Sessions -> SUBSET Calls] /\ Sweep \notin Calls
      /\ dialIn \subseteq Sessions
  BY DialInAssumption DEF TypeInv, TypeOK, A
<1>b. RowsOK /\ NumbersEndWithDialIn
  BY DEF AdmitInv
<1>1. CASE \/ SweepList \/ SweepDone
           \/ /\ ScanFails(Sweep) /\ UNCHANGED callerVars
              /\ scan' = [scan EXCEPT ![Sweep] = Quiet]
  <2>1. UNCHANGED <<heldVars, heldFor, rowVars, callerVars>>
    BY <1>1 DEF SweepList, SweepDone, ScanFails
  <2>2. \A c \in Calls : scan'[c] = scan[c]
    BY <1>1, <1>a DEF SweepList, SweepDone, Read, A
  <2>3. StoreGrows /\ RowsOK' /\ NumbersEndWithDialIn'
    BY <2>1, <1>b DEF StoreGrows, RowsOK, NumbersEndWithDialIn, rowVars
  <2> QED  BY <2>1, <2>2, <2>3, OutsideAdmits DEF SameRows
<1>2. ASSUME NEW a \in Calls, ScanFails(a), Tell(a, "over")
      PROVE  AdmitInv'
  BY <1>2, TellAdmits DEF ScanFails
<1>3. ASSUME NEW a \in A, NEW s \in Sessions, Settle(a, s)
      PROVE  AdmitInv'
  <2>1. UNCHANGED <<heldVars, heldFor, callerVars>>
    BY <1>3 DEF Settle
  <2>2. \A c \in Calls : SameRows(c)
    <3>1. PICK q \in Scan : q = scan[a]
      BY <1>a
    <3> DEFINE r == [q EXCEPT !.todo = q.todo \ {s}]
    <3>2. scan' = [scan EXCEPT ![a] = r]
      BY <1>3, <3>1 DEF Settle
    <3>3. r.at = q.at /\ r.by = q.by /\ r.rows = q.rows /\ r.open = q.open
      BY DEF Scan
    <3> HIDE DEF r
    <3> QED  BY <3>1, <3>2, <3>3, <1>a DEF SameRows, A
  <2>3. StoreGrows /\ RowsOK' /\ NumbersEndWithDialIn'
    <3>1. CASE EndDialIn(s)
      BY <3>1, <1>a, <1>b DEF EndDialIn, StoreGrows, RowsOK, NumbersEndWithDialIn
    <3>2. CASE UNCHANGED rowVars \/ MarkDialInOpened(s)
      BY <3>2, <1>b DEF rowVars, MarkDialInOpened, StoreGrows, RowsOK, NumbersEndWithDialIn
    <3> QED  BY <1>3, <3>1, <3>2 DEF Settle, Settled
  <2> QED  BY <2>1, <2>2, <2>3, OutsideAdmits
<1>4. ASSUME NEW a \in A, ScanFails(a)
      PROVE  AdmitInv'
  BY <1>1, <1>2, <1>4 DEF ScanFails
<1> QED  BY <1>1, <1>3, <1>4, LookAdmits

LEMMA NextAdmits == TypeInv /\ AdmitInv /\ [Next]_vars => AdmitInv'
<1> SUFFICES ASSUME TypeInv, AdmitInv, [Next]_vars
             PROVE  AdmitInv'
  OBVIOUS
<1>1. ASSUME NEW c \in Calls, CallStep(c)
      PROVE  AdmitInv'
  <2>1. CASE AnsweredAgain(c)
    BY <2>1, TellAdmits DEF AnsweredAgain
  <2>2. CASE Begin(c) \/ Retry(c)
    <3>1. ~Answered(c) /\ UNCHANGED <<heldVars, heldFor, rowVars>>
      BY <2>2 DEF Begin, Retry, AdmitInv, PlaceOK
    <3> QED  BY <3>1, <2>2, TellAdmits DEF Begin, Retry
  <2> QED  BY <1>1, <2>1, <2>2, RingAdmits, ReadAdmits, DecideAdmits, HoldAdmits, CallerAdmits
           DEF CallStep
<1>2. CASE Crash
  <2>1. /\ UNCHANGED <<rowVars, callerVars>> /\ HeldLost
        /\ scan' = [a \in Calls \cup {Sweep} |-> Quiet]
    BY <1>2 DEF Crash
  <2>2. RowsOK' /\ NumbersEndWithDialIn'
    BY <2>1 DEF AdmitInv, RowsOK, NumbersEndWithDialIn, rowVars
  <2>3. \A c \in Calls : PlaceOK(c)' /\ DoorOK(c)'
    BY <2>1 DEF PlaceOK, DoorOK, Quiet, Asking
  <2>4. \A t \in Tokens : EntryOK(t)'
    BY <2>1 DEF EntryOK, HeldLost, Known
  <2> QED  BY <2>2, <2>3, <2>4 DEF AdmitInv
<1>3. CASE UNCHANGED vars
  <2>1. UNCHANGED <<heldVars, heldFor, rowVars, callerVars, scan>>
    BY <1>3 DEF vars
  <2>2. StoreGrows /\ RowsOK' /\ NumbersEndWithDialIn' /\ \A c \in Calls : SameRows(c)
    BY <2>1 DEF AdmitInv, StoreGrows, RowsOK, NumbersEndWithDialIn, rowVars, SameRows
  <2> QED  BY <2>1, <2>2, OutsideAdmits
<1> QED  BY <1>1, <1>2, <1>3, SessionAdmits, SweepAdmits DEF Next, A

LEMMA InitAdmits == Init => AdmitInv
  BY DEF Init, HeldInit, AdmitInv, RowsOK, NumbersEndWithDialIn, PlaceOK, DoorOK, EntryOK,
         Quiet, Asking, Known

-----------------------------------------------------------------------------
(* How often a caller is asked.                                            *)

LEMMA AgainIs ==
  ASSUME TypeInv
  PROVE  /\ Again \in Nat /\ PinAttempts \in Nat \ {0} /\ crashes \in Nat
         /\ crashes' = crashes => Again' = Again
         /\ crashes' = crashes + 1 => Again' = Again + PinAttempts - 1
<1>1. crashes \in Nat /\ PinAttempts \in Nat \ {0}
  BY DialInAssumption DEF TypeInv, TypeOK
<1>2. Again \in Nat
  BY <1>1 DEF Again
<1>3. crashes' = crashes + 1 => Again' = Again + PinAttempts - 1
  BY <1>1 DEF Again
<1> QED  BY <1>1, <1>2, <1>3 DEF Again

LEMMA CountKept ==
  ASSUME NEW c \in Calls, CountOK(c), crashes' = crashes, asked'[c] = asked[c],
         \/ /\ caller'[c] = caller[c]
            /\ scan[c].at = "hold" => scan'[c].at = "hold"
            /\ (c \in prompting)' <=> c \in prompting
         \/ caller'[c] \notin {"asked", "keyed"}
         \/ c \notin prompting' /\ scan'[c].at = "hold",
         (c \in prompting)' => c \in prompting, attempts'[c] = attempts[c]
  PROVE  CountOK(c)'
  BY DEF CountOK, Again

LEMMA TellCounts ==
  ASSUME ~Lossy, TypeInv, NEW c \in Calls, NEW to \in {"asked", "held", "over"}, Tell(c, to)
  PROVE  /\ \A d \in Calls \ {c} : /\ caller'[d] = caller[d] /\ asked'[d] = asked[d]
                                   /\ scan'[d] = scan[d]
         /\ \/ /\ caller[c] \in {"ringing", "keyed"} /\ caller'[c] = to
               /\ asked'[c] = IF to = "asked" THEN asked[c] + 1 ELSE asked[c]
            \/ caller[c] = "over" /\ caller'[c] = "over" /\ asked'[c] = asked[c]
  BY DEF Tell, TypeInv, TypeOK, A

\* The prompt of a caller, the first and again.
LEMMA PromptCounts ==
  ASSUME ~Lossy, TypeInv, AdmitInv, CountsOK, NEW c \in Calls, Begin(c) \/ Retry(c)
  PROVE  CountsOK'
<1>a. /\ asked \in [Calls -> 0..MaxAsked] /\ attempts \in [Calls -> 0..PinAttempts]
      /\ MaxAsked \in Nat /\ PinAttempts \in Nat \ {0} /\ Again \in Nat /\ Again' = Again
      /\ crashes' = crashes
  BY AgainIs, DialInAssumption DEF TypeInv, TypeOK, Begin, Retry
<1>b. PlaceOK(c) /\ CountOK(c) /\ (caller[c] = "ringing" => asked[c] = 0)
  BY DEF AdmitInv, CountsOK, TypeInv, CallersOK
<1>1. ASSUME NEW d \in Calls, d # c
      PROVE  CountOK(d)'
  <2>1. CountOK(d) /\ caller'[d] = caller[d] /\ asked'[d] = asked[d] /\ scan'[d] = scan[d]
    BY <1>1, TellCounts DEF Begin, Retry, CountsOK
  <2>2. (d \in prompting)' <=> d \in prompting
    BY <1>1 DEF Begin, Retry, promptVars
  <2>3. attempts'[d] = attempts[d]
    BY <1>1, <1>a DEF Begin, Retry, promptVars
  <2> QED  BY <2>1, <2>2, <2>3, <1>a, CountKept
<1>2. CASE Begin(c)
  <2>1. scan[c].at = "begin" /\ (caller[c] \in {"ringing", "keyed"} => asked[c] = 0)
    BY <1>2, <1>b DEF Begin, PlaceOK, Rang
  <2>2. CASE c \in prompting /\ UNCHANGED promptVars /\ Tell(c, "asked")
    <3>1. \/ caller'[c] = "asked" /\ asked'[c] = 1
          \/ caller'[c] = "over" /\ asked'[c] = asked[c]
      BY <2>1, <2>2, TellCounts
    <3>2. prompting' = prompting /\ attempts' = attempts /\ attempts[c] \in Nat /\ asked[c] \in Nat
      BY <2>2, <1>a DEF promptVars
    <3>3. CountOK(c)'
      BY <3>1, <3>2, <2>2, <1>a, <1>b DEF CountOK
    <3> QED  BY <3>3, <1>1 DEF CountsOK
  <2>3. CASE /\ c \notin prompting /\ prompting' = prompting \cup {c}
             /\ attempts' = [attempts EXCEPT ![c] = 0] /\ Tell(c, "asked")
    <3>1. \/ caller'[c] = "asked" /\ asked'[c] = 1
          \/ caller'[c] = "over" /\ asked'[c] = asked[c]
      BY <2>1, <2>3, TellCounts
    <3>2. c \in prompting' /\ attempts'[c] = 0 /\ asked[c] \in Nat
      BY <2>3, <1>a
    <3>3. CountOK(c)'
      BY <3>1, <3>2, <1>a, <1>b DEF CountOK
    <3> QED  BY <3>3, <1>1 DEF CountsOK
  <2>4. CASE c \notin prompting /\ UNCHANGED promptVars /\ Tell(c, "over")
    <3>1. caller'[c] = "over" /\ asked'[c] = asked[c]
      BY <2>4, TellCounts
    <3>2. CountOK(c)'
      BY <3>1, <2>4, <1>a, <1>b DEF CountOK, promptVars
    <3> QED  BY <3>2, <1>1 DEF CountsOK
  <2> QED  BY <1>2, <2>2, <2>3, <2>4 DEF Begin
<1>3. CASE Retry(c)
  <2>1. scan[c].at = "retry" /\ caller[c] # "ringing"
    BY <1>3, <1>b DEF Retry, PlaceOK, Keyed
  <2>2. CASE /\ RetriesLeft(c) /\ prompting' = prompting \cup {c}
             /\ attempts' = [attempts EXCEPT ![c] = Attempts(c)] /\ Tell(c, "asked")
    <3>1. \/ caller[c] = "keyed" /\ caller'[c] = "asked" /\ asked'[c] = asked[c] + 1
          \/ caller'[c] = "over" /\ asked'[c] = asked[c]
      BY <2>1, <2>2, TellCounts
    <3>2. /\ c \in prompting' /\ attempts'[c] = Attempts(c) /\ Attempts(c) < PinAttempts
          /\ asked[c] \in Nat /\ attempts[c] \in Nat
      BY <2>2, <1>a DEF RetriesLeft
    <3>3. caller[c] = "keyed" => asked[c] <= Attempts(c) + Again
      BY <2>1, <3>2, <1>a, <1>b DEF CountOK, Attempts
    <3>4. Attempts(c) \in Nat
      BY <3>2 DEF Attempts
    <3>5. CountOK(c)'
      BY <3>1, <3>2, <3>3, <3>4, <1>a, <1>b DEF CountOK
    <3> QED  BY <3>5, <1>1 DEF CountsOK
  <2>3. CASE /\ prompting' \subseteq prompting /\ UNCHANGED attempts /\ Tell(c, "over")
    <3>1. caller'[c] = "over" /\ asked'[c] = asked[c]
      BY <2>3, TellCounts
    <3>2. CountOK(c)'
      BY <3>1, <2>3, <1>a, <1>b DEF CountOK
    <3> QED  BY <3>2, <1>1 DEF CountsOK
  <2> QED  BY <1>3, <2>2, <2>3 DEF Retry, promptVars
<1> QED  BY <1>2, <1>3

LEMMA CallCounts ==
  ASSUME ~Lossy, TypeInv, AdmitInv, CountsOK, NEW c \in Calls, CallStep(c)
  PROVE  CountsOK'
<1>a. /\ scan \in [A -> Scan] /\ c \in A
      /\ caller \in [Calls -> {"new", "ringing", "asked", "keyed", "held", "over"}]
  BY DEF TypeInv, TypeOK, A
<1>b. \A d \in Calls : PlaceOK(d) /\ CountOK(d)
  BY DEF AdmitInv, CountsOK
<1>1. CASE Begin(c) \/ Retry(c)
  BY <1>1, PromptCounts
<1>2. CASE AnsweredAgain(c) \/ Admit(c)
  <2>1. crashes' = crashes /\ prompting' = prompting /\ attempts' = attempts
    BY <1>2 DEF AnsweredAgain, Admit, promptVars
  <2>2. Tell(c, "held") \/ Tell(c, "over")
    BY <1>2 DEF AnsweredAgain, Admit
  <2>3. \A d \in Calls : /\ asked'[d] = asked[d]
                         /\ \/ caller'[d] = caller[d] /\ scan'[d] = scan[d]
                            \/ caller'[d] \in {"held", "over"}
    BY <2>2, TellCounts
  <2> QED  BY <2>1, <2>3, <1>b, CountKept DEF CountsOK
<1>3. CASE Ring(c) \/ PostDigits(c) \/ ListByNumber(c) \/ LookupPin(c)
  <2>1. /\ crashes' = crashes /\ prompting' = prompting /\ attempts' = attempts /\ asked' = asked
        /\ scan[c].at # "hold"
        /\ \A d \in Calls \ {c} : scan'[d] = scan[d]
    BY <1>3, <1>a DEF Ring, PostDigits, ListByNumber, LookupPin, promptVars, callerVars, Quiet,
                      Goto, Read, A
  <2>2. \A d \in Calls : caller'[d] = caller[d] \/ caller'[d] = "ringing"
    BY <1>3, <1>a DEF Ring, PostDigits, ListByNumber, LookupPin, callerVars
  <2>3. \A d \in Calls : scan[d].at = "hold" => scan'[d].at = "hold"
    BY <2>1
  <2> QED  BY <2>1, <2>2, <2>3, <1>b, CountKept DEF CountsOK
<1>4. CASE DecideByNumber(c) \/ DecideByPin(c) \/ Allows(c)
  <2>1. /\ crashes' = crashes /\ attempts' = attempts /\ asked' = asked /\ caller' = caller
        /\ scan[c].at # "hold"
        /\ \A d \in Calls \ {c} : scan'[d] = scan[d]
    BY <1>4, <1>a DEF DecideByNumber, DecideByPin, Allows, ScanDone, promptVars, callerVars,
                      Found, Goto, A
  <2>2. \/ prompting' = prompting
        \/ prompting' = prompting \ {c} /\ Goto(c, "hold")
    BY <1>4 DEF DecideByNumber, DecideByPin, Allows, promptVars, Found
  <2>3. Goto(c, "hold") => scan'[c].at = "hold"
    BY <1>a, GotoAt
  <2>4. ASSUME NEW d \in Calls
        PROVE  CountOK(d)'
    BY <2>1, <2>2, <2>3, <1>b, CountKept
  <2> QED  BY <2>4 DEF CountsOK
<1>5. CASE DialBack(c) \/ CallerHangsUp(c)
  <2>1. /\ crashes' = crashes /\ prompting' = prompting /\ attempts' = attempts /\ asked' = asked
        /\ scan' = scan /\ \A d \in Calls : caller'[d] = caller[d] \/ caller'[d] = "over"
    BY <1>5, <1>a DEF DialBack, CallerHangsUp, promptVars, callerVars
  <2> QED  BY <2>1, <1>b, CountKept DEF CountsOK
<1>6. CASE Expires(c)
  <2>1. /\ crashes' = crashes /\ attempts' = attempts /\ asked' = asked /\ caller' = caller
        /\ scan' = scan /\ caller[c] \in {"held", "over"}
        /\ (prompting' = prompting \/ prompting' = prompting \ {c})
    BY <1>6 DEF Expires, callerVars, promptVars
  <2>2. ASSUME NEW d \in Calls
        PROVE  CountOK(d)'
    BY <2>1, <1>b, CountKept
  <2> QED  BY <2>2 DEF CountsOK
<1>7. CASE \E p \in Pins \cup {None} : KeyIn(c, p)
  <2>1. /\ UNCHANGED <<crashes, prompting, attempts, asked, scan>>
        /\ caller[c] = "asked" /\ caller' = [caller EXCEPT ![c] = "keyed"]
    BY <1>7 DEF KeyIn, promptVars
  <2>2. ASSUME NEW d \in Calls
        PROVE  CountOK(d)'
    <3>1. \/ caller'[d] = caller[d]
          \/ caller[d] = "asked" /\ caller'[d] = "keyed"
      BY <2>1, <1>a
    <3> QED  BY <2>1, <3>1, <1>b DEF CountOK, Again
  <2> QED  BY <2>2 DEF CountsOK
<1> QED  BY <1>1, <1>2, <1>3, <1>4, <1>5, <1>6, <1>7 DEF CallStep

LEMMA NextCounts == ~Lossy /\ TypeInv /\ AdmitInv /\ CountsOK /\ [Next]_vars => CountsOK'
<1> SUFFICES ASSUME ~Lossy, TypeInv, AdmitInv, CountsOK, [Next]_vars
             PROVE  CountsOK'
  OBVIOUS
<1>a. scan \in [A -> Scan] /\ \A d \in Calls : CountOK(d)
  BY DEF TypeInv, TypeOK, A, CountsOK
<1>1. ASSUME \/ \E s \in Sessions : SessionStep(s)
             \/ SweepList \/ SweepDone
             \/ \E a \in A : Look(a) \/ \E s \in Sessions : Settle(a, s)
             \/ UNCHANGED vars
      PROVE  CountsOK'
  <2>1. UNCHANGED <<crashes, prompting, attempts, asked, caller>>
    BY <1>1 DEF SessionStep, CreateSession, SetNumbers, RoomOpens, MarkJoined, RoomCloses, Age,
         RoomFinished, CloseDialIn, SweepList, SweepDone, Look, Settle, vars, promptVars, callerVars
  <2>2. ASSUME NEW d \in Calls, scan[d].at = "hold"
        PROVE  scan'[d] = scan[d] \/ scan'[d].at = "hold"
    <3>1. CASE UNCHANGED scan
      BY <3>1
    <3>2. CASE SweepList \/ SweepDone
      BY <3>2, <1>a, DialInAssumption DEF SweepList, SweepDone, Read, A
    <3>3. ASSUME NEW a \in A, Look(a)
          PROVE  scan'[d] = scan[d]
      <4>1. scan[a].at # "hold" /\ d \in A
        BY <3>3 DEF Look, A
      <4> QED  BY <4>1, <2>2, <3>3, LookAt
    <3>4. ASSUME NEW a \in A, NEW s \in Sessions, Settle(a, s)
          PROVE  scan'[d] = scan[d]
      <4>1. scan[a].at # "hold"
        BY <3>4 DEF Settle
      <4> QED  BY <4>1, <2>2, <3>4, <1>a DEF Settle, A
    <3> QED  BY <1>1, <3>1, <3>2, <3>3, <3>4
         DEF SessionStep, CreateSession, SetNumbers, RoomOpens, MarkJoined, RoomCloses, Age,
             RoomFinished, CloseDialIn, vars
  <2>3. \A d \in Calls : scan[d].at = "hold" => scan'[d].at = "hold"
    BY <2>2
  <2> QED  BY <2>1, <2>3, <1>a, CountKept DEF CountsOK
<1>2. ASSUME NEW a \in A, ScanFails(a)
      PROVE  CountsOK'
  <2>1. UNCHANGED <<crashes, prompting, attempts>>
    BY <1>2 DEF ScanFails, promptVars
  <2>2. \A d \in Calls : /\ asked'[d] = asked[d]
                         /\ \/ caller'[d] = caller[d] /\ scan'[d] = scan[d]
                            \/ caller'[d] = "over"
    <3>1. CASE a \in Calls /\ Tell(a, "over")
      BY <3>1, TellCounts
    <3>2. CASE a = Sweep /\ scan' = [scan EXCEPT ![a] = Quiet] /\ UNCHANGED callerVars
      BY <3>2, <1>a, DialInAssumption DEF callerVars, A
    <3> QED  BY <1>2, <3>1, <3>2 DEF ScanFails
  <2> QED  BY <2>1, <2>2, <1>a, CountKept DEF CountsOK
<1>3. CASE Crash
  <2>1. /\ crashes' = crashes + 1 /\ prompting' = {} /\ asked' = asked /\ asked \in [Calls -> 0..MaxAsked]
        /\ MaxAsked \in Nat
    BY <1>3, DialInAssumption DEF Crash, callerVars, TypeInv, TypeOK
  <2>2. /\ Again \in Nat /\ PinAttempts \in Nat \ {0} /\ Again' = Again + PinAttempts - 1
    BY <2>1, AgainIs
  <2>3. ASSUME NEW d \in Calls
        PROVE  CountOK(d)'
    <3>1. asked[d] <= PinAttempts + Again /\ asked[d] \in Nat
      BY <1>a, <2>1 DEF CountOK
    <3> QED  BY <3>1, <2>1, <2>2 DEF CountOK
  <2> QED  BY <2>3 DEF CountsOK
<1> QED  BY <1>1, <1>2, <1>3, CallCounts DEF Next, A

LEMMA InitCounts == Init => CountsOK
<1> SUFFICES ASSUME Init, NEW c \in Calls
             PROVE  CountOK(c)
  BY DEF CountsOK
<1>1. Again = 0 /\ PinAttempts \in Nat
  BY DialInAssumption DEF Init, Again
<1> QED  BY <1>1 DEF Init, CountOK

-----------------------------------------------------------------------------
(* What ends a dial-in.                                                    *)

\* What was open stays known to have been, and what is a day old stays it.
TimeGoesOn == open \cup ran \subseteq open' \cup ran' /\ ran \subseteq ran' /\ aged \subseteq aged'

LEMMA ScanKept ==
  ASSUME TimeGoesOn, NEW a \in A, ScanOK(a),
         \/ scan'[a].at \notin Asking
         \/ /\ scan'[a].at = scan[a].at /\ scan'[a].open = scan[a].open
            /\ scan'[a].old = scan[a].old
  PROVE  ScanOK(a)'
  BY DEF ScanOK, TimeGoesOn, Asking

LEMMA ReadScans ==
  ASSUME ScansOK, TypeInv, NEW a \in A, NEW by, NEW rs, Read(a, by, rs), UNCHANGED <<roomVars, aged>>
  PROVE  \A b \in A : ScanOK(b)'
<1> DEFINE r == [Quiet EXCEPT !.at = "look", !.by = by, !.rows = rs, !.old = rs \cap opened]
<1>1. scan' = [scan EXCEPT ![a] = r]
  BY DEF Read
<1>2. r.at = "look" /\ r.old = rs \cap opened /\ r.open = {}
  BY DEF Quiet
<1> HIDE DEF r
<1>3. scan'[a] = r /\ \A b \in A \ {a} : scan'[b] = scan[b]
  BY <1>1 DEF TypeInv, TypeOK, A
<1>4. open' = open /\ ran' = ran /\ aged' = aged
  BY DEF roomVars
<1>5. ScanOK(a)'
  BY <1>2, <1>3, <1>4 DEF ScanOK, ScansOK
<1> QED  BY <1>3, <1>4, <1>5 DEF ScanOK, ScansOK

LEMMA LookScans ==
  ASSUME ScansOK, TypeInv, NEW a \in A, Look(a)
  PROVE  \A b \in A : ScanOK(b)'
<1>1. UNCHANGED <<open, ran, aged>> /\ scan[a].at = "look"
  BY DEF Look, roomVars, sessionVars
<1>2. ScanOK(a)'
  BY <1>1, LookAt DEF ScanOK, ScansOK, Asking
<1> QED  BY <1>1, <1>2, LookAt DEF ScanOK, ScansOK

LEMMA GotoKeeps ==
  ASSUME TypeInv, NEW c \in Calls, NEW to, to \notin Asking, Goto(c, to), NEW b \in A
  PROVE  scan'[b].at \notin Asking \/ scan'[b] = scan[b]
<1>1. c \in A /\ scan \in [A -> Scan]
  BY DEF TypeInv, TypeOK, A
<1>2. scan'[c].at = to
  BY <1>1, GotoAt
<1> QED  BY <1>1, <1>2 DEF Goto

LEMMA ListScans ==
  ASSUME ScansOK, TypeInv, NEW c \in Calls, ListByNumber(c) \/ LookupPin(c)
  PROVE  \A b \in A : ScanOK(b)'
<1>1. c \in A /\ UNCHANGED <<roomVars, open, ran, aged>>
  BY DEF ListByNumber, LookupPin, A, roomVars, sessionVars
<1>2. TimeGoesOn
  BY <1>1 DEF TimeGoesOn
<1>3. \/ \E by, rs : Read(c, by, rs)
      \/ \E to \in {"begin", "retry"} : Goto(c, to)
  BY DEF ListByNumber, LookupPin
<1>4. ASSUME NEW by, NEW rs, Read(c, by, rs)
      PROVE  \A b \in A : ScanOK(b)'
  BY <1>1, <1>4, ReadScans
<1>5. ASSUME NEW to \in {"begin", "retry"}, Goto(c, to), NEW b \in A
      PROVE  ScanOK(b)'
  <2>1. scan'[b].at \notin Asking \/ scan'[b] = scan[b]
    BY <1>5, GotoKeeps DEF Asking
  <2>2. ScanOK(b)
    BY DEF ScansOK
  <2> QED  BY <2>1, <2>2, <1>2, ScanKept
<1> QED  BY <1>3, <1>4, <1>5

\* Every other step only goes on with what the scans know.
LEMMA OthersScan ==
  ASSUME TypeInv, NEW b \in A,
         \/ \E c \in Calls : CallStep(c) /\ ~ListByNumber(c) /\ ~LookupPin(c)
         \/ \E s \in Sessions : SessionStep(s)
         \/ SweepDone
         \/ \E a \in A : ScanFails(a) \/ \E s \in Sessions : Settle(a, s)
         \/ Crash
         \/ UNCHANGED vars
  PROVE  \/ scan'[b].at \notin Asking
         \/ /\ scan'[b].at = scan[b].at /\ scan'[b].open = scan[b].open
            /\ scan'[b].old = scan[b].old
<1>a. scan \in [A -> Scan]
  BY DEF TypeInv, TypeOK, A
<1>b. Quiet.at \notin Asking
  BY DEF Quiet, Asking
<1>1. ASSUME NEW c \in Calls, NEW to, to \notin Asking, Goto(c, to)
      PROVE  scan'[b].at \notin Asking \/ scan'[b] = scan[b]
  BY <1>1, GotoKeeps
<1>2. ASSUME NEW c \in Calls, CallStep(c), ~ListByNumber(c), ~LookupPin(c)
      PROVE  scan'[b].at \notin Asking \/ scan'[b] = scan[b]
  <2> c \in A
    BY DEF A
  <2>1. CASE AnsweredAgain(c) \/ Admit(c) \/ Begin(c) \/ Retry(c)
    <3>1. scan' = [scan EXCEPT ![c] = Quiet]
      BY <2>1 DEF AnsweredAgain, Admit, Begin, Retry, Tell
    <3> QED  BY <3>1, <1>a, <1>b
  <2>2. CASE Ring(c) \/ PostDigits(c)
    BY <2>2, <1>1 DEF Ring, PostDigits, Asking
  <2>5. CASE DecideByNumber(c)
    <3>1. CASE scan' = [scan EXCEPT ![c].at = "hold", ![c].rows = RunningByNumber(c)]
      <4>1. PICK q \in Scan : scan[c] = q
        BY <1>a
      <4>2. PICK rs : rs = RunningByNumber(c)
        OBVIOUS
      <4> DEFINE r == [q EXCEPT !.at = "hold", !.rows = rs]
      <4>3. r.at = "hold" /\ scan' = [scan EXCEPT ![c] = r]
        BY <3>1, <4>1, <4>2, <1>a DEF Scan
      <4> HIDE DEF r
      <4> QED  BY <4>3, <1>a DEF Asking
    <3> QED  BY <2>5, <3>1, <1>1 DEF DecideByNumber, Asking
  <2>6. CASE DecideByPin(c) \/ Allows(c)
    BY <2>6, <1>1 DEF DecideByPin, Allows, Found, Asking
  <2>7. CASE \/ DialBack(c) \/ CallerHangsUp(c) \/ Expires(c)
             \/ \E p \in Pins \cup {None} : KeyIn(c, p)
    BY <2>7 DEF DialBack, CallerHangsUp, Expires, KeyIn
  <2> QED  BY <1>2, <2>1, <2>2, <2>5, <2>6, <2>7 DEF CallStep
<1>3. CASE (\E s \in Sessions : SessionStep(s)) \/ UNCHANGED vars
  BY <1>3 DEF SessionStep, CreateSession, SetNumbers, RoomOpens, MarkJoined, RoomCloses, Age,
         RoomFinished, CloseDialIn, vars
<1>4. CASE SweepDone \/ Crash
  BY <1>4, <1>a, <1>b DEF SweepDone, Crash, A
<1>5. ASSUME NEW a \in A, ScanFails(a)
      PROVE  scan'[b].at \notin Asking \/ scan'[b] = scan[b]
  <2>1. scan' = [scan EXCEPT ![a] = Quiet]
    BY <1>5 DEF ScanFails, Tell
  <2> QED  BY <2>1, <1>a, <1>b
<1>6. ASSUME NEW a \in A, NEW s \in Sessions, Settle(a, s)
      PROVE  /\ scan'[b].at = scan[b].at /\ scan'[b].open = scan[b].open
             /\ scan'[b].old = scan[b].old
  <2>1. PICK q \in Scan : q = scan[a]
    BY <1>a
  <2> DEFINE r == [q EXCEPT !.todo = q.todo \ {s}]
  <2>2. scan' = [scan EXCEPT ![a] = r]
    BY <1>6, <2>1 DEF Settle
  <2>3. r.at = q.at /\ r.open = q.open /\ r.old = q.old
    BY DEF Scan
  <2> HIDE DEF r
  <2> QED  BY <2>1, <2>2, <2>3, <1>a
<1> QED  BY <1>2, <1>3, <1>4, <1>5, <1>6

\* What each step does to the rooms and to the rows that were opened.
LEMMA RoomsGoOn ==
  ASSUME TypeInv, ScansOK, [Next]_vars
  PROVE  /\ TimeGoesOn
         /\ opened' \subseteq open' \cup ran'
         /\ ending' \cup finished' \subseteq ran'
         /\ \A s \in dialIn \ dialIn' : s \in ran \cup aged
<1>a. /\ opened \subseteq open \cup ran /\ ending \subseteq ran /\ finished \subseteq ran
      /\ \A a \in A : ScanOK(a)
  BY DEF ScansOK
<1>1. ASSUME UNCHANGED <<open, ran, aged, finished, ending>>,
             \A s \in Sessions : s \in opened' \ opened => s \in open \cup ran,
             \A s \in dialIn \ dialIn' : s \in ran \cup aged, opened' \subseteq Sessions
      PROVE  /\ TimeGoesOn
             /\ opened' \subseteq open' \cup ran'
             /\ ending' \cup finished' \subseteq ran'
             /\ \A s \in dialIn \ dialIn' : s \in ran \cup aged
  BY <1>1, <1>a DEF TimeGoesOn
<1>b. opened' \subseteq Sessions /\ opened \subseteq Sessions
  <2>1. TypeInv'
    BY NextTyped
  <2> QED  BY <2>1 DEF TypeInv, TypeOK
<1>2. ASSUME NEW c \in Calls, CallStep(c), ~DialBack(c)
      PROVE  UNCHANGED <<open, ran, aged, finished, ending, opened, dialIn>>
  BY <1>2 DEF CallStep, Ring, PostDigits, AnsweredAgain, ListByNumber, LookupPin, DecideByNumber,
              DecideByPin, Allows, Admit, Begin, Retry, CallerHangsUp, Expires, KeyIn,
              rowVars, roomVars, sessionVars
<1>3. ASSUME NEW c \in Calls, DialBack(c)
      PROVE  UNCHANGED <<ran, aged, finished, ending, opened, dialIn>> /\ open \subseteq open'
  BY <1>3 DEF DialBack, rowVars, sessionVars
<1>4. ASSUME NEW s \in Sessions,
             \/ \E p \in Pins : CreateSession(s, p)
             \/ \E ns \in SUBSET Calls : SetNumbers(s, ns)
             \/ RoomOpens(s) \/ MarkJoined(s) \/ Age(s)
      PROVE  /\ UNCHANGED <<ran, finished, ending, opened>>
             /\ open \subseteq open' /\ aged \subseteq aged' /\ dialIn \subseteq dialIn'
  BY <1>4 DEF CreateSession, SetNumbers, RoomOpens, MarkJoined, Age, rowVars, roomVars, sessionVars
<1>5. ASSUME NEW s \in Sessions, RoomCloses(s)
      PROVE  /\ UNCHANGED <<aged, ending, opened, dialIn>>
             /\ open \cup ran \subseteq open' \cup ran' /\ ran \subseteq ran'
             /\ finished' \subseteq finished \cup ran'
  BY <1>5 DEF RoomCloses, rowVars, sessionVars
<1>6. ASSUME NEW s \in Sessions, RoomFinished(s)
      PROVE  /\ UNCHANGED <<open, ran, aged, opened, dialIn>>
             /\ finished' \subseteq finished /\ ending' \subseteq ending \cup finished
  BY <1>6 DEF RoomFinished, rowVars
<1>7. ASSUME NEW s \in Sessions, CloseDialIn(s)
      PROVE  /\ UNCHANGED <<open, ran, aged, finished>>
             /\ opened' \subseteq opened /\ ending' \subseteq ending
             /\ \A r \in dialIn \ dialIn' : r \in ending
  BY <1>7 DEF CloseDialIn, EndDialIn, rowVars, roomVars
<1>8. ASSUME NEW a \in A, NEW s \in Sessions, Settle(a, s)
      PROVE  /\ UNCHANGED <<open, ran, aged, finished, ending>>
             /\ \A r \in opened' \ opened : r \in scan[a].open
             /\ \A r \in dialIn \ dialIn' : r \in scan[a].old \ scan[a].open
             /\ scan[a].at = "settle"
  BY <1>8 DEF Settle, Settled, EndDialIn, MarkDialInOpened, rowVars, roomVars, sessionVars
<1>9. CASE SweepList \/ SweepDone \/ (\E a \in A : Look(a) \/ ScanFails(a)) \/ UNCHANGED vars
  <2>1. UNCHANGED <<open, ran, aged, finished, ending, opened, dialIn>>
    BY <1>9 DEF SweepList, SweepDone, Look, ScanFails, vars, rowVars, roomVars, sessionVars
  <2> QED  BY <2>1, <1>1, <1>b
<1>10. CASE Crash
  BY <1>10, <1>a DEF Crash, rowVars, roomVars, TimeGoesOn
<1>11. CASE \E a \in A, s \in Sessions : Settle(a, s)
  <2>1. PICK a \in A, s \in Sessions : Settle(a, s)
    BY <1>11
  <2>2. /\ scan[a].open \subseteq open \cup ran
        /\ scan[a].old \ scan[a].open \subseteq ran \cup aged
    BY <2>1, <1>8, <1>a DEF ScanOK, Asking
  <2> QED  BY <2>1, <2>2, <1>8, <1>1, <1>b
<1>12. CASE \E c \in Calls : CallStep(c)
  <2>1. PICK c \in Calls : CallStep(c)
    BY <1>12
  <2>2. CASE ~DialBack(c)
    BY <2>1, <2>2, <1>2, <1>1, <1>b
  <2>3. CASE DialBack(c)
    BY <2>3, <1>3, <1>a DEF TimeGoesOn
  <2> QED  BY <2>2, <2>3
<1>13. CASE \E s \in Sessions : SessionStep(s)
  <2>1. PICK s \in Sessions : SessionStep(s)
    BY <1>13
  <2>2. CASE RoomCloses(s)
    BY <2>2, <1>5, <1>a DEF TimeGoesOn
  <2>3. CASE RoomFinished(s)
    BY <2>3, <1>6, <1>a DEF TimeGoesOn
  <2>4. CASE CloseDialIn(s)
    BY <2>4, <1>7, <1>a DEF TimeGoesOn
  <2>5. CASE ~(RoomCloses(s) \/ RoomFinished(s) \/ CloseDialIn(s))
    <3>1. /\ UNCHANGED <<ran, finished, ending, opened>>
          /\ open \subseteq open' /\ aged \subseteq aged' /\ dialIn \subseteq dialIn'
      BY <2>1, <2>5, <1>4 DEF SessionStep
    <3> QED  BY <3>1, <1>a DEF TimeGoesOn
  <2> QED  BY <2>2, <2>3, <2>4, <2>5
<1> QED  BY <1>9, <1>10, <1>11, <1>12, <1>13 DEF Next, A

LEMMA NextScans == TypeInv /\ ScansOK /\ [Next]_vars => ScansOK'
<1> SUFFICES ASSUME TypeInv, ScansOK, [Next]_vars
             PROVE  ScansOK'
  OBVIOUS
<1>1. /\ TimeGoesOn /\ opened' \subseteq open' \cup ran' /\ ending' \cup finished' \subseteq ran'
  BY RoomsGoOn
<1>2. \A b \in A : ScanOK(b)'
  <2>1. ASSUME NEW a \in A, Look(a)
        PROVE  \A b \in A : ScanOK(b)'
    BY <2>1, LookScans
  <2>2. CASE SweepList
    <3>1. Read(Sweep, "sweep", dialIn) /\ Sweep \in A /\ UNCHANGED <<roomVars, aged>>
      BY <2>2 DEF SweepList, A, sessionVars
    <3> QED  BY <3>1, ReadScans
  <2>3. CASE \E c \in Calls : ListByNumber(c) \/ LookupPin(c)
    BY <2>3, ListScans
  <2>4. ASSUME \/ \E c \in Calls : CallStep(c) /\ ~ListByNumber(c) /\ ~LookupPin(c)
               \/ \E s \in Sessions : SessionStep(s)
               \/ SweepDone
               \/ \E a \in A : ScanFails(a) \/ \E s \in Sessions : Settle(a, s)
               \/ Crash
               \/ UNCHANGED vars,
               NEW b \in A
        PROVE  ScanOK(b)'
    <3>1. \/ scan'[b].at \notin Asking
          \/ /\ scan'[b].at = scan[b].at /\ scan'[b].open = scan[b].open
             /\ scan'[b].old = scan[b].old
      BY <2>4, OthersScan
    <3>2. ScanOK(b)
      BY DEF ScansOK
    <3> QED  BY <1>1, <3>1, <3>2, ScanKept
  <2> QED  BY <2>1, <2>2, <2>3, <2>4 DEF Next, A
<1> QED  BY <1>1, <1>2 DEF ScansOK

LEMMA InitScans == Init => ScansOK
  BY DEF Init, ScansOK, ScanOK, Quiet, Asking, A

-----------------------------------------------------------------------------
(* The theorems.                                                           *)

\* Every value has its type in every state, whatever fails or restarts.
THEOREM TypeCorrect == Spec => []TypeOK
<1>1. Spec => []TypeInv
  BY InitTyped, NextTyped, PTL DEF Spec
<1>2. TypeInv => TypeOK
  BY DEF TypeInv
<1> QED  BY <1>1, <1>2, PTL

\* Who is held came by the door the session states, however PINs are minted
\* again, numbers change, rows end, answers are lost and the process restarts
\* between the reading of a row and the admission (meeting.go).
THEOREM AdmitsAsStated == Spec => [](AdmittedAsStated /\ NumbersEndWithDialIn)
<1>1. Init => TypeInv /\ AdmitInv
  BY InitTyped, InitAdmits
<1>2. TypeInv /\ AdmitInv /\ [Next]_vars => (TypeInv /\ AdmitInv)'
  BY NextTyped, NextAdmits
<1>3. AdmitInv => AdmittedAsStated /\ NumbersEndWithDialIn
  BY DEF AdmitInv, EntryOK, Stated, AdmittedAsStated
<1> QED  BY <1>1, <1>2, <1>3, PTL DEF Spec

\* All of DialInInv, where the carrier hears every answer: a caller is asked for a
\* PIN at most as often as the operator allows, and as often again for a restart.
THEOREM AsksAsAllowed == ASSUME ~Lossy PROVE Spec => []DialInInv
<1> USE ~Lossy
<1>1. Init => TypeInv /\ AdmitInv /\ CountsOK
  BY InitTyped, InitAdmits, InitCounts
<1>2. TypeInv /\ AdmitInv /\ CountsOK /\ [Next]_vars => (TypeInv /\ AdmitInv /\ CountsOK)'
  BY NextTyped, NextAdmits, NextCounts
<1>3. TypeInv /\ AdmitInv /\ CountsOK => DialInInv
  BY DEF TypeInv, AdmitInv, EntryOK, Stated, AdmittedAsStated, CountsOK, CountOK, Again,
         AttemptsBounded, DialInInv
<1> QED  BY <1>1, <1>2, <1>3, PTL DEF Spec

\* No scan ends a dial-in on what it no longer knows: one that ends had its room
\* closed or is a day old (dialin.go).
THEOREM EndsAfterRun == Spec => EndsOnlyAfterRun
<1>1. Init => TypeInv /\ ScansOK
  BY InitTyped, InitScans
<1>2. TypeInv /\ ScansOK /\ [Next]_vars => (TypeInv /\ ScansOK)'
  BY NextTyped, NextScans
<1>3. TypeInv /\ ScansOK /\ [Next]_vars => [\A s \in dialIn \ dialIn' : s \in ran \cup aged]_vars
  BY RoomsGoOn
<1> QED  BY <1>1, <1>2, <1>3, PTL DEF Spec, EndsOnlyAfterRun
============================================================================
