-------------------------------- MODULE DialIn --------------------------------
(***************************************************************************)
(* Meetings a person may phone into (go/internal/control/dialin.go,        *)
(* meeting.go, prompts.go; go/internal/state/dialin.go).  A meeting has a  *)
(* dial-in row with a PIN and the numbers it allows; a caller is known by  *)
(* the number, which is another name for the call here, or asked for the   *)
(* PIN, and then held and dialed back as in InboundCalls.                  *)
(*                                                                         *)
(* The sweep and every caller run the same scan: read rows, ask the media  *)
(* server once which of their rooms are open, and settle row by row on     *)
(* that answer, while rooms open and close and other scans do the same.    *)
(***************************************************************************)
EXTENDS HeldCalls

CONSTANTS
  Sessions,      \* meetings that take dial-in
  Pins,          \* PINs mintPIN may draw
  NumberOnly,    \* sessions whose callerCheck is "number"
  PinAndNumber,  \* sessions whose callerCheck is "pin_and_number"
  Withheld,      \* calls that hide their number
  Sweep,         \* the scan that is not a caller's
  PinAttempts,   \* the trunk's Attempts
  Ages,          \* bound: the sessions that may live for a day
  MaxOpens,      \* bound: times people open a room
  MaxAsked,      \* bound: prompts after which a caller keys in no more
  MaxFaults,     \* bound: calls to the store or the media server that fail
  MaxCrashes,    \* bound: restarts of the process
  Lossy,         \* an answer to the carrier may get lost
  Webhooks       \* the media server's webhooks arrive, when they are not lost

ASSUME DialInAssumption ==
  /\ {NumberOnly, PinAndNumber, Ages} \subseteq SUBSET Sessions
  /\ NumberOnly \cap PinAndNumber = {}
  /\ Withheld \subseteq Calls
  /\ Sweep \notin Calls
  /\ None \notin Sessions \cup Pins
  /\ PinAttempts \in Nat \ {0}
  /\ {MaxOpens, MaxFaults, MaxCrashes} \subseteq Nat
  /\ MaxAsked \in Nat \ {0}
  /\ {Lossy, Webhooks} \subseteq BOOLEAN

VARIABLES
  pin,        \* pin[s]: the PIN minted for the session, None before it exists
  dialIn,     \* sessions with a row in dial_ins
  opened,     \* rows whose opened_at is set
  numbers,    \* numbers[s]: the callers in dial_in_numbers
  aged,       \* sessions older than unopenedDialInLifetime
  joined,     \* sessions with joined_at set
  ended,      \* sessions with ended_at set
  ending,     \* sessions roomFinished has ended and whose row it deletes next
  open,       \* rooms that are open
  opens,      \* opens[s]: times people opened the room
  ran,        \* rooms that closed after they were open
  finished,   \* rooms whose room_finished is on its way
  scan,       \* scan[a]: where a caller's request, or the sweep, is
  prompting,  \* calls in pinPrompts
  attempts,   \* attempts[c]: PINs that were wrong
  caller,     \* caller[c]: the carrier's side of the call
  keyed,      \* keyed[c]: the PIN keyed last, None for no digits
  asked,      \* asked[c]: prompts for a PIN the caller heard
  heldFor,    \* heldFor[t]: the session the holder of the token was admitted to
  vouched,    \* pairs <<s, c>>: s allowed the number of c at some time
  faults,
  crashes

rowVars == <<pin, dialIn, opened, numbers, vouched>>
roomVars == <<open, opens, ran, finished>>
sessionVars == <<aged, joined, ended, ending>>
callerVars == <<caller, keyed, asked>>
promptVars == <<prompting, attempts>>
vars == <<heldVars, heldFor, rowVars, roomVars, sessionVars, scan, promptVars,
          callerVars, faults, crashes>>

ChecksNumber == NumberOnly \cup PinAndNumber

\* A scan: the rows it read, those it may end, and, once it has asked, the rooms
\* that were open and the rows still to settle.
Scan == [at : {"idle", "list", "pin", "look", "settle", "allows", "hold", "begin", "retry"},
         by : {"number", "pin", "sweep"}, rows : SUBSET Sessions, old : SUBSET Sessions,
         open : SUBSET Sessions, todo : SUBSET Sessions]

Quiet == [at |-> "idle", by |-> "sweep", rows |-> {}, old |-> {}, open |-> {}, todo |-> {}]

Init ==
  /\ HeldInit
  /\ heldFor = [t \in Tokens |-> None]
  /\ pin = [s \in Sessions |-> None]
  /\ numbers = [s \in Sessions |-> {}]
  /\ dialIn = {} /\ opened = {}
  /\ aged = {} /\ joined = {} /\ ended = {} /\ ending = {}
  /\ open = {} /\ ran = {} /\ finished = {}
  /\ opens = [s \in Sessions |-> 0]
  /\ scan = [a \in Calls \cup {Sweep} |-> Quiet]
  /\ prompting = {} /\ attempts = [c \in Calls |-> 0]
  /\ caller = [c \in Calls |-> "new"]
  /\ keyed = [c \in Calls |-> None]
  /\ asked = [c \in Calls |-> 0]
  /\ vouched = {} /\ faults = 0 /\ crashes = 0

-----------------------------------------------------------------------------
(* The store.                                                              *)

\* state.Store.CreateDialIn fails if a row has that PIN, and openDialIn draws
\* another; when it gives up there is no session anybody knows of.
CreateSession(s, p) ==
  /\ pin[s] = None
  /\ \A r \in dialIn : pin[r] # p
  /\ pin' = [pin EXCEPT ![s] = p]
  /\ dialIn' = dialIn \cup {s}
  /\ UNCHANGED <<heldVars, heldFor, opened, numbers, vouched, roomVars, sessionVars,
                 scan, promptVars, callerVars, faults, crashes>>

\* setAllowedNumbers and state.Store.SetDialInNumbers
SetNumbers(s, ns) ==
  /\ s \in dialIn \cap ChecksNumber
  /\ numbers' = [numbers EXCEPT ![s] = ns]
  /\ vouched' = vouched \cup ({s} \X ns)
  /\ UNCHANGED <<heldVars, heldFor, pin, dialIn, opened, roomVars, sessionVars,
                 scan, promptVars, callerVars, faults, crashes>>

\* state.Store.EndDialIn
EndDialIn(s) ==
  /\ dialIn' = dialIn \ {s}
  /\ opened' = opened \ {s}
  /\ numbers' = [numbers EXCEPT ![s] = {}]
  /\ UNCHANGED <<pin, vouched>>

\* state.Store.MarkDialInOpened
MarkDialInOpened(s) ==
  /\ opened' = opened \cup ({s} \cap dialIn)
  /\ UNCHANGED <<pin, dialIn, numbers, vouched>>

-----------------------------------------------------------------------------
(* Scans: DialIns, DialInsAllowing or DialInByPIN, then OpenRooms, then    *)
(* settleDialIn for each row.                                              *)

Read(a, by, rs) ==
  scan' = [scan EXCEPT ![a] = [Quiet EXCEPT !.at = "look", !.by = by, !.rows = rs,
                                            !.old = rs \cap opened]]

Goto(a, at) == scan' = [scan EXCEPT ![a].at = at]

SweepList ==
  /\ scan[Sweep] = Quiet
  /\ dialIn # {}
  /\ Read(Sweep, "sweep", dialIn)
  /\ UNCHANGED <<heldVars, heldFor, rowVars, roomVars, sessionVars, promptVars,
                 callerVars, faults, crashes>>

\* One request for all rooms, and one reading of the clock for all rows.
Look(a) ==
  /\ scan[a].at = "look"
  /\ scan' = [scan EXCEPT ![a].at = "settle", ![a].open = scan[a].rows \cap open,
                          ![a].todo = scan[a].rows,
                          ![a].old = scan[a].rows \cap (scan[a].old \cup aged)]
  /\ UNCHANGED <<heldVars, heldFor, rowVars, roomVars, sessionVars, promptVars,
                 callerVars, faults, crashes>>

\* Mutated form: the row is read again before it is judged.
SettledAfresh(a, s) ==
  IF s \in scan[a].open THEN MarkDialInOpened(s)
  ELSE IF s \in scan[a].old \cup opened THEN EndDialIn(s) ELSE UNCHANGED rowVars

\* Mutated form: a row is kept until it is a day old.
SettledWhenAged(a, s) ==
  IF s \in scan[a].open THEN MarkDialInOpened(s)
  ELSE IF s \in scan[a].old \cap aged THEN EndDialIn(s) ELSE UNCHANGED rowVars

\* settleDialIn
Settled(a, s) ==
  IF s \in scan[a].open THEN MarkDialInOpened(s)
  ELSE IF s \in scan[a].old THEN EndDialIn(s) ELSE UNCHANGED rowVars

Settle(a, s) ==
  /\ scan[a].at = "settle" /\ s \in scan[a].todo
  /\ Settled(a, s)
  /\ scan' = [scan EXCEPT ![a].todo = @ \ {s}]
  /\ UNCHANGED <<heldVars, heldFor, roomVars, sessionVars, promptVars, callerVars,
                 faults, crashes>>

ScanDone(a) == scan[a].at = "settle" /\ scan[a].todo = {}

SweepDone ==
  /\ ScanDone(Sweep)
  /\ scan' = [scan EXCEPT ![Sweep] = Quiet]
  /\ UNCHANGED <<heldVars, heldFor, rowVars, roomVars, sessionVars, promptVars,
                 callerVars, faults, crashes>>

-----------------------------------------------------------------------------
(* answerMeeting and meetingPIN.  A call has one webhook under way.        *)

\* The request ends, and the caller hears its answer unless it is lost or the
\* caller is gone; the carrier repeats what it got no answer to.
Tell(c, to) ==
  /\ scan' = [scan EXCEPT ![c] = Quiet]
  /\ \/ /\ caller[c] \in {"ringing", "keyed"}
        /\ caller' = [caller EXCEPT ![c] = to]
        /\ asked' = [asked EXCEPT ![c] = IF to = "asked" THEN @ + 1 ELSE @]
     \/ /\ Lossy \/ caller[c] = "over"
        /\ UNCHANGED <<caller, asked>>
  /\ UNCHANGED keyed

\* answerCall passes the call on unless it is held already.
Ring(c) ==
  /\ caller[c] \in {"new", "ringing"}
  /\ scan[c] = Quiet /\ ~Answered(c)
  /\ caller' = [caller EXCEPT ![c] = "ringing"]
  /\ Goto(c, IF c \in Withheld THEN "begin" ELSE "list")
  /\ UNCHANGED <<heldVars, heldFor, rowVars, roomVars, sessionVars, promptVars,
                 keyed, asked, faults, crashes>>

PostDigits(c) ==
  /\ caller[c] = "keyed"
  /\ scan[c] = Quiet /\ ~Answered(c)
  /\ Goto(c, "pin")
  /\ UNCHANGED <<heldVars, heldFor, rowVars, roomVars, sessionVars, promptVars,
                 callerVars, faults, crashes>>

\* Either webhook, repeated for a call that is held, is answered as before.
AnsweredAgain(c) ==
  /\ scan[c] = Quiet /\ Answered(c)
  /\ caller[c] \in {"ringing", "keyed"}
  /\ Tell(c, "held")
  /\ UNCHANGED <<heldVars, heldFor, rowVars, roomVars, sessionVars, promptVars,
                 faults, crashes>>

\* meetingsAllowing reads the meetings that allow the number.
ListByNumber(c) ==
  /\ scan[c].at = "list"
  /\ LET rs == {s \in dialIn : c \in numbers[s]}
     IN  IF rs = {} THEN Goto(c, "begin") ELSE Read(c, "number", rs)
  /\ UNCHANGED <<heldVars, heldFor, rowVars, roomVars, sessionVars, promptVars,
                 callerVars, faults, crashes>>

\* meetingFor reads the meeting of the PIN.
LookupPin(c) ==
  /\ scan[c].at = "pin"
  /\ LET rs == {s \in dialIn : keyed[c] = pin[s]}
     IN  IF rs = {} THEN Goto(c, "retry") ELSE Read(c, "pin", rs)
  /\ UNCHANGED <<heldVars, heldFor, rowVars, roomVars, sessionVars, promptVars,
                 callerVars, faults, crashes>>

\* Mutated form: every running meeting that allows the number.
RunningByAnyNumber(c) == scan[c].open

\* The running meetings the number alone admits to.
RunningByNumber(c) == scan[c].open \cap NumberOnly

\* The number admits if it leaves no choice; else the caller is asked.
DecideByNumber(c) ==
  /\ ScanDone(c) /\ scan[c].by = "number"
  /\ \/ /\ Cardinality(RunningByNumber(c)) = 1
        /\ scan' = [scan EXCEPT ![c].at = "hold", ![c].rows = RunningByNumber(c)]
     \/ /\ Cardinality(RunningByNumber(c)) # 1
        /\ Goto(c, "begin")
  /\ UNCHANGED <<heldVars, heldFor, rowVars, roomVars, sessionVars, promptVars,
                 callerVars, faults, crashes>>

\* prompts.done, when the meeting is found.
Found(c) ==
  /\ Goto(c, "hold")
  /\ prompting' = prompting \ {c}
  /\ UNCHANGED attempts

\* The PIN admits to a running meeting, which may ask for the number too.
DecideByPin(c) ==
  /\ ScanDone(c) /\ scan[c].by = "pin"
  /\ LET running == scan[c].open
     IN  \/ /\ running # {} /\ running \cap ChecksNumber = {}
            /\ Found(c)
         \/ /\ running \cap ChecksNumber # {} /\ c \notin Withheld
            /\ Goto(c, "allows") /\ UNCHANGED promptVars
         \/ /\ running = {} \/ (running \cap ChecksNumber # {} /\ c \in Withheld)
            /\ Goto(c, "retry") /\ UNCHANGED promptVars
  /\ UNCHANGED <<heldVars, heldFor, rowVars, roomVars, sessionVars, callerVars,
                 faults, crashes>>

\* state.Store.DialInAllows
Allows(c) ==
  /\ scan[c].at = "allows"
  /\ \/ /\ \E s \in scan[c].rows : c \in numbers[s]
        /\ Found(c)
     \/ /\ \A s \in scan[c].rows : c \notin numbers[s]
        /\ Goto(c, "retry") /\ UNCHANGED promptVars
  /\ UNCHANGED <<heldVars, heldFor, rowVars, roomVars, sessionVars, callerVars,
                 faults, crashes>>

\* admit
Admit(c) ==
  /\ scan[c].at = "hold"
  /\ \/ \E t \in Tokens, s \in scan[c].rows :
          /\ HoldCall(c, t)
          /\ heldFor' = [heldFor EXCEPT ![t] = s]
          /\ Tell(c, "held")
     \/ /\ Full
        /\ Tell(c, "over")
        /\ UNCHANGED <<heldVars, heldFor>>
  /\ UNCHANGED <<rowVars, roomVars, sessionVars, promptVars, faults, crashes>>

\* prompts.begin
Begin(c) ==
  /\ scan[c].at = "begin"
  /\ \/ /\ c \in prompting
        /\ UNCHANGED promptVars /\ Tell(c, "asked")
     \/ /\ c \notin prompting /\ Cardinality(prompting) < MaxHeld
        /\ prompting' = prompting \cup {c}
        /\ attempts' = [attempts EXCEPT ![c] = 0]
        /\ Tell(c, "asked")
     \/ /\ c \notin prompting /\ Cardinality(prompting) >= MaxHeld
        /\ UNCHANGED promptVars /\ Tell(c, "over")
  /\ UNCHANGED <<heldVars, heldFor, rowVars, roomVars, sessionVars, faults, crashes>>

\* The attempts a wrong PIN makes it.
Attempts(c) == IF c \in prompting THEN attempts[c] + 1 ELSE 1

RetriesLeft(c) == Attempts(c) < PinAttempts

\* prompts.retry
Retry(c) ==
  /\ scan[c].at = "retry"
  /\ \/ /\ c \notin prompting /\ Cardinality(prompting) >= MaxHeld
        /\ UNCHANGED promptVars /\ Tell(c, "over")
     \/ /\ c \in prompting \/ Cardinality(prompting) < MaxHeld
        /\ RetriesLeft(c)
        /\ prompting' = prompting \cup {c}
        /\ attempts' = [attempts EXCEPT ![c] = Attempts(c)]
        /\ Tell(c, "asked")
     \/ /\ c \in prompting \/ Cardinality(prompting) < MaxHeld
        /\ ~RetriesLeft(c)
        /\ prompting' = prompting \ {c} /\ UNCHANGED attempts
        /\ Tell(c, "over")
  /\ UNCHANGED <<heldVars, heldFor, rowVars, roomVars, sessionVars, faults, crashes>>

\* A call to the store or the media server fails: the caller is refused, the
\* sweep gives up until its next tick.
ScanFails(a) ==
  /\ faults < MaxFaults
  /\ faults' = faults + 1
  /\ scan[a].at \in {"list", "pin", "look", "settle", "allows"}
  /\ \/ /\ a \in Calls
        /\ Tell(a, "over")
     \/ /\ a = Sweep
        /\ scan' = [scan EXCEPT ![a] = Quiet]
        /\ UNCHANGED callerVars
  /\ UNCHANGED <<heldVars, heldFor, rowVars, roomVars, sessionVars, promptVars, crashes>>

\* callHeld, when all goes well: see InboundCalls.  The media server opens the
\* room of a leg if it is not open.
DialBack(c) ==
  /\ caller[c] = "held" /\ Answered(c)
  /\ Dials(byCall[c], c) /\ DialCall(byCall[c])
  /\ open' = open \cup {heldFor[byCall[c]]}
  /\ UNCHANGED <<heldFor, rowVars, opens, ran, finished, sessionVars, scan,
                 promptVars, callerVars, faults, crashes>>

-----------------------------------------------------------------------------
(* roomFinished, as far as the dial-in goes.                               *)

RoomFinished(s) ==
  /\ s \in finished
  /\ finished' = finished \ {s}
  /\ ended' = ended \cup ({s} \cap joined)
  /\ ending' = ending \cup (({s} \cap joined) \ ended)
  /\ UNCHANGED <<heldVars, heldFor, rowVars, open, opens, ran, aged, joined, scan,
                 promptVars, callerVars, faults, crashes>>

CloseDialIn(s) ==
  /\ s \in ending
  /\ ending' = ending \ {s}
  /\ \/ /\ EndDialIn(s)
        /\ UNCHANGED faults
     \/ /\ faults < MaxFaults
        /\ faults' = faults + 1
        /\ UNCHANGED rowVars
  /\ UNCHANGED <<heldVars, heldFor, roomVars, aged, joined, ended, scan, promptVars,
                 callerVars, crashes>>

-----------------------------------------------------------------------------
(* People, rooms and time.                                                 *)

RoomOpens(s) ==
  /\ pin[s] # None /\ s \notin open /\ opens[s] < MaxOpens
  /\ open' = open \cup {s}
  /\ opens' = [opens EXCEPT ![s] = @ + 1]
  /\ UNCHANGED <<heldVars, heldFor, rowVars, ran, finished, sessionVars, scan,
                 promptVars, callerVars, faults, crashes>>

\* The participant_joined webhook of a person.
MarkJoined(s) ==
  /\ Webhooks /\ s \in open \ joined
  /\ joined' = joined \cup {s}
  /\ UNCHANGED <<heldVars, heldFor, rowVars, roomVars, aged, ended, ending, scan,
                 promptVars, callerVars, faults, crashes>>

\* The webhook it sends may be lost, or fail before EndSession, which is the same.
RoomCloses(s) ==
  /\ s \in open
  /\ open' = open \ {s}
  /\ ran' = ran \cup {s}
  /\ finished' \in {finished} \cup (IF Webhooks THEN {finished \cup {s}} ELSE {})
  /\ UNCHANGED <<heldVars, heldFor, rowVars, opens, sessionVars, scan, promptVars,
                 callerVars, faults, crashes>>

Age(s) ==
  /\ pin[s] # None /\ s \in Ages \ aged
  /\ aged' = aged \cup {s}
  /\ UNCHANGED <<heldVars, heldFor, rowVars, roomVars, joined, ended, ending, scan,
                 promptVars, callerVars, faults, crashes>>

KeyIn(c, p) ==
  /\ caller[c] = "asked" /\ asked[c] < MaxAsked
  /\ caller' = [caller EXCEPT ![c] = "keyed"]
  /\ keyed' = [keyed EXCEPT ![c] = p]
  /\ UNCHANGED <<heldVars, heldFor, rowVars, roomVars, sessionVars, scan, promptVars,
                 asked, faults, crashes>>

CallerHangsUp(c) ==
  /\ caller[c] \in {"ringing", "asked", "keyed", "held"}
  /\ caller' = [caller EXCEPT ![c] = "over"]
  /\ UNCHANGED <<heldVars, heldFor, rowVars, roomVars, sessionVars, scan, promptVars,
                 keyed, asked, faults, crashes>>

\* holdLifetime is much longer than a carrier waits for an answer, and than all
\* the prompts of a call take.
Expires(c) ==
  /\ caller[c] \in {"held", "over"}
  /\ \/ /\ Expire(c)
        /\ UNCHANGED promptVars
     \/ /\ c \in prompting
        /\ prompting' = prompting \ {c}
        /\ UNCHANGED <<heldVars, attempts>>
  /\ UNCHANGED <<heldFor, rowVars, roomVars, sessionVars, scan, callerVars, faults, crashes>>

Crash ==
  /\ crashes < MaxCrashes
  /\ crashes' = crashes + 1
  /\ HeldLost
  /\ scan' = [a \in Calls \cup {Sweep} |-> Quiet]
  /\ prompting' = {} /\ ending' = {}
  /\ UNCHANGED <<heldFor, rowVars, roomVars, aged, joined, ended, attempts, callerVars, faults>>

CallStep(c) ==
  \/ Ring(c) \/ PostDigits(c) \/ AnsweredAgain(c)
  \/ ListByNumber(c) \/ LookupPin(c) \/ DecideByNumber(c) \/ DecideByPin(c)
  \/ Allows(c) \/ Admit(c) \/ Begin(c) \/ Retry(c)
  \/ DialBack(c) \/ CallerHangsUp(c) \/ Expires(c)
  \/ \E p \in Pins \cup {None} : KeyIn(c, p)

SessionStep(s) ==
  \/ \E p \in Pins : CreateSession(s, p)
  \/ \E ns \in SUBSET Calls : SetNumbers(s, ns)
  \/ RoomOpens(s) \/ MarkJoined(s) \/ RoomCloses(s) \/ Age(s)
  \/ RoomFinished(s) \/ CloseDialIn(s)

Next ==
  \/ \E c \in Calls : CallStep(c)
  \/ \E s \in Sessions : SessionStep(s)
  \/ SweepList \/ SweepDone
  \/ \E a \in Calls \cup {Sweep} : Look(a) \/ ScanFails(a) \/ \E s \in Sessions : Settle(a, s)
  \/ Crash

Spec == Init /\ [][Next]_vars

\* The ticker ticks, and a sweep runs to its end.
Fairness ==
  /\ WF_vars(SweepList) /\ WF_vars(Look(Sweep)) /\ WF_vars(SweepDone)
  /\ WF_vars(\E s \in Sessions : Settle(Sweep, s))

FairSpec == Spec /\ Fairness

-----------------------------------------------------------------------------

TypeOK ==
  /\ HeldTypeOK
  /\ heldFor \in [Tokens -> Sessions \cup {None}]
  /\ pin \in [Sessions -> Pins \cup {None}]
  /\ numbers \in [Sessions -> SUBSET Calls]
  /\ {opened, dialIn, aged, joined, ended, ending, open, ran, finished} \subseteq SUBSET Sessions
  /\ opened \subseteq dialIn
  /\ vouched \subseteq Sessions \X Calls
  /\ opens \in [Sessions -> 0..MaxOpens]
  /\ scan \in [Calls \cup {Sweep} -> Scan]
  /\ prompting \subseteq Calls
  /\ attempts \in [Calls -> 0..PinAttempts]
  /\ caller \in [Calls -> {"new", "ringing", "asked", "keyed", "held", "over"}]
  /\ keyed \in [Calls -> Pins \cup {None}]
  /\ asked \in [Calls -> 0..MaxAsked]
  /\ faults \in 0..MaxFaults
  /\ crashes \in 0..MaxCrashes

\* A dial-in ends only after its room closed, or when it is a day old: no scan
\* ends one on what another scan has noticed in the meantime.
EndsOnlyAfterRun ==
  [][\A s \in dialIn \ dialIn' : s \in ran \cup aged]_vars

\* No number stays allowed to a dial-in that has ended, whatever order the
\* operator's update and the end come in.
NumbersEndWithDialIn == \A s \in Sessions : numbers[s] # {} => s \in dialIn

\* Who waits to be dialed into a meeting came in by the door the session states:
\* with its PIN unless the number alone is enough, and from a number it allowed
\* if it checks numbers.
AdmittedAsStated ==
  \A t \in Tokens : Known(t) =>
    LET s == heldFor[t]  c == byToken[t].call
    IN  /\ s \notin NumberOnly => keyed[c] = pin[s]
        /\ s \in ChecksNumber => <<s, c>> \in vouched

\* A caller is asked for a PIN at most as often as the operator allows, unless an
\* answer is lost; a restart, which forgets the PINs that were wrong, allows for as
\* many again, but for the prompt that was answered.
AttemptsBounded ==
  \A c \in Calls : asked[c] <= PinAttempts + crashes * (PinAttempts - 1)

\* Types, and who is let in: every held caller by the stated door, and numbers
\* only for dial-ins that go on.
DialInInv == TypeOK /\ AdmittedAsStated /\ NumbersEndWithDialIn /\ AttemptsBounded

\* The dial-in of a room that was seen open and has closed ends, or the room
\* opens again.
RanMeetingEnds ==
  \A s \in Sessions : s \in dialIn \cap opened /\ s \notin open
                        ~> s \notin dialIn \/ s \in open
===============================================================================
