-------------------------------- MODULE Phones --------------------------------
(***************************************************************************)
(* The people in the agent's room, some of them on a phone: who the agent  *)
(* is linked to (telephony.Relink), and what each phone is told when it is *)
(* answered (telephony.PhoneLines, announcer).  A phone rings in the room  *)
(* before it is picked up.  The agent comes up in two steps: session.start *)
(* links it to the first person, and once that returns entrypoint listens. *)
(* Handlers of one event run in the order they were added; a task starts   *)
(* in a later step.  The agent hears every line: it is not called by name. *)
(***************************************************************************)
EXTENDS Naturals, Sequences, FiniteSets, SequencesExt

CONSTANTS Phone, Browser,   \* people, on a phone and not
          NoLink,
          Discloses,   \* Plan.disclosure: there is a notice to say
          Greets,      \* Plan.opening: there is a greeting
          OnAPhone,    \* Plan.on_a_phone: the session is the phone call
          TakesCalls   \* Plan.takes_phone_calls

ASSUME PhonesAssumption ==
  /\ Phone \cap Browser = {} /\ NoLink \notin Phone \cup Browser
  /\ {Discloses, Greets, OnAPhone, TakesCalls} \subseteq BOOLEAN
  /\ OnAPhone => TakesCalls

VARIABLES inRoom,      \* room.remote_participants, in order
          pickedUp,    \* the phones whose status is "active"
          mayJoin,     \* who has not been in the room: an identity joins once
          agentIs,     \* "coming", "started", "listening" or "closed"
          linkedTo,    \* room_io.linked_participant
          seen,        \* PhoneLines._seen
          wait,        \* per phone: where its task is
          told,        \* the phones whose answer was announced
          greeted      \* how often the greeting was said

lineVars == <<seen, wait, told, greeted>>
phonesVars == <<inRoom, pickedUp, mayJoin, agentIs, linkedTo, lineVars>>

PhonesInit ==
  /\ inRoom = <<>> /\ pickedUp = {} /\ mayJoin = Phone \cup Browser
  /\ agentIs = "coming" /\ linkedTo = NoLink
  /\ seen = {} /\ wait = [p \in Phone |-> "none"] /\ told = {} /\ greeted = 0

There == ToSet(inRoom)
taskOf(ps) == [p \in Phone |-> IF p \in ps THEN "created" ELSE wait[p]]

(***************************************************************************)
(* The room.  RoomIO links the agent to the first person, lets go of one   *)
(* who leaves, and may close the session then.                             *)
(***************************************************************************)
linkJoined(p) ==
  linkedTo' = IF linkedTo = NoLink /\ agentIs \in {"started", "listening"} THEN p ELSE linkedTo

lineJoined(p) ==
  IF agentIs = "listening" /\ TakesCalls /\ p \in Phone \ seen
    THEN seen' = seen \cup {p} /\ wait' = taskOf({p})
    ELSE UNCHANGED <<seen, wait>>

personJoins(p) ==
  /\ p \in mayJoin /\ mayJoin' = mayJoin \ {p}
  /\ inRoom' = Append(inRoom, p)
  /\ \/ p \in Phone /\ pickedUp' = pickedUp \cup {p}
     \/ UNCHANGED pickedUp
  /\ linkJoined(p) /\ lineJoined(p)
  /\ UNCHANGED <<agentIs, told, greeted>>

\* What the future of answered() is, after an event about the line.
checked(p, there, up) ==
  IF wait[p] # "waiting" THEN wait[p]
    ELSE IF ~there THEN "not answered" ELSE IF up THEN "answered" ELSE "waiting"

picksUp(p) ==
  /\ p \in (There \cap Phone) \ pickedUp /\ pickedUp' = pickedUp \cup {p}
  /\ wait' = [wait EXCEPT ![p] = checked(p, TRUE, TRUE)]
  /\ UNCHANGED <<inRoom, mayJoin, agentIs, linkedTo, seen, told, greeted>>

\* Relink.left, once RoomIO let go of the person it was linked to.
relinked(p, people) ==
  linkedTo' = IF linkedTo \notin {p, NoLink} THEN linkedTo
                ELSE IF agentIs = "listening" /\ TakesCalls /\ people # <<>> THEN Head(people)
                ELSE NoLink

personLeaves(p) ==
  /\ p \in There
  /\ inRoom' = SelectSeq(inRoom, LAMBDA q : q # p)
  /\ relinked(p, inRoom')
  /\ agentIs' = IF linkedTo = p /\ ~TakesCalls THEN "closed" ELSE agentIs
  /\ IF p \in Phone THEN wait' = [wait EXCEPT ![p] = checked(p, FALSE, p \in pickedUp)]
                    ELSE UNCHANGED wait
  /\ UNCHANGED <<pickedUp, mayJoin, seen, told, greeted>>

(***************************************************************************)
(* The agent.                                                              *)
(***************************************************************************)
sessionStarts ==
  /\ agentIs = "coming" /\ agentIs' = "started"
  /\ linkedTo' = IF inRoom = <<>> THEN NoLink ELSE Head(inRoom)
  /\ UNCHANGED <<inRoom, pickedUp, mayJoin, lineVars>>

\* Mutated form: nobody who is in the room already counts as joined.
listenOnly == UNCHANGED <<seen, wait>>

\* PhoneLines.listen: the phones that are in the room already count as joined.
listen ==
  IF TakesCalls
    THEN LET there == (There \cap Phone) \ seen
         IN  seen' = seen \cup there /\ wait' = taskOf(there)
    ELSE UNCHANGED <<seen, wait>>

speak_first ==
  /\ agentIs = "started" /\ agentIs' = "listening"
  /\ greeted' = IF Greets /\ ~OnAPhone THEN 1 ELSE 0
  /\ listen
  /\ UNCHANGED <<inRoom, pickedUp, mayJoin, linkedTo, told>>

\* The task starts: the line is looked at, and waited for.
_wait(p) ==
  /\ wait[p] = "created"
  /\ wait' = [wait EXCEPT ![p] = CASE p \notin There -> "not answered"
                                   [] p \in pickedUp -> "answered"
                                   [] OTHER -> "waiting"]
  /\ UNCHANGED <<inRoom, pickedUp, mayJoin, agentIs, linkedTo, seen, told, greeted>>

\* The bridge stops the ringing before this; it is the wait's own limit.
ringsTooLong(p) ==
  /\ wait[p] = "waiting" /\ wait' = [wait EXCEPT ![p] = "not answered"]
  /\ UNCHANGED <<inRoom, pickedUp, mayJoin, agentIs, linkedTo, seen, told, greeted>>

announce(p) ==
  /\ wait[p] = "answered" /\ wait' = [wait EXCEPT ![p] = "announced"]
  /\ told' = IF Discloses THEN told \cup {p} ELSE told
  /\ greeted' = IF Greets /\ OnAPhone /\ greeted = 0 THEN 1 ELSE greeted
  /\ UNCHANGED <<inRoom, pickedUp, mayJoin, agentIs, linkedTo, seen>>

PhonesNext ==
  \/ \E p \in Phone \cup Browser : personJoins(p) \/ personLeaves(p)
  \/ \E p \in Phone : picksUp(p) \/ _wait(p) \/ ringsTooLong(p) \/ announce(p)
  \/ sessionStarts \/ speak_first

\* The agent comes up, and its loop runs the tasks it has; people do as they like.
PhonesFairness ==
  /\ WF_phonesVars(sessionStarts) /\ WF_phonesVars(speak_first)
  /\ \A p \in Phone : WF_phonesVars(_wait(p)) /\ WF_phonesVars(announce(p))

PhonesSafe == PhonesInit /\ [][PhonesNext]_phonesVars
PhonesSpec == PhonesSafe /\ PhonesFairness

(***************************************************************************)
(* Properties.                                                             *)
(***************************************************************************)
\* A phone that is picked up, before the agent is there or after, is told what
\* there is to tell, unless it hangs up or rang for longer than it is waited for.
EveryPhoneIsTold ==
  \A p \in Phone :
    TakesCalls /\ Discloses /\ p \in There \cap pickedUp
      ~> p \in told \/ p \notin There \/ wait[p] = "not answered"
================================================================================
