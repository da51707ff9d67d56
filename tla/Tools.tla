-------------------------------- MODULE Tools --------------------------------
(***************************************************************************)
(* The tools a reply may call (tools.Registry), the yes that a tool with   *)
(* consequences waits for (consent.Confirmations), and the language the    *)
(* agent speaks (switching.Switching).  A request is a tool with its       *)
(* arguments.  Calls wait for an asyncio.Lock, which serves them in the    *)
(* order they came; everything between two awaits is one step.  A          *)
(* transcript is what consent.answer makes of it: yes, no, or neither.     *)
(***************************************************************************)
EXTENDS Naturals, Sequences, FiniteSets, FiniteSetsExt

CONSTANTS Callers, NoCaller,
          Requests, NoRequestYet,
          Confirmed,   \* requests of tools with an external effect
          Binding,     \* requests of tools that bind, for roles alone
          InBackground,   \* requests of tools with speed "async"
          Tags, FirstTag, NoTag,   \* languages; the one of the plan
          MaxTurns     \* bound: calls, lines and requests for a language

ASSUME ToolsAssumption ==
  /\ NoCaller \notin Callers /\ NoRequestYet \notin Requests
  /\ Confirmed \subseteq Requests /\ Binding \subseteq Requests \ Confirmed
  /\ InBackground \subseteq Requests
  /\ FirstTag \in Tags /\ NoTag \notin Tags
  /\ MaxTurns \in Nat

VARIABLES talker,      \* caller(): who talks to her
          askedFor,    \* Confirmations._asked
          given,       \* Confirmations._given
          waiting,     \* calls that wait for the lock, oldest first
          inTool,      \* the request that runs under the lock
          background,  \* Registry._background, with how many of each
          agreed, ran, \* per person and request: yeses to it, runs for them
          language, langAsked, langHeard,   \* Switching
          langWanted,  \* the language last asked for
          turns

toolVars == <<talker, askedFor, given, waiting, inTool, background, agreed, ran>>
langVars == <<language, langAsked, langHeard, langWanted>>
toolsVars == <<toolVars, langVars, turns>>

ToolsInit ==
  /\ talker = NoCaller
  /\ askedFor = [p \in Callers |-> NoRequestYet] /\ given = {}
  /\ waiting = <<>> /\ inTool = NoRequestYet /\ background = [r \in InBackground |-> 0]
  /\ agreed = [p \in Callers |-> [r \in Requests |-> 0]] /\ ran = agreed
  /\ language = FirstTag /\ langAsked = FALSE /\ langWanted = NoTag
  /\ langHeard = [p \in Callers |-> NoTag]
  /\ turns = 0

ATurn == turns < MaxTurns /\ turns' = turns + 1
needsYes(r) == r \in Confirmed \cup Binding

(***************************************************************************)
(* Confirmations.                                                          *)
(***************************************************************************)
ask(p, r) ==
  /\ askedFor' = [askedFor EXCEPT ![p] = r]
  /\ given' = {g \in given : g[1] # p}

\* Mutated form: a consent that was used stays given.
takeForGood(p, r) == UNCHANGED <<given, askedFor>>

take(p, r) == given' = given \ {<<p, r>>} /\ UNCHANGED askedFor

\* A line counts when a request was put to its speaker and it says yes or no.
consented(p, verdict) ==
  IF askedFor[p] = NoRequestYet \/ verdict = "neither"
    THEN UNCHANGED <<askedFor, given, agreed>>
    ELSE /\ askedFor' = [askedFor EXCEPT ![p] = NoRequestYet]
         /\ given' = IF verdict = "yes" THEN given \cup {<<p, askedFor[p]>>} ELSE given
         /\ agreed' = IF verdict = "yes"
                        THEN [agreed EXCEPT ![p][askedFor[p]] = @ + 1] ELSE agreed

(***************************************************************************)
(* The person who talks to her changes with the room and the gate.  What   *)
(* they say is heard before it is answered, in the language they spoke.    *)
(***************************************************************************)
turnsTo(p) ==
  /\ talker # p /\ talker' = p
  /\ UNCHANGED <<askedFor, given, waiting, inTool, background, agreed, ran>>
  /\ UNCHANGED langVars /\ UNCHANGED turns

_switch(tag) == language' = tag

\* Switching.follow: what was identified gives way to what was asked for.
followTag(tag) == IF langAsked THEN UNCHANGED language ELSE _switch(tag)

\* Switching.heard: a speaker nothing was identified of changes nothing.
spokenIn(p) == IF langHeard[p] # NoTag THEN followTag(langHeard[p]) ELSE UNCHANGED language

beforeAnswer(p, verdict) ==
  /\ ATurn
  /\ consented(p, verdict)
  /\ spokenIn(p)
  /\ UNCHANGED <<talker, waiting, inTool, background, ran, langAsked, langHeard, langWanted>>

\* A final transcript was identified: of a listener's speaker, or of the one
\* person the session itself listens to.
langIdentified(p, tag) ==
  /\ langHeard[p] # tag
  /\ langHeard' = [langHeard EXCEPT ![p] = tag]
  /\ UNCHANGED <<language, langAsked, langWanted, turns>> /\ UNCHANGED toolVars

langOfTheCall(tag) ==
  /\ language # tag /\ followTag(tag)
  /\ UNCHANGED <<langAsked, langHeard, langWanted, turns>> /\ UNCHANGED toolVars

langAskedFor(tag) == langAsked' = TRUE /\ langWanted' = tag /\ _switch(tag)

switch_language(tag) ==
  /\ ATurn /\ langAskedFor(tag)
  /\ UNCHANGED langHeard /\ UNCHANGED toolVars

(***************************************************************************)
(* Registry.                                                               *)
(***************************************************************************)
call(r) ==
  /\ ATurn
  /\ waiting' = Append(waiting, r)
  /\ UNCHANGED <<talker, askedFor, given, inTool, background, agreed, ran>>
  /\ UNCHANGED langVars

\* The person named by the checks is read once the lock is held.
refusal(r) ==
  \/ /\ needsYes(r)
     /\ talker = NoCaller \/ r \in Binding      \* no role is attested
     /\ UNCHANGED <<askedFor, given>>
  \/ /\ r \in Confirmed /\ talker # NoCaller
     /\ <<talker, r>> \notin given
     /\ ask(talker, r)

\* A background tool lets go of the lock at once; its task goes on.
_start(r) == background' = [background EXCEPT ![r] = @ + 1] /\ UNCHANGED inTool

allowed(r) ==
  \/ ~needsYes(r) /\ UNCHANGED <<askedFor, given, ran>>
  \/ /\ r \in Confirmed /\ talker # NoCaller /\ <<talker, r>> \in given
     /\ take(talker, r)
     /\ ran' = [ran EXCEPT ![talker][r] = @ + 1]

locked ==
  /\ waiting # <<>> /\ inTool = NoRequestYet
  /\ waiting' = Tail(waiting)
  /\ LET r == Head(waiting) IN
     \/ refusal(r) /\ UNCHANGED <<inTool, background, ran>>
     \/ /\ allowed(r)
        /\ IF r \in InBackground
             THEN _start(r)
             ELSE inTool' = r /\ UNCHANGED background
  /\ UNCHANGED <<talker, agreed, turns>> /\ UNCHANGED langVars

\* The tool answered, failed, or its reply was interrupted: the lock is free.
toolReturns ==
  /\ inTool # NoRequestYet /\ inTool' = NoRequestYet
  /\ UNCHANGED <<talker, askedFor, given, waiting, background, agreed, ran>>
  /\ UNCHANGED langVars /\ UNCHANGED turns

\* _start's task is over: its result makes a reply of its own.
delivered(r) ==
  /\ background[r] > 0 /\ background' = [background EXCEPT ![r] = @ - 1]
  /\ UNCHANGED <<talker, askedFor, given, waiting, inTool, agreed, ran>>
  /\ UNCHANGED langVars /\ UNCHANGED turns

ToolsNext ==
  \/ \E p \in Callers : \/ \E v \in {"yes", "no", "neither"} : beforeAnswer(p, v)
                        \/ \E tag \in Tags : langIdentified(p, tag)
  \/ \E p \in Callers \cup {NoCaller} : turnsTo(p)
  \/ \E tag \in Tags : langOfTheCall(tag) \/ switch_language(tag)
  \/ \E r \in Requests : call(r)
  \/ \E r \in InBackground : delivered(r)
  \/ locked \/ toolReturns

ToolsFairness == WF_toolsVars(locked) /\ WF_toolsVars(toolReturns)
ToolsSafe == ToolsInit /\ [][ToolsNext]_toolsVars
ToolsSpec == ToolsSafe /\ ToolsFairness

(***************************************************************************)
(* Properties.                                                             *)
(***************************************************************************)

\* Every variable keeps its type.
ToolsTypeOK ==
  /\ talker \in Callers \cup {NoCaller}
  /\ askedFor \in [Callers -> Confirmed \cup {NoRequestYet}]
  /\ given \subseteq Callers \X Confirmed
  /\ waiting \in Seq(Requests) /\ inTool \in Requests \cup {NoRequestYet}
  /\ background \in [InBackground -> Nat]
  /\ agreed \in [Callers -> [Requests -> Nat]] /\ ran \in [Callers -> [Requests -> Nat]]
  /\ language \in Tags /\ langWanted \in Tags \cup {NoTag} /\ langAsked \in BOOLEAN
  /\ langHeard \in [Callers -> Tags \cup {NoTag}]
  /\ turns \in Nat

\* A tool with an external effect runs for a person at most as often as that
\* person said yes to that very request, and a yes that is not used up yet is
\* still owed one run: nobody's yes is spent by another, or spent twice.
OwnYes ==
  \A p \in Callers, r \in Confirmed :
    ran[p][r] + (IF <<p, r>> \in given THEN 1 ELSE 0) <= agreed[p][r]

\* The language somebody asked for stays the one she speaks, whatever is
\* identified in what others say afterwards or was heard before.
AskedLanguageStays == langAsked => language = langWanted

\* Tools run on their own caller's yes, and an asked-for language is kept.
ToolsInv ==
  /\ ToolsTypeOK
  /\ OwnYes
  /\ AskedLanguageStays
=============================================================================
