----------------------------- MODULE CallProofs -----------------------------
(***************************************************************************)
(* Proofs about what a session plans, runs, spends, tells and writes, for  *)
(* any documents, people, tools, lines, units and events. Each component's *)
(* proof stands alone. ToolsInv is inductive: a request is put only to the *)
(* person who talks, for a tool with an external effect, so a yes is       *)
(* always counted for the person and the request it was said to, and       *)
(* taking it is the one step that lets a tool run. The others are not.     *)
(* EventsInd adds the order of the numbers in the chain, that the last     *)
(* state that waits is the present one, and that segments are numbered as  *)
(* they are opened; RepliesInd, that an output answers a call before it,   *)
(* and that what is held back of a reply is of one request; ScribeInd,     *)
(* that lines are told apart by their numbers; MeteringInd, how what was   *)
(* counted relates to what was recorded of each listener; PlanInd, that    *)
(* what a worker took still passes its plan, and that a hash in a document *)
(* is that of the document it was put on.                                  *)
(***************************************************************************)
EXTENDS Replies, Tools, Metering, Events, Scribe, Plan, FiniteSetTheorems, SequenceTheorems,
        WellFoundedInduction, TLAPS

-----------------------------------------------------------------------------
(***************************************************************************)
(* Tools.                                                                  *)
(***************************************************************************)

\* What each person is owed: one run for a yes that was not used up yet.
owed(p, r) == IF <<p, r>> \in given THEN 1 ELSE 0

\* A line moves a request from asked to given, and counts its yes.
LEMMA ConsentKeeps ==
  ASSUME ToolsInv, NEW p \in Callers, NEW v \in {"yes", "no", "neither"},
         consented(p, v), ran' = ran
  PROVE  /\ askedFor' \in [Callers -> Confirmed \cup {NoRequestYet}]
         /\ given' \subseteq Callers \X Confirmed
         /\ agreed' \in [Callers -> [Requests -> Nat]]
         /\ OwnYes'
<1>1. CASE askedFor[p] = NoRequestYet \/ v = "neither"
  BY <1>1 DEF consented, ToolsInv, ToolsTypeOK, OwnYes
<1>2. CASE ~(askedFor[p] = NoRequestYet \/ v = "neither") /\ v = "yes"
  <2> DEFINE r == askedFor[p]
  <2>1. r \in Confirmed /\ r \in Requests
    BY <1>2, ToolsAssumption DEF ToolsInv, ToolsTypeOK
  <2>2. /\ askedFor' = [askedFor EXCEPT ![p] = NoRequestYet]
        /\ given' = given \cup {<<p, r>>}
        /\ agreed' = [agreed EXCEPT ![p] = [agreed[p] EXCEPT ![r] = agreed[p][r] + 1]]
    BY <1>2 DEF consented
  <2>3. agreed[p] \in [Requests -> Nat] /\ agreed[p][r] \in Nat
    BY <2>1 DEF ToolsInv, ToolsTypeOK
  <2>4. /\ askedFor' \in [Callers -> Confirmed \cup {NoRequestYet}]
        /\ given' \subseteq Callers \X Confirmed
        /\ agreed' \in [Callers -> [Requests -> Nat]]
    BY <2>1, <2>2, <2>3 DEF ToolsInv, ToolsTypeOK
  <2>5. ASSUME NEW q \in Callers, NEW c \in Confirmed
        PROVE  ran[q][c] + (IF <<q, c>> \in given' THEN 1 ELSE 0) <= agreed'[q][c]
    <3>1. /\ c \in Requests /\ ran[q][c] \in Nat /\ agreed[q][c] \in Nat
          /\ ran[q][c] + owed(q, c) <= agreed[q][c]
      BY ToolsAssumption DEF ToolsInv, ToolsTypeOK, OwnYes, owed
    <3>2. CASE q = p /\ c = r
      <4>1. agreed'[q][c] = agreed[q][c] + 1
        BY <2>1, <2>2, <2>3, <3>1, <3>2 DEF ToolsInv, ToolsTypeOK
      <4> QED  BY <3>1, <4>1 DEF owed
    <3>3. CASE ~(q = p /\ c = r)
      <4>1. agreed'[q][c] = agreed[q][c]
        BY <2>1, <2>2, <2>3, <3>1, <3>3 DEF ToolsInv, ToolsTypeOK
      <4>2. <<q, c>> \in given' <=> <<q, c>> \in given
        BY <2>2, <3>3
      <4> QED  BY <3>1, <4>1, <4>2 DEF owed
    <3> QED  BY <3>2, <3>3
  <2> QED  BY <2>4, <2>5 DEF OwnYes
<1>3. CASE ~(askedFor[p] = NoRequestYet \/ v = "neither") /\ v = "no"
  BY <1>3 DEF consented, ToolsInv, ToolsTypeOK, OwnYes
<1> QED  BY <1>1, <1>2, <1>3

\* Following a tag keeps what somebody asked for.
LEMMA FollowKeeps ==
  ASSUME ToolsInv, NEW tag \in Tags, followTag(tag),
         UNCHANGED <<langAsked, langWanted>>
  PROVE  language' \in Tags /\ AskedLanguageStays'
  BY DEF followTag, _switch, ToolsInv, ToolsTypeOK, AskedLanguageStays

LEMMA LineKeeps ==
  ASSUME ToolsInv, NEW p \in Callers, NEW v \in {"yes", "no", "neither"},
         beforeAnswer(p, v)
  PROVE  ToolsInv'
<1>1. /\ UNCHANGED <<talker, waiting, inTool, background, ran, langAsked, langHeard, langWanted>>
      /\ turns' \in Nat
  BY DEF beforeAnswer, ATurn, ToolsInv, ToolsTypeOK
<1>2. /\ askedFor' \in [Callers -> Confirmed \cup {NoRequestYet}]
      /\ given' \subseteq Callers \X Confirmed
      /\ agreed' \in [Callers -> [Requests -> Nat]]
      /\ OwnYes'
  BY <1>1, ConsentKeeps DEF beforeAnswer
<1>3. language' \in Tags /\ AskedLanguageStays'
  <2>1. CASE langHeard[p] # NoTag
    <3>1. langHeard[p] \in Tags /\ followTag(langHeard[p])
      BY <2>1 DEF beforeAnswer, spokenIn, ToolsInv, ToolsTypeOK
    <3> QED  BY <1>1, <3>1, FollowKeeps
  <2>2. CASE langHeard[p] = NoTag
    BY <1>1, <2>2 DEF beforeAnswer, spokenIn, ToolsInv, ToolsTypeOK, AskedLanguageStays
  <2> QED  BY <2>1, <2>2
<1> QED  BY <1>1, <1>2, <1>3 DEF ToolsInv, ToolsTypeOK

\* Languages: heard, identified in the call, asked for.
LEMMA LanguageKeeps ==
  ASSUME ToolsInv, NEW p \in Callers, NEW tag \in Tags,
         langIdentified(p, tag) \/ langOfTheCall(tag) \/ switch_language(tag)
  PROVE  ToolsInv'
<1>1. UNCHANGED toolVars /\ turns' \in Nat
  BY DEF langIdentified, langOfTheCall, switch_language, ATurn, ToolsInv, ToolsTypeOK
<1>2. OwnYes'
  BY <1>1 DEF toolVars, ToolsInv, OwnYes
<1>3. /\ language' \in Tags /\ langWanted' \in Tags \cup {NoTag} /\ langAsked' \in BOOLEAN
      /\ langHeard' \in [Callers -> Tags \cup {NoTag}] /\ AskedLanguageStays'
  <2>1. CASE langIdentified(p, tag)
    BY <2>1 DEF langIdentified, ToolsInv, ToolsTypeOK, AskedLanguageStays
  <2>2. CASE langOfTheCall(tag)
    BY <2>2, FollowKeeps DEF langOfTheCall, ToolsInv, ToolsTypeOK
  <2>3. CASE switch_language(tag)
    BY <2>3 DEF switch_language, langAskedFor, _switch, ToolsInv, ToolsTypeOK, AskedLanguageStays
  <2> QED  BY <2>1, <2>2, <2>3
<1> QED  BY <1>1, <1>2, <1>3 DEF toolVars, ToolsInv, ToolsTypeOK

\* The lock: a call is refused, and may be asked about, or is allowed.
LEMMA LockedKeeps ==
  ASSUME ToolsInv, locked
  PROVE  ToolsInv'
<1> DEFINE r == Head(waiting)
<1>1. /\ r \in Requests /\ waiting' \in Seq(Requests)
      /\ UNCHANGED <<talker, agreed, turns>> /\ UNCHANGED langVars
  BY DEF locked, ToolsInv, ToolsTypeOK
<1>2. AskedLanguageStays'
  BY <1>1 DEF langVars, ToolsInv, AskedLanguageStays
<1>3. CASE refusal(r) /\ UNCHANGED <<inTool, background, ran>>
  <2>1. CASE UNCHANGED <<askedFor, given>>
    BY <1>1, <1>2, <1>3, <2>1 DEF langVars, ToolsInv, ToolsTypeOK, OwnYes
  <2>2. CASE r \in Confirmed /\ talker # NoCaller /\ ask(talker, r)
    <3>1. /\ talker \in Callers
          /\ askedFor' \in [Callers -> Confirmed \cup {NoRequestYet}]
          /\ given' \subseteq given
      BY <2>2 DEF ask, ToolsInv, ToolsTypeOK
    <3>2. OwnYes'
      <4> SUFFICES ASSUME NEW q \in Callers, NEW c \in Confirmed
                   PROVE  ran[q][c] + (IF <<q, c>> \in given' THEN 1 ELSE 0) <= agreed[q][c]
        BY <1>1, <1>3 DEF OwnYes
      <4>1. ran[q][c] \in Nat /\ agreed[q][c] \in Nat /\ ran[q][c] + owed(q, c) <= agreed[q][c]
        BY ToolsAssumption DEF ToolsInv, ToolsTypeOK, OwnYes, owed
      <4> QED  BY <3>1, <4>1 DEF owed
    <3>3. given' \subseteq Callers \X Confirmed
      BY <3>1 DEF ToolsInv, ToolsTypeOK
    <3> QED  BY <1>1, <1>2, <1>3, <3>1, <3>2, <3>3 DEF langVars, ToolsInv, ToolsTypeOK
  <2> QED  BY <1>3, <2>1, <2>2 DEF refusal
<1>4. CASE allowed(r) /\ IF r \in InBackground THEN _start(r)
                                             ELSE inTool' = r /\ UNCHANGED background
  <2>1. inTool' \in Requests \cup {NoRequestYet} /\ background' \in [InBackground -> Nat]
    <3>1. CASE r \in InBackground
      <4>1. background' = [background EXCEPT ![r] = background[r] + 1] /\ inTool' = inTool
        BY <1>4, <3>1 DEF _start
      <4> QED  BY <3>1, <4>1 DEF ToolsInv, ToolsTypeOK
    <3>2. CASE r \notin InBackground
      BY <1>1, <1>4, <3>2 DEF ToolsInv, ToolsTypeOK
    <3> QED  BY <3>1, <3>2
  <2>2. CASE ~needsYes(r) /\ UNCHANGED <<askedFor, given, ran>>
    <3>1. OwnYes'
      BY <1>1, <2>2 DEF ToolsInv, OwnYes
    <3> QED  BY <1>1, <1>2, <2>1, <2>2, <3>1 DEF langVars, ToolsInv, ToolsTypeOK
  <2>3. CASE /\ r \in Confirmed /\ talker # NoCaller /\ <<talker, r>> \in given
             /\ take(talker, r)
             /\ ran' = [ran EXCEPT ![talker] = [ran[talker] EXCEPT ![r] = ran[talker][r] + 1]]
    <3>1. /\ talker \in Callers /\ UNCHANGED askedFor
          /\ given' = given \ {<<talker, r>>}
          /\ ran[talker] \in [Requests -> Nat] /\ ran[talker][r] \in Nat
      BY <1>1, <2>3 DEF take, ToolsInv, ToolsTypeOK
    <3>2. ran' \in [Callers -> [Requests -> Nat]]
      BY <1>1, <2>3, <3>1 DEF ToolsInv, ToolsTypeOK
    <3>3. OwnYes'
      <4> SUFFICES ASSUME NEW q \in Callers, NEW c \in Confirmed
                   PROVE  ran'[q][c] + (IF <<q, c>> \in given' THEN 1 ELSE 0) <= agreed[q][c]
        BY <1>1 DEF OwnYes
      <4>1. /\ c \in Requests /\ ran[q] \in [Requests -> Nat]
            /\ ran[q][c] \in Nat /\ agreed[q][c] \in Nat
            /\ ran[q][c] + owed(q, c) <= agreed[q][c]
        BY ToolsAssumption DEF ToolsInv, ToolsTypeOK, OwnYes, owed
      <4>2. CASE q = talker /\ c = r
        <5>1. ran'[q][c] = ran[q][c] + 1
          BY <1>1, <2>3, <3>1, <4>1, <4>2 DEF ToolsInv, ToolsTypeOK
        <5> QED  BY <2>3, <3>1, <4>1, <4>2, <5>1 DEF owed
      <4>3. CASE ~(q = talker /\ c = r)
        <5>1. ran'[q][c] = ran[q][c]
          BY <1>1, <2>3, <3>1, <4>1, <4>3 DEF ToolsInv, ToolsTypeOK
        <5>2. <<q, c>> \in given' => <<q, c>> \in given
          BY <3>1
        <5> QED  BY <4>1, <5>1, <5>2 DEF owed
      <4> QED  BY <4>2, <4>3
    <3>4. given' \subseteq Callers \X Confirmed
      BY <3>1 DEF ToolsInv, ToolsTypeOK
    <3> QED  BY <1>1, <1>2, <2>1, <3>1, <3>2, <3>3, <3>4 DEF langVars, ToolsInv, ToolsTypeOK
  <2> QED  BY <1>4, <2>2, <2>3 DEF allowed
<1> QED  BY <1>3, <1>4 DEF locked

\* The rest moves calls and tasks and no yes.
LEMMA QueueKeeps ==
  ASSUME ToolsInv, NEW r \in Requests,
         \/ call(r) \/ toolReturns
         \/ r \in InBackground /\ delivered(r)
         \/ \E p \in Callers \cup {NoCaller} : turnsTo(p)
  PROVE  ToolsInv'
<1>1. UNCHANGED <<askedFor, given, agreed, ran>> /\ UNCHANGED langVars
  BY DEF call, toolReturns, delivered, turnsTo
<1>2. OwnYes' /\ AskedLanguageStays'
  BY <1>1 DEF langVars, ToolsInv, OwnYes, AskedLanguageStays
<1>3. /\ talker' \in Callers \cup {NoCaller} /\ waiting' \in Seq(Requests)
      /\ inTool' \in Requests \cup {NoRequestYet} /\ turns' \in Nat
      /\ background' \in [InBackground -> Nat]
  <2>1. CASE call(r)
    BY <2>1 DEF call, ATurn, ToolsInv, ToolsTypeOK
  <2>2. CASE toolReturns
    BY <2>2 DEF toolReturns, ToolsInv, ToolsTypeOK
  <2>3. CASE r \in InBackground /\ delivered(r)
    BY <2>3 DEF delivered, ToolsInv, ToolsTypeOK
  <2>4. CASE \E p \in Callers \cup {NoCaller} : turnsTo(p)
    BY <2>4 DEF turnsTo, ToolsInv, ToolsTypeOK
  <2> QED  BY <2>1, <2>2, <2>3, <2>4
<1> QED  BY <1>1, <1>2, <1>3 DEF langVars, ToolsInv, ToolsTypeOK

\* A tool with consequences runs for a person at most once for each yes they
\* gave to that very request, whoever talks in between, and the language that
\* was asked for is the one spoken, whatever tags are identified later.
THEOREM ConsentIsOnesOwn == ToolsSafe => []ToolsInv
<1>1. ToolsInit => ToolsInv
  <2> SUFFICES ASSUME ToolsInit PROVE ToolsInv
    OBVIOUS
  <2>1. ToolsTypeOK
    <3>1. waiting \in Seq(Requests) /\ turns \in Nat /\ language \in Tags
      BY ToolsAssumption DEF ToolsInit
    <3>2. /\ agreed \in [Callers -> [Requests -> Nat]] /\ ran \in [Callers -> [Requests -> Nat]]
          /\ background \in [InBackground -> Nat]
          /\ askedFor \in [Callers -> Confirmed \cup {NoRequestYet}]
          /\ langHeard \in [Callers -> Tags \cup {NoTag}]
      BY DEF ToolsInit
    <3> QED  BY <3>1, <3>2 DEF ToolsInit, ToolsTypeOK
  <2>2. OwnYes /\ AskedLanguageStays
    BY ToolsAssumption DEF ToolsInit, OwnYes, AskedLanguageStays
  <2> QED  BY <2>1, <2>2 DEF ToolsInv
<1>2. ToolsInv /\ [ToolsNext]_toolsVars => ToolsInv'
  <2> SUFFICES ASSUME ToolsInv, [ToolsNext]_toolsVars PROVE ToolsInv'
    OBVIOUS
  <2>1. ASSUME NEW p \in Callers, NEW v \in {"yes", "no", "neither"}, beforeAnswer(p, v)
        PROVE  ToolsInv'
    BY <2>1, LineKeeps
  <2>2. ASSUME NEW p \in Callers, NEW tag \in Tags, langIdentified(p, tag) PROVE ToolsInv'
    BY <2>2, LanguageKeeps
  <2>3. ASSUME NEW tag \in Tags, langOfTheCall(tag) \/ switch_language(tag) PROVE ToolsInv'
    <3>1. UNCHANGED toolVars /\ turns' \in Nat
      BY <2>3 DEF langOfTheCall, switch_language, ATurn, ToolsInv, ToolsTypeOK
    <3>2. /\ language' \in Tags /\ langWanted' \in Tags \cup {NoTag} /\ langAsked' \in BOOLEAN
          /\ langHeard' = langHeard /\ AskedLanguageStays'
      BY <2>3, FollowKeeps
      DEF langOfTheCall, switch_language, langAskedFor, _switch, ToolsInv, ToolsTypeOK, AskedLanguageStays
    <3>3. OwnYes'
      BY <3>1 DEF toolVars, ToolsInv, OwnYes
    <3> QED  BY <3>1, <3>2, <3>3 DEF toolVars, ToolsInv, ToolsTypeOK
  <2>4. ASSUME NEW r \in Requests, call(r) PROVE ToolsInv'
    BY <2>4, QueueKeeps
  <2>5. ASSUME NEW r \in InBackground, delivered(r) PROVE ToolsInv'
    BY <2>5, QueueKeeps, ToolsAssumption
  <2>6. ASSUME NEW p \in Callers \cup {NoCaller}, turnsTo(p) PROVE ToolsInv'
    BY <2>6 DEF turnsTo, langVars, ToolsInv, ToolsTypeOK, OwnYes, AskedLanguageStays
  <2>7. CASE locked
    BY <2>7, LockedKeeps
  <2>8. CASE toolReturns
    BY <2>8 DEF toolReturns, langVars, ToolsInv, ToolsTypeOK, OwnYes, AskedLanguageStays
  <2>9. CASE UNCHANGED toolsVars
    BY <2>9 DEF toolsVars, toolVars, langVars, ToolsInv, ToolsTypeOK, OwnYes, AskedLanguageStays
  <2> QED
    BY <2>1, <2>2, <2>3, <2>4, <2>5, <2>6, <2>7, <2>8, <2>9 DEF ToolsNext
<1> QED  BY <1>1, <1>2, PTL DEF ToolsSafe

-----------------------------------------------------------------------------
(***************************************************************************)
(* Events.                                                                 *)
(***************************************************************************)

Told == [state : States \cup {NoState}, by : Voices \cup {Nobody0}]
Event == [number : Nat, about : Told]

TellTypeOK ==
  /\ sequence \in Nat /\ chain \in Seq(Event) /\ received \in Seq(Nat)
  /\ viewLost \in BOOLEAN
  /\ current \in States \cup {NoState} /\ wokenBy \in Voices \cup {Nobody0}

\* Numbers grow along what was received, what waits, and what comes next; those
\* that wait have no gap, so that the task of the first alone waits for nobody.
NumbersGrow ==
  /\ \A i, j \in 1 .. Len(received) : i < j => received[i] < received[j]
  /\ \A i, j \in 1 .. Len(chain) : i < j => chain[i].number < chain[j].number
  /\ \A i \in 1 .. Len(received), j \in 1 .. Len(chain) : received[i] < chain[j].number
  /\ \A i \in 1 .. Len(received) : received[i] < sequence
  /\ \A j \in 1 .. Len(chain) : chain[j].number < sequence
  /\ \A i \in 1 .. Len(chain) : chain[i].number = (sequence + i) - (Len(chain) + 1)

\* The last state that waits is the present one; when none waits, it was told.
LastIsPresent ==
  /\ \A i \in 1 .. Len(chain) : isState(chain[i]) => current # NoState
  /\ \A i \in 1 .. Len(chain) :
       /\ isState(chain[i])
       /\ \A j \in 1 .. Len(chain) : i < j => ~isState(chain[j])
       => chain[i].about = _state(current, wokenBy)
  /\ /\ \A i \in 1 .. Len(chain) : ~isState(chain[i])
     /\ ~viewLost /\ current # NoState
     => view = <<_state(current, wokenBy)>>

\* Segments are numbered from 1 as they are opened.
SegmentsOK ==
  /\ segments \in Nat /\ open \in [Voices -> 0 .. segments]
  /\ agentSegment \in 0 .. segments /\ finals \subseteq 1 .. segments
  /\ agentText \in BOOLEAN

EventsInd == TellTypeOK /\ NumbersGrow /\ LastIsPresent /\ SegmentsOK /\ FinalIsFinal

Telling == TellTypeOK /\ NumbersGrow /\ LastIsPresent

LEMMA StatesAreNoCaptions ==
  ASSUME NEW now \in States, NEW by \in Voices \cup {Nobody0}
  PROVE  _state(now, by) # ACaption /\ _state(now, by) \in Told /\ ACaption \in Told
<1>1. _state(now, by).state = now /\ ACaption.state = NoState
  BY DEF _state, ACaption
<1> QED  BY <1>1, EventsAssumption DEF _state, ACaption, Told

\* What waits and what was received are numbers.
LEMMA NumbersAreTyped ==
  ASSUME TellTypeOK
  PROVE  /\ \A j \in 1 .. Len(chain) : chain[j] \in Event /\ chain[j].number \in Nat
         /\ \A j \in 1 .. Len(received) : received[j] \in Nat
         /\ Len(chain) \in Nat /\ Len(received) \in Nat
<1>1. \A j \in 1 .. Len(chain) : chain[j] \in Event
  BY DEF TellTypeOK
<1>2. \A x \in Event : x.number \in Nat
  BY DEF Event
<1> QED  BY <1>1, <1>2 DEF TellTypeOK

\* An event goes to the end of the chain with the next number.
LEMMA EmitGrows ==
  ASSUME TellTypeOK, NumbersGrow, NEW about \in Told, emit(about), UNCHANGED viewVars
  PROVE  /\ sequence' \in Nat /\ chain' \in Seq(Event) /\ received' = received
         /\ viewLost' = viewLost /\ view' = view
         /\ Len(chain') = Len(chain) + 1
         /\ \A i \in 1 .. Len(chain) : chain'[i] = chain[i]
         /\ chain'[Len(chain) + 1] = [number |-> sequence, about |-> about]
         /\ NumbersGrow'
<1>1. [number |-> sequence, about |-> about] \in Event
  BY DEF TellTypeOK, Event
<1>2. /\ sequence' = sequence + 1 /\ received' = received /\ viewLost' = viewLost /\ view' = view
      /\ chain' = Append(chain, [number |-> sequence, about |-> about])
  BY DEF emit, viewVars
<1>3. /\ chain' \in Seq(Event) /\ Len(chain') = Len(chain) + 1
      /\ \A i \in 1 .. Len(chain) : chain'[i] = chain[i]
      /\ chain'[Len(chain) + 1] = [number |-> sequence, about |-> about]
  BY <1>1, <1>2 DEF TellTypeOK
<1>4. \A j \in 1 .. Len(chain') :
        \/ j \in 1 .. Len(chain) /\ chain'[j] = chain[j]
        \/ j = Len(chain) + 1 /\ chain'[j].number = sequence
  BY <1>3 DEF TellTypeOK
<1>5. /\ \A j \in 1 .. Len(chain) : chain[j].number \in Nat
      /\ \A j \in 1 .. Len(received) : received[j] \in Nat
      /\ Len(chain) \in Nat /\ Len(received) \in Nat /\ sequence \in Nat
  BY NumbersAreTyped DEF TellTypeOK
<1>6. NumbersGrow'
  <2>1. /\ \A i, j \in 1 .. Len(received') : i < j => received'[i] < received'[j]
        /\ \A i \in 1 .. Len(received') : received'[i] < sequence'
    BY <1>2, <1>5 DEF NumbersGrow
  <2>2. \A j \in 1 .. Len(chain') : chain'[j].number < sequence'
    BY <1>2, <1>4, <1>5 DEF NumbersGrow
  <2>3. ASSUME NEW i \in 1 .. Len(chain'), NEW j \in 1 .. Len(chain'), i < j
        PROVE  chain'[i].number < chain'[j].number
    <3>1. i \in 1 .. Len(chain) /\ chain'[i] = chain[i]
      BY <1>3, <1>4, <1>5, <2>3
    <3> QED  BY <1>4, <1>5, <2>3, <3>1 DEF NumbersGrow
  <2>4. \A i \in 1 .. Len(received'), j \in 1 .. Len(chain') : received'[i] < chain'[j].number
    BY <1>2, <1>4, <1>5 DEF NumbersGrow
  <2>5. ASSUME NEW i \in 1 .. Len(chain')
        PROVE  chain'[i].number = (sequence' + i) - (Len(chain') + 1)
    <3>1. CASE i \in 1 .. Len(chain) /\ chain'[i] = chain[i]
      <4>1. chain[i].number = (sequence + i) - (Len(chain) + 1)
        BY <1>5, <3>1 DEF NumbersGrow
      <4> QED  BY <1>2, <1>3, <1>5, <3>1, <4>1
    <3>2. CASE i = Len(chain) + 1 /\ chain'[i].number = sequence
      BY <1>2, <1>3, <1>5, <3>2
    <3> QED  BY <1>4, <3>1, <3>2
  <2> QED  BY <2>1, <2>2, <2>3, <2>4, <2>5 DEF NumbersGrow
<1> QED  BY <1>2, <1>3, <1>6 DEF TellTypeOK

\* A caption says nothing of the agent; a state is the present one.
LEMMA CaptionTells ==
  ASSUME Telling, emit(ACaption), UNCHANGED viewVars, UNCHANGED stateVars
  PROVE  Telling'
<1>1. ACaption \in Told
  BY DEF ACaption, Told
<1>2. /\ sequence' \in Nat /\ chain' \in Seq(Event) /\ received' = received
      /\ viewLost' = viewLost /\ view' = view
      /\ Len(chain') = Len(chain) + 1
      /\ \A i \in 1 .. Len(chain) : chain'[i] = chain[i]
      /\ chain'[Len(chain) + 1] = [number |-> sequence, about |-> ACaption]
      /\ NumbersGrow'
  BY <1>1, EmitGrows DEF Telling
<1>3. current' = current /\ wokenBy' = wokenBy
  BY DEF stateVars
<1>4. TellTypeOK'
  BY <1>2, <1>3 DEF Telling, TellTypeOK
<1>5. LastIsPresent'
  <2>1. \A i \in 1 .. Len(chain') :
          \/ i \in 1 .. Len(chain) /\ chain'[i] = chain[i]
          \/ i = Len(chain) + 1 /\ chain'[i].about = ACaption
    BY <1>2 DEF Telling, TellTypeOK
  <2>2. \A i \in 1 .. Len(chain) : i \in 1 .. Len(chain') /\ chain'[i] = chain[i]
    BY <1>2 DEF Telling, TellTypeOK
  <2> QED
    BY <1>2, <1>3, <2>1, <2>2 DEF Telling, LastIsPresent, isState, _state
<1> QED  BY <1>2, <1>4, <1>5 DEF Telling

LEMMA StateTells ==
  ASSUME Telling, NEW now \in States, NEW by \in Voices \cup {Nobody0},
         emit(_state(now, by)), UNCHANGED viewVars, current' = now, wokenBy' = by
  PROVE  Telling'
<1>1. _state(now, by) # ACaption /\ _state(now, by) \in Told
  BY StatesAreNoCaptions
<1>2. /\ sequence' \in Nat /\ chain' \in Seq(Event) /\ received' = received
      /\ viewLost' = viewLost /\ view' = view
      /\ Len(chain') = Len(chain) + 1
      /\ \A i \in 1 .. Len(chain) : chain'[i] = chain[i]
      /\ chain'[Len(chain) + 1] = [number |-> sequence, about |-> _state(now, by)]
      /\ NumbersGrow'
  BY <1>1, EmitGrows DEF Telling
<1>3. TellTypeOK'
  BY <1>2 DEF Telling, TellTypeOK
<1>4. LastIsPresent'
  <2>1. \A i \in 1 .. Len(chain') : i = Len(chain) + 1 \/ i < Len(chain) + 1
    BY <1>2 DEF Telling, TellTypeOK
  <2>2. Len(chain) + 1 \in 1 .. Len(chain')
    BY <1>2 DEF Telling, TellTypeOK
  <2>3. chain'[Len(chain) + 1].about = _state(now, by) /\ now # NoState
    BY <1>2, EventsAssumption
  <2> QED  BY <1>1, <2>1, <2>2, <2>3 DEF LastIsPresent, isState, _state
<1> QED  BY <1>2, <1>3, <1>4 DEF Telling

\* Only the first event that waits is sent: the task of any other waits for the
\* event whose number is one less.
LEMMA FirstIsSent ==
  ASSUME Telling, NEW i \in 1 .. Len(chain), NEW arrives \in BOOLEAN, _send(i, arrives)
  PROVE  i = 1
<1> SUFFICES ASSUME i # 1 PROVE FALSE
  OBVIOUS
<1>1. /\ Len(chain) \in Nat /\ i - 1 \in 1 .. Len(chain) /\ sequence \in Nat
      /\ chain[i].number \in Nat /\ chain[i - 1].number \in Nat
  BY NumbersAreTyped DEF Telling, TellTypeOK
<1>2. /\ chain[i].number = (sequence + i) - (Len(chain) + 1)
      /\ chain[i - 1].number = (sequence + (i - 1)) - (Len(chain) + 1)
  BY <1>1 DEF Telling, NumbersGrow
<1>3. chain[i - 1].number + 1 # chain[i].number
  BY <1>1 DEF _send
<1> QED  BY <1>1, <1>2, <1>3

\* The event at the head is delivered, or lost.
LEMMA SendTells ==
  ASSUME Telling, NEW at \in 1 .. Len(chain), NEW arrives \in BOOLEAN, _send(at, arrives)
  PROVE  Telling'
<1> DEFINE e == chain[1]
<1>0. at = 1
  BY FirstIsSent
<1>1. /\ chain' = chainWithout(1) /\ published(e, arrives) /\ sequence' = sequence
      /\ current' = current /\ wokenBy' = wokenBy
  BY <1>0 DEF _send, stateVars
<1>2. /\ chain' \in Seq(Event) /\ Len(chain') = Len(chain) - 1 /\ Len(chain) \in Nat \ {0}
      /\ \A i \in 1 .. Len(chain') : i + 1 \in 1 .. Len(chain) /\ chain'[i] = chain[i + 1]
      /\ e = chain[1] /\ e \in Event
  <2>1. /\ Len(chain) \in Nat \ {0} /\ 1 \in 1 .. Len(chain)
        /\ \A i \in 1 .. Len(chain) : chain[i] \in Event
    BY <1>0, NumbersAreTyped DEF Telling
  <2> DEFINE n == Len(chain) - 1
  <2>2. n \in Nat /\ \A i \in 1 .. n : i + 1 \in 1 .. Len(chain) /\ ~(i < 1)
    BY <2>1
  <2>3. chain' = [k \in 1 .. n |-> chain[IF k < 1 THEN k ELSE k + 1]]
    BY <1>1 DEF chainWithout
  <2>4. \A i \in 1 .. n : chain'[i] = chain[i + 1]
    BY <2>2, <2>3
  <2> HIDE DEF n
  <2>5. chain' = [k \in 1 .. n |-> chain'[k]]
    BY <2>3
  <2>6. chain' \in [1 .. n -> Event]
    BY <2>1, <2>2, <2>4, <2>5
  <2>7. chain' \in Seq(Event) /\ Len(chain') = n
    BY <2>2, <2>6
  <2> QED  BY <2>1, <2>2, <2>4, <2>7 DEF n
<1>3. \/ /\ received' = Append(received, e.number)
         /\ \/ isState(e) /\ view' = <<e.about>> /\ viewLost' = FALSE
            \/ ~isState(e) /\ view' = view /\ viewLost' = viewLost
      \/ received' = received /\ view' = view /\ viewLost' = (viewLost \/ isState(e))
  BY <1>1 DEF published
<1>4. TellTypeOK'
  <2>1. received' \in Seq(Nat)
    <3>1. e.number \in Nat
      BY <1>2 DEF Event
    <3>2. received \in Seq(Nat)
      BY DEF Telling, TellTypeOK
    <3>3. Append(received, e.number) \in Seq(Nat)
      BY <3>1, <3>2
    <3> QED  BY <1>3, <3>2, <3>3
  <2>2. viewLost' \in BOOLEAN
    BY <1>3 DEF Telling, TellTypeOK
  <2> QED  BY <1>1, <1>2, <2>1, <2>2 DEF Telling, TellTypeOK
<1>5. NumbersGrow'
  <2>1. \A i \in 1 .. Len(received') :
          \/ i \in 1 .. Len(received) /\ received'[i] = received[i]
          \/ i = Len(received) + 1 /\ received'[i] = chain[1].number
    <3>1. received \in Seq(Nat) /\ e.number \in Nat /\ e = chain[1]
      BY <1>2 DEF Telling, TellTypeOK, Event
    <3>2. CASE received' = Append(received, e.number)
      <4>1. /\ Len(received') = Len(received) + 1 /\ Len(received) \in Nat
            /\ \A i \in 1 .. Len(received) : received'[i] = received[i]
            /\ received'[Len(received) + 1] = e.number
        BY <3>1, <3>2
      <4>2. \A i \in 1 .. Len(received') : i \in 1 .. Len(received) \/ i = Len(received) + 1
        BY <4>1
      <4> QED  BY <3>1, <4>1, <4>2
    <3>3. CASE received' = received
      BY <3>1, <3>3
    <3> QED  BY <1>3, <3>2, <3>3
  <2>2. /\ \A j \in 1 .. Len(chain) : chain[j].number \in Nat
        /\ \A j \in 1 .. Len(received) : received[j] \in Nat
        /\ Len(chain) \in Nat /\ Len(received) \in Nat /\ sequence \in Nat
    BY NumbersAreTyped DEF Telling, TellTypeOK
  <2>3. 1 \in 1 .. Len(chain)
    BY <1>2
  <2>4. /\ \A i, j \in 1 .. Len(received') : i < j => received'[i] < received'[j]
        /\ \A i \in 1 .. Len(received') : received'[i] < sequence'
    <3>1. \A i \in 1 .. Len(received') : received'[i] < sequence'
      BY <1>1, <2>1, <2>2, <2>3 DEF Telling, NumbersGrow
    <3>2. ASSUME NEW i \in 1 .. Len(received'), NEW j \in 1 .. Len(received'), i < j
          PROVE  received'[i] < received'[j]
      <4>1. Len(received') \in {Len(received), Len(received) + 1}
        BY <1>3, <2>2 DEF Telling, TellTypeOK
      <4>2. i \in 1 .. Len(received) /\ received'[i] = received[i]
        BY <2>1, <2>2, <3>2, <4>1
      <4>3. received'[j] = chain[1].number \/ (j \in 1 .. Len(received) /\ received'[j] = received[j])
        BY <2>1
      <4> QED  BY <2>3, <3>2, <4>2, <4>3 DEF Telling, NumbersGrow
    <3> QED  BY <3>1, <3>2
  <2>5. /\ \A i, j \in 1 .. Len(chain') : i < j => chain'[i].number < chain'[j].number
        /\ \A j \in 1 .. Len(chain') : chain'[j].number < sequence'
    <3>1. \A j \in 1 .. Len(chain') : chain'[j].number < sequence'
      BY <1>1, <1>2 DEF Telling, NumbersGrow
    <3>2. \A i, j \in 1 .. Len(chain') : i < j => i + 1 < j + 1
      BY <1>2
    <3> QED  BY <1>2, <3>1, <3>2 DEF Telling, NumbersGrow
  <2>6. ASSUME NEW i \in 1 .. Len(received'), NEW j \in 1 .. Len(chain')
        PROVE  received'[i] < chain'[j].number
    <3>1. j + 1 \in 1 .. Len(chain) /\ chain'[j] = chain[j + 1] /\ 1 < j + 1
      BY <1>2
    <3> QED  BY <2>1, <2>3, <3>1 DEF Telling, NumbersGrow
  <2>7. ASSUME NEW i \in 1 .. Len(chain')
        PROVE  chain'[i].number = (sequence' + i) - (Len(chain') + 1)
    <3>1. i + 1 \in 1 .. Len(chain) /\ chain'[i] = chain[i + 1]
      BY <1>2
    <3>2. chain[i + 1].number = (sequence + (i + 1)) - (Len(chain) + 1)
      BY <2>2, <3>1 DEF Telling, NumbersGrow
    <3> QED  BY <1>1, <1>2, <2>2, <3>1, <3>2
  <2> QED  BY <2>4, <2>5, <2>6, <2>7 DEF NumbersGrow
<1>6. LastIsPresent'
  <2>1. \A i \in 1 .. Len(chain) :
          i # 1 => i - 1 \in 1 .. Len(chain') /\ chain'[i - 1] = chain[i]
    BY <1>2
  <2>2. \A i \in 1 .. Len(chain') : isState(chain'[i]) => current' # NoState
    BY <1>1, <1>2 DEF Telling, LastIsPresent
  <2>3. ASSUME NEW i \in 1 .. Len(chain'), isState(chain'[i]),
               \A j \in 1 .. Len(chain') : i < j => ~isState(chain'[j])
        PROVE  chain'[i].about = _state(current, wokenBy)'
    <3>1. i + 1 \in 1 .. Len(chain) /\ chain'[i] = chain[i + 1]
      BY <1>2
    <3>2. \A j \in 1 .. Len(chain) : i + 1 < j => ~isState(chain[j])
      <4> SUFFICES ASSUME NEW j \in 1 .. Len(chain), i + 1 < j PROVE ~isState(chain[j])
        OBVIOUS
      <4>1. j # 1 /\ i < j - 1
        OBVIOUS
      <4> QED  BY <2>1, <2>3, <4>1
    <3> QED  BY <1>1, <2>3, <3>1, <3>2 DEF Telling, LastIsPresent, _state
  <2>4. ASSUME \A i \in 1 .. Len(chain') : ~isState(chain'[i]), ~viewLost', current' # NoState
        PROVE  view' = <<_state(current, wokenBy)'>>
    <3>1. \A i \in 1 .. Len(chain) : i # 1 => ~isState(chain[i])
      BY <2>1, <2>4
    <3>2. CASE isState(chain[1])
      <4>1. chain[1].about = _state(current, wokenBy)
        <5>1. 1 \in 1 .. Len(chain) /\ \A j \in 1 .. Len(chain) : 1 < j => ~isState(chain[j])
          BY <1>2, <3>1
        <5> QED  BY <3>2, <5>1 DEF Telling, LastIsPresent
      <4>2. view' = <<e.about>>
        BY <1>2, <1>3, <2>4, <3>2
      <4> QED  BY <1>1, <1>2, <4>1, <4>2 DEF _state
    <3>3. CASE ~isState(chain[1])
      <4>1. view' = view /\ viewLost' = viewLost
        BY <1>2, <1>3, <3>3 DEF Telling, TellTypeOK
      <4>2. \A i \in 1 .. Len(chain) : ~isState(chain[i])
        BY <3>1, <3>3
      <4> QED  BY <1>1, <2>4, <4>1, <4>2 DEF Telling, LastIsPresent, _state
    <3> QED  BY <3>2, <3>3
  <2> QED  BY <2>2, <2>3, <2>4 DEF LastIsPresent
<1> QED  BY <1>4, <1>5, <1>6 DEF Telling

\* Captions: segments are opened with a new number, closed for good.
LEMMA CaptionKeeps ==
  ASSUME SegmentsOK, FinalIsFinal, NEW v \in Voices, NEW final \in BOOLEAN,
         captioned(v, final)
  PROVE  SegmentsOK' /\ FinalIsFinal'
<1> DEFINE sid == segment(open[v])
<1>1. /\ segments' = IF open[v] = NoSegment THEN segments + 1 ELSE segments
      /\ sid = IF open[v] = NoSegment THEN segments + 1 ELSE open[v]
      /\ open' = [open EXCEPT ![v] = IF final THEN NoSegment ELSE sid]
      /\ finals' = IF final THEN finals \cup {sid} ELSE finals
      /\ agentSegment' = agentSegment /\ agentText' = agentText
  BY DEF captioned, openSegment, segment
<1>2. /\ segments \in Nat /\ open[v] \in 0 .. segments /\ agentSegment \in 0 .. segments
      /\ finals \subseteq 1 .. segments
      /\ \A w \in Voices : open[w] \in 0 .. segments /\ open[w] \notin finals
      /\ agentSegment \notin finals
  BY DEF SegmentsOK, FinalIsFinal
<1>3. /\ sid \in 1 .. segments' /\ segments' \in Nat /\ segments <= segments'
      /\ sid \notin finals /\ sid # agentSegment
      /\ \A w \in Voices : w # v => open[w] # sid
  BY <1>1, <1>2 DEF NoSegment, FinalIsFinal
<1>4. SegmentsOK'
  <2>1. open' \in [Voices -> 0 .. segments']
    BY <1>1, <1>2, <1>3 DEF SegmentsOK, NoSegment
  <2>2. finals' \subseteq 1 .. segments'
    <3>1. \A x \in finals : x \in 1 .. segments'
      BY <1>2, <1>3
    <3>2. \A x \in finals' : x \in finals \/ x = sid
      BY <1>1
    <3> QED  BY <1>3, <3>1, <3>2
  <2> QED  BY <1>1, <1>2, <1>3, <2>1, <2>2 DEF SegmentsOK
<1>5. FinalIsFinal'
  <2>1. \A w \in Voices : open'[w] = IF w = v THEN (IF final THEN NoSegment ELSE sid) ELSE open[w]
    BY <1>1 DEF SegmentsOK
  <2>2. \A w \in Voices : open'[w] \notin finals'
    BY <1>1, <1>2, <1>3, <2>1 DEF NoSegment
  <2>3. agentSegment' \notin finals'
    BY <1>1, <1>2, <1>3
  <2>4. \A w, u \in Voices : w # u /\ open'[w] # NoSegment => open'[w] # open'[u]
    <3> SUFFICES ASSUME NEW w \in Voices, NEW u \in Voices, w # u, open'[w] # NoSegment
                 PROVE  open'[w] # open'[u]
      OBVIOUS
    <3>1. sid # NoSegment
      BY <1>1, <1>2, <1>3 DEF NoSegment
    <3>2. CASE w = v
      BY <1>3, <2>1, <3>2
    <3>3. CASE u = v
      BY <1>3, <2>1, <3>3
    <3>4. CASE w # v /\ u # v
      BY <2>1, <3>4 DEF FinalIsFinal
    <3> QED  BY <3>2, <3>3, <3>4
  <2>5. \A w \in Voices : open'[w] # NoSegment => open'[w] # agentSegment'
    BY <1>1, <1>3, <2>1 DEF FinalIsFinal
  <2> QED  BY <2>2, <2>3, <2>4, <2>5 DEF FinalIsFinal
<1> QED  BY <1>4, <1>5

LEMMA LeftKeeps ==
  ASSUME SegmentsOK, FinalIsFinal, NEW v \in Voices, captionLeft(v)
  PROVE  SegmentsOK' /\ FinalIsFinal'
<1>1. /\ open' = [open EXCEPT ![v] = NoSegment]
      /\ UNCHANGED <<agentSegment, agentText, finals, segments>>
  BY DEF captionLeft
<1>2. SegmentsOK'
  BY <1>1 DEF SegmentsOK, NoSegment
<1>3. \A w \in Voices : open'[w] = IF w = v THEN NoSegment ELSE open[w]
  BY <1>1 DEF SegmentsOK
<1>4. NoSegment \notin finals
  BY DEF SegmentsOK, NoSegment
<1> QED  BY <1>1, <1>2, <1>3, <1>4 DEF FinalIsFinal

\* What the agent says: one segment of its own, never one of a person's.
LEMMA AgentKeeps ==
  ASSUME SegmentsOK, FinalIsFinal, NEW blank \in BOOLEAN, capture_text(blank) \/ flush
  PROVE  SegmentsOK' /\ FinalIsFinal'
<1>1. /\ segments \in Nat /\ agentSegment \in 0 .. segments /\ finals \subseteq 1 .. segments
      /\ \A w \in Voices : open[w] \in 0 .. segments
  BY DEF SegmentsOK
<1>2. CASE capture_text(blank)
  <2>1. /\ segments' = IF agentSegment = NoSegment THEN segments + 1 ELSE segments
        /\ agentSegment' = IF agentSegment = NoSegment THEN segments + 1 ELSE agentSegment
        /\ open' = open /\ finals' = finals /\ agentText' \in BOOLEAN
    BY <1>2 DEF capture_text, openSegment, segment, SegmentsOK
  <2>2. SegmentsOK'
    BY <1>1, <2>1 DEF SegmentsOK, NoSegment
  <2>3. /\ agentSegment' \notin finals
        /\ \A w \in Voices : open[w] # NoSegment => open[w] # agentSegment'
    BY <1>1, <2>1 DEF FinalIsFinal, NoSegment
  <2> QED  BY <2>1, <2>2, <2>3 DEF FinalIsFinal
<1>3. CASE flush
  <2>1. /\ agentSegment # NoSegment /\ agentSegment' = NoSegment /\ agentText' = FALSE
        /\ finals' \in {finals, finals \cup {agentSegment}}
        /\ open' = open /\ segments' = segments
    BY <1>3 DEF flush
  <2>2. SegmentsOK'
    <3>1. agentSegment \in 1 .. segments /\ 0 \in 0 .. segments
      BY <1>1, <2>1 DEF NoSegment
    <3>2. finals' \subseteq 1 .. segments
      BY <1>1, <2>1, <3>1
    <3> QED  BY <2>1, <3>1, <3>2 DEF SegmentsOK, NoSegment
  <2>3. NoSegment \notin finals' /\ \A w \in Voices : open[w] \notin finals'
    <3>1. NoSegment \notin finals /\ \A w \in Voices : open[w] \notin finals
      BY <1>1 DEF FinalIsFinal, NoSegment
    <3>2. \A w \in Voices : open[w] # agentSegment
      BY <2>1 DEF FinalIsFinal
    <3> QED  BY <2>1, <3>1, <3>2
  <2>4. \A w \in Voices : open[w] # NoSegment => open[w] # agentSegment'
    BY <2>1
  <2> QED  BY <2>1, <2>2, <2>3, <2>4 DEF FinalIsFinal
<1> QED  BY <1>2, <1>3

\* Whether it tells anything or not, a step of captions keeps the telling.
LEMMA QuietTelling ==
  ASSUME Telling, UNCHANGED tellVars, UNCHANGED viewVars, UNCHANGED stateVars
  PROVE  Telling'
  BY DEF Telling, TellTypeOK, NumbersGrow, LastIsPresent, isState, _state,
         tellVars, viewVars, stateVars

LEMMA SameCaptions ==
  ASSUME SegmentsOK, FinalIsFinal, UNCHANGED captionVars
  PROVE  SegmentsOK' /\ FinalIsFinal'
  BY DEF SegmentsOK, FinalIsFinal, captionVars

\* The present state is told when it changes, with who woke her; who woke her
\* is told once there is a state to tell it with.
LEMMA StateKeeps ==
  ASSUME Telling, NEW now \in States \cup Unknown, changed(now)
  PROVE  Telling'
  BY StateTells DEF changed, agent_state, Telling, TellTypeOK

LEMMA AddressKeeps ==
  ASSUME Telling, NEW by \in Voices \cup {Nobody0}, addressed(by)
  PROVE  Telling'
<1>1. CASE current # NoState
  <2>1. /\ current \in States /\ emit(_state(current, by)) /\ wokenBy' = by
        /\ current' = current /\ UNCHANGED viewVars
    BY <1>1 DEF addressed, Telling, TellTypeOK
  <2> QED  BY <2>1, StateTells
<1>2. CASE current = NoState
  <2>1. UNCHANGED tellVars /\ UNCHANGED viewVars /\ current' = current /\ wokenBy' = by
    BY <1>2 DEF addressed
  <2> QED  BY <1>2, <2>1 DEF Telling, TellTypeOK, NumbersGrow, LastIsPresent, isState,
                             tellVars, viewVars
<1> QED  BY <1>1, <1>2

LEMMA StepKeeps ==
  ASSUME EventsInd, [EventsNext]_eventsVars
  PROVE  EventsInd'
<1> USE DEF EventsInd
<1>1. ASSUME NEW b \in BOOLEAN, NEW i \in 1 .. Len(chain), _send(i, b) PROVE EventsInd'
  BY <1>1, SendTells, SameCaptions DEF _send, Telling
<1>2. ASSUME NEW b \in BOOLEAN, capture_text(b) \/ flush PROVE EventsInd'
  <2>1. Telling'
    <3>1. UNCHANGED viewVars /\ UNCHANGED stateVars /\ (emit(ACaption) \/ UNCHANGED tellVars)
      BY <1>2 DEF capture_text, flush
    <3> QED  BY <3>1, CaptionTells, QuietTelling DEF Telling
  <2> QED  BY <1>2, <2>1, AgentKeeps DEF Telling
<1>3. ASSUME NEW b \in BOOLEAN, NEW v \in Voices, captioned(v, b) PROVE EventsInd'
  <2>1. Telling'
    BY <1>3, CaptionTells DEF captioned, Telling
  <2> QED  BY <1>3, <2>1, CaptionKeeps DEF Telling
<1>4. ASSUME NEW now \in States \cup Unknown, changed(now) PROVE EventsInd'
  BY <1>4, StateKeeps, SameCaptions DEF changed, Telling
<1>5. ASSUME NEW by \in Voices \cup {Nobody0}, addressed(by) PROVE EventsInd'
  BY <1>5, AddressKeeps, SameCaptions DEF addressed, Telling
<1>6. ASSUME NEW v \in Voices, captionLeft(v) PROVE EventsInd'
  BY <1>6, LeftKeeps, QuietTelling DEF captionLeft, Telling
<1>7. CASE UNCHANGED eventsVars
  BY <1>7, QuietTelling, SameCaptions DEF eventsVars, tellVars, viewVars, stateVars,
     captionVars, Telling
<1> QED  BY <1>1, <1>2, <1>3, <1>4, <1>5, <1>6, <1>7 DEF EventsNext

LEMMA InitHolds == EventsInit => EventsInd
<1> SUFFICES ASSUME EventsInit PROVE EventsInd
  OBVIOUS
<1>1. TellTypeOK
  <2>1. <<>> \in Seq(Event) /\ <<>> \in Seq(Nat)
    OBVIOUS
  <2> QED  BY <2>1 DEF EventsInit, TellTypeOK
<1>2. NumbersGrow /\ LastIsPresent
  BY DEF EventsInit, NumbersGrow, LastIsPresent
<1>3. SegmentsOK
  <2>1. segments = 0 /\ 0 \in 0 .. 0 /\ finals = {} /\ {} \subseteq 1 .. 0
    BY DEF EventsInit
  <2>2. open \in [Voices -> 0 .. 0]
    BY <2>1 DEF EventsInit, NoSegment
  <2>3. segments \in Nat /\ agentSegment \in 0 .. segments /\ agentText \in BOOLEAN
    <3>1. segments = 0 /\ agentSegment = 0
      BY DEF EventsInit, NoSegment
    <3>2. agentText \in BOOLEAN
      BY DEF EventsInit
    <3> QED  BY <3>1, <3>2
  <2>4. open \in [Voices -> 0 .. segments] /\ finals \subseteq 1 .. segments
    BY <2>1, <2>2
  <2> QED  BY <2>3, <2>4 DEF SegmentsOK
<1>4. FinalIsFinal
  <2>1. \A v \in Voices : open[v] = NoSegment
    BY DEF EventsInit
  <2> QED  BY <2>1 DEF EventsInit, FinalIsFinal
<1> QED  BY <1>1, <1>2, <1>3, <1>4 DEF EventsInd

\* However sends interleave with states, wakes and captions, and whatever is
\* lost, a participant receives the events by their numbers and ends up knowing
\* the agent's present state, and no caption is added to a segment told final.
THEOREM ToldAsItWas == EventsSpec => []EventsInv
<1>1. EventsInd => EventsInv
  BY DEF EventsInd, EventsInv, NumbersGrow, LastIsPresent, ToldInOrder
<1>2. EventsInd /\ [EventsNext]_eventsVars => EventsInd'
  BY StepKeeps
<1> QED  BY <1>1, <1>2, InitHolds, PTL DEF EventsSpec

-----------------------------------------------------------------------------
(***************************************************************************)
(* Replies.  What is asked with is made of places of the conversation, and *)
(* an output answers an earlier call: so what well_formed keeps of a body  *)
(* is whole, and stays so while the conversation grows.  Until an answer   *)
(* is passed on nothing was said and all that is held back is of one       *)
(* request; a request is only replaced before anything came of it.         *)
(***************************************************************************)
Item == [kind : Kinds \cup {"output"}, of : Nat]
Answers == {"asked", "plain", "again"}

RepliesTypeOK ==
  /\ items \in Seq(Item)
  /\ folded \subseteq 1 .. Len(items) /\ folding \subseteq 1 .. Len(items)
  /\ request \in [summary : SUBSET Nat, body : SUBSET (1 .. Len(items))]
  /\ summary \subseteq Nat
  /\ stage \in {"idle", "judging", "asked", "plain", "passed", "again"}
  /\ started \in BOOLEAN
  /\ held \in Seq(Answers) /\ spoken \in Seq(Answers)

OutputsAnswerCalls ==
  \A i \in 1 .. Len(items) :
    kind(i) = "output" => items[i].of \in 1 .. Len(items) /\ kind(items[i].of) = "call"

AnswerHeldBack ==
  /\ ~started => held = <<>>
  /\ stage \in {"asked", "plain"} =>
       spoken = <<>> /\ \A i \in 1 .. Len(held) : held[i] = stage
  /\ stage = "judging" => held = <<>> /\ spoken = <<>>
  /\ stage = "passed" =>
       held # <<>> /\ \A i \in 1 .. Len(spoken) : spoken[i] = held[1]
  /\ stage = "again" => \A i \in 1 .. Len(spoken) : spoken[i] = "again"

RepliesInd == RepliesTypeOK /\ OutputsAnswerCalls /\ AnswerHeldBack /\ RepliesInv

\* What well_formed keeps of any places of the conversation is in pairs.
LEMMA WellFormedIsWhole ==
  ASSUME OutputsAnswerCalls, NEW body \in SUBSET (1 .. Len(items)),
         NEW i \in well_formed(body)
  PROVE  /\ kind(i) = "output" => items[i].of \in well_formed(body)
         /\ kind(i) = "call" =>
              \E o \in well_formed(body) : kind(o) = "output" /\ items[o].of = i
<1>1. ASSUME kind(i) = "output" PROVE items[i].of \in well_formed(body)
  BY <1>1 DEF well_formed, OutputsAnswerCalls
<1>2. ASSUME kind(i) = "call"
      PROVE  \E o \in well_formed(body) : kind(o) = "output" /\ items[o].of = i
  <2>1. PICK o \in body : kind(o) = "output" /\ items[o].of = i
    BY <1>2 DEF well_formed
  <2>2. i \in body
    BY DEF well_formed
  <2>3. o \in well_formed(body)
    BY <2>1, <2>2 DEF well_formed
  <2> QED  BY <2>1, <2>3
<1> QED  BY <1>1, <1>2

\* A line, a call or an output is added: what was there stays as it was.
LEMMA AddedKeeps ==
  ASSUME RepliesInd, NEW t \in Item, added(t),
         t.kind = "output" => t.of \in 1 .. Len(items)
  PROVE  RepliesInd'
<1> USE DEF RepliesInd
<1>1. /\ items' = Append(items, t) /\ items' \in Seq(Item)
      /\ Len(items') = Len(items) + 1 /\ Len(items) \in Nat
      /\ \A i \in 1 .. Len(items) : items'[i] = items[i]
      /\ items'[Len(items) + 1] = t
  BY DEF added, RepliesTypeOK
<1>2. UNCHANGED <<folded, summary, folding, request, stage, started, held, spoken>>
  BY DEF added, memoryVars, streamOf
<1>3. RepliesTypeOK'
  BY <1>1, <1>2 DEF RepliesTypeOK
<1>4. OutputsAnswerCalls'
  <2> SUFFICES ASSUME NEW i \in 1 .. Len(items'), items'[i].kind = "output"
               PROVE  items'[i].of \in 1 .. Len(items') /\ items'[items'[i].of].kind = "call"
    BY DEF OutputsAnswerCalls, kind
  <2>1. CASE i \in 1 .. Len(items)
    BY <1>1, <2>1 DEF OutputsAnswerCalls, kind
  <2>2. CASE i = Len(items) + 1
    BY <1>1, <2>2 DEF added, kind
  <2> QED  BY <1>1, <2>1, <2>2
<1>5. AnswerHeldBack' /\ OneAnswerIsSaid'
  BY <1>2 DEF AnswerHeldBack, RepliesInv, OneAnswerIsSaid
<1>6. PairsAreWhole'
  <2>1. request.body \subseteq 1 .. Len(items)
    BY DEF RepliesTypeOK
  <2> SUFFICES ASSUME NEW i \in request.body
               PROVE  /\ items'[i].kind = "output" => items'[i].of \in request.body
                      /\ items'[i].kind = "call" =>
                           \E o \in request.body : items'[o].kind = "output" /\ items'[o].of = i
    BY <1>2 DEF PairsAreWhole, kind
  <2> QED  BY <1>1, <2>1 DEF RepliesInv, PairsAreWhole, kind
<1>7. MinutesAreWhole'
  BY <1>1, <1>2 DEF RepliesInv, MinutesAreWhole, kind, RepliesTypeOK
<1> QED  BY <1>3, <1>4, <1>5, <1>6, <1>7 DEF RepliesInv

\* The conversation stays as it is, and so do the minutes.
LEMMA ConversationStays ==
  ASSUME RepliesInd, UNCHANGED <<items, folded, summary, folding, request>>
  PROVE  OutputsAnswerCalls' /\ PairsAreWhole' /\ MinutesAreWhole'
<1>1. (\A i \in 1 .. Len(items) : items'[i] = items[i])
  OBVIOUS
<1> QED  BY DEF RepliesInd, RepliesInv, OutputsAnswerCalls, PairsAreWhole, MinutesAreWhole, kind

LEMMA AskingKeeps == ASSUME RepliesInd, llm_node PROVE RepliesInd'
<1> USE DEF RepliesInd
<1>1. /\ UNCHANGED <<items, folded, summary>>
      /\ started' = FALSE /\ held' = <<>> /\ spoken' = <<>>
      /\ stage' \in {"judging", "asked"}
  BY DEF llm_node
<1>2. remembers \subseteq 1 .. Len(items) /\ remembers \cap folded = {}
  BY DEF remembers
<1>3. folding' = folding \/ folding' \subseteq remembers
  BY DEF llm_node, _fold, oldest
<1>4. \E n : context.body = well_formed(newest(remembers, n))
  BY DEF context
<1>5. PICK n : request'.body = well_formed(newest(remembers, n))
  <2>1. request'.body = context.body
    BY DEF llm_node, context
  <2> QED  BY <1>4, <2>1
<1>6. newest(remembers, n) \in SUBSET (1 .. Len(items))
  BY <1>2 DEF newest
<1>7. request' \in [summary : SUBSET Nat, body : SUBSET (1 .. Len(items))]
  <2>1. request'.body \subseteq 1 .. Len(items)
    BY <1>5, <1>6 DEF well_formed
  <2>2. context = [summary |-> summary, body |-> context.body]
    BY DEF context
  <2>3. \E s \in SUBSET Nat : request' = [summary |-> s, body |-> context.body]
    BY <2>2 DEF llm_node, RepliesTypeOK
  <2> QED  BY <2>1, <2>3
<1>8. RepliesTypeOK'
  <2>1. folding' \subseteq 1 .. Len(items)
    BY <1>2, <1>3 DEF RepliesTypeOK
  <2>2. held' \in Seq(Answers) /\ spoken' \in Seq(Answers)
    BY <1>1
  <2>3. items' \in Seq(Item) /\ folded' \subseteq 1 .. Len(items) /\ summary' \subseteq Nat
    BY <1>1 DEF RepliesTypeOK
  <2>4. stage' \in {"idle", "judging", "asked", "plain", "passed", "again"} /\ started' \in BOOLEAN
    BY <1>1
  <2> QED  BY <1>1, <1>7, <2>1, <2>2, <2>3, <2>4 DEF RepliesTypeOK
<1>9. OutputsAnswerCalls' /\ AnswerHeldBack' /\ OneAnswerIsSaid'
  BY <1>1 DEF OutputsAnswerCalls, AnswerHeldBack, OneAnswerIsSaid, kind
<1>10. PairsAreWhole'
  <2> SUFFICES ASSUME NEW i \in request'.body
               PROVE  /\ kind(i) = "output" => items[i].of \in request'.body
                      /\ kind(i) = "call" =>
                           \E o \in request'.body : kind(o) = "output" /\ items[o].of = i
    BY <1>1 DEF PairsAreWhole, kind
  <2> QED  BY <1>5, <1>6, WellFormedIsWhole
<1>11. MinutesAreWhole'
  BY <1>1, <1>2, <1>3 DEF MinutesAreWhole, RepliesInv, kind
<1> QED  BY <1>8, <1>9, <1>10, <1>11 DEF RepliesInv

LEMMA FoldedKeeps ==
  ASSUME RepliesInd, NEW b \in BOOLEAN, _folded_into_summary(b)
  PROVE  RepliesInd'
<1> USE DEF RepliesInd
<1>1. /\ UNCHANGED <<items, request, stage, started, held, spoken>> /\ folding' = {}
      /\ \/ UNCHANGED <<summary, folded>>
         \/ /\ summary' = summary \cup {i \in folding : kind(i) \in Messages \ {"blank"}}
            /\ folded' = folded \cup folding
  BY DEF _folded_into_summary, streamOf
<1>2. RepliesTypeOK'
  <2>1. folding \subseteq Nat /\ summary \subseteq Nat
    BY DEF RepliesTypeOK
  <2>2. summary' \subseteq Nat
    BY <1>1, <2>1
  <2>3. folded' \subseteq 1 .. Len(items)
    BY <1>1 DEF RepliesTypeOK
  <2> QED  BY <1>1, <2>2, <2>3 DEF RepliesTypeOK
<1>3. OutputsAnswerCalls' /\ AnswerHeldBack' /\ OneAnswerIsSaid' /\ PairsAreWhole'
  BY <1>1 DEF OutputsAnswerCalls, AnswerHeldBack, OneAnswerIsSaid, PairsAreWhole, RepliesInv, kind
<1>4. MinutesAreWhole'
  BY <1>1 DEF MinutesAreWhole, RepliesInv, kind
<1> QED  BY <1>2, <1>3, <1>4 DEF RepliesInv

\* The stream of a reply.
LEMMA StreamKeeps ==
  ASSUME RepliesInd,
         \/ \E b \in BOOLEAN : decided(b) \/ unrepeated(b)
         \/ chunk \/ passedOn \/ replyEnds
  PROVE  RepliesInd'
<1> USE DEF RepliesInd
<1>1. UNCHANGED <<items, folded, summary, folding, request>>
  BY DEF decided, unrepeated, chunk, passedOn, replyEnds, streamStays, memoryVars
<1>2. OutputsAnswerCalls' /\ PairsAreWhole' /\ MinutesAreWhole'
  BY <1>1, ConversationStays
<1>3. RepliesTypeOK' /\ AnswerHeldBack' /\ OneAnswerIsSaid'
  <2>1. ASSUME NEW b \in BOOLEAN, decided(b)
        PROVE  RepliesTypeOK' /\ AnswerHeldBack' /\ OneAnswerIsSaid'
    BY <1>1, <2>1 DEF decided, RepliesTypeOK, AnswerHeldBack, OneAnswerIsSaid, RepliesInv
  <2>2. ASSUME NEW b \in BOOLEAN, unrepeated(b), b
        PROVE  RepliesTypeOK' /\ AnswerHeldBack' /\ OneAnswerIsSaid'
    BY <1>1, <2>2 DEF unrepeated, RepliesTypeOK, AnswerHeldBack, OneAnswerIsSaid, RepliesInv
  <2>3. ASSUME NEW b \in BOOLEAN, unrepeated(b), ~b
        PROVE  RepliesTypeOK' /\ AnswerHeldBack' /\ OneAnswerIsSaid'
    <3>1. spoken = <<>> /\ UNCHANGED <<started, held>>
      BY <2>3 DEF unrepeated, AnswerHeldBack
    <3>2. spoken' = held /\ stage' \in {"passed", "idle"}
      BY <2>3, <3>1 DEF unrepeated, RepliesTypeOK
    <3>3. \A i \in 1 .. Len(held) : held[i] = stage
      BY <2>3 DEF unrepeated, AnswerHeldBack
    <3>4. stage' = "passed" => Len(held) > 0
      BY <2>3, RepliesAssumption DEF unrepeated, opened, RepliesTypeOK
    <3>5. RepliesTypeOK' /\ OneAnswerIsSaid'
      BY <1>1, <3>1, <3>2, <3>3 DEF RepliesTypeOK, OneAnswerIsSaid
    <3>6. AnswerHeldBack'
      BY <3>1, <3>2, <3>3, <3>4 DEF AnswerHeldBack, RepliesTypeOK
    <3> QED  BY <3>5, <3>6
  <2>4. ASSUME chunk PROVE RepliesTypeOK' /\ AnswerHeldBack' /\ OneAnswerIsSaid'
    <3>1. /\ held' = Append(held, stage) /\ held' \in Seq(Answers)
          /\ Len(held') = Len(held) + 1 /\ Len(held) \in Nat
          /\ \A i \in 1 .. Len(held) : held'[i] = held[i]
          /\ held'[Len(held) + 1] = stage
      BY <2>4 DEF chunk, RepliesTypeOK, Answers
    <3>2. started' = TRUE /\ UNCHANGED <<stage, spoken>> /\ stage \in {"asked", "plain"}
      BY <2>4 DEF chunk
    <3> QED  BY <1>1, <3>1, <3>2 DEF RepliesTypeOK, AnswerHeldBack, OneAnswerIsSaid, RepliesInv
  <2>5. ASSUME passedOn PROVE RepliesTypeOK' /\ AnswerHeldBack' /\ OneAnswerIsSaid'
    <3> DEFINE word == IF stage = "again" THEN "again" ELSE held[1]
    <3>1. UNCHANGED <<stage, started, held>> /\ stage \in {"passed", "again"}
      BY <2>5 DEF passedOn
    <3>2. word \in Answers /\ \A i \in 1 .. Len(spoken) : spoken[i] = word
      BY <3>1 DEF AnswerHeldBack, RepliesTypeOK, Answers
    <3>3. /\ spoken' = Append(spoken, word) /\ spoken' \in Seq(Answers)
          /\ \A i \in 1 .. Len(spoken') : spoken'[i] = word
      <4>1. spoken' = Append(spoken, word)
        BY <2>5 DEF passedOn
      <4> HIDE DEF word
      <4> QED  BY <3>2, <4>1 DEF RepliesTypeOK
    <3>4. OneAnswerIsSaid' /\ RepliesTypeOK'
      BY <1>1, <3>1, <3>3 DEF OneAnswerIsSaid, RepliesTypeOK
    <3> QED  BY <3>1, <3>3, <3>4 DEF AnswerHeldBack
  <2>6. ASSUME replyEnds PROVE RepliesTypeOK' /\ AnswerHeldBack' /\ OneAnswerIsSaid'
    BY <1>1, <2>6 DEF replyEnds, RepliesTypeOK, AnswerHeldBack, OneAnswerIsSaid, RepliesInv
  <2> QED  BY <2>1, <2>2, <2>3, <2>4, <2>5, <2>6
<1> QED  BY <1>2, <1>3 DEF RepliesInv

\* The last turns alone are asked with: they are neither calls nor outputs.
LEMMA RecoveringKeeps ==
  ASSUME RepliesInd, NEW b \in BOOLEAN, recovering(b)
  PROVE  RepliesInd'
<1> USE DEF RepliesInd
<1>1. UNCHANGED <<items, folded, summary, folding, started, held, spoken>>
  BY DEF recovering, streamStays, memoryVars
<1>2. CASE stage' = "plain" /\ request' = [request EXCEPT !.body = recent_turns(@)]
           /\ stage = "asked" /\ ~started
  <2>1. /\ recent_turns(request.body) \subseteq request.body
        /\ \A i \in recent_turns(request.body) : kind(i) \in Messages
    BY DEF recent_turns, newest
  <2>2. request'.body = recent_turns(request.body) /\ RepliesTypeOK'
    BY <1>1, <1>2, <2>1 DEF RepliesTypeOK
  <2>3. PairsAreWhole'
    BY <1>1, <2>1, <2>2 DEF PairsAreWhole, kind, Messages
  <2>4. OutputsAnswerCalls' /\ MinutesAreWhole' /\ OneAnswerIsSaid'
    BY <1>1 DEF OutputsAnswerCalls, MinutesAreWhole, OneAnswerIsSaid, RepliesInv, kind
  <2>5. AnswerHeldBack'
    BY <1>1, <1>2 DEF AnswerHeldBack, RepliesTypeOK
  <2> QED  BY <2>2, <2>3, <2>4, <2>5 DEF RepliesInv
<1>3. CASE stage' = "idle" /\ UNCHANGED request
  <2>1. OutputsAnswerCalls' /\ PairsAreWhole' /\ MinutesAreWhole'
    BY <1>1, <1>3, ConversationStays
  <2>2. RepliesTypeOK' /\ AnswerHeldBack' /\ OneAnswerIsSaid'
    BY <1>1, <1>3 DEF RepliesTypeOK, AnswerHeldBack, OneAnswerIsSaid, RepliesInv
  <2> QED  BY <2>1, <2>2 DEF RepliesInv
<1> QED  BY <1>2, <1>3 DEF recovering

LEMMA RepliesStart == RepliesInit => RepliesInd
<1> SUFFICES ASSUME RepliesInit PROVE RepliesInd
  OBVIOUS
<1>1. RepliesTypeOK
  <2>1. NoRequest \in [summary : SUBSET Nat, body : SUBSET (1 .. Len(items))]
    BY DEF NoRequest
  <2>2. items \in Seq(Item) /\ held \in Seq(Answers) /\ spoken \in Seq(Answers)
    BY DEF RepliesInit
  <2> QED  BY <2>1, <2>2 DEF RepliesInit, RepliesTypeOK
<1>2. OutputsAnswerCalls /\ AnswerHeldBack
  BY DEF RepliesInit, OutputsAnswerCalls, AnswerHeldBack
<1>3. RepliesInv
  BY DEF RepliesInit, RepliesInv, OneAnswerIsSaid, PairsAreWhole, MinutesAreWhole, NoRequest
<1> QED  BY <1>1, <1>2, <1>3 DEF RepliesInd

LEMMA RepliesStep == RepliesInd /\ [RepliesNext]_repliesVars => RepliesInd'
<1> SUFFICES ASSUME RepliesInd, [RepliesNext]_repliesVars PROVE RepliesInd'
  OBVIOUS
<1>1. ASSUME NEW k \in Kinds \ {"output"}, added([kind |-> k, of |-> 0]) PROVE RepliesInd'
  <2>1. [kind |-> k, of |-> 0] \in Item
    BY RepliesAssumption DEF Item
  <2> QED  BY <1>1, <2>1, AddedKeeps
<1>2. ASSUME NEW c \in 1 .. Len(items), added([kind |-> "output", of |-> c])
      PROVE  RepliesInd'
  <2>1. [kind |-> "output", of |-> c] \in Item
    BY DEF Item, RepliesInd, RepliesTypeOK
  <2> QED  BY <1>2, <2>1, AddedKeeps
<1>3. CASE llm_node
  BY <1>3, AskingKeeps
<1>4. ASSUME NEW b \in BOOLEAN, _folded_into_summary(b) PROVE RepliesInd'
  BY <1>4, FoldedKeeps
<1>5. ASSUME NEW b \in BOOLEAN, recovering(b) PROVE RepliesInd'
  BY <1>5, RecoveringKeeps
<1>6. CASE \/ \E b \in BOOLEAN : decided(b) \/ unrepeated(b)
           \/ chunk \/ passedOn \/ replyEnds
  BY <1>6, StreamKeeps
<1>7. CASE UNCHANGED repliesVars
  <2>1. UNCHANGED <<items, folded, summary, folding, request, stage, started, held, spoken>>
    BY <1>7 DEF repliesVars, memoryVars, streamOf
  <2>2. OutputsAnswerCalls' /\ PairsAreWhole' /\ MinutesAreWhole'
    BY <2>1, ConversationStays
  <2> QED  BY <2>1, <2>2 DEF RepliesInd, RepliesTypeOK, AnswerHeldBack, RepliesInv, OneAnswerIsSaid
<1> QED  BY <1>1, <1>2, <1>3, <1>4, <1>5, <1>6, <1>7 DEF RepliesNext

\* Whatever the provider answers and the conversation grows by, one answer is
\* heard of each reply, the model is asked with whole pairs of calls and
\* outputs, and each line is folded into the minutes once.
THEOREM OneAnswerOfWholePairs == RepliesSpec => []RepliesInv
<1>1. RepliesInd => RepliesInv
  BY DEF RepliesInd
<1> QED  BY <1>1, RepliesStart, RepliesStep, PTL DEF RepliesSpec

-----------------------------------------------------------------------------
(***************************************************************************)
(* Scribe.  Lines are told apart by their numbers, in what is pending and  *)
(* in what the model is asked about, and what is asked about was not       *)
(* written from yet: so the lines taken out of what is pending once the    *)
(* model answered are those the notes were written from and no other.      *)
(***************************************************************************)
Line == [id : 1 .. linesHeard, chars : Nat]

LinesTellApart ==
  /\ linesHeard \in Nat
  /\ pending \subseteq Line /\ asking \subseteq Line
  /\ noted \subseteq 1 .. linesHeard /\ dropped \subseteq 1 .. linesHeard
  /\ \A k, l \in pending \cup asking : k.id = l.id => k = l
  /\ noted \cap idsOf(asking) = {}

LabelsOfPeople == DOMAIN labels \subseteq People0

ScribeInd == LinesTellApart /\ LabelsOfPeople /\ ScribeInv

\* A set of numbers that is not empty has a least: the numbers are well founded.
LEMMA LeastIsThere ==
  ASSUME NEW S \in SUBSET Nat, S # {}
  PROVE  \E n \in S : \A k \in S : n <= k
<1> DEFINE Less == {ss \in Nat \X Nat : ss[1] < ss[2]}
<1>1. IsWellFoundedOn(Less, Nat)
  BY NatLessThanWellFounded DEF OpToRel
<1>2. \A k, n \in Nat : <<k, n>> \in Less <=> k < n
  OBVIOUS
<1> HIDE DEF Less
<1>3. PICK n \in S : \A k \in S : ~(<<k, n>> \in Less)
  BY <1>1, WFMin
<1> SUFFICES ASSUME NEW k \in S PROVE n <= k
  OBVIOUS
<1>4. ~(k < n) /\ k \in Nat /\ n \in Nat
  BY <1>2, <1>3
<1> QED  BY <1>4

LEMMA UpTo ==
  ASSUME NEW n \in Nat
  PROVE  /\ IsFiniteSet(1 .. n + 1) /\ Cardinality(1 .. n + 1) \in Nat
         /\ n < Cardinality(1 .. n + 1)
<1>1. IsFiniteSet(1 .. n + 1) /\ Cardinality(1 .. n + 1) = n + 1
  BY FS_Interval
<1> QED  BY <1>1

\* Of one name more than are taken, all different, a first one is not taken.
LEMMA OneIsFree ==
  ASSUME NEW inUse, IsFiniteSet(inUse), NEW c \in Nat, c = Cardinality(inUse), NEW f,
         \A m, n \in 1 .. c + 1 : m # n => f[m] # f[n]
  PROVE  \E n \in 1 .. c + 1 : f[n] \notin inUse /\ \A k \in 1 .. n - 1 : f[k] \in inUse
<1> DEFINE free == {n \in 1 .. c + 1 : f[n] \notin inUse}
           g == [n \in 1 .. c + 1 |-> f[n]]
<1>1. free # {}
  <2> SUFFICES ASSUME \A n \in 1 .. c + 1 : f[n] \in inUse PROVE FALSE
    OBVIOUS
  <2>1. g \in [1 .. c + 1 -> inUse] /\ \A n \in 1 .. c + 1 : g[n] = f[n]
    OBVIOUS
  <2>2. /\ IsFiniteSet(1 .. c + 1) /\ Cardinality(1 .. c + 1) \in Nat
        /\ Cardinality(inUse) < Cardinality(1 .. c + 1)
    BY UpTo
  <2>3. \E m, n \in 1 .. c + 1 : m # n /\ g[m] = g[n]
    <3> HIDE DEF g
    <3> QED  BY <2>1, <2>2, FS_PigeonHole
  <2> QED  BY <2>1, <2>3
<1>2. free \in SUBSET Nat
  OBVIOUS
<1>3. PICK n \in free : \A k \in free : n <= k
  <2> HIDE DEF free
  <2> QED  BY <1>1, <1>2, LeastIsThere
<1>4. \A k \in 1 .. n - 1 : k \in 1 .. c + 1 /\ ~(n <= k)
  OBVIOUS
<1> QED  BY <1>3, <1>4

LEMMA ANameIsFree ==
  ASSUME NEW wanted \in Named, NEW inUse, IsFiniteSet(inUse), Cardinality(People0) \in Nat,
         Cardinality(inUse) \in Nat, Cardinality(inUse) <= Cardinality(People0) + 1
  PROVE  \E n \in 1 .. Cardinality(inUse) + 1 :
           /\ LabelFor[wanted, n] \notin inUse
           /\ \A k \in 1 .. n - 1 : LabelFor[wanted, k] \in inUse
<1> DEFINE c == Cardinality(inUse)
           g == [n \in 1 .. c + 1 |-> LabelFor[wanted, n]]
<1>1. c \in Nat /\ c = Cardinality(inUse)
  OBVIOUS
<1>2. \A n \in 1 .. c + 1 : g[n] = LabelFor[wanted, n]
  OBVIOUS
<1>3. 1 .. c + 1 \subseteq 1 .. Cardinality(People0) + 2
  OBVIOUS
<1> HIDE DEF c, g
<1>4. \A m, n \in 1 .. c + 1 : m # n => g[m] # g[n]
  <2> SUFFICES ASSUME NEW m \in 1 .. c + 1, NEW n \in 1 .. c + 1, m # n
               PROVE  g[m] # g[n]
    OBVIOUS
  <2>1. LabelFor[wanted, m] # LabelFor[wanted, n]
    BY <1>3, ScribeAssumption
  <2> QED  BY <1>2, <2>1
<1>5. PICK n \in 1 .. c + 1 : g[n] \notin inUse /\ \A k \in 1 .. n - 1 : g[k] \in inUse
  BY <1>1, <1>4, OneIsFree
<1>6. \A k \in 1 .. n - 1 : k \in 1 .. c + 1
  BY <1>1
<1> QED  BY <1>1, <1>2, <1>5, <1>6

\* People have fewer labels than there are numbers to tell a name apart by, so
\* one of the numbered names is not taken yet.
LEMMA ALabelIsFree ==
  ASSUME LabelsOfPeople, NEW wanted \in Named, NEW inUse,
         inUse = {labels[p] : p \in DOMAIN labels} \cup {AgentLabel}
  PROVE  /\ Cardinality(inUse) \in Nat
         /\ \E n \in 1 .. Cardinality(inUse) + 1 :
              /\ LabelFor[wanted, n] \notin inUse
              /\ \A k \in 1 .. n - 1 : LabelFor[wanted, k] \in inUse
<1> DEFINE people == DOMAIN labels \cup {TheAgent}
           labelOf == [p \in people |-> IF p = TheAgent THEN AgentLabel ELSE labels[p]]
           c == Cardinality(inUse)
<1>1. TheAgent \notin DOMAIN labels
  BY ScribeAssumption DEF LabelsOfPeople
<1>2. /\ IsFiniteSet(people) /\ Cardinality(people) \in Nat
      /\ Cardinality(people) <= Cardinality(People0) + 1 /\ Cardinality(People0) \in Nat
  <2>1. DOMAIN labels \in SUBSET People0 /\ IsFiniteSet(People0)
    BY ScribeAssumption DEF LabelsOfPeople
  <2>2. /\ IsFiniteSet(DOMAIN labels)
        /\ Cardinality(DOMAIN labels) <= Cardinality(People0)
        /\ Cardinality(DOMAIN labels) \in Nat /\ Cardinality(People0) \in Nat
    BY <2>1, FS_Subset, FS_CardinalityType
  <2>3. /\ IsFiniteSet(people)
        /\ Cardinality(people) = Cardinality(DOMAIN labels) + 1
    BY <1>1, <2>2, FS_AddElement
  <2> QED  BY <2>2, <2>3
<1>3. labelOf \in Surjection(people, inUse)
  <2>1. \A p \in people : labelOf[p] \in inUse
    BY <1>1
  <2>2. \A l \in inUse : \E p \in people : labelOf[p] = l
    <3> SUFFICES ASSUME NEW l \in inUse PROVE \E p \in people : labelOf[p] = l
      OBVIOUS
    <3>1. CASE l = AgentLabel
      BY <3>1
    <3>2. CASE \E p \in DOMAIN labels : l = labels[p]
      BY <1>1, <3>2
    <3> QED  BY <3>1, <3>2
  <2> QED  BY <2>1, <2>2 DEF Surjection
<1>4. IsFiniteSet(inUse) /\ c \in Nat /\ c <= Cardinality(People0) + 1
  <2>1. IsFiniteSet(inUse) /\ c <= Cardinality(people)
    <3> HIDE DEF people, labelOf
    <3> QED  BY <1>2, <1>3, FS_Surjection
  <2>2. c \in Nat
    BY <2>1, FS_CardinalityType
  <2> HIDE DEF people, c
  <2> QED  BY <1>2, <2>1, <2>2
<1> QED  BY <1>2, <1>4, ANameIsFree

\* A label is given that nobody has.
LEMMA LabelKeeps ==
  ASSUME LabelsOfPeople, LabelsTellApart, NEW who \in People0 \cup {TheAgent},
         NEW wanted \in Named, _label(who, wanted)
  PROVE  LabelsOfPeople' /\ LabelsTellApart'
<1>1. CASE UNCHANGED labels
  BY <1>1 DEF LabelsOfPeople, LabelsTellApart
<1>2. CASE ~(who = TheAgent \/ who \in DOMAIN labels)
  <2> DEFINE inUse == {labels[p] : p \in DOMAIN labels} \cup {AgentLabel}
             n == CHOOSE n \in 1 .. Cardinality(inUse) + 1 :
                    /\ LabelFor[wanted, n] \notin inUse
                    /\ \A k \in 1 .. n - 1 : LabelFor[wanted, k] \in inUse
             new == LabelFor[wanted, n]
  <2>1. labels' = [p \in DOMAIN labels \cup {who} |-> IF p = who THEN new ELSE labels[p]]
    BY <1>2 DEF _label
  <2>2. new \notin inUse
    BY ALabelIsFree
  <2>3. new # AgentLabel /\ \A p \in DOMAIN labels : new # labels[p]
    <3> HIDE DEF new
    <3> QED  BY <2>2
  <2> HIDE DEF new
  <2>4. DOMAIN labels' = DOMAIN labels \cup {who}
    BY <2>1
  <2>5. \A p \in DOMAIN labels' : labels'[p] = IF p = who THEN new ELSE labels[p]
    BY <2>1
  <2> QED  BY <1>2, <2>3, <2>4, <2>5 DEF LabelsOfPeople, LabelsTellApart
<1> QED  BY <1>1, <1>2 DEF _label

\* A line comes: it is pending, or too long and dropped, with others before it.
LEMMA HeardLineKeeps ==
  ASSUME ScribeInd, NEW who \in People0 \cup {TheAgent}, NEW chars \in Nat,
         NEW wanted \in Named, lineHeard(who, chars, wanted)
  PROVE  ScribeInd'
<1> USE DEF ScribeInd, ScribeInv
<1> DEFINE line == [id |-> linesHeard + 1, chars |-> chars]
           all == pending \cup {line}
<1>1. /\ linesHeard' = linesHeard + 1 /\ linesHeard \in Nat
      /\ UNCHANGED <<asking, noted>>
  BY DEF lineHeard, transcriptHeard, writerVars, LinesTellApart
<1>2. PICK stays \in SUBSET all : pending' = stays /\ dropped' = dropped \cup idsOf(all \ stays)
  <2>1. _bound(all)
    BY DEF lineHeard, transcriptHeard
  <2> DEFINE fits(l) == charsOf({k \in all : l.id <= k.id}) <= MaxPending
             stays == {l \in all : fits(l)}
  <2>2. pending' = stays /\ dropped' = dropped \cup idsOf({l \in all : ~fits(l)})
    BY <2>1 DEF _bound
  <2>3. {l \in all : ~fits(l)} = all \ stays
    OBVIOUS
  <2> HIDE DEF fits, all
  <2> QED  BY <2>2, <2>3
<1>3. Line \subseteq Line' /\ line \in Line' /\ 1 .. linesHeard' = 1 .. linesHeard \cup {line.id}
  BY <1>1 DEF Line
<1>4. \A l \in Line : l.id \in 1 .. linesHeard /\ l.id # line.id
  BY <1>1 DEF Line
<1>5. pending \subseteq Line /\ asking \subseteq Line
  BY DEF LinesTellApart
<1>6. line.id \notin 1 .. linesHeard
  BY <1>1
<1> HIDE DEF line
<1>7. idsOf(all) = idsOf(pending) \cup {line.id}
  BY DEF idsOf
<1>8. idsOf(all) = idsOf(stays) \cup idsOf(all \ stays)
  <2> HIDE DEF all
  <2> QED  BY <1>2 DEF idsOf
<1>9. all \subseteq Line' /\ idsOf(all \ stays) \subseteq 1 .. linesHeard'
  BY <1>3, <1>4, <1>5 DEF idsOf
<1>10. LinesTellApart'
  <2>1. pending' \subseteq Line' /\ asking' \subseteq Line'
    BY <1>1, <1>2, <1>3, <1>5, <1>9
  <2>2. noted' \subseteq 1 .. linesHeard' /\ dropped' \subseteq 1 .. linesHeard'
    BY <1>1, <1>2, <1>3, <1>9 DEF LinesTellApart
  <2>3. \A k, l \in all \cup asking : k.id = l.id => k = l
    BY <1>4, <1>5 DEF LinesTellApart
  <2>4. pending' \cup asking' \subseteq all \cup asking
    BY <1>1, <1>2
  <2> QED  BY <1>1, <2>1, <2>2, <2>3, <2>4 DEF LinesTellApart, idsOf
<1>11. NothingUnwritten'
  <2>1. 1 .. linesHeard' = noted' \cup idsOf(pending') \cup dropped'
    BY <1>1, <1>2, <1>3, <1>7, <1>8 DEF NothingUnwritten
  <2>2. noted \cap idsOf(all) = {}
    BY <1>6, <1>7 DEF NothingUnwritten, LinesTellApart
  <2> QED  BY <1>1, <1>2, <1>8, <2>1, <2>2 DEF NothingUnwritten
<1>12. LabelsOfPeople' /\ LabelsTellApart'
  BY LabelKeeps DEF lineHeard, transcriptHeard
<1>13. NoTurnSleeps'
  BY DEF lineHeard, scorerHeard, NoTurnSleeps
<1> QED  BY <1>10, <1>11, <1>12, <1>13

\* The model answered: the lines it was asked about are written from.
LEMMA RewrittenKeeps ==
  ASSUME ScribeInd, NEW b \in BOOLEAN, rewritten(b)
  PROVE  ScribeInd'
<1> USE DEF ScribeInd, ScribeInv
<1>1. UNCHANGED <<linesHeard, dropped, labels, toScore, ready>> /\ asking' = {}
  BY DEF rewritten, scorerVars
<1>2. \/ UNCHANGED <<noted, pending>>
      \/ noted' = noted \cup idsOf(asking) /\ pending' = pending \ asking
  BY DEF rewritten, covered
<1>3. Line' = Line
  BY <1>1 DEF Line
<1>4. idsOf(asking) \subseteq 1 .. linesHeard
  BY DEF LinesTellApart, Line, idsOf
<1>5. idsOf(pending) \subseteq idsOf(asking) \cup idsOf(pending \ asking)
  BY DEF idsOf
<1>6. idsOf(asking) \cap idsOf(pending \ asking) = {}
  BY DEF LinesTellApart, idsOf
<1>7. idsOf(pending \ asking) \subseteq idsOf(pending)
  BY DEF idsOf
<1>8. LinesTellApart'
  BY <1>1, <1>2, <1>3, <1>4 DEF LinesTellApart, idsOf
<1>9. NothingUnwritten'
  <2>1. CASE UNCHANGED <<noted, pending>>
    BY <1>1, <2>1 DEF NothingUnwritten
  <2>2. CASE noted' = noted \cup idsOf(asking) /\ pending' = pending \ asking
    BY <1>1, <1>4, <1>5, <1>6, <1>7, <2>2 DEF NothingUnwritten
  <2> QED  BY <1>2, <2>1, <2>2
<1> QED  BY <1>1, <1>8, <1>9 DEF LabelsOfPeople, LabelsTellApart, NoTurnSleeps

\* The lines are not touched; what is asked about is what is pending, nothing,
\* or what it was.
LEMMA LinesStay ==
  ASSUME ScribeInd, UNCHANGED <<transcriptVars, noted>>,
         asking' \in {asking, pending, {}}
  PROVE  LinesTellApart' /\ NothingUnwritten' /\ LabelsOfPeople' /\ LabelsTellApart'
<1> USE DEF ScribeInd, ScribeInv
<1>1. UNCHANGED <<linesHeard, pending, dropped, labels, noted>>
  BY DEF transcriptVars
<1>2. Line' = Line
  BY <1>1 DEF Line
<1>3. LinesTellApart'
  BY <1>1, <1>2 DEF LinesTellApart, NothingUnwritten, idsOf
<1> QED  BY <1>1, <1>3 DEF NothingUnwritten, LabelsOfPeople, LabelsTellApart

LEMMA ScribeStart == ScribeInit => ScribeInd
<1> SUFFICES ASSUME ScribeInit PROVE ScribeInd
  OBVIOUS
<1>1. LinesTellApart
  BY ScribeAssumption DEF ScribeInit, LinesTellApart, idsOf
<1>2. LabelsOfPeople /\ LabelsTellApart /\ NoTurnSleeps
  BY DEF ScribeInit, LabelsOfPeople, LabelsTellApart, NoTurnSleeps
<1>3. NothingUnwritten
  <2>1. linesHeard = 0
    BY DEF ScribeInit
  <2>2. 1 .. 0 = {}
    OBVIOUS
  <2> QED  BY <2>1, <2>2 DEF ScribeInit, NothingUnwritten, idsOf
<1> QED  BY <1>1, <1>2, <1>3 DEF ScribeInd, ScribeInv

LEMMA ScribeStep == ScribeInd /\ [ScribeNext]_scribeVars => ScribeInd'
<1> SUFFICES ASSUME ScribeInd, [ScribeNext]_scribeVars PROVE ScribeInd'
  OBVIOUS
<1> USE DEF ScribeInd, ScribeInv
<1>1. ASSUME NEW who \in People0 \cup {TheAgent}, NEW chars \in 1 .. MaxPending + 1,
             NEW wanted \in Named, lineHeard(who, chars, wanted)
      PROVE  ScribeInd'
  <2>1. MaxPending \in Nat
    BY ScribeAssumption
  <2>2. chars \in Nat
    BY <2>1
  <2> QED  BY <1>1, <2>2, HeardLineKeeps
<1>2. ASSUME NEW b \in BOOLEAN, rewritten(b) PROVE ScribeInd'
  BY <1>2, RewrittenKeeps
<1>3. CASE rewrite
  <2>1. UNCHANGED <<transcriptVars, noted, toScore, ready>> /\ asking' = pending
    BY <1>3 DEF rewrite, scorerVars
  <2> QED  BY <2>1, LinesStay DEF NoTurnSleeps
<1>4. CASE \/ \E r \in 1 .. MaxHeard : notesReceived(r)
           \/ requested \/ finalMinutes
           \/ \E k \in {"so far", "final"}, b \in BOOLEAN : minutes(k, b)
           \/ UNCHANGED scribeVars
  <2>1. UNCHANGED <<transcriptVars, asking, noted, toScore, ready>>
    BY <1>4 DEF notesReceived, requested, finalMinutes, _minutes, minutes, scribeVars,
                writerVars, scorerVars
  <2> QED  BY <2>1, LinesStay DEF NoTurnSleeps
<1>5. CASE score \/ scored
  <2>1. UNCHANGED <<transcriptVars, asking, noted>>
    BY <1>5 DEF score, scored, writerVars
  <2>2. NoTurnSleeps'
    BY <1>5 DEF score, scored, NoTurnSleeps
  <2> QED  BY <2>1, <2>2, LinesStay
<1>6. CASE everyoneLeft
  <2>1. UNCHANGED <<transcriptVars, noted, toScore, ready>> /\ asking' = {}
    BY <1>6 DEF everyoneLeft, stop
  <2> QED  BY <2>1, LinesStay DEF NoTurnSleeps
<1> QED  BY <1>1, <1>2, <1>3, <1>4, <1>5, <1>6 DEF ScribeNext

\* Whatever comes while the model writes, fails or is cancelled, no line the
\* scribe heard is lost or written from twice, two people never have one label
\* and no turn waits for a scorer that sleeps.
THEOREM NoLineIsLost == ScribeSpec => []ScribeInv
<1>1. ScribeInd => ScribeInv
  BY DEF ScribeInd
<1> QED  BY <1>1, ScribeStart, ScribeStep, PTL DEF ScribeSpec

-----------------------------------------------------------------------------
(***************************************************************************)
(* Metering.  A listener that leaves takes nothing with it: what its       *)
(* session used goes from one place to the next, so what was used never    *)
(* goes down, and the counters, which only follow a report that is above   *)
(* the last one, are never above it.                                       *)
(***************************************************************************)
units(f) == {u \in Heads \X (1 .. MaxUse) : u[2] <= f[u[1]]}
amount(n) == IF n = Gone THEN 0 ELSE n

MeteringTypeOK ==
  /\ metered \in [Heads -> Gone .. MaxUse] /\ closing \in [Heads -> Gone .. MaxUse]
  /\ spentBefore \in Nat /\ mainUse \in Nat
  /\ recorded \in [Metered -> Nat] /\ counted \in [Metered -> Nat]
  /\ seenTokens \in Nat /\ tokensTold \in Nat
  /\ userTurns \in Nat /\ userTurn \in 0 .. userTurns
  /\ reports \in Seq(0 .. userTurns)

CountedAsRecorded ==
  /\ counted = recorded
  /\ \A k \in Metered : recorded[k] <= used[k]
  /\ used.stt + used.llm <= MaxUse

MeteringInd == MeteringTypeOK /\ CountedAsRecorded /\ TimedOnce

LEMMA PairsUpTo ==
  ASSUME NEW S, IsFiniteSet(S), NEW n \in Nat
  PROVE  /\ IsFiniteSet(S \X (1 .. n))
         /\ Cardinality(S \X (1 .. n)) = Cardinality(S) * Cardinality(1 .. n)
<1> DEFINE T == 1 .. n
<1>1. IsFiniteSet(T)
  BY FS_Interval
<1> HIDE DEF T
<1>2. IsFiniteSet(S \X T) /\ Cardinality(S \X T) = Cardinality(S) * Cardinality(T)
  BY <1>1, FS_Product
<1> QED  BY <1>2 DEF T

\* What one session used is part of what all used, and is what changes of it
\* when that session alone does.
LEMMA KnownOf ==
  ASSUME NEW f \in [Heads -> Gone .. MaxUse], NEW h \in Heads, NEW n \in Gone .. MaxUse
  PROVE  /\ known(f) \in Nat /\ amount(f[h]) <= known(f)
         /\ known([f EXCEPT ![h] = n]) = known(f) - amount(f[h]) + amount(n)
<1>1. MaxUse \in Nat /\ IsFiniteSet(Heads)
  BY MeteringAssumption
<1>2. IsFiniteSet(Heads \X (1 .. MaxUse))
  BY <1>1, PairsUpTo
<1> DEFINE own(g) == {u \in units(g) : u[1] = h}
           others(g) == {u \in units(g) : u[1] # h}
<1>3. ASSUME NEW g \in [Heads -> Gone .. MaxUse]
      PROVE  /\ known(g) = amount(g[h]) + Cardinality(others(g))
             /\ Cardinality(others(g)) \in Nat /\ amount(g[h]) \in Nat
  <2>1. amount(g[h]) \in Nat /\ amount(g[h]) <= MaxUse
    BY <1>1 DEF amount, Gone
  <2>2. own(g) = {h} \X (1 .. amount(g[h]))
    <3>1. g[h] \in Gone .. MaxUse
      OBVIOUS
    <3>2. \A k \in 1 .. MaxUse : k <= g[h] <=> k \in 1 .. amount(g[h])
      BY <1>1, <3>1 DEF amount, Gone
    <3>3. 1 .. amount(g[h]) \subseteq 1 .. MaxUse
      BY <1>1, <2>1
    <3> HIDE DEF amount
    <3> QED  BY <3>2, <3>3 DEF units
  <2>3. IsFiniteSet(own(g)) /\ Cardinality(own(g)) = amount(g[h])
    <3> DEFINE a == amount(g[h])
    <3>1. a \in Nat /\ own(g) = {h} \X (1 .. a)
      BY <2>1, <2>2
    <3> HIDE DEF a
    <3>2. IsFiniteSet(1 .. a) /\ Cardinality(1 .. a) = a
      BY <3>1, FS_Interval
    <3>3. IsFiniteSet({h}) /\ Cardinality({h}) = 1
      BY FS_Singleton
    <3>4. /\ IsFiniteSet({h} \X (1 .. a))
          /\ Cardinality({h} \X (1 .. a)) = Cardinality({h}) * Cardinality(1 .. a)
      BY <3>1, <3>3, PairsUpTo
    <3>5. 1 * a = a
      BY <3>1
    <3> QED  BY <3>1, <3>2, <3>3, <3>4, <3>5 DEF a
  <2>4. IsFiniteSet(others(g)) /\ Cardinality(others(g)) \in Nat
    <3>1. others(g) \in SUBSET (Heads \X (1 .. MaxUse))
      BY DEF units
    <3> HIDE DEF others
    <3> QED  BY <1>2, <3>1, FS_Subset, FS_CardinalityType
  <2>5. units(g) = own(g) \cup others(g) /\ own(g) \cap others(g) = {}
    OBVIOUS
  <2>6. Cardinality(units(g)) =
          Cardinality(own(g)) + Cardinality(others(g)) - Cardinality(own(g) \cap others(g))
    <3> HIDE DEF own, others
    <3> QED  BY <2>3, <2>4, <2>5, FS_Union
  <2>7. Cardinality(own(g) \cap others(g)) = 0
    BY <2>5, FS_EmptySet
  <2>8. known(g) = Cardinality(units(g))
    BY DEF known, units
  <2> HIDE DEF own, others
  <2> QED  BY <2>1, <2>3, <2>4, <2>6, <2>7, <2>8
<1> DEFINE g == [f EXCEPT ![h] = n]
<1>4. g \in [Heads -> Gone .. MaxUse] /\ g[h] = n
  OBVIOUS
<1>5. others(g) = others(f)
  BY DEF units
<1> HIDE DEF own, others, g
<1>6. known(g) = amount(n) + Cardinality(others(f)) /\ amount(n) \in Nat
  BY <1>3, <1>4, <1>5
<1>7. known(f) = amount(f[h]) + Cardinality(others(f)) /\ amount(f[h]) \in Nat
      /\ Cardinality(others(f)) \in Nat
  BY <1>3
<1>8. known(g) = known(f) - amount(f[h]) + amount(n)
  BY <1>6, <1>7
<1> QED  BY <1>6, <1>7, <1>8 DEF g

\* What nobody used is nothing.
LEMMA NothingKnown == known([h \in Heads |-> Gone]) = 0
<1>1. {u \in Heads \X (1 .. MaxUse) : u[2] <= [h \in Heads |-> Gone][u[1]]} = {}
  <2>1. \A k \in 1 .. MaxUse : ~(k <= Gone)
    BY MeteringAssumption DEF Gone
  <2> QED  BY <2>1
<1> QED  BY <1>1, FS_EmptySet DEF known

LEMMA KnownIs ==
  ASSUME MeteringTypeOK
  PROVE  known(metered) \in Nat /\ known(closing) \in Nat
<1>1. ASSUME NEW f \in [Heads -> Gone .. MaxUse] PROVE known(f) \in Nat
  <2>1. IsFiniteSet(Heads \X (1 .. MaxUse))
    BY MeteringAssumption, PairsUpTo
  <2>2. units(f) \in SUBSET (Heads \X (1 .. MaxUse))
    BY DEF units
  <2>3. Cardinality(units(f)) \in Nat
    BY <2>1, <2>2, FS_Subset, FS_CardinalityType
  <2> QED  BY <2>3 DEF known, units
<1> QED  BY <1>1 DEF MeteringTypeOK

\* People come, talk and go: what was used does not go down, and goes up only
\* while it is in bounds.
LEMMA UseGrows ==
  ASSUME MeteringInd,
         \/ \E h \in Heads : \/ joinListener(h) \/ leaveListener(h)
                             \/ listenerClosed(h) \/ hearsSomebody(h)
         \/ generates
  PROVE  MeteringInd'
<1> USE DEF MeteringInd
<1>1. UNCHANGED <<recorded, counted, seenTokens, tokensTold, userTurns, userTurn, reports>>
  BY DEF joinListener, leaveListener, listenerClosed, hearsSomebody, generates, costVars, timeVars
<1>2. MaxUse \in Nat /\ Gone = -1
  BY MeteringAssumption DEF Gone
<1>3. /\ metered \in [Heads -> Gone .. MaxUse] /\ closing \in [Heads -> Gone .. MaxUse]
      /\ spentBefore \in Nat /\ mainUse \in Nat
      /\ known(metered) \in Nat /\ known(closing) \in Nat
  BY KnownIs DEF MeteringTypeOK
<1>4. /\ used.stt = spentBefore + known(metered) + known(closing) /\ used.llm = mainUse
      /\ spentBefore + known(metered) + known(closing) + mainUse <= MaxUse
  BY DEF used, CountedAsRecorded
<1> DEFINE InType == /\ metered' \in [Heads -> Gone .. MaxUse]
                     /\ closing' \in [Heads -> Gone .. MaxUse]
                     /\ spentBefore' \in Nat /\ mainUse' \in Nat
           Grows == /\ used'.stt >= used.stt /\ used'.llm >= used.llm
                    /\ used'.stt + used'.llm <= MaxUse
                    /\ used'.stt \in Int /\ used'.llm \in Int
<1>5. /\ used'.stt = spentBefore' + known(metered') + known(closing')
      /\ used'.llm = mainUse'
  BY DEF used, known
<1>6. InType /\ Grows
  <2>1. ASSUME NEW h \in Heads, joinListener(h) PROVE InType /\ Grows
    <3>1. /\ metered[h] = Gone /\ metered' = [metered EXCEPT ![h] = 0]
          /\ UNCHANGED <<closing, spentBefore, mainUse>>
      BY <2>1 DEF joinListener
    <3>2. 0 \in Gone .. MaxUse
      BY <1>2
    <3>3. known(metered') = known(metered) - amount(metered[h]) + amount(0)
      BY <1>3, <3>1, <3>2, KnownOf
    <3>4. known(metered') = known(metered) /\ known(closing') = known(closing)
      BY <1>2, <1>3, <3>1, <3>3 DEF amount
    <3> QED  BY <1>2, <1>3, <1>4, <1>5, <3>1, <3>2, <3>4
  <2>2. ASSUME NEW h \in Heads, leaveListener(h) PROVE InType /\ Grows
    <3>1. /\ closing[h] = Gone /\ closing' = [closing EXCEPT ![h] = metered[h]]
          /\ metered' = [metered EXCEPT ![h] = Gone]
          /\ UNCHANGED <<spentBefore, mainUse>>
      BY <2>2 DEF leaveListener
    <3>2. Gone \in Gone .. MaxUse /\ metered[h] \in Gone .. MaxUse
      BY <1>2, <1>3
    <3>3. /\ known(metered') = known(metered) - amount(metered[h]) + amount(Gone)
          /\ known(closing') = known(closing) - amount(closing[h]) + amount(metered[h])
      BY <1>3, <3>1, <3>2, KnownOf
    <3>4. amount(metered[h]) \in Nat /\ amount(Gone) = 0 /\ amount(closing[h]) = 0
      BY <1>2, <3>1, <3>2 DEF amount
    <3>5. known(metered') + known(closing') = known(metered) + known(closing)
          /\ known(metered') \in Int /\ known(closing') \in Int
      BY <1>3, <3>3, <3>4
    <3> QED  BY <1>2, <1>3, <1>4, <1>5, <3>1, <3>2, <3>5
  <2>3. ASSUME NEW h \in Heads, listenerClosed(h) PROVE InType /\ Grows
    <3>1. /\ closing[h] # Gone /\ closing' = [closing EXCEPT ![h] = Gone]
          /\ spentBefore' = spentBefore + closing[h]
          /\ UNCHANGED <<metered, mainUse>>
      BY <2>3 DEF listenerClosed
    <3>2. Gone \in Gone .. MaxUse /\ closing[h] \in Nat
      BY <1>2, <1>3, <3>1
    <3>3. known(closing') = known(closing) - amount(closing[h]) + amount(Gone)
      BY <1>3, <3>1, <3>2, KnownOf
    <3>4. known(closing') = known(closing) - closing[h] /\ known(metered') = known(metered)
      BY <1>3, <3>1, <3>2, <3>3 DEF amount
    <3> QED  BY <1>2, <1>3, <1>4, <1>5, <3>1, <3>2, <3>4
  <2>4. ASSUME NEW h \in Heads, hearsSomebody(h) PROVE InType /\ Grows
    <3>1. used.stt + used.llm < MaxUse /\ UNCHANGED <<spentBefore, mainUse>>
      BY <2>4 DEF hearsSomebody, InUse
    <3>2. spentBefore + known(metered) + known(closing) + mainUse < MaxUse
      BY <1>4, <3>1
    <3>3. CASE metered[h] # Gone /\ metered' = [metered EXCEPT ![h] = @ + 1] /\ UNCHANGED closing
      <4>1. amount(metered[h]) <= known(metered) /\ amount(metered[h]) = metered[h]
            /\ metered[h] \in Nat
        BY <1>2, <1>3, <3>3, KnownOf DEF amount
      <4>2. metered[h] + 1 \in Gone .. MaxUse /\ amount(metered[h] + 1) = metered[h] + 1
        BY <1>2, <1>3, <3>2, <4>1 DEF amount
      <4>3. known(metered') = known(metered) - amount(metered[h]) + amount(metered[h] + 1)
        BY <1>3, <3>3, <4>2, KnownOf
      <4>4. known(metered') = known(metered) + 1 /\ known(closing') = known(closing)
        BY <1>3, <3>3, <4>1, <4>2, <4>3
      <4> QED  BY <1>2, <1>3, <1>4, <1>5, <3>1, <3>2, <3>3, <4>2, <4>4
    <3>4. CASE closing[h] # Gone /\ closing' = [closing EXCEPT ![h] = @ + 1] /\ UNCHANGED metered
      <4>1. amount(closing[h]) <= known(closing) /\ amount(closing[h]) = closing[h]
            /\ closing[h] \in Nat
        BY <1>2, <1>3, <3>4, KnownOf DEF amount
      <4>2. closing[h] + 1 \in Gone .. MaxUse /\ amount(closing[h] + 1) = closing[h] + 1
        BY <1>2, <1>3, <3>2, <4>1 DEF amount
      <4>3. known(closing') = known(closing) - amount(closing[h]) + amount(closing[h] + 1)
        BY <1>3, <3>4, <4>2, KnownOf
      <4>4. known(closing') = known(closing) + 1 /\ known(metered') = known(metered)
        BY <1>3, <3>4, <4>1, <4>2, <4>3
      <4> QED  BY <1>2, <1>3, <1>4, <1>5, <3>1, <3>2, <3>4, <4>2, <4>4
    <3> QED  BY <2>4, <3>3, <3>4 DEF hearsSomebody
  <2>5. ASSUME generates PROVE InType /\ Grows
    <3>1. /\ used.stt + used.llm < MaxUse /\ mainUse' = mainUse + 1
          /\ UNCHANGED <<metered, closing, spentBefore>>
      BY <2>5 DEF generates, InUse
    <3>2. known(closing') = known(closing) /\ known(metered') = known(metered)
      BY <3>1
    <3> QED  BY <1>2, <1>3, <1>4, <1>5, <3>1, <3>2
  <2> QED  BY <2>1, <2>2, <2>3, <2>4, <2>5
<1>7. MeteringTypeOK'
  BY <1>1, <1>6 DEF MeteringTypeOK
<1>8. CountedAsRecorded'
  <2>1. \A k \in Metered : recorded[k] \in Nat /\ recorded[k] <= used[k]
    BY DEF CountedAsRecorded, MeteringTypeOK
  <2>2. used.stt \in Int /\ used.llm \in Int
    BY <1>3, <1>4
  <2>3. recorded["stt"] <= used'.stt /\ recorded["llm"] <= used'.llm
    <3>1. /\ recorded["stt"] \in Nat /\ recorded["stt"] <= used.stt
          /\ recorded["llm"] \in Nat /\ recorded["llm"] <= used.llm
      BY <2>1 DEF Metered, used
    <3> QED  BY <1>6, <2>2, <3>1
  <2> QED  BY <1>1, <1>6, <2>3 DEF CountedAsRecorded, Metered, used
<1>9. TimedOnce'
  BY <1>1 DEF TimedOnce
<1> QED  BY <1>7, <1>8, <1>9

\* A report prices what is seen, which is at most what was used.
LEMMA ReportCounts ==
  ASSUME MeteringInd, NEW b \in BOOLEAN, report_usage(b), UNCHANGED useVars
  PROVE  /\ recorded' \in [Metered -> Nat] /\ counted' \in [Metered -> Nat]
         /\ seenTokens' \in Nat /\ tokensTold' \in Nat /\ tokensTold' = seenTokens'
         /\ CountedAsRecorded'
<1> USE DEF MeteringInd
<1>1. /\ spentBefore \in Nat /\ mainUse \in Nat
      /\ known(metered) \in Nat /\ known(closing) \in Nat
  BY KnownIs DEF MeteringTypeOK
<1>2. /\ usage["stt"] = spentBefore + known(metered) /\ usage["llm"] = mainUse
      /\ used["stt"] = spentBefore + known(metered) + known(closing) /\ used["llm"] = mainUse
  BY DEF usage, used
<1>3. \A k \in Metered : priced(k) \in Nat /\ priced(k) <= used[k] /\ used[k] \in Nat
  <2>1. \A k \in Metered : usage[k] \in Nat /\ usage[k] <= used[k] /\ used[k] \in Nat
    BY <1>1, <1>2 DEF Metered
  <2> QED  BY <2>1 DEF priced
<1>4. UNCHANGED <<metered, closing, spentBefore, mainUse>> /\ used' = used
  BY DEF useVars, used
<1>5. \A k \in Metered : /\ counted[k] = recorded[k] /\ recorded[k] \in Nat
                         /\ recorded[k] <= used[k]
  BY DEF CountedAsRecorded, MeteringTypeOK
<1>6. /\ recorded' = [k \in Metered |-> IF priced(k) > recorded[k] THEN priced(k) ELSE recorded[k]]
      /\ counted' = [k \in Metered |->
           IF priced(k) > recorded[k] THEN counted[k] + priced(k) - recorded[k] ELSE counted[k]]
  BY DEF report_usage, countGrowth
<1> HIDE DEF MeteringInd
<1>7. \A k \in Metered :
        /\ recorded'[k] \in Nat /\ counted'[k] = recorded'[k] /\ recorded'[k] <= used[k]
  <2> SUFFICES ASSUME NEW k \in Metered
               PROVE  /\ recorded'[k] \in Nat /\ counted'[k] = recorded'[k]
                      /\ recorded'[k] <= used[k]
    OBVIOUS
  <2> DEFINE p == priced(k)
             u == used[k]
  <2>1. p \in Nat /\ u \in Nat /\ p <= u
    BY <1>3
  <2>2. /\ recorded'[k] = IF p > recorded[k] THEN p ELSE recorded[k]
        /\ counted'[k] = IF p > recorded[k] THEN recorded[k] + p - recorded[k] ELSE recorded[k]
    BY <1>5, <1>6
  <2>3. recorded[k] \in Nat /\ recorded[k] <= u
    BY <1>5
  <2> HIDE DEF p, u
  <2>4. recorded'[k] \in Nat /\ counted'[k] = recorded'[k] /\ recorded'[k] <= u
    BY <2>1, <2>2, <2>3
  <2> QED  BY <2>4 DEF u
<1>8. recorded' = [k \in Metered |-> recorded'[k]] /\ counted' = [k \in Metered |-> counted'[k]]
  BY <1>6
<1>9. recorded' \in [Metered -> Nat] /\ counted' \in [Metered -> Nat] /\ counted' = recorded'
  BY <1>7, <1>8
<1>10. seenTokens' \in Nat /\ tokensTold' \in Nat /\ tokensTold' = seenTokens'
  <2>1. tokensTold = seenTokens /\ seenTokens \in Nat /\ tokensTold \in Nat
    BY DEF MeteringInd, TimedOnce, MeteringTypeOK
  <2>2. usage.llm = mainUse
    BY DEF usage
  <2>3. CASE b
    BY <2>1, <2>3 DEF report_usage
  <2>4. CASE ~b
    <3>1. seenTokens' = mainUse /\ tokensTold' = tokensTold + mainUse - seenTokens
      BY <2>2, <2>4 DEF report_usage
    <3> QED  BY <1>1, <2>1, <3>1
  <2> QED  BY <2>3, <2>4
<1>11. CountedAsRecorded'
  <2>1. used.stt + used.llm <= MaxUse
    BY DEF MeteringInd, CountedAsRecorded
  <2> QED  BY <1>4, <1>7, <1>9, <2>1 DEF CountedAsRecorded
<1> QED  BY <1>9, <1>10, <1>11

\* A turn's report takes the timing there is, and leaves none.
LEMMA ReportTakesTiming ==
  ASSUME MeteringInd, reportTurn, UNCHANGED <<userTurns, useVars>>
  PROVE  MeteringInd'
<1>1. /\ recorded' \in [Metered -> Nat] /\ counted' \in [Metered -> Nat]
      /\ seenTokens' \in Nat /\ tokensTold' \in Nat /\ tokensTold' = seenTokens'
      /\ CountedAsRecorded'
  BY ReportCounts DEF reportTurn
<1>2. /\ UNCHANGED <<metered, closing, spentBefore, mainUse, userTurns>>
      /\ reports' = Append(reports, userTurn) /\ userTurn' = 0
  BY DEF reportTurn, useVars
<1>3. /\ reports \in Seq(0 .. userTurns) /\ userTurn \in 0 .. userTurns /\ userTurns \in Nat
      /\ Len(reports) \in Nat
  BY DEF MeteringInd, MeteringTypeOK
<1>4. /\ reports' \in Seq(0 .. userTurns) /\ Len(reports') = Len(reports) + 1
      /\ \A i \in 1 .. Len(reports) : reports'[i] = reports[i]
      /\ reports'[Len(reports) + 1] = userTurn
  BY <1>2, <1>3
<1>5. MeteringTypeOK'
  BY <1>1, <1>2, <1>3, <1>4 DEF MeteringInd, MeteringTypeOK
<1>6. \A i, j \in 1 .. Len(reports') :
        reports'[i] = reports'[j] /\ i # j => reports'[i] = 0
  <2> SUFFICES ASSUME NEW i \in 1 .. Len(reports'), NEW j \in 1 .. Len(reports'),
                      reports'[i] = reports'[j], i # j, reports'[i] # 0
               PROVE  FALSE
    OBVIOUS
  <2>1. CASE i \in 1 .. Len(reports) /\ j \in 1 .. Len(reports)
    BY <1>4, <2>1 DEF MeteringInd, TimedOnce
  <2>2. CASE i = Len(reports) + 1 /\ j \in 1 .. Len(reports)
    BY <1>4, <2>2 DEF MeteringInd, TimedOnce
  <2>3. CASE j = Len(reports) + 1 /\ i \in 1 .. Len(reports)
    BY <1>4, <2>3 DEF MeteringInd, TimedOnce
  <2> QED  BY <1>3, <1>4, <2>1, <2>2, <2>3
<1>7. TimedOnce'
  BY <1>1, <1>2, <1>6 DEF TimedOnce
<1> QED  BY <1>1, <1>5, <1>7 DEF MeteringInd

LEMMA TurnsKeep ==
  ASSUME MeteringInd, personsTurn \/ speech_created \/ item_added \/ speechDone \/ closed
  PROVE  MeteringInd'
<1>1. CASE personsTurn
  <2>1. /\ UNCHANGED <<reports, metered, closing, spentBefore, mainUse, recorded, counted,
                       seenTokens, tokensTold>>
        /\ userTurns' = userTurns + 1 /\ userTurn' = userTurns + 1
    BY <1>1 DEF personsTurn, useVars, costVars
  <2>2. /\ userTurns \in Nat /\ reports \in Seq(0 .. userTurns)
        /\ \A i \in 1 .. Len(reports) : reports[i] \in 0 .. userTurns
    BY DEF MeteringInd, MeteringTypeOK
  <2>3. reports \in Seq(0 .. userTurns + 1)
    BY <2>2
  <2>4. MeteringTypeOK' /\ CountedAsRecorded'
    BY <2>1, <2>2, <2>3 DEF MeteringInd, MeteringTypeOK, CountedAsRecorded, used
  <2>5. \A i \in 1 .. Len(reports) : reports[i] # userTurns + 1
    BY <2>2
  <2>6. TimedOnce'
    BY <2>1, <2>5 DEF MeteringInd, TimedOnce
  <2> QED  BY <2>4, <2>6 DEF MeteringInd
<1>2. ASSUME UNCHANGED <<timeVars, useVars, costVars>> \/
             UNCHANGED <<userTurn, userTurns, reports, useVars, costVars>>
      PROVE  MeteringInd'
  BY <1>2 DEF timeVars, useVars, costVars, MeteringInd, MeteringTypeOK, CountedAsRecorded,
              TimedOnce, used
<1>3. CASE speech_created
  BY <1>2, <1>3 DEF speech_created
<1>4. CASE item_added
  BY <1>4, ReportTakesTiming DEF item_added
<1>5. CASE speechDone
  <2>1. CASE speechOf = "scheduled"
    BY <1>5, <2>1, ReportTakesTiming DEF speechDone
  <2>2. CASE speechOf # "scheduled"
    BY <1>2, <1>5, <2>2 DEF speechDone
  <2> QED  BY <2>1, <2>2
<1>6. CASE closed
  <2>1. report_usage(TRUE) /\ UNCHANGED <<userTurn, userTurns, reports>> /\ UNCHANGED useVars
    BY <1>6 DEF closed, timeVars
  <2>2. /\ recorded' \in [Metered -> Nat] /\ counted' \in [Metered -> Nat]
        /\ seenTokens' \in Nat /\ tokensTold' \in Nat /\ tokensTold' = seenTokens'
        /\ CountedAsRecorded'
    BY <2>1, ReportCounts
  <2>3. MeteringTypeOK' /\ TimedOnce'
    BY <2>1, <2>2 DEF MeteringInd, MeteringTypeOK, TimedOnce, useVars
  <2> QED  BY <2>2, <2>3 DEF MeteringInd
<1> QED  BY <1>1, <1>3, <1>4, <1>5, <1>6

LEMMA MeteringStart == MeteringInit => MeteringInd
<1> SUFFICES ASSUME MeteringInit PROVE MeteringInd
  OBVIOUS
<1>1. MaxUse \in Nat /\ Gone \in Gone .. MaxUse /\ reports \in Seq(0 .. userTurns)
  BY MeteringAssumption DEF Gone, MeteringInit
<1>2. MeteringTypeOK
  BY <1>1 DEF MeteringInit, MeteringTypeOK
<1>3. used.stt = 0 /\ used.llm = 0
  BY NothingKnown DEF MeteringInit, used
<1>4. CountedAsRecorded
  <2>1. \A k \in Metered : used[k] = 0 /\ recorded[k] = 0
    BY <1>3 DEF Metered, MeteringInit
  <2> QED  BY <1>1, <1>3, <2>1 DEF CountedAsRecorded, MeteringInit
<1>5. TimedOnce
  BY DEF MeteringInit, TimedOnce
<1> QED  BY <1>2, <1>4, <1>5 DEF MeteringInd

\* Whoever comes and goes while turns are reported, the process counts no more
\* than the session used, and the timing of a turn goes into one report.
THEOREM NothingCountedTwice == MeteringSpec => []MeteringInv
<1>1. MeteringInd /\ [MeteringNext]_meteringVars => MeteringInd'
  <2> SUFFICES ASSUME MeteringInd, [MeteringNext]_meteringVars PROVE MeteringInd'
    OBVIOUS
  <2>1. CASE UNCHANGED meteringVars
    BY <2>1 DEF meteringVars, timeVars, useVars, costVars, MeteringInd, MeteringTypeOK,
                CountedAsRecorded, TimedOnce, used
  <2> QED  BY <2>1, UseGrows, TurnsKeep DEF MeteringNext
<1>2. MeteringInd => MeteringInv
  BY DEF MeteringInd, MeteringInv, NothingIsCountedTwice, CountedAsRecorded
<1> QED  BY <1>1, <1>2, MeteringStart, PTL DEF MeteringSpec

-----------------------------------------------------------------------------
(***************************************************************************)
(* Plan.  What a worker took it had planned, and neither the document nor  *)
(* what its plan rests on changes after; a document with a hash has that   *)
(* of the one that was sealed, so if the hash fits it is that one.         *)
(***************************************************************************)
\* Nothing is refused only if there is no code to refuse it with.
Passes(code) == code = ""

LEMMA NothingRefused ==
  ASSUME NEW codes, DOMAIN codes \subseteq Nat, Passes(firstOf(codes))
  PROVE  \A i \in DOMAIN codes : Passes(codes[i])
<1> USE DEF Passes
<1> DEFINE refused == {j \in DOMAIN codes : codes[j] # ""}
           k == CHOOSE i \in refused : \A j \in refused : i <= j
<1> SUFFICES ASSUME refused # {} PROVE FALSE
  OBVIOUS
<1>1. refused \in SUBSET Nat
  OBVIOUS
<1>2. firstOf(codes) = codes[k]
  BY DEF firstOf
<1>3. k \in refused
  <2> HIDE DEF refused
  <2>1. \E n \in refused : \A j \in refused : n <= j
    BY <1>1, LeastIsThere
  <2> QED  BY <2>1
<1>4. codes[k] # ""
  <2> HIDE DEF k
  <2> QED  BY <1>3
<1> QED  BY <1>2, <1>4

LEMMA AllOf2 ==
  ASSUME NEW p, NEW q, Passes(firstOf(<<p, q>>))
  PROVE  Passes(p) /\ Passes(q)
<1> DEFINE codes == <<p, q>>
<1>1. DOMAIN codes = 1 .. 2
  OBVIOUS
<1>2. /\ codes[1] = p /\ codes[2] = q
  OBVIOUS
<1> HIDE DEF codes
<1> QED  BY <1>1, <1>2, NothingRefused DEF codes

LEMMA AllOf3 ==
  ASSUME NEW p, NEW q, NEW r, Passes(firstOf(<<p, q, r>>))
  PROVE  /\ Passes(p) /\ Passes(q) /\ Passes(r)
<1> DEFINE codes == <<p, q, r>>
<1>1. DOMAIN codes = 1 .. 3
  OBVIOUS
<1>2. /\ codes[1] = p /\ codes[2] = q /\ codes[3] = r
  OBVIOUS
<1> HIDE DEF codes
<1> QED  BY <1>1, <1>2, NothingRefused DEF codes

LEMMA AllOf4 ==
  ASSUME NEW p, NEW q, NEW r, NEW s, Passes(firstOf(<<p, q, r, s>>))
  PROVE  /\ Passes(p) /\ Passes(q) /\ Passes(r) /\ Passes(s)
<1> DEFINE codes == <<p, q, r, s>>
<1>1. DOMAIN codes = 1 .. 4
  OBVIOUS
<1>2. /\ codes[1] = p /\ codes[2] = q /\ codes[3] = r /\ codes[4] = s
  OBVIOUS
<1> HIDE DEF codes
<1> QED  BY <1>1, <1>2, NothingRefused DEF codes

LEMMA AllOf5 ==
  ASSUME NEW p, NEW q, NEW r, NEW s, NEW t, Passes(firstOf(<<p, q, r, s, t>>))
  PROVE  /\ Passes(p) /\ Passes(q) /\ Passes(r) /\ Passes(s) /\ Passes(t)
<1> DEFINE codes == <<p, q, r, s, t>>
<1>1. DOMAIN codes = 1 .. 5
  OBVIOUS
<1>2. /\ codes[1] = p /\ codes[2] = q /\ codes[3] = r /\ codes[4] = s /\ codes[5] = t
  OBVIOUS
<1> HIDE DEF codes
<1> QED  BY <1>1, <1>2, NothingRefused DEF codes

LEMMA AllOf6 ==
  ASSUME NEW p, NEW q, NEW r, NEW s, NEW t, NEW u, Passes(firstOf(<<p, q, r, s, t, u>>))
  PROVE  /\ Passes(p) /\ Passes(q) /\ Passes(r) /\ Passes(s) /\ Passes(t)
         /\ Passes(u)
<1> DEFINE codes == <<p, q, r, s, t, u>>
<1>1. DOMAIN codes = 1 .. 6
  OBVIOUS
<1>2. /\ codes[1] = p /\ codes[2] = q /\ codes[3] = r /\ codes[4] = s /\ codes[5] = t
      /\ codes[6] = u
  OBVIOUS
<1> HIDE DEF codes
<1> QED  BY <1>1, <1>2, NothingRefused DEF codes

LEMMA AllOf9 ==
  ASSUME NEW p, NEW q, NEW r, NEW s, NEW t, NEW u, NEW v, NEW w, NEW x,
         Passes(firstOf(<<p, q, r, s, t, u, v, w, x>>))
  PROVE  /\ Passes(p) /\ Passes(q) /\ Passes(r) /\ Passes(s) /\ Passes(t)
         /\ Passes(u) /\ Passes(v) /\ Passes(w) /\ Passes(x)
<1> DEFINE codes == <<p, q, r, s, t, u, v, w, x>>
<1>1. DOMAIN codes = 1 .. 9
  OBVIOUS
<1>2. /\ codes[1] = p /\ codes[2] = q /\ codes[3] = r /\ codes[4] = s /\ codes[5] = t
      /\ codes[6] = u /\ codes[7] = v /\ codes[8] = w /\ codes[9] = x
  OBVIOUS
<1> HIDE DEF codes
<1> QED  BY <1>1, <1>2, NothingRefused DEF codes

\* The rules between parts that what follows rests on.
LEMMA RulesKept ==
  ASSUME NEW c, Passes(validate_cross_field_rules(c))
  PROVE  /\ ~(c.privacy_mode = "sealed" /\ (c.agent.enabled \/ c.scribe.enabled))
         /\ ~leaves_out(c.agent.language_switching, c.language)
         /\ c.recording.enabled /\ (c.channel = "telephony" \/ phone_guests(c)) => c.agent.enabled
         /\ stated_mode(c.media.encryption) = "e2ee" =>
              c.channel # "telephony" /\ ~phone_guests(c)
         /\ stated_mode(c.media.encryption) = required_encryption(c.privacy_mode)
         /\ c.privacy_mode # "open" => ~c.recording.enabled
         /\ c.scribe.enabled => c.agent.enabled
<1>1. /\ Passes(firstOf(agentRules(c))) /\ Passes(firstOf(phoneCallRules(c)))
      /\ Passes(firstOf(guestRules(c))) /\ Passes(firstOf(encryptionRules(c)))
      /\ Passes(firstOf(transcriptionRules(c))) /\ Passes(firstOf(scribeRules(c)))
  BY AllOf9 DEF validate_cross_field_rules, CROSS_FIELD_RULES
<1>2. /\ Passes(Forbidden(c.privacy_mode = "sealed" /\ c.agent.enabled))
      /\ Passes(Invalid(leaves_out(c.agent.language_switching, c.language)))
  BY <1>1, AllOf4 DEF agentRules
<1>3. /\ Passes(Forbidden(c.channel = "telephony" /\ stated_mode(c.media.encryption) = "e2ee"))
      /\ Passes(Invalid(c.channel = "telephony" /\ c.recording.enabled /\ ~c.agent.enabled))
  BY <1>1, AllOf3 DEF phoneCallRules
<1>4. /\ Passes(Forbidden(phone_guests(c) /\ stated_mode(c.media.encryption) = "e2ee"))
      /\ Passes(Invalid(phone_guests(c) /\ c.recording.enabled /\ ~c.agent.enabled))
  BY <1>1, AllOf5 DEF guestRules
<1>5. /\ Passes(Invalid(stated_mode(c.media.encryption) # required_encryption(c.privacy_mode)))
      /\ Passes(Forbidden(c.privacy_mode # "open" /\ c.recording.enabled))
  BY <1>1, AllOf2 DEF encryptionRules
<1>6. Passes(Invalid(live(c.transcription) /\ ~c.agent.enabled))
  BY <1>1, AllOf5 DEF transcriptionRules
<1>7. /\ Passes(Forbidden(c.privacy_mode = "sealed" /\ c.scribe.enabled))
      /\ Passes(Invalid(c.scribe.enabled /\ ~live(c.transcription)))
  BY <1>1, AllOf5 DEF scribeRules
<1> QED  BY <1>2, <1>3, <1>4, <1>5, <1>6, <1>7 DEF Passes, Invalid, Forbidden, rule

\* What a plan that is not refused was checked for.
LEMMA AgentPlanned ==
  ASSUME NEW c, Passes(planRefused(c))
  PROVE  /\ c.agent.enabled /\ Passes(check_encryption(c))
         /\ Passes(persona_for(c.agent, c.language)) /\ Passes(_switchable(c))
<1> DEFINE p == c.agent.pipeline
           staged == << _check_session(c), _vendor(p.stt, "stt", c.language),
                        _vendor(p.llm, "llm", c.language), _vendor(p.tts, "tts", c.language) >>
           rest == << detectionRefused(c), persona_for(c.agent, c.language), _switchable(c),
                      local_vad(c), disclosureRefused(c) >>
<1>1. Passes(firstOf(staged)) /\ Passes(firstOf(rest))
  <2> HIDE DEF staged, rest
  <2> QED  BY DEF planRefused, Passes, staged, rest
<1>2. Passes(_check_session(c))
  BY <1>1, AllOf4
<1>3. Passes(persona_for(c.agent, c.language)) /\ Passes(_switchable(c))
  BY <1>1, AllOf5
<1>4. Passes(check(c.agent.enabled, "invalid_config")) /\ Passes(check_encryption(c))
  BY <1>2, AllOf6 DEF _check_session
<1>5. c.agent.enabled
  BY <1>4 DEF check, Passes
<1> QED  BY <1>3, <1>4, <1>5

LEMMA ScribePlanned ==
  ASSUME NEW c, Passes(scribeRefused(c))
  PROVE  c.scribe.enabled /\ Passes(check_encryption(c))
<1>1. Passes(check(c.scribe.enabled, "invalid_config")) /\ Passes(check_encryption(c))
  BY AllOf5 DEF scribeRefused
<1> QED  BY <1>1 DEF check, Passes

\* An agent that may change its language has a script for each, in languages
\* that differ.
LEMMA Switchable ==
  ASSUME NEW c, NEW tags \in Seq(DOMAIN Base), tags = c.agent.language_switching.languages,
         c.agent.language_switching.enabled, Passes(_switchable(c)),
         NEW i \in DOMAIN tags
  PROVE  /\ Passes(persona_for(c.agent, tags[i]))
         /\ \A j \in 1 .. (i - 1) : Base[tags[j]] # Base[tags[i]]
<1> DEFINE among == {c.agent.pipeline[s].provider : s \in {"stt", "llm", "tts"}}
           differs(k) == \A j \in 1 .. (k - 1) : Base[tags[j]] # Base[tags[k]]
           three(k) == firstOf(<<
             check(differs(k), "invalid_config"),
             check(\A v \in among : tags[k] \in VENDORS[v].languages, "unsupported_capability"),
             persona_for(c.agent, tags[k]) >>)
           perTag == [k \in DOMAIN tags |-> three(k)]
           heard0 == check(VENDORS[c.agent.pipeline.stt.provider].detects_language,
                           "unsupported_capability")
<1>1. Passes(firstOf(<< heard0, firstOf(perTag) >>))
  BY DEF _switchable
<1>2. Passes(firstOf(perTag))
  <2> HIDE DEF heard0, perTag
  <2> QED  BY <1>1, AllOf2
<1>3. DOMAIN perTag = DOMAIN tags /\ DOMAIN tags \subseteq Nat /\ perTag[i] = three(i)
  <2> HIDE DEF three
  <2> QED  OBVIOUS
<1>4. Passes(three(i))
  <2> HIDE DEF perTag, three
  <2> QED  BY <1>2, <1>3, NothingRefused
<1>5. Passes(check(differs(i), "invalid_config")) /\ Passes(persona_for(c.agent, tags[i]))
  <2> HIDE DEF differs, among
  <2> QED  BY <1>4, AllOf3
<1>6. differs(i)
  <2> HIDE DEF differs
  <2> QED  BY <1>5 DEF check, Passes
<1> QED  BY <1>5, <1>6

\* A document that is parsed fits its schema and keeps the rules.
LEMMA Parsed ==
  ASSUME parse(document) = ""
  PROVE  Passes(validate_document(document)) /\ Passes(validate_cross_field_rules(config))
BY DEF parse, Passes, config

LEMMA InSchema ==
  ASSUME Passes(validate_document(document))
  PROVE  /\ config.privacy_mode \in {"open", "sealed", "trusted_agent"}
         /\ config.language \in DOMAIN Base
         /\ config.agent.language_switching.languages \in Seq(DOMAIN Base)
<1>1. \A f \in Required : f \in DOMAIN document
  BY DEF Passes, validate_document
<1>2. \A f \in DOMAIN document : f # HashField => document[f] \in Known[f]
  BY DEF Passes, validate_document
<1>3. /\ <<"", "privacyMode">> # HashField /\ <<"", "language">> # HashField
      /\ <<"languageSwitching", "languages">> # HashField
  BY DEF HashField
<1> DEFINE mode == <<"", "privacyMode">>
           tongue == <<"", "language">>
           ways == <<"languageSwitching", "languages">>
<1>4. mode \in Required /\ tongue \in Required
  BY ConfigAssumption
<1>5. document[mode] \in Known[mode] /\ document[tongue] \in Known[tongue]
  <2> HIDE DEF mode, tongue
  <2>1. mode # HashField /\ tongue # HashField
    BY <1>3 DEF mode, tongue
  <2> QED  BY <1>1, <1>2, <1>4, <2>1
<1>6. config.privacy_mode = document[mode] /\ config.language = document[tongue]
  BY DEF config, ResolvedSessionConfig
<1>7. config.agent.language_switching.languages
        = IF ways \in DOMAIN document THEN document[ways] ELSE <<>>
  BY DEF config, ResolvedSessionConfig, AgentOf, LanguageSwitching, field
<1>8. ways \in DOMAIN document => document[ways] \in Seq(DOMAIN Base)
  <2>1. Known[ways] \subseteq Seq(DOMAIN Base) /\ ways # HashField
    BY <1>3, PlanAssumption
  <2> HIDE DEF ways
  <2> QED  BY <1>2, <2>1
<1>9. Known[mode] \subseteq {"open", "sealed", "trusted_agent"}
  BY ConfigAssumption
<1>10. Known[tongue] \subseteq DOMAIN Base
  BY PlanAssumption
<1>11. config.agent.language_switching.languages \in Seq(DOMAIN Base)
  <2>1. <<>> \in Seq(DOMAIN Base)
    OBVIOUS
  <2> HIDE DEF ways
  <2> QED  BY <2>1, <1>7, <1>8
<1> HIDE DEF mode, tongue
<1> QED  BY <1>5, <1>6, <1>9, <1>10, <1>11

\* What a document planned for was held against.
LEMMA HeldAgainst ==
  ASSUME NEW w \in DOMAIN Pool, planned(w) = ""
  PROVE  /\ parse(document) = ""
         /\ HashField \in DOMAIN document /\ document[HashField] = hash_document(document)
         /\ w = "agent" => Passes(planRefused(config))
         /\ w = "scribe" => Passes(scribeRefused(config))
<1>1. load = ""
  BY DEF planned
<1>2. parse(document) = ""
  BY <1>1 DEF load
<1>3. HashField \in DOMAIN document /\ document[HashField] = hash_document(document)
  <2>1. Passes(check(HashField \in DOMAIN document
                     /\ document[HashField] = hash_document(document), "invalid_config"))
    BY <1>1 DEF load, Passes
  <2> QED  BY <2>1 DEF check, Passes
<1>4. w = "agent" => Passes(planRefused(config))
  BY <1>1 DEF planned, Passes
<1>5. w = "scribe" => Passes(scribeRefused(config))
  BY <1>1 DEF planned, Passes
<1> QED  BY <1>2, <1>3, <1>4, <1>5

\* A hash tells documents apart, but for the field it is written in.
LEMMA HashesTell ==
  ASSUME NEW d, NEW s, d = [f \in DOMAIN d |-> d[f]], s = [f \in DOMAIN s |-> s[f]],
         HashField \in DOMAIN d, HashField \in DOMAIN s,
         d[HashField] = s[HashField], hash_document(d) = hash_document(s)
  PROVE  d = s
<1> DEFINE bare(x) == [f \in DOMAIN x \ {HashField} |-> x[f]]
<1>1. bare(d) = bare(s)
  BY DEF hash_document
<1>2. DOMAIN bare(d) = DOMAIN d \ {HashField} /\ DOMAIN bare(s) = DOMAIN s \ {HashField}
  OBVIOUS
<1>3. DOMAIN d = DOMAIN s
  <2> HIDE DEF bare
  <2> QED  BY <1>1, <1>2
<1>4. \A f \in DOMAIN d : d[f] = s[f]
  <2> TAKE f \in DOMAIN d
  <2>1. CASE f = HashField
    BY <2>1
  <2>2. CASE f # HashField
    <3>1. bare(d)[f] = d[f] /\ bare(s)[f] = s[f]
      BY <2>2, <1>3
    <3> QED  BY <3>1, <1>1
  <2> QED  BY <2>1, <2>2
<1> QED  BY <1>3, <1>4

-----------------------------------------------------------------------------
\* What a taken job rests on.  A hash in the document is that of a document
\* that was sealed; what is taken was planned, and a running agent speaks a
\* language it is ready for, with the normalizer of that language.
Documents ==
  /\ document = [f \in DOMAIN document |-> document[f]]
  /\ \A s \in sealings : /\ s = [f \in DOMAIN s |-> s[f]]
                         /\ HashField \in DOMAIN s /\ s[HashField] = hash_document(s)
  /\ HashField \in DOMAIN document =>
       \E s \in sealings : s[HashField] = document[HashField]
AsPlanned == \A w \in DOMAIN Pool : taken(w) => planned(w) = ""
ReadyFor ==
  jobIs["agent"] = "running" =>
    speaks \in DOMAIN personas(config) /\ normalizer = normalizerOf(config, speaks)
PlanInd ==
  /\ PlanTypeOK /\ DOMAIN reason = DOMAIN Pool
  /\ Documents /\ AsPlanned /\ ReadyFor

LEMMA CallersTold == PlanInd => RecordedCallersAreTold
<1> SUFFICES ASSUME parse(document) = "", config.recording.enabled, takes_phone_calls(config)
             PROVE  config.agent.enabled /\ disclosure(config) = "recorded"
  BY DEF RecordedCallersAreTold
<1>1. config.agent.enabled
  <2> HIDE DEF config
  <2>1. Passes(validate_cross_field_rules(config))
    BY Parsed
  <2> QED  BY <2>1, RulesKept DEF takes_phone_calls
<1>2. disclosure(config) = "recorded"
  <2> HIDE DEF config
  <2> QED  BY DEF disclosure
<1> QED  BY <1>1, <1>2

LEMMA Encrypted == PlanInd => EncryptedStaysEncrypted
<1> DEFINE c == config
<1> HIDE DEF c
<1> SUFFICES ASSUME PlanInd, NEW w \in DOMAIN Pool, taken(w), c.privacy_mode # "open"
             PROVE  /\ stated_mode(c.media.encryption) = "e2ee" /\ fetchesKeys
                    /\ ~c.recording.enabled /\ ~takes_phone_calls(c)
                    /\ c.privacy_mode = "trusted_agent" /\ c.agent.enabled
  BY DEF EncryptedStaysEncrypted, c
<1>1. planned(w) = ""
  BY DEF PlanInd, AsPlanned
<1>2. parse(document) = ""
  BY <1>1, HeldAgainst
<1>3. Passes(validate_cross_field_rules(c)) /\ Passes(validate_document(document))
  BY <1>2, Parsed DEF c
<1>4. c.privacy_mode \in {"open", "sealed", "trusted_agent"}
  BY <1>3, InSchema DEF c
<1>5. /\ ~(c.privacy_mode = "sealed" /\ (c.agent.enabled \/ c.scribe.enabled))
      /\ stated_mode(c.media.encryption) = "e2ee" =>
              c.channel # "telephony" /\ ~phone_guests(c)
      /\ stated_mode(c.media.encryption) = required_encryption(c.privacy_mode)
      /\ c.privacy_mode # "open" => ~c.recording.enabled
      /\ c.scribe.enabled => c.agent.enabled
  BY <1>3, RulesKept
<1>6. stated_mode(c.media.encryption) = "e2ee"
  BY <1>5 DEF required_encryption
<1>7. Passes(check_encryption(c)) /\ (c.agent.enabled \/ c.scribe.enabled)
  <2>1. w = "agent" \/ w = "scribe"
    BY PlanAssumption
  <2>2. CASE w = "agent"
    <3>1. Passes(planRefused(c))
      BY <2>2, <1>1, HeldAgainst DEF c
    <3> QED  BY <3>1, AgentPlanned
  <2>3. CASE w = "scribe"
    <3>1. Passes(scribeRefused(c))
      BY <2>3, <1>1, HeldAgainst DEF c
    <3> QED  BY <3>1, ScribePlanned
  <2> QED  BY <2>1, <2>2, <2>3
<1>8. fetchesKeys
  BY <1>6, <1>7 DEF check_encryption, check, Passes
<1>9. ~takes_phone_calls(c)
  BY <1>5, <1>6 DEF takes_phone_calls
<1> QED  BY <1>4, <1>5, <1>6, <1>7, <1>8, <1>9

LEMMA SealedIsTaken == PlanInd => TakenAsSealed
<1> SUFFICES ASSUME PlanInd, NEW w \in DOMAIN Pool, taken(w) PROVE document \in sealings
  BY DEF TakenAsSealed
<1>1. planned(w) = ""
  BY DEF PlanInd, AsPlanned
<1>2. HashField \in DOMAIN document /\ document[HashField] = hash_document(document)
  BY <1>1, HeldAgainst
<1>3. PICK s \in sealings : s[HashField] = document[HashField]
  BY <1>2 DEF PlanInd, Documents
<1>4. /\ s = [f \in DOMAIN s |-> s[f]] /\ document = [f \in DOMAIN document |-> document[f]]
      /\ HashField \in DOMAIN s /\ s[HashField] = hash_document(s)
  BY DEF PlanInd, Documents
<1>5. document = s
  BY <1>2, <1>3, <1>4, HashesTell
<1> QED  BY <1>5

\* The personas a plan makes ready.
LEMMA Ready ==
  ASSUME NEW c, NEW tags \in Seq(DOMAIN Base), tags = c.agent.language_switching.languages,
         Passes(validate_cross_field_rules(c)), Passes(planRefused(c))
  PROVE  /\ c.language \in DOMAIN personas(c)
         /\ \A t \in DOMAIN personas(c) :
              /\ t \in DOMAIN Base \cup {c.language}
              /\ personas(c)[t].script = <<c.agent.persona_ref, Base[t]>>
              /\ personas(c)[t].script \in SCRIPTS
         /\ \A t, u \in DOMAIN personas(c) : t # u => Base[t] # Base[u]
<1> DEFINE on == c.agent.language_switching.enabled
           all == {tags[i] : i \in DOMAIN tags}
           mine == IF on THEN all ELSE {c.language}
<1>1. DOMAIN personas(c) = mine /\ \A t \in mine : personas(c)[t] = voiced(c.agent, t)
  BY DEF personas, ToSet
<1>2. \A t : voiced(c.agent, t).script = <<c.agent.persona_ref, Base[t]>>
  BY DEF voiced, spoken_by, called_by_name
<1>3. /\ ~leaves_out(c.agent.language_switching, c.language)
      /\ Passes(persona_for(c.agent, c.language)) /\ Passes(_switchable(c))
  BY RulesKept, AgentPlanned
<1>4. \A t : Passes(persona_for(c.agent, t)) => <<c.agent.persona_ref, Base[t]>> \in SCRIPTS
  BY DEF persona_for, check, Passes
<1>5. c.language \in mine
  BY <1>3 DEF leaves_out
<1>6. on => \A i \in DOMAIN tags :
              /\ Passes(persona_for(c.agent, tags[i]))
              /\ \A j \in 1 .. (i - 1) : Base[tags[j]] # Base[tags[i]]
  BY <1>3, Switchable
<1>7. \A t \in mine : Passes(persona_for(c.agent, t))
  BY <1>3, <1>6
<1>8. \A t \in mine : t \in DOMAIN Base \cup {c.language}
  OBVIOUS
<1>9. \A t, u \in mine : t # u => Base[t] # Base[u]
  <2> SUFFICES ASSUME on, NEW i \in DOMAIN tags, NEW j \in DOMAIN tags, tags[i] # tags[j]
               PROVE  Base[tags[i]] # Base[tags[j]]
    OBVIOUS
  <2>1. DOMAIN tags = 1 .. Len(tags) /\ Len(tags) \in Nat
    OBVIOUS
  <2>2. i # j
    OBVIOUS
  <2>3. CASE i < j
    <3>1. i \in 1 .. (j - 1)
      BY <2>1, <2>3
    <3> QED  BY <3>1, <1>6
  <2>4. CASE j < i
    <3>1. j \in 1 .. (i - 1)
      BY <2>1, <2>4
    <3> QED  BY <3>1, <1>6
  <2> QED  BY <2>1, <2>2, <2>3, <2>4
<1>10. \A t \in mine : /\ personas(c)[t].script = <<c.agent.persona_ref, Base[t]>>
                       /\ personas(c)[t].script \in SCRIPTS
  <2> HIDE DEF mine
  <2> TAKE t \in mine
  <2>1. personas(c)[t].script = <<c.agent.persona_ref, Base[t]>>
    BY <1>1, <1>2
  <2>2. <<c.agent.persona_ref, Base[t]>> \in SCRIPTS
    BY <1>4, <1>7
  <2> QED  BY <2>1, <2>2
<1> HIDE DEF mine
<1> QED  BY <1>1, <1>5, <1>8, <1>9, <1>10

LEMMA ReadyNow ==
  ASSUME planned("agent") = ""
  PROVE  /\ config.language \in DOMAIN personas(config)
         /\ \A t \in DOMAIN personas(config) :
              /\ t \in DOMAIN Base
              /\ personas(config)[t].script = <<config.agent.persona_ref, Base[t]>>
              /\ personas(config)[t].script \in SCRIPTS
         /\ \A t, u \in DOMAIN personas(config) : t # u => Base[t] # Base[u]
<1>1. "agent" \in DOMAIN Pool
  BY PlanAssumption
<1>2. parse(document) = "" /\ Passes(planRefused(config))
  BY <1>1, HeldAgainst
<1>3. Passes(validate_cross_field_rules(config)) /\ Passes(validate_document(document))
  BY <1>2, Parsed
<1>4. /\ config.language \in DOMAIN Base
      /\ config.agent.language_switching.languages \in Seq(DOMAIN Base)
  BY <1>3, InSchema
<1> HIDE DEF config
<1> QED  BY <1>2, <1>3, <1>4, Ready

LEMMA Speaking == PlanInd => SpeaksAsPlanned
<1> DEFINE c == config
<1> HIDE DEF c
<1> SUFFICES ASSUME PlanInd, jobIs["agent"] = "running"
             PROVE  /\ {c.language, speaks} \subseteq DOMAIN personas(c)
                    /\ \A t \in DOMAIN personas(c) : personas(c)[t].script \in SCRIPTS
                    /\ \A t, u \in DOMAIN personas(c) : t # u => Base[t] # Base[u]
                    /\ normalizer = "hi" <=> /\ personas(c)[speaks].script[2] = "hi"
                                             /\ c.agent.speech.normalization = "platform"
  BY DEF SpeaksAsPlanned, c
<1>1. speaks \in DOMAIN personas(c) /\ normalizer = normalizerOf(c, speaks)
  BY DEF PlanInd, ReadyFor, c
<1>2. planned("agent") = ""
  BY PlanAssumption DEF PlanInd, AsPlanned, taken
<1>3. /\ c.language \in DOMAIN personas(c)
      /\ \A t \in DOMAIN personas(c) :
           /\ personas(c)[t].script = <<c.agent.persona_ref, Base[t]>>
           /\ personas(c)[t].script \in SCRIPTS
      /\ \A t, u \in DOMAIN personas(c) : t # u => Base[t] # Base[u]
  BY <1>2, ReadyNow DEF c
<1>4. personas(c)[speaks].script[2] = Base[speaks]
  <2>1. personas(c)[speaks].script = <<c.agent.persona_ref, Base[speaks]>>
    BY <1>1, <1>3
  <2> QED  BY <2>1
<1>5. normalizer = "hi" <=> /\ Base[speaks] = "hi" /\ c.agent.speech.normalization = "platform"
  BY <1>1 DEF normalizerOf
<1> QED  BY <1>1, <1>3, <1>4, <1>5

LEMMA SamePlan ==
  ASSUME UNCHANGED <<document, fetchesKeys>>
  PROVE  config' = config /\ \A w : planned(w)' = planned(w)
<1>1. config' = config
  BY DEF config
<1>2. load' = load
  BY DEF load
<1>3. \A c : check_encryption(c)' = check_encryption(c)
  BY DEF check_encryption
<1>4. \A c : _check_session(c)' = _check_session(c)
  BY <1>3 DEF _check_session
<1>5. \A c : planRefused(c)' = planRefused(c)
  BY <1>4 DEF planRefused
<1>6. \A c : scribeRefused(c)' = scribeRefused(c)
  BY <1>3 DEF scribeRefused
<1>7. \A w : planned(w)' = planned(w)
  BY <1>1, <1>2, <1>5, <1>6 DEF planned
<1> QED  BY <1>1, <1>7

\* Only an agent's start and its turning to a language set what it speaks.
LEMMA SettleKeeps ==
  ASSUME PlanInd, NEW w \in DOMAIN Pool, NEW how, NEW code, settle(w, how, code),
         UNCHANGED <<document, sealings, fetchesKeys, speaks, normalizer>>,
         how \in {"accepted", "rejected", "failed", "running"},
         how \in {"rejected", "failed"} <=> code # "",
         how # "rejected" => planned(w) = "",
         how = "running" => w # "agent"
  PROVE  PlanInd'
<1> USE DEF PlanInd, PlanTypeOK
<1>1. jobIs' = [jobIs EXCEPT ![w] = how] /\ reason' = [reason EXCEPT ![w] = code]
  BY DEF settle
<1>2. PlanTypeOK' /\ (DOMAIN reason = DOMAIN Pool)'
  BY <1>1
<1>3. Documents'
  BY DEF Documents
<1>4. AsPlanned'
  <2> SUFFICES ASSUME NEW v \in DOMAIN Pool, taken(v)' PROVE planned(v)' = ""
    BY DEF AsPlanned
  <2>1. planned(v)' = planned(v)
    BY SamePlan
  <2>2. v # w => taken(v)
    BY <1>1 DEF taken
  <2>3. v = w => how # "rejected"
    BY <1>1 DEF taken
  <2> QED  BY <2>1, <2>2, <2>3 DEF AsPlanned
<1>5. ReadyFor'
  <2> SUFFICES ASSUME jobIs'["agent"] = "running"
               PROVE  /\ speaks' \in DOMAIN personas(config')
                      /\ normalizer' = normalizerOf(config', speaks')
    BY DEF ReadyFor
  <2>1. jobIs["agent"] = "running"
    BY <1>1, PlanAssumption
  <2>2. config' = config
    BY SamePlan
  <2> QED  BY <2>1, <2>2 DEF ReadyFor
<1> HIDE DEF PlanTypeOK
<1> QED  BY <1>2, <1>3, <1>4, <1>5

LEMMA EditedKeeps ==
  ASSUME PlanInd, NEW e \in Edits, edited(e[1], e[2])
  PROVE  PlanInd'
<1> DEFINE f == e[1]
           v == e[2]
<1>1. f # HashField
  BY PlanAssumption
<1> HIDE DEF f, v
<1>2. /\ jobIs["agent"] = "none" /\ jobIs["scribe"] = "none"
      /\ document' = [g \in DOMAIN document \cup {f} |-> IF g = f THEN v ELSE document[g]]
      /\ UNCHANGED <<sealings, fetchesKeys, jobIs, reason, speaks, normalizer>>
  BY DEF edited, f, v
<1>3. DOMAIN document' = DOMAIN document \cup {f}
  BY <1>2
<1>4. HashField \in DOMAIN document' <=> HashField \in DOMAIN document
  BY <1>1, <1>3
<1>5. HashField \in DOMAIN document => document'[HashField] = document[HashField]
  BY <1>1, <1>2
<1>6. PlanTypeOK' /\ (DOMAIN reason = DOMAIN Pool)'
  BY <1>2, <1>4 DEF PlanInd, PlanTypeOK
<1>7. Documents'
  <2>1. document' = [g \in DOMAIN document' |-> document'[g]]
    BY <1>2
  <2> QED  BY <1>2, <1>4, <1>5, <2>1 DEF PlanInd, Documents
<1>8. AsPlanned' /\ ReadyFor'
  <2>1. \A w \in DOMAIN Pool : jobIs'[w] = "none"
    BY <1>2, PlanAssumption
  <2>2. "agent" \in DOMAIN Pool
    BY PlanAssumption
  <2> QED  BY <2>1, <2>2 DEF AsPlanned, ReadyFor, taken
<1> QED  BY <1>6, <1>7, <1>8 DEF PlanInd

LEMMA SealKeeps ==
  ASSUME PlanInd, seal
  PROVE  PlanInd'
<1>1. /\ HashField \notin DOMAIN document
      /\ document' = [f \in DOMAIN document \cup {HashField} |->
                       IF f = HashField THEN hash_document(document) ELSE document[f]]
      /\ sealings' = {document'}
      /\ UNCHANGED <<fetchesKeys, jobIs, reason, speaks, normalizer>>
  BY DEF seal, sealed
<1>2. DOMAIN document' = DOMAIN document \cup {HashField}
  BY <1>1
<1>3. document'[HashField] = hash_document(document)
  BY <1>1
<1>4. hash_document(document)' = hash_document(document)
  <2>1. DOMAIN document' \ {HashField} = DOMAIN document \ {HashField}
    BY <1>2
  <2>2. \A f \in DOMAIN document \ {HashField} : document'[f] = document[f]
    BY <1>1
  <2> QED  BY <2>1, <2>2 DEF hash_document
<1>5. PlanTypeOK' /\ (DOMAIN reason = DOMAIN Pool)'
  BY <1>1, <1>2 DEF PlanInd, PlanTypeOK
<1>6. Documents'
  <2>1. document' = [f \in DOMAIN document' |-> document'[f]]
    BY <1>1
  <2>2. hash_document(document') = hash_document(document)
    BY <1>4
  <2> QED  BY <1>1, <1>2, <1>3, <2>1, <2>2 DEF Documents
<1>7. \A w \in DOMAIN Pool : ~taken(w)
  <2> SUFFICES ASSUME NEW w \in DOMAIN Pool, taken(w) PROVE FALSE
    OBVIOUS
  <2>1. planned(w) = ""
    BY DEF PlanInd, AsPlanned
  <2> QED  BY <1>1, <2>1, HeldAgainst
<1>8. AsPlanned' /\ ReadyFor'
  <2>1. \A w \in DOMAIN Pool : ~taken(w)'
    BY <1>1, <1>7 DEF taken
  <2>2. "agent" \in DOMAIN Pool
    BY PlanAssumption
  <2> QED  BY <2>1, <2>2 DEF AsPlanned, ReadyFor, taken
<1> QED  BY <1>5, <1>6, <1>8 DEF PlanInd

LEMMA SpeakInKeeps ==
  ASSUME PlanInd, NEW tag \in DOMAIN Base, speak_in(tag)
  PROVE  PlanInd'
<1>1. /\ jobIs["agent"] = "running" /\ tag \in DOMAIN personas(config)
      /\ speaks' = tag /\ normalizer' = normalizerOf(config, tag)
      /\ UNCHANGED <<document, sealings, fetchesKeys, jobIs, reason>>
  BY DEF speak_in
<1>2. config' = config /\ \A w : planned(w)' = planned(w)
  BY <1>1, SamePlan
<1>3. normalizer' \in {"", "hi"}
  BY <1>1 DEF normalizerOf
<1>4. PlanTypeOK' /\ (DOMAIN reason = DOMAIN Pool)'
  BY <1>1, <1>3 DEF PlanInd, PlanTypeOK
<1>5. Documents'
  BY <1>1 DEF PlanInd, Documents
<1>6. AsPlanned'
  BY <1>1, <1>2 DEF PlanInd, AsPlanned, taken
<1>7. ReadyFor'
  BY <1>1, <1>2 DEF ReadyFor
<1> QED  BY <1>4, <1>5, <1>6, <1>7 DEF PlanInd

LEMMA OfferKeeps ==
  ASSUME PlanInd, NEW w \in DOMAIN Pool, on_request(w)
  PROVE  PlanInd'
<1> DEFINE code == planned(w)
           how == IF code = "" THEN "accepted" ELSE "rejected"
<1>1. /\ settle(w, how, code)
      /\ UNCHANGED <<document, sealings, fetchesKeys, speaks, normalizer>>
  BY DEF on_request
<1>2. /\ how \in {"accepted", "rejected"} /\ (how = "accepted" <=> code = "")
  <2> HIDE DEF code
  <2> QED  OBVIOUS
<1> HIDE DEF how
<1> QED  BY <1>1, <1>2, SettleKeeps

LEMMA StartKeeps ==
  ASSUME PlanInd, NEW w \in DOMAIN Pool, entrypoint(w)
  PROVE  PlanInd'
<1> DEFINE code == IF w = "agent" THEN buildRefused(config) ELSE scribeBuildRefused(config)
<1>1. /\ jobIs[w] = "accepted" /\ UNCHANGED <<document, sealings, fetchesKeys>>
      /\ IF code # "" THEN settle(w, "failed", code) /\ UNCHANGED <<speaks, normalizer>>
           ELSE \/ withheld(w)
                \/ /\ settle(w, "running", "")
                   /\ IF w = "agent"
                        THEN /\ speaks' = config.language
                             /\ normalizer' = normalizerOf(config, config.language)
                        ELSE UNCHANGED <<speaks, normalizer>>
  BY DEF entrypoint
<1> HIDE DEF code
<1>2. planned(w) = ""
  BY <1>1 DEF PlanInd, AsPlanned, taken
<1>3. CASE code # ""
  BY <1>1, <1>2, <1>3, SettleKeeps
<1>4. CASE withheld(w)
  <2>1. settle(w, "failed", "withheld") /\ UNCHANGED <<speaks, normalizer>>
    BY <1>4 DEF withheld
  <2> QED  BY <1>1, <1>2, <2>1, SettleKeeps
<1>5. CASE settle(w, "running", "") /\ w # "agent" /\ UNCHANGED <<speaks, normalizer>>
  BY <1>1, <1>2, <1>5, SettleKeeps
<1>6. CASE /\ settle(w, "running", "") /\ w = "agent" /\ speaks' = config.language
           /\ normalizer' = normalizerOf(config, config.language)
  <2>1. /\ config.language \in DOMAIN personas(config)
        /\ \A t \in DOMAIN personas(config) : t \in DOMAIN Base
    BY <1>2, <1>6, ReadyNow
  <2>2. jobIs' = [jobIs EXCEPT ![w] = "running"] /\ reason' = [reason EXCEPT ![w] = ""]
    BY <1>6 DEF settle
  <2>3. config' = config /\ \A v : planned(v)' = planned(v)
    BY <1>1, SamePlan
  <2>4. normalizer' \in {"", "hi"} /\ speaks' \in DOMAIN Base
    BY <1>6, <2>1 DEF normalizerOf
  <2>5. PlanTypeOK' /\ (DOMAIN reason = DOMAIN Pool)'
    <3>1. /\ jobIs \in [DOMAIN Pool -> {"none", "accepted", "rejected", "failed", "running"}]
          /\ DOMAIN reason = DOMAIN Pool /\ (HashField \in DOMAIN document \/ sealings = {})
          /\ \A v \in DOMAIN Pool : jobIs[v] \in {"rejected", "failed"} <=> reason[v] # ""
      BY DEF PlanInd, PlanTypeOK
    <3>2. jobIs' \in [DOMAIN Pool -> {"none", "accepted", "rejected", "failed", "running"}]
          /\ DOMAIN reason' = DOMAIN Pool
      BY <2>2, <3>1
    <3>3. \A v \in DOMAIN Pool : jobIs'[v] \in {"rejected", "failed"} <=> reason'[v] # ""
      BY <2>2, <3>1
    <3> QED  BY <1>1, <2>4, <3>1, <3>2, <3>3 DEF PlanTypeOK
  <2>6. Documents'
    BY <1>1 DEF PlanInd, Documents
  <2>7. AsPlanned'
    <3> SUFFICES ASSUME NEW v \in DOMAIN Pool, taken(v)' PROVE planned(v) = ""
      BY <2>3 DEF AsPlanned
    <3>1. v # w => taken(v)
      BY <2>2 DEF PlanInd, PlanTypeOK, taken
    <3> QED  BY <3>1, <1>2 DEF PlanInd, AsPlanned
  <2>8. ReadyFor'
    BY <1>6, <2>1, <2>3 DEF ReadyFor
  <2> QED  BY <2>5, <2>6, <2>7, <2>8 DEF PlanInd
<1> QED  BY <1>1, <1>3, <1>4, <1>5, <1>6

LEMMA PlanStarts == PlanInit => PlanInd
<1> SUFFICES ASSUME PlanInit PROVE PlanInd
  OBVIOUS
<1> USE DEF PlanInit
<1>1. \A w \in DOMAIN Pool : jobIs[w] = "none" /\ reason[w] = ""
  OBVIOUS
<1>2. PlanTypeOK /\ DOMAIN reason = DOMAIN Pool
  <2>1. \A w \in DOMAIN Pool : jobIs[w] \in {"rejected", "failed"} <=> reason[w] # ""
    BY <1>1
  <2>2. jobIs \in [DOMAIN Pool -> {"none", "accepted", "rejected", "failed", "running"}]
    OBVIOUS
  <2> QED  BY <2>1, <2>2 DEF PlanTypeOK
<1>3. Documents
  BY PlanAssumption DEF Documents
<1>4. AsPlanned /\ ReadyFor
  BY <1>1, PlanAssumption DEF AsPlanned, ReadyFor, taken
<1> QED  BY <1>2, <1>3, <1>4 DEF PlanInd

LEMMA PlanIndHolds == PlanInd => PlanInv
BY CallersTold, Encrypted, SealedIsTaken, Speaking DEF PlanInv, PlanInd

\* PlanInv, of every schema, every draft and every order of edits, offers and
\* starts: what a worker takes is what was sealed, a recorded caller is told,
\* an encrypted session stays encrypted, and a running agent can speak every
\* language it may be turned to (plan.py, worker.py, rules.py).
THEOREM WhatWasSealedRuns == PlanSpec => []PlanInv
<1>1. PlanInd /\ [PlanNext]_planVars => PlanInd'
  <2> SUFFICES ASSUME PlanInd, [PlanNext]_planVars PROVE PlanInd'
    OBVIOUS
  <2>1. CASE \E e \in Edits : edited(e[1], e[2])
    BY <2>1, EditedKeeps
  <2>2. CASE seal
    BY <2>2, SealKeeps
  <2>3. CASE \E w \in DOMAIN Pool : on_request(w) \/ entrypoint(w)
    BY <2>3, OfferKeeps, StartKeeps
  <2>4. CASE \E tag \in DOMAIN Base : speak_in(tag)
    BY <2>4, SpeakInKeeps
  <2>5. CASE UNCHANGED planVars
    <3>1. UNCHANGED <<document, sealings, fetchesKeys, jobIs, reason, speaks, normalizer>>
      BY <2>5 DEF planVars
    <3>2. config' = config /\ \A w : planned(w)' = planned(w)
      BY <3>1, SamePlan
    <3>3. PlanTypeOK' /\ (DOMAIN reason = DOMAIN Pool)'
      BY <3>1 DEF PlanInd, PlanTypeOK
    <3>4. Documents'
      BY <3>1 DEF PlanInd, Documents
    <3>5. AsPlanned' /\ ReadyFor'
      BY <3>1, <3>2 DEF PlanInd, AsPlanned, ReadyFor, taken
    <3> QED  BY <3>3, <3>4, <3>5 DEF PlanInd
  <2> QED  BY <2>1, <2>2, <2>3, <2>4, <2>5 DEF PlanNext
<1> QED  BY <1>1, PlanStarts, PlanIndHolds, PTL DEF PlanSpec

=============================================================================
