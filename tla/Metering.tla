------------------------------- MODULE Metering -------------------------------
(***************************************************************************)
(* What a session spent and how long its turns took: the listeners that    *)
(* come and go with the people of a call (listeners.Listeners), the        *)
(* session's usage priced at every turn and at its end (worker.watch,      *)
(* cost), the process's counters (metrics.SessionMetrics) and the timing   *)
(* of each turn (timing.Turns).  A quantity is a small number and costs    *)
(* itself where its model has a price.  Listeners use the recognizer, the  *)
(* session itself the model.                                               *)
(***************************************************************************)
EXTENDS Integers, Sequences, FiniteSets

CONSTANTS Heads,       \* identities of people
          Unpriced,    \* stages the price table has no row for
          MaxUse,      \* bound: quantities used
          MaxTurnsMet  \* bound: replies

Metered == {"stt", "llm"}
ASSUME MeteringAssumption ==
  /\ IsFiniteSet(Heads) /\ Unpriced \subseteq Metered
  /\ {MaxUse, MaxTurnsMet} \subseteq Nat

VARIABLES metered,        \* usage of each listener's session, Gone for none
          closing,     \* usage of a session that leave is closing
          spentBefore, \* Listeners._spent
          mainUse,     \* usage of the agent's own session
          recorded,    \* SessionMetrics._spent
          counted,     \* the process's counters of this session's cost
          finalUse,    \* what the final session.usage said, Gone before it
          userTurn,    \* the turn whose timing Turns._user holds, 0 for none
          userTurns,   \* how many turns of people there were
          speechOf,    \* the speech that runs: "none", "scheduled", "said"
          reports,     \* per agent turn, the turn of a person it is timed from
          seenTokens, tokensTold   \* OutputTokens; the sum of what it told

useVars == <<metered, closing, spentBefore, mainUse>>
costVars == <<recorded, counted, finalUse, seenTokens, tokensTold>>
timeVars == <<userTurn, userTurns, speechOf, reports>>
meteringVars == <<useVars, costVars, timeVars>>

Gone == -1

MeteringInit ==
  /\ metered = [h \in Heads |-> Gone] /\ closing = [h \in Heads |-> Gone]
  /\ spentBefore = 0 /\ mainUse = 0
  /\ recorded = [k \in Metered |-> 0] /\ counted = [k \in Metered |-> 0]
  /\ finalUse = Gone /\ seenTokens = 0 /\ tokensTold = 0
  /\ userTurn = 0 /\ userTurns = 0 /\ speechOf = "none" /\ reports = <<>>

\* What the sessions in f used together, unit by unit.
known(f) == Cardinality({u \in Heads \X (1 .. MaxUse) : u[2] <= f[u[1]]})

\* Listeners.usage and the session's own: what is seen now.
usage == [stt |-> spentBefore + known(metered), llm |-> mainUse]
\* What was used.
used == [stt |-> spentBefore + known(metered) + known(closing), llm |-> mainUse]

InUse == used.stt + used.llm < MaxUse

(***************************************************************************)
(* Listeners.                                                              *)
(***************************************************************************)
joinListener(h) ==
  /\ metered[h] = Gone /\ metered' = [metered EXCEPT ![h] = 0]
  /\ UNCHANGED <<closing, spentBefore, mainUse>> /\ UNCHANGED costVars /\ UNCHANGED timeVars

\* leave takes the session out and waits for it to close.
leaveListener(h) ==
  /\ metered[h] # Gone /\ closing[h] = Gone
  /\ closing' = [closing EXCEPT ![h] = metered[h]]
  /\ metered' = [metered EXCEPT ![h] = Gone]
  /\ UNCHANGED <<spentBefore, mainUse>> /\ UNCHANGED costVars /\ UNCHANGED timeVars

listenerClosed(h) ==
  /\ closing[h] # Gone
  /\ spentBefore' = spentBefore + closing[h]
  /\ closing' = [closing EXCEPT ![h] = Gone]
  /\ UNCHANGED <<metered, mainUse>> /\ UNCHANGED costVars /\ UNCHANGED timeVars

\* Somebody is heard; a session that closes still hears what was under way.
hearsSomebody(h) ==
  /\ InUse
  /\ \/ metered[h] # Gone /\ metered' = [metered EXCEPT ![h] = @ + 1] /\ UNCHANGED closing
     \/ closing[h] # Gone /\ closing' = [closing EXCEPT ![h] = @ + 1] /\ UNCHANGED metered
  /\ UNCHANGED <<spentBefore, mainUse>> /\ UNCHANGED costVars /\ UNCHANGED timeVars

generates ==
  /\ InUse /\ finalUse = Gone /\ mainUse' = mainUse + 1
  /\ UNCHANGED <<metered, closing, spentBefore>> /\ UNCHANGED costVars /\ UNCHANGED timeVars

(***************************************************************************)
(* Cost: every report prices all that was used so far.                     *)
(***************************************************************************)
priced(k) == IF k \in Unpriced THEN 0 ELSE usage[k]

\* Mutated form: usage that went down and rises again is counted again.
countGrowthFromLast ==
  /\ recorded' = [k \in Metered |-> priced(k)]
  /\ counted' = [k \in Metered |->
       IF priced(k) > recorded[k] THEN counted[k] + priced(k) - recorded[k] ELSE counted[k]]

\* SessionMetrics.usage: a counter grows by what is new.
countGrowth ==
  /\ recorded' = [k \in Metered |-> IF priced(k) > recorded[k] THEN priced(k) ELSE recorded[k]]
  /\ counted' = [k \in Metered |->
       IF priced(k) > recorded[k] THEN counted[k] + priced(k) - recorded[k] ELSE counted[k]]

report_usage(final) ==
  /\ countGrowth
  /\ IF final
       THEN finalUse' = priced("stt") + priced("llm") /\ UNCHANGED <<seenTokens, tokensTold>>
       ELSE /\ seenTokens' = usage.llm
            /\ tokensTold' = tokensTold + usage.llm - seenTokens
            /\ UNCHANGED finalUse

(***************************************************************************)
(* Turns.  A person's turn leaves its timing for the reply that follows;   *)
(* a speech is said, wholly or in part, or is over unheard.                *)
(***************************************************************************)
personsTurn ==
  /\ finalUse = Gone /\ userTurns < MaxTurnsMet
  /\ userTurns' = userTurns + 1 /\ userTurn' = userTurns + 1
  /\ UNCHANGED <<speechOf, reports>> /\ UNCHANGED useVars /\ UNCHANGED costVars

speech_created ==
  /\ finalUse = Gone /\ speechOf = "none" /\ Len(reports) < MaxTurnsMet
  /\ speechOf' = "scheduled"
  /\ UNCHANGED <<userTurn, userTurns, reports>> /\ UNCHANGED useVars /\ UNCHANGED costVars

reportTurn ==
  /\ reports' = Append(reports, userTurn) /\ userTurn' = 0
  /\ report_usage(FALSE)

item_added ==
  /\ speechOf = "scheduled" /\ speechOf' = "said"
  /\ reportTurn
  /\ UNCHANGED userTurns /\ UNCHANGED useVars

\* The speech is done: reported here if nothing of it was heard.
speechDone ==
  /\ speechOf # "none" /\ speechOf' = "none"
  /\ IF speechOf = "scheduled"
       THEN reportTurn
       ELSE UNCHANGED <<reports, userTurn>> /\ UNCHANGED costVars
  /\ UNCHANGED userTurns /\ UNCHANGED useVars

\* The session closes once no speech runs.
closed ==
  /\ finalUse = Gone /\ speechOf = "none"
  /\ report_usage(TRUE)
  /\ UNCHANGED timeVars /\ UNCHANGED useVars

MeteringNext ==
  \/ \E h \in Heads : \/ joinListener(h) \/ leaveListener(h)
                      \/ listenerClosed(h) \/ hearsSomebody(h)
  \/ generates \/ personsTurn \/ speech_created \/ item_added \/ speechDone \/ closed

MeteringSpec == MeteringInit /\ [][MeteringNext]_meteringVars

(***************************************************************************)
(* Properties.                                                             *)
(***************************************************************************)

\* The process never counts a rupee twice: what it counted for a session is
\* at most what the session used, though a report made while a listener
\* closes sees less than the one before it.
NothingIsCountedTwice == \A k \in Metered : counted[k] <= used[k]

\* The timing of one turn of a person goes into one reply's report, the tokens
\* told of the turns are those generated until the last of them.
TimedOnce ==
  /\ \A i, j \in 1 .. Len(reports) : reports[i] = reports[j] /\ i # j => reports[i] = 0
  /\ userTurn # 0 => \A i \in 1 .. Len(reports) : reports[i] # userTurn
  /\ tokensTold = seenTokens

\* Nothing is counted twice and a turn's timing is reported once.
MeteringInv ==
  /\ NothingIsCountedTwice
  /\ TimedOnce
=============================================================================
