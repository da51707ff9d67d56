------------------------------- MODULE Overlaps -------------------------------
(***************************************************************************)
(* How the evaluations measure whether the agent stops when somebody talks *)
(* over her (dafter_evals: probe.Meter, turns.overlap, measure.verdict).   *)
(* A recording is what the probe heard of her in every tick, loud or not,  *)
(* and the states she told; the caller starts at the tick Onset.  A run is *)
(* measured trial by trial and a verdict given over its interruptions.     *)
(***************************************************************************)
EXTENDS Naturals, Sequences, FiniteSets, FiniteSetsExt, SequencesExt

CONSTANTS Onset, Ticks,      \* bound: when the caller starts, ticks recorded
          STOP_QUIET, CONTINUE_GAP, CONTINUE_WINDOW, SPEAKING_AT_ONSET,
          StopBudget,        \* budgets.bargeInStopP50Ms
          NotMeasured

ASSUME OverlapsAssumption ==
  /\ {Onset, Ticks, STOP_QUIET, CONTINUE_GAP, CONTINUE_WINDOW, SPEAKING_AT_ONSET,
      StopBudget} \subseteq Nat \ {0}
  /\ NotMeasured \notin Nat
  /\ Onset + CONTINUE_WINDOW + STOP_QUIET < Ticks

VARIABLES trials,   \* what was recorded in the trials of a run
          outcomes   \* what was measured of the first of them, OverlapResult

overlapsVars == <<trials, outcomes>>

WindowEnd == Onset + CONTINUE_WINDOW
Until == WindowEnd + STOP_QUIET

\* Meter.  Times are ticks, from 1 on.
last_loud_before(loud, t) ==
  LET at == {f \in loud : f <= t} IN IF at = {} THEN NotMeasured ELSE Max(at)

\* Mutated form: quiet is counted from the first frame, not from the last loud one.
quietFromOnset(loud, from, until, run) ==
  LET at == {f \in from + 1 .. until : f \notin loud /\ f - from >= run}
  IN IF at = {} THEN NotMeasured ELSE from

\* The frames from "from" to "until": the last loud one before the first quiet one
\* that is "run" behind it.
quiet_run_start(loud, from, until, run) ==
  LET lastLoud(f) == Max({from} \cup {g \in loud : from < g /\ g < f})
      at == {f \in from + 1 .. until : f \notin loud /\ f - lastLoud(f) >= run}
  IN IF at = {} THEN NotMeasured ELSE lastLoud(Min(at))

loud_since(loud, t) == \E f \in loud : f > t

\* measure.state_stop: how long she went on being "speaking".
state_stop(states) ==
  LET at == {s[1] : s \in {s \in states : Onset < s[1] /\ s[1] <= Until /\ s[2] # "speaking"}}
  IN IF at = {} THEN NotMeasured ELSE Min(at) - Onset

\* turns.overlap, from the recording on.
overlap(r) ==
  LET quiet_from == quiet_run_start(r.loud, Onset, Until, STOP_QUIET)
      stopped == IF r.expectStop THEN quiet_from # NotMeasured /\ quiet_from <= WindowEnd
                 ELSE quiet_run_start(r.loud, Onset, WindowEnd, CONTINUE_GAP) # NotMeasured
      told == {s[2] : s \in {s \in r.states : Onset < s[1] /\ s[1] <= Until}}
      before == last_loud_before(r.loud, Onset)
      speaking == before # NotMeasured /\ Onset - before < SPEAKING_AT_ONSET
  IN [expectStop |-> r.expectStop, agent_stopped |-> stopped,
      stop_ms |-> IF stopped /\ quiet_from # NotMeasured THEN quiet_from - Onset ELSE NotMeasured,
      inconclusive |-> ~speaking \/ (stopped /\ ~r.expectStop /\ "listening" \in told
                                       /\ ~loud_since(r.loud, Until)),
      replied |-> "thinking" \in told,
      state_stop_ms |-> state_stop(r.states)]

\* measure.percentile of a half, rounded as Python does, to the even one.
p50(values) ==
  LET ordered == SortSeq(values, <)
      n == Len(ordered)
      sum == ordered[(n + 1) \div 2] + ordered[(n + 2) \div 2]
  IN IF n = 0 THEN NotMeasured
     ELSE sum \div 2 + (IF sum % 2 = 1 /\ (sum \div 2) % 2 = 1 THEN 1 ELSE 0)

\* summarize, of the interruptions, and the check of verdict about them.
goes(interruptions) ==
  LET inconclusive == {i \in DOMAIN interruptions : interruptions[i].inconclusive}
      stopping == {i \in DOMAIN interruptions \ inconclusive :
                     interruptions[i].state_stop_ms # NotMeasured}
      at == SetToSeq(stopping)
      stops == [k \in DOMAIN at |-> interruptions[at[k]].state_stop_ms]
  IN /\ p50(stops) # NotMeasured /\ p50(stops) <= StopBudget
     /\ Len(interruptions) - Cardinality(inconclusive) - Cardinality(stopping) = 0

\* One trial of whatever she may have said, or two interruptions that differ in
\* whether she spoke at the onset and in what she told and when.
Told == {{}} \cup {{<<t, s>>} : t \in Onset .. Ticks, s \in {"listening", "thinking", "speaking"}}
Runs ==
  {<<r>> : r \in [expectStop : BOOLEAN, loud : SUBSET (1 .. Ticks),
                  states : {{}, {<<Onset + 1, "listening">>}}]}
  \cup LET interruption == [expectStop : {TRUE}, loud : {{}, 1 .. Ticks}, states : Told]
       IN {<<r, q>> : r \in interruption, q \in interruption}

OverlapsInit == trials \in Runs /\ outcomes = <<>>

\* turns.run: the next trial is measured.
overlapMeasured ==
  /\ Len(outcomes) < Len(trials)
  /\ outcomes' = Append(outcomes, overlap(trials[Len(outcomes) + 1]))
  /\ UNCHANGED trials

OverlapsSpec == OverlapsInit /\ [][overlapMeasured]_overlapsVars

(***************************************************************************)
(* Properties.                                                             *)
(***************************************************************************)

\* She is quiet for "run" ticks from q on, where q is the onset or she was loud.
quietFrom(loud, q, run) ==
  (q = Onset \/ q \in loud) /\ \A f \in q + 1 .. q + run : f \notin loud

\* An interruption is said to have stopped her exactly when she went quiet in
\* time and stayed so, and after as long as it took; one that should not stop
\* her exactly when a gap began and was long enough within the window.
StopsAreMeasured ==
  \A i \in DOMAIN outcomes :
    LET quiet(run, until) == {q \in Onset .. until : quietFrom(trials[i].loud, q, run)}
        due == quiet(STOP_QUIET, WindowEnd)
    IN IF trials[i].expectStop
         THEN /\ outcomes[i].agent_stopped = (due # {})
              /\ outcomes[i].stop_ms = IF due = {} THEN NotMeasured ELSE Min(due) - Onset
         ELSE outcomes[i].agent_stopped = (quiet(CONTINUE_GAP, WindowEnd - CONTINUE_GAP) # {})

\* No verdict to go while she told nothing but speaking in the window of an
\* interruption that began while she spoke.
GoesOnlyStopped ==
  outcomes # <<>> /\ goes(outcomes) =>
    \A i \in DOMAIN outcomes :
      (\E t \in trials[i].loud : t <= Onset /\ Onset - t < SPEAKING_AT_ONSET) =>
        \E s \in trials[i].states : s[2] # "speaking" /\ Onset < s[1] /\ s[1] <= Until

OverlapsInv == StopsAreMeasured /\ GoesOnlyStopped
=============================================================================
