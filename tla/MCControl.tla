------------------------------ MODULE MCControl ------------------------------
(***************************************************************************)
(* Small instances of InboundCalls and ConfigStore for TLC.  A behaviour   *)
(* is one of a single scene: two calls for the one place there is; one     *)
(* call whose legs and webhooks go wrong in every way; one process on the  *)
(* configuration store; or two on one store, of which the second only      *)
(* starts and writes.  The rest stays as it began, with nothing due that   *)
(* fairness asks for, but in the last scene, whose pollers rest: what a    *)
(* process comes to run is watched with one process alone.                 *)
(***************************************************************************)
EXTENDS InboundCalls, ConfigStore, TLC

CONSTANTS c1, c2, s1, s2
VARIABLE scene

Callers == {"two calls", "one call"}
Stores == {"one process", "two processes"}

\* The first answered twice at most and the second once, no restart, and a
\* dial-back that failed placed no leg.
TwoCalls ==
  /\ crashes' = 0
  /\ answers'[c1] <= 2 /\ answers'[c2] <= 1
  /\ \A h \in Handlers : handler'[h].at = "redial" => placed' = placed
OneCall == caller'[c2] = "new"

\* Two values that do not go with what else there is, a document that git gets
\* later, and edits that meet both.
MCClashes == {"g" :> 2 @@ "a" :> 2, "a" :> 2 @@ "b" :> Gone}
MCCatalogs == {"g" :> Gone @@ "a" :> 1 @@ "b" :> Gone, "g" :> 2 @@ "a" :> 1 @@ "b" :> Gone}
MCEdits == {<<"a", 2>>, <<"b", 1>>, <<"b", Gone>>}

\* A call to the store fails, or the process starts twice.
OneProcess ==
  /\ Down(s2)'
  /\ starts = MaxStarts => faults' = 0 /\ (Up(s1) => Up(s1)')

TwoProcesses ==
  /\ faults' = 0
  /\ Len(revisions') < MaxRevisions
  /\ \A s \in Servers : Up(s) => Up(s)' /\ loading'[s] = loading[s]
  /\ edit'[s2].by \in {"nobody", "change", "import", "seed"}
  /\ edit'[s2].left \subseteq {<<"a", 2>>} \cup (GitDocs \X Values)

ControlInit == scene \in Callers \cup Stores /\ Init /\ ConfigInit

ControlNext ==
  /\ UNCHANGED scene
  /\ \/ scene \in Callers /\ Next /\ UNCHANGED configVars
     \/ scene \in Stores /\ ConfigNext /\ UNCHANGED vars
  /\ scene = "two calls" => TwoCalls
  /\ scene = "one call" => OneCall
  /\ scene = "one process" => OneProcess
  /\ scene = "two processes" => TwoProcesses

ControlSpec ==
  /\ ControlInit /\ [][ControlNext]_<<scene, vars, configVars>>
  /\ Fairness /\ ConfigFairness
=============================================================================
