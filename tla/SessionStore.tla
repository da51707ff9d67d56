----------------------------- MODULE SessionStore -----------------------------
(***************************************************************************)
(* The rows one call leaves in the control plane's session store           *)
(* (go/internal/state): its session row, its egress rows and its dial-in   *)
(* row.  Every operator below is one SQL statement of the store, which is  *)
(* the unit that is atomic when handlers interleave.  Times are abstracted *)
(* to whether they are set.                                                *)
(***************************************************************************)
EXTENDS Naturals

CONSTANT MaxEgresses   \* bound: recordings the media server starts for the call

ASSUME MaxEgressesAssumption == MaxEgresses \in Nat

VARIABLES
  session,   \* "none", "stored" (row written), "open" (the creator was answered)
  joined,    \* joined_at is set
  ended,     \* ended_at is set
  rows,      \* egresses.stopped_at: no row, NULL ("active") or set ("stopped")
  dialIn     \* the call has a row in dial_ins

storeVars == <<session, joined, ended, rows, dialIn>>

Egresses == 1 .. MaxEgresses   \* an egress id; ids are handed out in start order

StoreTypeOK ==
  /\ session \in {"none", "stored", "open"}
  /\ joined \in BOOLEAN
  /\ ended \in BOOLEAN
  /\ rows \in [Egresses -> {"none", "active", "stopped"}]
  /\ dialIn \in BOOLEAN

StoreInit ==
  /\ session = "none"
  /\ joined = FALSE
  /\ ended = FALSE
  /\ rows = [e \in Egresses |-> "none"]
  /\ dialIn = FALSE

\* state.Store.MarkJoined: only the first join is written.
MarkJoined == joined' = TRUE

\* Mutated form: the test of joined_at is inverted.
EndSessionUnjoined == ended' = (ended \/ ~ joined)

\* state.Store.EndSession: WHERE joined_at != 0 AND ended_at = 0.
EndSession == ended' = (ended \/ joined)

\* EndSession reports whether this statement is the one that set ended_at.
EndsNow == joined /\ ~ended

\* state.Store.AddEgress
AddEgress(e) == rows' = [rows EXCEPT ![e] = "active"]

\* Mutated form: the test of stopped_at is inverted.
StopEgressRowInverted(e) ==
  rows' = [rows EXCEPT ![e] = IF @ = "active" THEN @ ELSE "stopped"]

\* state.Store.StopEgress: WHERE stopped_at IS NULL; no matching row is
\* ErrNotFound, which every caller tolerates.
StopEgressRow(e) ==
  rows' = [rows EXCEPT ![e] = IF @ = "active" THEN "stopped" ELSE @]

\* state.Store.Egresses filtered by state.Egress.Active
ActiveRows == {e \in Egresses : rows[e] = "active"}

\* state.Store.EndDialIn deletes the PIN and the allowed numbers.
EndDialIn == dialIn' = FALSE
===============================================================================
