------------------------------ MODULE MediaServer ------------------------------
(***************************************************************************)
(* The media server (LiveKit) as go/internal/transport calls it and as its *)
(* webhooks reach go/internal/control/webhook.go.  It is external to the   *)
(* repository: only what the control plane relies on is modelled - one     *)
(* room, the people in it, the tracks they publish, the egresses that      *)
(* record them and the webhooks sent about them.                           *)
(***************************************************************************)
EXTENDS SessionStore

CONSTANTS
  People,   \* participant identities the control plane mints (p_...)
  Tracks,   \* track ids, each published at most once
  None,     \* no track, no egress, nobody
  EgressesFail   \* an egress may end by itself while its room is open

ASSUME EgressesFailAssumption == EgressesFail \in BOOLEAN
ASSUME NoneAssumption == None \notin People \cup Tracks \cup Egresses

VARIABLES
  room,     \* the room exists on the media server
  tokens,   \* people holding a join token for the room
  inside,   \* people in the room
  tracks,   \* tracks[t]: "new", then "live" while published, then "gone"
  media,    \* media[e]: the status ListEgress reports for egress e
  kind,     \* kind[e]: who asked for e, fixed when it starts
  track,    \* track[e]: the track a voice recording attaches to
  hooks     \* webhooks sent and not yet taken by a handler

mediaVars == <<room, tokens, inside, tracks, media, kind, track, hooks>>

Kinds == {"none", "auto", "manual", "voice"}

JoinedHook    == [event |-> "participant_joined", of |-> None]
TrackHook(t)  == [event |-> "track_published",    of |-> t]
EgressHook(e) == [event |-> "egress_ended",       of |-> e]
FinishedHook  == [event |-> "room_finished",      of |-> None]

Hooks == {JoinedHook, FinishedHook} \cup {TrackHook(t) : t \in Tracks}
                                    \cup {EgressHook(e) : e \in Egresses}

MediaTypeOK ==
  /\ room \in BOOLEAN
  /\ tokens \in SUBSET People
  /\ inside \in SUBSET tokens
  /\ tracks \in [Tracks -> {"new", "live", "gone"}]
  /\ media \in [Egresses -> {"unused", "running", "ending", "ended", "forgotten"}]
  /\ kind \in [Egresses -> Kinds]
  /\ track \in [Egresses -> Tracks \cup {None}]
  /\ hooks \in SUBSET Hooks
  /\ inside # {} => room

MediaInit ==
  /\ room = FALSE
  /\ tokens = {}
  /\ inside = {}
  /\ tracks = [t \in Tracks |-> "new"]
  /\ media = [e \in Egresses |-> "unused"]
  /\ kind = [e \in Egresses |-> "none"]
  /\ track = [e \in Egresses |-> None]
  /\ hooks = {}

Running == {e \in Egresses : media[e] = "running"}

\* The id the next egress gets.
Fresh(e) == /\ media[e] = "unused"
            /\ \A f \in Egresses : f < e => media[f] # "unused"

\* Somebody with a token enters; the first one in opens the room again.
Enter(p) ==
  /\ p \in tokens \ inside
  /\ inside' = inside \cup {p}
  /\ room' = TRUE
  /\ hooks' = hooks \cup {JoinedHook}
  /\ UNCHANGED <<tokens, tracks, media, kind, track>>

Publish(t) ==
  /\ inside # {}
  /\ tracks[t] = "new"
  /\ tracks' = [tracks EXCEPT ![t] = "live"]
  /\ hooks' = hooks \cup {TrackHook(t)}
  /\ UNCHANGED <<room, tokens, inside, media, kind, track>>

Unpublished == [t \in Tracks |-> IF tracks[t] = "live" THEN "gone" ELSE tracks[t]]

\* A person leaves; with the last of them every published track is gone.
Leave(p) ==
  /\ p \in inside
  /\ inside' = inside \ {p}
  /\ tracks' = IF inside = {p} THEN Unpublished ELSE tracks
  /\ UNCHANGED <<room, tokens, media, kind, track, hooks>>

\* empty_timeout or departure_timeout: nobody is left, the room closes and
\* what recorded it starts to end.
RoomCloses ==
  /\ room
  /\ inside = {}
  /\ room' = FALSE
  /\ media' = [e \in Egresses |-> IF media[e] = "running" THEN "ending" ELSE media[e]]
  /\ hooks' = hooks \cup {FinishedHook}
  /\ UNCHANGED <<tokens, inside, tracks, kind, track>>

\* An egress reaches COMPLETE, FAILED, ABORTED or LIMIT_REACHED, after a stop
\* or by itself.
EgressFinishes(e) ==
  /\ media[e] = "ending" \/ (media[e] = "running" /\ EgressesFail)
  /\ media' = [media EXCEPT ![e] = "ended"]
  /\ hooks' = hooks \cup {EgressHook(e)}
  /\ UNCHANGED <<room, tokens, inside, tracks, kind, track>>

\* ListEgress stops reporting an egress that ended long ago.
Forget(e) ==
  /\ media[e] = "ended"
  /\ media' = [media EXCEPT ![e] = "forgotten"]
  /\ UNCHANGED <<room, tokens, inside, tracks, kind, track, hooks>>

MediaStep ==
  \/ \E p \in People : Enter(p) \/ Leave(p)
  \/ \E t \in Tracks : Publish(t)
  \/ RoomCloses
  \/ \E e \in Egresses : EgressFinishes(e) \/ Forget(e)
===============================================================================
