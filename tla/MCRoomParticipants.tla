-------------------------- MODULE MCRoomParticipants --------------------------
(***************************************************************************)
(* RoomParticipants under the names it has in MCRoom, which runs it beside *)
(* the other components of the room.                                       *)
(***************************************************************************)
EXTENDS Naturals, Sequences

CONSTANTS Identities, Tracks, MaxSids, MaxObjects, RoomRestarts, MaxInFlight

VARIABLES
  component,    \* of MCRoom: the one that runs
  remoteParticipants, sidToIdentity, sidDefers, made, part, thread,
  roomMedia, world, roomUpdates, used, roomLink, roomSession, roomOvertaken,
  roomCrossed, stranded

\* Participants that come back under another sid.
RP == INSTANCE RoomParticipants WITH
  media <- roomMedia, updates <- roomUpdates, link <- roomLink,
  session <- roomSession, overtaken <- roomOvertaken, crossed <- roomCrossed,
  MaxRestarts <- RoomRestarts

ASSUME RoomBounds == RP!RoomAssumption

roomVars == <<remoteParticipants, sidToIdentity, sidDefers, made, part,
              thread, roomMedia, world, roomUpdates, used, roomLink,
              roomSession, roomOvertaken, roomCrossed, stranded>>

\* What the room does, whichever component runs.
RoomSpec == RP!Init /\ [][RP!Next]_roomVars

\* Whatever joins, leaves, comes back under another sid and is told again in a snapshot, the room
\* ends up with the SFU's participants and tracks, and each media track that came before its
\* participant is attached (room.go OnParticipantUpdate, OnRestarted, runParticipantDefers).
ParticipantsAgree == component = "room" => RP!TypeOK /\ RP!RoomAgrees /\ RP!MediaFinds
=============================================================================
