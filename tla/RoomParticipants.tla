---------------------------- MODULE RoomParticipants ----------------------------
(***************************************************************************)
(* The remote participants of a room, their publications, and the media    *)
(* tracks that find them (room.go, participant.go, remoteparticipant.go).  *)
(*                                                                         *)
(* Two goroutines apply participant infos: the signal reader, which gets   *)
(* the SFU's updates in order, and the recovery worker, which empties the  *)
(* room before it redials (OnRestarting) and applies the snapshot of the   *)
(* join response when the new reader already runs (OnRestarted).  A media  *)
(* track arrives on a goroutine of its own, before or after the info that  *)
(* tells of it.  One step is one critical section of Room.lock, or what a  *)
(* goroutine does between two of them.                                     *)
(***************************************************************************)
EXTENDS Naturals, Sequences, FiniteSets, SequencesExt

CONSTANTS
  Identities,
  Tracks,        \* track SIDs: each is published at most once
  MaxSids,       \* bound: sessions of one identity
  MaxObjects,    \* bound: RemoteParticipants made for one identity
  MaxRestarts,   \* bound: full reconnects
  MaxInFlight    \* bound: unread updates

RoomAssumption ==
  /\ MaxSids \in Nat \ {0} /\ MaxObjects \in Nat \ {0} /\ MaxInFlight \in Nat \ {0}
  /\ MaxRestarts \in Nat /\ IsFiniteSet(Identities)

Sids == Identities \X (1 .. MaxSids)
Objects == Identities \X (1 .. MaxObjects)
None == <<>>
Updaters == {"reader", "worker"}

VARIABLES
  remoteParticipants, \* identity -> the RemoteParticipant, or None
  sidToIdentity,      \* the SIDs the room knows (the identity is part of a SID here)
  sidDefers,          \* SID -> media tracks that wait for its participant
  made,               \* identity -> RemoteParticipants made
  part,               \* each RemoteParticipant: sid, version, publications, attached media
  thread,             \* what each updater is about
  media,              \* the goroutine of each media track of this session
  world, updates,     \* the SFU: who is in the room, and the updates on their way
  used,               \* the SFU: track SIDs given out
  link, session,
  overtaken,          \* identities an update of which overtook the snapshot of this session
  crossed,            \* ... or of an earlier one
  stranded            \* media deferred or attached too late, or dropped by an older info

roomVars == <<remoteParticipants, sidToIdentity, sidDefers, made>>
sfuVars == <<world, updates, used, link, session>>
ghosts == <<overtaken, crossed>>
vars == <<roomVars, part, thread, media, sfuVars, ghosts, stranded>>

Info == [sid : Sids, version : Nat, tracks : SUBSET Tracks, left : BOOLEAN]
NoPart == [sid |-> None, version |-> 0, pubs |-> {}, attached |-> {}]
Idle == [at |-> "idle", infos |-> <<>>, leaving |-> {}, obj |-> None, old |-> None]
NoMedia == [at |-> "none", sid |-> None, obj |-> None, session |-> 0]

TypeOK ==
  /\ \A i \in Identities : remoteParticipants[i] \in {None} \cup ({i} \X (1 .. made[i]))
  /\ made \in [Identities -> 0 .. MaxObjects]
  /\ sidToIdentity \subseteq Sids
  /\ sidDefers \in [Sids -> SUBSET Tracks]
  /\ \A o \in Objects : /\ part[o].sid \in Sids \cup {None}
                        /\ part[o].attached \subseteq part[o].pubs
                        /\ part[o].pubs \subseteq Tracks
  /\ \A u \in Updaters : thread[u].at \in
       {"idle", "look", "leave", "add", "update", "resid", "clear", "run", "remove", "unpublish"}
  /\ \A t \in Tracks : media[t].at \in
       {"none", "arrived", "deferring", "deferred", "find", "attach", "poll", "attached", "failed"}
  /\ Len(updates) <= MaxInFlight
  /\ used \subseteq Tracks /\ link \in {"up", "down", "joining"} /\ session \in 0 .. MaxRestarts
  /\ overtaken \subseteq crossed /\ crossed \subseteq Identities /\ stranded \subseteq Tracks

Init ==
  /\ remoteParticipants = [i \in Identities |-> None]
  /\ sidToIdentity = {} /\ sidDefers = [s \in Sids |-> {}]
  /\ made = [i \in Identities |-> 0] /\ part = [o \in Objects |-> NoPart]
  /\ thread = [u \in Updaters |-> Idle]
  /\ media = [t \in Tracks |-> NoMedia]
  /\ world = [i \in Identities |-> [sid |-> <<i, 1>>, version |-> 0, tracks |-> {}, left |-> TRUE]]
  /\ updates = <<>> /\ used = {} /\ link = "up" /\ session = 0
  /\ overtaken = {} /\ crossed = {} /\ stranded = {}

-----------------------------------------------------------------------------
(* RemoteParticipant.                                                      *)

\* An info older than the one applied is refused, within one SID.
Refused_AnySid(o, info) == part[o].version > info.version

Refused(o, info) == part[o].version > info.version /\ part[o].sid = info.sid

\* A publication goes with its media.
unpublishTracks(o, gone) ==
  [part[o] EXCEPT !.pubs = @ \ gone, !.attached = @ \ gone]

getPublication(o, t) == t \in part[o].pubs

\* RemoteParticipant.updateInfo: publications come and go with the info's tracks.
updated(o, info) ==
  IF Refused(o, info) THEN part[o]
  ELSE [sid |-> info.sid, version |-> info.version, pubs |-> info.tracks,
        attached |-> part[o].attached \cap info.tracks]

-----------------------------------------------------------------------------
(* The updaters.                                                           *)

Step(u, at) == thread' = [thread EXCEPT ![u].at = at]
StepWith(u, at, obj, old) ==
  thread' = [thread EXCEPT ![u].at = at, ![u].obj = obj, ![u].old = old]

\* On to the next info, or participant to drop.
Proceed(u) ==
  LET dropping == thread[u].at = "unpublish" /\ thread[u].old # None
      rest == IF dropping THEN thread[u].infos ELSE Tail(thread[u].infos) IN
  thread' = [thread EXCEPT ![u] =
    [Idle EXCEPT !.infos = rest, !.leaving = thread[u].leaving,
                 !.at = IF thread[u].leaving # {} THEN "leave"
                        ELSE IF rest # <<>> THEN "look" ELSE "idle"]]

info(u) == Head(thread[u].infos)

\* The identities of which infos tell.
Named(infos) == {infos[j].sid[1] : j \in DOMAIN infos}

Participants == {remoteParticipants[i] : i \in Identities} \ {None}

\* The reader takes the next update, or OnRoomMoved, which empties the room first.
OnParticipantUpdate ==
  /\ link = "up" /\ thread["reader"].at = "idle" /\ updates # <<>>
  /\ LET m == Head(updates)  leaving == IF m.moved THEN Participants ELSE {} IN
     /\ thread' = [thread EXCEPT !["reader"] =
          [Idle EXCEPT !.infos = m.infos, !.leaving = leaving,
                       !.at = IF leaving # {} THEN "leave"
                              ELSE IF m.infos # <<>> THEN "look" ELSE "idle"]]
     /\ overtaken' = IF thread["worker"].infos = <<>> THEN overtaken
                     ELSE IF m.moved THEN Identities ELSE overtaken \cup Named(m.infos)
     /\ crossed' = crossed \cup overtaken'
  /\ updates' = Tail(updates)
  /\ UNCHANGED <<roomVars, part, media, world, used, link, session, stranded>>

Look(u) ==
  /\ thread[u].at = "look"
  /\ LET rp == remoteParticipants[info(u).sid[1]] IN
     IF info(u).left
     THEN IF rp = None THEN Proceed(u) ELSE StepWith(u, "remove", rp, None)
     ELSE IF rp = None THEN Step(u, "add") ELSE StepWith(u, "update", rp, None)
  /\ UNCHANGED <<roomVars, part, media, sfuVars, ghosts, stranded>>

\* addRemoteParticipant: the other updater may have been first.
Add(u) ==
  LET i == info(u).sid[1]
      o == IF remoteParticipants[i] # None THEN remoteParticipants[i] ELSE <<i, made[i] + 1>>
  IN
  /\ thread[u].at = "add" /\ o \in Objects
  /\ part' = [part EXCEPT ![o] = updated(o, info(u))]
  /\ remoteParticipants' = [remoteParticipants EXCEPT ![i] = o]
  /\ made' = [made EXCEPT ![i] = IF o[2] > @ THEN o[2] ELSE @]
  /\ sidToIdentity' = sidToIdentity \cup {info(u).sid}
  /\ StepWith(u, "clear", o, None)
  /\ UNCHANGED <<sidDefers, media, sfuVars, ghosts, stranded>>

Update(u) ==
  /\ thread[u].at = "update"
  /\ LET o == thread[u].obj IN
     /\ part' = [part EXCEPT ![o] = updated(o, info(u))]
     /\ StepWith(u, IF part'[o].sid # part[o].sid THEN "resid" ELSE "clear", o, part[o].sid)
  /\ UNCHANGED <<roomVars, media, sfuVars, ghosts, stranded>>

Resid(u) ==
  /\ thread[u].at = "resid"
  /\ sidDefers' = [sidDefers EXCEPT ![thread[u].old] = {}]
  /\ sidToIdentity' = (sidToIdentity \ {thread[u].old}) \cup {part[thread[u].obj].sid}
  /\ Step(u, "clear")
  /\ UNCHANGED <<remoteParticipants, made, part, media, sfuVars, ghosts, stranded>>

clearParticipantDefers(u) ==
  /\ thread[u].at = "clear"
  /\ sidDefers' = [sidDefers EXCEPT ![info(u).sid] = @ \cap info(u).tracks]
  /\ stranded' = stranded \cup (sidDefers[info(u).sid] \ info(u).tracks)
  /\ Step(u, "run")
  /\ UNCHANGED <<remoteParticipants, sidToIdentity, made, part, media, sfuVars, ghosts>>

\* Deferred media go on with participant o.
runDefers_Lost(sid, o) == sidDefers' = [sidDefers EXCEPT ![sid] = {}] /\ UNCHANGED media

runDefers(sid, o) ==
  /\ sidDefers' = [sidDefers EXCEPT ![sid] = {}]
  /\ media' = [t \in Tracks |-> IF t \in sidDefers[sid]
                                THEN [media[t] EXCEPT !.at = "find", !.obj = o] ELSE media[t]]

runParticipantDefers(u) ==
  /\ thread[u].at = "run"
  /\ runDefers(part[thread[u].obj].sid, thread[u].obj)
  /\ Proceed(u)
  /\ UNCHANGED <<remoteParticipants, sidToIdentity, made, part, sfuVars, ghosts, stranded>>

\* The next participant to drop; its infos are kept (old marks that).
Leave(u, o) ==
  /\ thread[u].at = "leave" /\ o \in thread[u].leaving
  /\ thread' = [thread EXCEPT ![u].leaving = @ \ {o}, ![u].obj = o, ![u].old = o,
                              ![u].at = "remove"]
  /\ UNCHANGED <<roomVars, part, media, sfuVars, ghosts, stranded>>

\* OnParticipantDisconnect, under the lock, and what follows the unlock.
DropParticipant(u) ==
  /\ thread[u].at = "remove"
  /\ LET o == thread[u].obj IN
     /\ remoteParticipants' = [remoteParticipants EXCEPT ![o[1]] = None]
     /\ sidToIdentity' = sidToIdentity \ {part[o].sid}
     /\ sidDefers' = [sidDefers EXCEPT ![part[o].sid] = {}]
  /\ Step(u, "unpublish")
  /\ UNCHANGED <<made, part, media, sfuVars, ghosts, stranded>>

unpublishAllTracks(u) ==
  /\ thread[u].at = "unpublish"
  /\ LET o == thread[u].obj IN part' = [part EXCEPT ![o] = unpublishTracks(o, part[o].pubs)]
  /\ Proceed(u)
  /\ UNCHANGED <<roomVars, media, sfuVars, ghosts, stranded>>

-----------------------------------------------------------------------------
(* The recovery worker.                                                    *)

OnRestarting ==
  /\ link = "down" /\ thread["worker"].at = "idle" /\ session < MaxRestarts
  /\ link' = "joining"
  /\ thread' = [thread EXCEPT !["worker"] =
       [Idle EXCEPT !.leaving = Participants, !.at = IF Participants = {} THEN "idle" ELSE "leave"]]
  /\ overtaken' = Named(thread["reader"].infos)
  /\ crossed' = crossed \cup overtaken'
  /\ UNCHANGED <<roomVars, part, media, world, updates, used, session, stranded>>

\* OnJoinResponse: the new reader runs before the snapshot is applied.  The media
\* of the old peer connection are over, but what they deferred is kept.
OnRestarted ==
  /\ link = "joining" /\ \A u \in Updaters : thread[u].at = "idle"
  /\ \A t \in Tracks : media[t].at \in {"none", "deferred", "attached", "failed"}
  /\ link' = "up" /\ session' = session + 1
  /\ \E order \in SetToSeqs({i \in Identities : ~world[i].left}) :
       thread' = [thread EXCEPT !["worker"] =
            [Idle EXCEPT !.infos = [j \in DOMAIN order |-> world[order[j]]],
                         !.at = IF order = <<>> THEN "idle" ELSE "look"]]
  /\ media' = [t \in Tracks |-> IF media[t].at = "deferred" THEN media[t] ELSE NoMedia]
  /\ stranded' = {}
  /\ UNCHANGED <<roomVars, part, world, updates, used, ghosts>>

-----------------------------------------------------------------------------
(* Media tracks.                                                           *)

MediaStep(t, at, o) == media' = [media EXCEPT ![t].at = at, ![t].obj = o]

\* The subscriber's peer connection reports a track the SFU forwards, once a session.
OnTrack(t, i) ==
  /\ link = "up" /\ t \in world[i].tracks
  /\ \/ media[t].at = "none"
     \/ media[t].session < session /\ media[t].at \in {"deferred", "attached", "failed"}
  /\ media' = [media EXCEPT ![t] =
                 [at |-> "arrived", sid |-> world[i].sid, obj |-> None, session |-> session]]
  /\ UNCHANGED <<roomVars, part, thread, sfuVars, ghosts, stranded>>

GetParticipantBySID(s) == IF s \in sidToIdentity THEN remoteParticipants[s[1]] ELSE None

OnMediaTrack(t) ==
  /\ media[t].at = "arrived"
  /\ LET rp == GetParticipantBySID(media[t].sid) IN
     MediaStep(t, IF rp = None THEN "deferring" ELSE "find", rp)
  /\ UNCHANGED <<roomVars, part, thread, sfuVars, ghosts, stranded>>

\* The participant may have come since: nothing runs the update then.
deferParticipantUpdate(t) ==
  /\ media[t].at = "deferring"
  /\ sidDefers' = [sidDefers EXCEPT ![media[t].sid] = @ \cup {t}]
  /\ MediaStep(t, "deferred", None)
  /\ stranded' = IF media[t].sid \in sidToIdentity THEN stranded \cup {t} ELSE stranded
  /\ UNCHANGED <<remoteParticipants, sidToIdentity, made, part, thread, sfuVars, ghosts>>

\* addSubscribedMediaTrack: the publication is there, or a goroutine waits for it;
\* after that the goroutine of an undeferred track runs what others deferred.
Find(t) ==
  /\ media[t].at \in {"find", "poll"}
  /\ LET o == media[t].obj IN
     /\ media[t].at = "poll" => getPublication(o, t)
     /\ sidDefers' = IF media[t].at = "find"
                     THEN [sidDefers EXCEPT ![media[t].sid] = {}] ELSE sidDefers
     /\ media' = [m \in Tracks |->
          IF m = t THEN [media[t] EXCEPT !.at = IF getPublication(o, t) THEN "attach" ELSE "poll"]
          ELSE IF media[t].at = "find" /\ m \in sidDefers[media[t].sid]
          THEN [media[m] EXCEPT !.at = "find", !.obj = o] ELSE media[m]]
  /\ UNCHANGED <<remoteParticipants, sidToIdentity, made, part, thread, sfuVars, ghosts,
                 stranded>>

\* OnTrackSubscriptionFailed, after five seconds.
PollEnds(t) ==
  /\ media[t].at = "poll"
  /\ MediaStep(t, "failed", media[t].obj)
  /\ UNCHANGED <<roomVars, part, thread, sfuVars, ghosts, stranded>>

\* setReceiverAndTrack and OnTrackSubscribed; the publication may be gone by now.
Attach(t) ==
  /\ media[t].at = "attach"
  /\ LET o == media[t].obj IN
     IF getPublication(o, t)
     THEN /\ part' = [part EXCEPT ![o].attached = @ \cup {t}] /\ UNCHANGED stranded
     ELSE /\ stranded' = stranded \cup {t} /\ UNCHANGED part
  /\ MediaStep(t, "attached", media[t].obj)
  /\ UNCHANGED <<roomVars, thread, sfuVars, ghosts>>

-----------------------------------------------------------------------------
(* The SFU.                                                                *)

Send(m) == IF link = "up"
           THEN Len(updates) < MaxInFlight /\ updates' = Append(updates, m)
           ELSE UNCHANGED updates

\* A change of participant i, with the update that tells it.
Tell(i, w) ==
  /\ world' = [world EXCEPT ![i] = w]
  /\ used' = used \cup w.tracks
  /\ Send([moved |-> FALSE, infos |-> <<w>>])
  /\ UNCHANGED <<roomVars, part, thread, media, link, session, ghosts, stranded>>

Joins(i) ==
  /\ world[i].left
  /\ LET n == IF world[i].version = 0 THEN 1 ELSE world[i].sid[2] + 1 IN
     /\ n <= MaxSids
     /\ Tell(i, [sid |-> <<i, n>>, version |-> 1, tracks |-> {}, left |-> FALSE])

\* The same identity connects again: its new session replaces the old one.
Replaces(i) ==
  /\ ~world[i].left /\ world[i].sid[2] < MaxSids
  /\ Tell(i, [sid |-> <<i, world[i].sid[2] + 1>>, version |-> 1, tracks |-> {}, left |-> FALSE])

Departs(i) ==
  /\ ~world[i].left
  /\ Tell(i, [world[i] EXCEPT !.left = TRUE, !.tracks = {}, !.version = @ + 1])

Publishes(i, t) ==
  /\ ~world[i].left /\ t \notin used
  /\ Tell(i, [world[i] EXCEPT !.tracks = @ \cup {t}, !.version = @ + 1])

Unpublishes(i, t) ==
  /\ t \in world[i].tracks
  /\ Tell(i, [world[i] EXCEPT !.tracks = @ \ {t}, !.version = @ + 1])

\* The client is moved to a room in which it finds the identities of order.
Moves(order) ==
  LET there == {order[j] : j \in DOMAIN order}
      w == [i \in Identities |->
              IF i \in there
              THEN [sid |-> <<i, world[i].sid[2] + 1>>, version |-> 1, tracks |-> {}, left |-> FALSE]
              ELSE [world[i] EXCEPT !.left = TRUE, !.tracks = {}]] IN
  /\ link = "up" /\ \A i \in there : world[i].sid[2] < MaxSids
  /\ world' = w
  /\ Send([moved |-> TRUE, infos |-> [j \in DOMAIN order |-> w[order[j]]]])
  /\ UNCHANGED <<roomVars, part, thread, media, used, link, session, ghosts, stranded>>

LinkFails ==
  /\ link = "up" /\ session < MaxRestarts /\ thread["worker"].at = "idle"
  /\ link' = "down" /\ updates' = <<>>
  /\ UNCHANGED <<roomVars, part, thread, media, world, used, session, ghosts, stranded>>

-----------------------------------------------------------------------------
Next ==
  \/ OnParticipantUpdate \/ OnRestarting \/ OnRestarted \/ LinkFails
  \/ \E u \in Updaters : \/ Look(u) \/ Add(u) \/ Update(u) \/ Resid(u) \/ DropParticipant(u)
                         \/ clearParticipantDefers(u) \/ runParticipantDefers(u)
                         \/ unpublishAllTracks(u)
  \/ \E u \in Updaters, o \in Objects : Leave(u, o)
  \/ \E t \in Tracks : \/ OnMediaTrack(t) \/ deferParticipantUpdate(t) \/ Find(t)
                       \/ PollEnds(t) \/ Attach(t)
  \/ \E i \in Identities : \/ Joins(i) \/ Replaces(i) \/ Departs(i)
                           \/ \E t \in Tracks : Publishes(i, t) \/ Unpublishes(i, t) \/ OnTrack(t, i)
  \/ \E order \in SetToAllKPermutations(Identities) : Moves(order)

Spec == Init /\ [][Next]_vars

-----------------------------------------------------------------------------
\* No updater is at work and no update is on its way.
Settled == link = "up" /\ updates = <<>> /\ \A u \in Updaters : thread[u].at = "idle"

\* Then the room lists who the SFU has, under the SID it has them, with their
\* tracks, and looks them up by that SID: whatever leaves, rejoins, reconnects and
\* snapshots came between.  It knows no other SID.  Left out are identities an
\* update of which was applied while the snapshot of the reconnect still was to be,
\* and for the last, as old SIDs stay, those of earlier reconnects too.
RoomAgrees ==
  Settled =>
    \A i \in Identities \ overtaken :
      LET rp == remoteParticipants[i]
          sids == {s \in sidToIdentity : s[1] = i} IN
      /\ rp # None <=> ~world[i].left
      /\ rp # None => /\ part[rp].sid = world[i].sid /\ part[rp].pubs = world[i].tracks
                      /\ part[rp].sid \in sids
      /\ i \notin crossed => sids \subseteq {world[i].sid} /\ (rp = None => sids = {})

\* And each media track that arrived for a track still published is attached to
\* its publication, or failed after the wait: none waits for good for a
\* participant that is there.  Left out is a track deferred when its participant
\* had come already, and one attached when its publication was gone.
MediaFinds ==
  Settled =>
    \A t \in Tracks, i \in Identities :
      /\ t \in world[i].tracks /\ i \notin overtaken /\ media[t].at # "none"
      /\ media[t].session = session /\ t \notin stranded
      => \/ media[t].at \in {"arrived", "deferring", "find", "attach", "poll", "failed"}
         \/ media[t].at = "attached" /\ t \in part[remoteParticipants[i]].attached
=============================================================================
