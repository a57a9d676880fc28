------------------------------ MODULE SyncEngine ------------------------------
(***************************************************************************)
(* SyncEngine, SessionTimeline and ParticipantClock (pkg/synchronizer):    *)
(* which tracks there are, whose estimators they feed, when the session    *)
(* began and where it ends.                                                *)
(*                                                                         *)
(* AddTrack, RemoveTrack and End run under the engine's lock, GetPTS and   *)
(* PrimeForStart under the track's.  OnRTCP looks the track up under the   *)
(* first and feeds its report under the second.  The first track of all    *)
(* publishes the start of the session in two steps, its lock held.         *)
(***************************************************************************)
EXTENDS Naturals

CONSTANTS
  Tracks,            \* syncEngineTracks
  SSRC, ID, Owner,   \* of each track; SSRCs and IDs may be used again
  NONE,
  MaxPTS             \* bound of the times given

SSRCs == {SSRC[t] : t \in Tracks}
IDs == {ID[t] : t \in Tracks}
Participants == {Owner[t] : t \in Tracks}

VARIABLES
  tracks, trackIDs,  \* the engine's maps
  st,                \* the fields of each track
  clocks,            \* of each participant: there, and the estimators of its track IDs
  session,           \* hasStart; startedAt published; ended, endedAt; maxRemovedPTS
  rtcp               \* the reader of RTCP: its place, and the track it found

vars == <<tracks, trackIDs, st, clocks, session, rtcp>>

\* What an estimator is fitted to: nothing after a reset, reports that came
\* before the track's first packet, or reports that were compared with it.
Fits == {"none", "empty", "unchecked", "checked"}

TypeOK ==
  /\ tracks \in [SSRCs -> Tracks \cup {NONE}] /\ trackIDs \in [IDs -> Tracks \cup {NONE}]
  /\ st \in [Tracks -> [pc : {"new", "idle", "publishing"}, initialized : BOOLEAN, emitted : BOOLEAN,
                        closed : BOOLEAN, early : BOOLEAN, pts : 0 .. MaxPTS, max : 0 .. MaxPTS + 1]]
  /\ clocks \in [Participants -> [there : BOOLEAN, fit : [IDs -> Fits]]]
  /\ session \in [hasStart : BOOLEAN, published : BOOLEAN, ended : BOOLEAN,
                  max : 0 .. MaxPTS, maxRemoved : 0 .. MaxPTS]
  /\ rtcp \in [pc : {"idle", "found", "sampling"}, track : Tracks \cup {NONE}]

NoClock == [there |-> FALSE, fit |-> [i \in IDs |-> "none"]]

Init ==
  /\ tracks = [s \in SSRCs |-> NONE] /\ trackIDs = [i \in IDs |-> NONE]
  /\ st = [t \in Tracks |-> [pc |-> "new", initialized |-> FALSE, emitted |-> FALSE, closed |-> FALSE,
                             early |-> FALSE, pts |-> 0, max |-> MaxPTS + 1]]
  /\ clocks = [p \in Participants |-> NoClock]
  /\ session = [hasStart |-> FALSE, published |-> FALSE, ended |-> FALSE, max |-> 0, maxRemoved |-> 0]
  /\ rtcp = [pc |-> "idle", track |-> NONE]

Furthest(S) == CHOOSE n \in S : \A m \in S : m <= n
registered == {t \in Tracks : tracks[SSRC[t]] = t}
unlocked(T) == \A t \in T : st[t].pc # "publishing"

-----------------------------------------------------------------------------
\* Mutant: the estimator of a removed track stays with its participant.
ClocksAfter_Keeps(gone, new) ==
  [p \in Participants |->
     IF \E t \in (registered \ gone) \cup new : Owner[t] = p THEN [clocks[p] EXCEPT !.there = TRUE]
     ELSE NoClock]

\* removeTrackLocked of the gone, and GetOrAddParticipant of the new.
ClocksAfter(gone, new) ==
  [p \in Participants |->
     IF ~\E t \in (registered \ gone) \cup new : Owner[t] = p THEN NoClock
     ELSE [there |-> TRUE,
           fit |-> [i \in IDs |-> IF \E t \in gone : Owner[t] = p /\ ID[t] = i
                                  THEN "none" ELSE clocks[p].fit[i]]]]

Removed(gone) == [session EXCEPT !.maxRemoved = Furthest({@} \cup {st[t].pts : t \in gone})]

\* Tracks with the SSRC or the ID of the new one are removed first.
AddTrack(t) ==
  LET gone == {tracks[SSRC[t]], trackIDs[ID[t]]} \ {NONE} IN
  /\ st[t].pc = "new" /\ unlocked(gone)
  /\ tracks' = [s \in SSRCs |-> IF s = SSRC[t] THEN t ELSE IF tracks[s] \in gone THEN NONE ELSE tracks[s]]
  /\ trackIDs' = [i \in IDs |-> IF i = ID[t] THEN t ELSE IF trackIDs[i] \in gone THEN NONE ELSE trackIDs[i]]
  /\ st' = [u \in Tracks |-> IF u = t THEN [st[u] EXCEPT !.pc = "idle", !.closed = session.ended]
                             ELSE IF u \in gone THEN [st[u] EXCEPT !.closed = TRUE] ELSE st[u]]
  /\ session' = Removed(gone)
  /\ clocks' = ClocksAfter(gone, {t})
  /\ UNCHANGED rtcp

RemoveTrack(i) ==
  LET t == trackIDs[i] IN
  /\ t # NONE /\ unlocked({t})
  /\ tracks' = [tracks EXCEPT ![SSRC[t]] = NONE]
  /\ trackIDs' = [trackIDs EXCEPT ![i] = NONE]
  /\ st' = [st EXCEPT ![t].closed = TRUE]
  /\ session' = Removed({t})
  /\ clocks' = ClocksAfter({t}, {})
  /\ UNCHANGED rtcp

Close(t) ==
  /\ st[t].pc = "idle"
  /\ st' = [st EXCEPT ![t].closed = TRUE]
  /\ UNCHANGED <<tracks, trackIDs, clocks, session, rtcp>>

-----------------------------------------------------------------------------
\* ResetTrack: an estimator that is there forgets its reports.
Reset(t) == [clocks EXCEPT ![Owner[t]].fit[ID[t]] = IF @ = "none" THEN @ ELSE "empty"]

\* Mutant: reports from before the first packet are kept.
ResetAtStart_Not(t) == clocks

ResetAtStart(t) == IF st[t].early THEN Reset(t) ELSE clocks

\* initializeLocked, and initializeIfNeeded up to the start of the timeline.
\* The first packet of GetPTS or PrimeForStart.
Initialize(t) ==
  /\ st[t].pc = "idle" /\ ~st[t].closed /\ ~st[t].initialized
  /\ clocks' = ResetAtStart(t)
  /\ st' = [st EXCEPT ![t].initialized = TRUE, ![t].early = FALSE,
                      ![t].pc = IF session.hasStart THEN "idle" ELSE "publishing"]
  /\ session' = [session EXCEPT !.hasStart = TRUE]
  /\ UNCHANGED <<tracks, trackIDs, rtcp>>

PublishStart(t) ==
  /\ st[t].pc = "publishing"
  /\ session' = [session EXCEPT !.published = TRUE]
  /\ st' = [st EXCEPT ![t].pc = "idle"]
  /\ UNCHANGED <<tracks, trackIDs, clocks, rtcp>>

\* GetPTS: a time that is new and below the ceiling.
GetPTS(t) ==
  /\ st[t].pc = "idle" /\ ~st[t].closed /\ st[t].initialized
  /\ \E pts \in 0 .. MaxPTS :
       /\ st[t].emitted => pts > st[t].pts
       /\ pts <= st[t].max
       /\ st' = [st EXCEPT ![t].pts = pts, ![t].emitted = TRUE]
  /\ UNCHANGED <<tracks, trackIDs, clocks, session, rtcp>>

\* A jump of 30 seconds.
Discontinuity(t) ==
  /\ st[t].pc = "idle" /\ ~st[t].closed /\ st[t].emitted
  /\ clocks' = Reset(t)
  /\ UNCHANGED <<tracks, trackIDs, st, session, rtcp>>

-----------------------------------------------------------------------------
OnRTCP(s) ==
  /\ rtcp.pc = "idle" /\ tracks[s] # NONE
  /\ rtcp' = [pc |-> "found", track |-> tracks[s]]
  /\ UNCHANGED <<tracks, trackIDs, st, clocks, session>>

\* Mutant: the report of a track that was removed meanwhile is not dropped.
Heard_Always(t) == TRUE

Heard(t) == ~st[t].closed

Dropped ==
  /\ rtcp.pc = "found" /\ unlocked({rtcp.track})
  /\ ~Heard(rtcp.track) \/ st[rtcp.track].initialized   \* closed, or outside the RTP domain
  /\ rtcp' = [pc |-> "idle", track |-> NONE]
  /\ UNCHANGED <<tracks, trackIDs, st, clocks, session>>

\* ParticipantClock.OnSenderReport makes an estimator where there is none.
Feed ==
  LET t == rtcp.track IN
  /\ rtcp.pc = "found" /\ unlocked({t}) /\ Heard(t)
  /\ clocks' = IF ~clocks[Owner[t]].there THEN clocks
               ELSE [clocks EXCEPT ![Owner[t]].fit[ID[t]] =
                       IF st[t].initialized /\ @ # "unchecked" THEN "checked" ELSE "unchecked"]
  /\ st' = [st EXCEPT ![t].early = @ \/ ~st[t].initialized]
  /\ rtcp' = [rtcp EXCEPT !.pc = "sampling"]
  /\ UNCHANGED <<tracks, trackIDs, session>>

\* The callback: nothing before startedAt is published, else the timeline is asked.
Sample ==
  /\ rtcp.pc = "sampling"
  /\ rtcp' = [pc |-> "idle", track |-> NONE]
  /\ UNCHANGED <<tracks, trackIDs, st, clocks, session>>

-----------------------------------------------------------------------------
\* Mutant: a track that has not begun drains like the others.
Sealed_Drains(t, max) == [st[t] EXCEPT !.max = max]

\* A track that has given times drains to the furthest; the others are closed.
Sealed(t, max) ==
  IF st[t].emitted THEN [st[t] EXCEPT !.max = max] ELSE [st[t] EXCEPT !.closed = TRUE]

End ==
  LET max == Furthest({session.maxRemoved} \cup {st[t].pts : t \in registered}) IN
  /\ ~session.ended /\ unlocked(registered)
  /\ session' = [session EXCEPT !.ended = TRUE, !.max = max]
  /\ st' = [t \in Tracks |-> IF t \in registered THEN Sealed(t, max) ELSE st[t]]
  /\ UNCHANGED <<tracks, trackIDs, clocks, rtcp>>

Next ==
  \/ \E t \in Tracks : \/ AddTrack(t) \/ Close(t) \/ Initialize(t) \/ PublishStart(t)
                       \/ GetPTS(t) \/ Discontinuity(t)
  \/ \E i \in IDs : RemoveTrack(i)
  \/ \E s \in SSRCs : OnRTCP(s)
  \/ Dropped \/ Feed \/ Sample \/ End

Spec == Init /\ [][Next]_vars

-----------------------------------------------------------------------------
\* "A zombie estimator that nothing will ever clean up" (syncengine.go): every
\* estimator belongs to a track that is registered, and a participant's clock
\* is there while it has tracks.
NoZombies ==
  \A p \in Participants :
    /\ clocks[p].there <=> \E t \in registered : Owner[t] = p
    /\ \A i \in IDs : clocks[p].fit[i] # "none" => trackIDs[i] # NONE /\ Owner[trackIDs[i]] = p

\* Reports that came before a track's first packet, "admitted unchecked", never
\* outlive it: they would keep the right ones out.
NoUncheckedFit ==
  \A t \in registered : st[t].initialized => clocks[Owner[t]].fit[ID[t]] # "unchecked"

\* The two maps name the same tracks.
MapsAgree == \A t \in Tracks : tracks[SSRC[t]] = t <=> trackIDs[ID[t]] = t

\* After End nothing is emitted past the end that was promised, and a track
\* that had not begun, or is added later, never begins.
SessionSealed ==
  [][session.ended => \A t \in Tracks : st'[t].pts # st[t].pts \/ st'[t].emitted # st[t].emitted
       => st[t].emitted /\ st'[t].pts <= session.max]_vars

\* Whoever sees startedAt finds the start of the timeline.
StartIsThere == session.published => session.hasStart
=============================================================================
