--------------------------- MODULE SynchronizerEnd ---------------------------
(***************************************************************************)
(* Synchronizer and participantSynchronizer (pkg/synchronizer): tracks     *)
(* come, give packets their times and go, while End looks for the time all *)
(* of them drain to.  Adding and removing a track each take the lock of    *)
(* the Synchronizer first and the participant's after it is released; End  *)
(* holds the first and takes the others in turn.  A participant keeps its  *)
(* tracks by SSRC; RemoveTrack finds the SSRC by the track's ID and the    *)
(* participant by the SSRC.                                                *)
(* Sender reports are left to TrackTimeline.                               *)
(***************************************************************************)
EXTENDS Naturals

CONSTANTS
  Tracks, Participants,
  Owner,        \* the participant of each track
  SSRC, ID,     \* of each track
  NONE,         \* no entry
  MaxPTS        \* bound of the times given

VARIABLES
  track,   \* of each track: pc of its calls, where it is removed from, pts and maxPTS
  ssrcByID, psBySSRC,
  ps,      \* of each participant: its tracks, by SSRC, and maxRemovedPTS
  end,     \* End: pc, the participants left, maxPTS; endedAt
  lost,    \* the tracks another one's call took out of their participant
  began    \* when End began: the time each track had reached, and which were registered

vars == <<track, ssrcByID, psBySSRC, ps, end, lost, began>>

Stages == {"new", "adding", "added", "removing", "removed"}
SSRCs == {SSRC[t] : t \in Tracks}
IDs == {ID[t] : t \in Tracks}

TypeOK ==
  /\ track \in [Tracks -> [pc : Stages, from : {NONE} \cup (Participants \X SSRCs), started : BOOLEAN,
                           pts : 0 .. MaxPTS, max : 0 .. MaxPTS]]
  /\ ssrcByID \in [IDs -> SSRCs \cup {NONE}] /\ psBySSRC \in [SSRCs -> Participants \cup {NONE}]
  /\ ps \in [Participants -> [tracks : [SSRCs -> Tracks \cup {NONE}], maxRemoved : 0 .. MaxPTS]]
  /\ end \in [pc : {"idle", "asks", "drains", "done"}, left : SUBSET Participants, max : 0 .. MaxPTS]
  /\ lost \subseteq Tracks /\ began \in [reached : [Tracks -> 0 .. MaxPTS], present : SUBSET Tracks]

Init ==
  /\ track = [t \in Tracks |-> [pc |-> "new", from |-> NONE, started |-> FALSE, pts |-> 0, max |-> 0]]
  /\ ssrcByID = [id \in IDs |-> NONE] /\ psBySSRC = [ssrc \in SSRCs |-> NONE]
  /\ ps = [p \in Participants |-> [tracks |-> [ssrc \in SSRCs |-> NONE], maxRemoved |-> 0]]
  /\ end = [pc |-> "idle", left |-> {}, max |-> 0]
  /\ lost = {} /\ began = [reached |-> [t \in Tracks |-> 0], present |-> {}]

Furthest(S) == CHOOSE n \in S : \A m \in S : m <= n
Of(p) == {ps[p].tracks[ssrc] : ssrc \in SSRCs} \ {NONE}
unlocked == end.pc \in {"idle", "done"}

-----------------------------------------------------------------------------
AddTrack(t) ==
  /\ unlocked /\ track[t].pc = "new"
  /\ ssrcByID' = [ssrcByID EXCEPT ![ID[t]] = SSRC[t]]
  /\ psBySSRC' = [psBySSRC EXCEPT ![SSRC[t]] = Owner[t]]
  /\ track' = [track EXCEPT ![t].pc = "adding"]
  /\ UNCHANGED <<ps, end, lost, began>>

\* A track with the same SSRC is replaced.
AddTrackRegister(t) ==
  /\ track[t].pc = "adding"
  /\ ps' = [ps EXCEPT ![Owner[t]].tracks[SSRC[t]] = t]
  /\ lost' = lost \cup ({ps[Owner[t]].tracks[SSRC[t]]} \ {NONE})
  /\ track' = [track EXCEPT ![t].pc = "added"]
  /\ UNCHANGED <<ssrcByID, psBySSRC, end, began>>

\* initialize asks the Synchronizer when the first track started.
initialize(t) ==
  /\ unlocked /\ track[t].pc = "added" /\ ~track[t].started
  /\ track' = [track EXCEPT ![t].started = TRUE]
  /\ UNCHANGED <<ssrcByID, psBySSRC, ps, end, lost, began>>

\* GetPTS; a time beyond maxPTS is the end of the track.  A track is used
\* until it is removed.
GetPTS(t) ==
  /\ track[t].started /\ track[t].pc \in {"added", "removing"}
  /\ \E pts \in track[t].pts + 1 .. MaxPTS :
       /\ track[t].max = 0 \/ pts <= track[t].max
       /\ track' = [track EXCEPT ![t].pts = pts]
  /\ UNCHANGED <<ssrcByID, psBySSRC, ps, end, lost, began>>

\* By the track's ID, which a later track may have taken.
RemoveTrack(t) ==
  LET ssrc == ssrcByID[ID[t]]
      p == IF ssrc = NONE THEN NONE ELSE psBySSRC[ssrc]
  IN /\ unlocked /\ track[t].pc = "added"
     /\ ssrcByID' = [ssrcByID EXCEPT ![ID[t]] = NONE]
     /\ psBySSRC' = [s \in SSRCs |-> IF s = ssrc THEN NONE ELSE psBySSRC[s]]
     /\ track' = [track EXCEPT ![t].pc = IF p = NONE THEN "removed" ELSE "removing",
                              ![t].from = IF p = NONE THEN NONE ELSE <<p, ssrc>>,
                              ![t].started = @ /\ p # NONE]
     /\ UNCHANGED <<ps, end, lost, began>>

\* Mutant: what a removed track had reached is forgotten.
Left_Forgets(p, ssrc) == [ps EXCEPT ![p].tracks[ssrc] = NONE]

Left(p, ssrc) ==
  LET u == ps[p].tracks[ssrc] IN
  [ps EXCEPT ![p].tracks[ssrc] = NONE,
             ![p].maxRemoved = IF u = NONE THEN @ ELSE Furthest({@, track[u].pts})]

removeTrack(t) ==
  LET p == track[t].from[1]
      ssrc == track[t].from[2]
  IN /\ track[t].pc = "removing"
     /\ ps' = Left(p, ssrc)
     /\ lost' = lost \cup ({ps[p].tracks[ssrc]} \ {NONE, t})
     /\ track' = [track EXCEPT ![t].pc = "removed", ![t].from = NONE, ![t].started = FALSE]
     /\ UNCHANGED <<ssrcByID, psBySSRC, end, began>>

-----------------------------------------------------------------------------
End ==
  /\ unlocked /\ end.pc = "idle"
  /\ end' = [pc |-> "asks", left |-> Participants, max |-> 0]
  /\ began' = [reached |-> [t \in Tracks |-> track[t].pts],
               present |-> UNION {Of(p) : p \in Participants}]
  /\ UNCHANGED <<track, ssrcByID, psBySSRC, ps, lost>>

getMaxPTSAdjusted(p) == Furthest({ps[p].maxRemoved} \cup {track[t].pts : t \in Of(p)})

EndAsks(p) ==
  /\ end.pc = "asks" /\ p \in end.left
  /\ end' = [pc |-> IF end.left = {p} THEN "drains" ELSE "asks",
             left |-> IF end.left = {p} THEN Participants ELSE end.left \ {p},
             max |-> Furthest({end.max, getMaxPTSAdjusted(p)})]
  /\ UNCHANGED <<track, ssrcByID, psBySSRC, ps, lost, began>>

\* Mutant: a participant's tracks drain to its own time.
Ceiling_Own(p) == getMaxPTSAdjusted(p)

Ceiling(p) == end.max

drain(p) ==
  /\ end.pc = "drains" /\ p \in end.left
  /\ track' = [t \in Tracks |-> IF t \in Of(p) THEN [track[t] EXCEPT !.max = Ceiling(p)] ELSE track[t]]
  /\ end' = [end EXCEPT !.left = @ \ {p}, !.pc = IF end.left = {p} THEN "done" ELSE @]
  /\ UNCHANGED <<ssrcByID, psBySSRC, ps, lost, began>>

Next ==
  \/ \E t \in Tracks : \/ AddTrack(t) \/ AddTrackRegister(t) \/ initialize(t) \/ GetPTS(t)
                       \/ RemoveTrack(t) \/ removeTrack(t)
  \/ End
  \/ \E p \in Participants : EndAsks(p) \/ drain(p)

Spec == Init /\ [][Next]_vars

-----------------------------------------------------------------------------
\* The time End looks for is no less than what any track had reached when it
\* began, of whatever participant, still there or removed; and every track
\* that was there then and is not removed drains to that time.  Except for a
\* track that another one's call took out: by its SSRC, or by its ID.
DrainsTogether ==
  end.pc = "done" =>
    /\ \A t \in Tracks \ lost : end.max >= began.reached[t]
    /\ \A t \in began.present \ lost : track[t].pc = "added" => track[t].max = end.max

\* Violated: a track that lost its place to a later one with its SSRC, or by the
\* removal of an earlier one with its ID, goes on, and End does not see it.
EveryTrackCounts ==
  end.pc = "done" => \A t \in Tracks : end.max >= began.reached[t]

\* endedAt is the time of the last packet: "the furthest adjusted PTS any track
\* has actually reached" (synchronizer.go).  A track that advances between the
\* two rounds, or is registered after the second, is beyond it.
NothingBeyond == end.pc = "done" => \A t \in Tracks : track[t].pts <= end.max

\* Every track that is not removed is told where to end.
EveryTrackEnds ==
  end.pc = "done" => \A t \in Tracks : track[t].pc = "added" => track[t].max # 0
=============================================================================
