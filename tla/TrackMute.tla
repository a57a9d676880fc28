------------------------------ MODULE TrackMute ------------------------------
(***************************************************************************)
(* The mute state of one local track: LocalTrackPublication.setMuted       *)
(* (publication.go), called by the application and by the signal reader    *)
(* when the SFU mutes the track, and LocalParticipant.updateInfo, which    *)
(* compares the state with the SFU's and sends it again.                   *)
(*                                                                         *)
(* setMuted takes no lock: it swaps the flag, sends, sets the track's own  *)
(* flag and calls back, one after the other.                               *)
(***************************************************************************)
EXTENDS Naturals, Sequences

CONSTANTS
  Callers,               \* application goroutines
  Reader,                \* the signal reader
  MaxCalls, MaxAdmin,    \* bounds: calls of SetMuted; mutes by the SFU
  MaxFailures            \* bound: failures of the signal connection

ASSUME MuteAssumption == Reader \notin Callers /\ {MaxCalls, MaxAdmin, MaxFailures} \subseteq Nat

Procs == Callers \cup {Reader}

VARIABLES
  isMuted,  \* the publication's flag
  track,    \* the LocalTrack's flag: it sends no samples while set
  told,     \* what the last callback said
  proc,     \* each goroutine: where it is in setMuted, and with which value
  sfu,      \* the SFU's flag
  toSFU, fromSFU, link,
  calls, admin, failures, \* bounds
  overlap,  \* two calls of setMuted that changed the flag overlapped
  byAdmin   \* the SFU muted the track, and the application has not set the flag since

sfuVars == <<sfu, toSFU, fromSFU, link>>
bounds == <<calls, admin, failures>>
ghosts == <<overlap, byAdmin>>
vars == <<isMuted, track, told, proc, sfuVars, bounds, ghosts>>

Idle == [at |-> "idle", muted |-> FALSE]

TypeOK ==
  /\ {isMuted, track, told, sfu, overlap, byAdmin} \subseteq BOOLEAN
  /\ proc \in [Procs -> [at : {"idle", "send", "track", "notify", "again"}, muted : BOOLEAN]]
  /\ link \in {"up", "down"}
  /\ calls \in 0 .. MaxCalls /\ admin \in 0 .. MaxAdmin /\ failures \in 0 .. MaxFailures

Init ==
  /\ isMuted = FALSE /\ track = FALSE /\ told = FALSE /\ sfu = FALSE
  /\ proc = [p \in Procs |-> Idle]
  /\ toSFU = <<>> /\ fromSFU = <<>> /\ link = "up"
  /\ calls = 0 /\ admin = 0 /\ failures = 0
  /\ overlap = FALSE /\ byAdmin = FALSE

-----------------------------------------------------------------------------
(* setMuted                                                                *)

Send(m) == toSFU' = IF link = "up" THEN Append(toSFU, m) ELSE toSFU

\* The flag is swapped; a call that changes nothing ends there.
Swap(p, muted, next) ==
  /\ isMuted' = muted
  /\ IF isMuted = muted
     THEN UNCHANGED <<proc, overlap>>
     ELSE /\ proc' = [proc EXCEPT ![p] = [at |-> next, muted |-> muted]]
          /\ overlap' = (overlap \/ \E q \in Procs \ {p} : proc[q].at \in {"send", "track", "notify"})

SetMuted(p, muted) ==
  /\ p # Reader /\ proc[p] = Idle /\ calls < MaxCalls
  /\ calls' = calls + 1
  /\ Swap(p, muted, "send")
  /\ byAdmin' = FALSE
  /\ UNCHANGED <<track, told, sfuVars, admin, failures>>

SendMuteTrack(p) ==
  /\ proc[p].at = "send"
  /\ Send(proc[p].muted)
  /\ proc' = [proc EXCEPT ![p].at = "track"]
  /\ UNCHANGED <<isMuted, track, told, sfu, fromSFU, link, bounds, ghosts>>

trackSetMuted(p) ==
  /\ proc[p].at = "track"
  /\ track' = proc[p].muted
  /\ proc' = [proc EXCEPT ![p].at = "notify"]
  /\ UNCHANGED <<isMuted, told, sfuVars, bounds, ghosts>>

onMuteChanged(p) ==
  /\ proc[p].at = "notify"
  /\ told' = proc[p].muted
  /\ proc' = [proc EXCEPT ![p] = Idle]
  /\ UNCHANGED <<isMuted, track, sfuVars, bounds, ghosts>>

-----------------------------------------------------------------------------
(* The signal reader.                                                      *)

Read(type) ==
  /\ link = "up" /\ proc[Reader] = Idle /\ fromSFU # <<>> /\ Head(fromSFU).type = type
  /\ fromSFU' = Tail(fromSFU)

\* Mutant: a remote mute leaves the track's flag alone.
OnTrackRemoteMuted_FlagOnly ==
  /\ Read("mute")
  /\ Swap(Reader, Head(fromSFU).muted, "notify")
  /\ UNCHANGED <<track, told, sfu, toSFU, link, bounds, byAdmin>>

OnTrackRemoteMuted ==
  /\ Read("mute")
  /\ Swap(Reader, Head(fromSFU).muted, "track")
  /\ UNCHANGED <<track, told, sfu, toSFU, link, bounds, byAdmin>>

\* Mutant: an update is not compared with the flag.
updateInfo_Ignored ==
  /\ Read("update")
  /\ UNCHANGED <<isMuted, track, told, proc, sfu, toSFU, link, bounds, ghosts>>

updateInfo ==
  /\ Read("update")
  /\ proc' = [proc EXCEPT ![Reader].at = IF isMuted = Head(fromSFU).muted THEN "idle" ELSE "again"]
  /\ UNCHANGED <<isMuted, track, told, sfu, toSFU, link, bounds, ghosts>>

\* The flag is read once more, and sent.
SendAgain ==
  /\ proc[Reader].at = "again"
  /\ Send(isMuted)
  /\ proc' = [proc EXCEPT ![Reader] = Idle]
  /\ UNCHANGED <<isMuted, track, told, sfu, fromSFU, link, bounds, ghosts>>

-----------------------------------------------------------------------------
(* The SFU and the signal connection.                                      *)

Tell(ms) == fromSFU' = fromSFU \o ms
Update(m) == <<[type |-> "update", muted |-> m]>>

SFUTakesMute ==
  /\ link = "up" /\ toSFU # <<>>
  /\ toSFU' = Tail(toSFU)
  /\ sfu' = Head(toSFU)
  /\ Tell(IF sfu = Head(toSFU) THEN <<>> ELSE Update(Head(toSFU)))
  /\ UNCHANGED <<isMuted, track, told, proc, link, bounds, ghosts>>

\* A moderator mutes the track: the SFU tells the client to mute, and updates it.
SFUMutes ==
  /\ ~sfu /\ admin < MaxAdmin
  /\ admin' = admin + 1
  /\ sfu' = TRUE /\ byAdmin' = TRUE
  /\ IF link = "up" THEN Tell(<<[type |-> "mute", muted |-> TRUE]>> \o Update(TRUE))
                    ELSE UNCHANGED fromSFU
  /\ UNCHANGED <<isMuted, track, told, proc, toSFU, link, calls, failures, overlap>>

LinkFails ==
  /\ link = "up" /\ failures < MaxFailures
  /\ failures' = failures + 1
  /\ link' = "down" /\ toSFU' = <<>> /\ fromSFU' = <<>>
  /\ UNCHANGED <<isMuted, track, told, proc, sfu, calls, admin, ghosts>>

\* After a resume the SFU sends the participants' state.
Resume ==
  /\ link = "down"
  /\ link' = "up" /\ fromSFU' = Update(sfu)
  /\ UNCHANGED <<isMuted, track, told, proc, sfu, toSFU, bounds, ghosts>>

-----------------------------------------------------------------------------
Next ==
  \/ \E p \in Procs :
       \/ \E b \in BOOLEAN : SetMuted(p, b)
       \/ SendMuteTrack(p) \/ trackSetMuted(p) \/ onMuteChanged(p)
  \/ OnTrackRemoteMuted \/ updateInfo \/ SendAgain
  \/ SFUTakesMute \/ SFUMutes \/ LinkFails \/ Resume

Fairness ==
  /\ \A p \in Procs : WF_vars(SendMuteTrack(p) \/ trackSetMuted(p) \/ onMuteChanged(p))
  /\ WF_vars(OnTrackRemoteMuted \/ updateInfo \/ SendAgain)
  /\ WF_vars(SFUTakesMute) /\ WF_vars(Resume)

Spec == Init /\ [][Next]_vars /\ Fairness

-----------------------------------------------------------------------------
Quiet == link = "up" /\ toSFU = <<>> /\ fromSFU = <<>> /\ \A p \in Procs : proc[p] = Idle

\* The track's own flag and the last callback agree with the publication's.
MediaFollows == track = isMuted /\ told = isMuted

\* The client and the SFU come to agree on the mute and stay so, whatever calls
\* crossed and whatever was lost: the comparison in updateInfo repairs all of
\* it, and does not go on for ever.  The track and the last callback agree with
\* them, unless calls of setMuted overlapped: then the later may be undone by
\* the earlier, and nothing repairs that.
MuteSettles == <>[](Quiet /\ sfu = isMuted /\ (overlap \/ MediaFollows))

\* A remote mute is applied (localparticipant.go 774): the client does not undo
\* it of its own accord.
RemoteMuteApplied == Quiet /\ byAdmin => sfu
=============================================================================
