------------------------------- MODULE MCSync -------------------------------
(***************************************************************************)
(* The synchronizers and what feeds them: the sample builder, the start    *)
(* gate, the older synchronizer's tracks and the sync engine with its      *)
(* regression. Each component is its own specification; one runs in a      *)
(* behaviour, and a property is asked of the component that runs.          *)
(***************************************************************************)
EXTENDS Integers, Sequences, TLC

CONSTANTS
  t1,
  t2,
  t3,           \* tracks
  p1,
  p2,           \* their participants
  s1,
  s2,           \* SSRCs
  i1,
  i2,           \* track IDs
  k1,
  k2,           \* clocks of a sender
  NONE          \* no value

\* t1 and t2 are of one participant; t2 takes over t1's SSRC, and t3 its ID.
Owners == t1 :> p1 @@ t2 :> p1 @@ t3 :> p2
SSRCs == t1 :> s1 @@ t2 :> s1 @@ t3 :> s2
IDs == t1 :> i1 @@ t2 :> i2 @@ t3 :> i1

VARIABLES
  component,    \* the one that runs
  tails, newest, buildS, popped, buildPop, gaveUp,
  gateNow, pushed, gateFirst, gateLast, buffer, score, gateDone, released,
  dropped,
  mode, trackLive, trackThrottled, trackStill, trackNow, trackT, trackLast, trackOut,
  track, ssrcByID, psBySSRC, ps, endEnd, lost, began,
  tracks, trackIDs, engineSt, clocks, session, rtcp,
  slewLive, slewNow, ntp, slewLast, slewT, source,
  media, ntpE, votes

\* Packets over the wrap of the sequence numbers.
SB == INSTANCE SampleBuilder WITH
  M <- 16, maxLate <- 3, Tails <- BOOLEAN, First <- 12, Final <- 21,
  Reorder <- 3, Gap <- 2, s <- buildS, pop <- buildPop
\* Bursts, stalls and a steady pace.
SG == INSTANCE StartGate WITH
  M <- 6, scoreTarget <- 2, maxBuffer <- 3, maxStable <- 3,
  flushAfter <- 40, Delays <- {0, 8, 12, 20}, MaxPackets <- 5,
  now <- gateNow, first <- gateFirst, last <- gateLast, done <- gateDone
\* The older synchronizer's track, with and without a live pipeline, over a wrap.
TT == INSTANCE TrackTimeline WITH
  M <- 16, Modes <- {"WithoutRebase", "Rebase", "OneShot"}, maxTsDiff <- 4,
  maxDriftAdjustment <- 2, oldPacketThreshold <- 2,
  maxMediaRunningTimeDelay <- 3, oneShotDriftCorrectionThreshold <- 2,
  cMaxTimelyPacketAge <- 1, cStartTimeAdjustWindow <- 3, cStartTimeAdjustThreshold <- 2,
  Deadlines <- {1, 99}, NoDeadline <- 99, Bases <- {0}, Firsts <- {0, 1}, StartRTPs <- {0, 13},
  Delays <- {0, 1}, Skews <- {0, 1}, MaxNow <- 4, MaxPTS <- 6, live <- trackLive,
  throttled <- trackThrottled, still <- trackStill,
  now <- trackNow, t <- trackT, last <- trackLast, out <- trackOut
\* Tracks that come, replace each other and go around the end.
SE == INSTANCE SynchronizerEnd WITH
  Tracks <- {t1, t2, t3}, Participants <- {p1, p2}, Owner <- Owners,
  SSRC <- SSRCs, ID <- IDs, MaxPTS <- 1, end <- endEnd
\* Tracks that replace each other.
SY == INSTANCE SyncEngine WITH
  Tracks <- {t1, t2, t3}, SSRC <- SSRCs, ID <- IDs, Owner <- Owners,
  MaxPTS <- 2, st <- engineSt
\* A regression that is right, off, or far off.
SET == INSTANCE SyncEngineTrack WITH
  ntpTrustThreshold <- 3, wallClockSanityThreshold <- 3,
  deadbandThreshold <- 1, slewDivisor <- 2, alphaDivisor <- 2,
  maxMediaRunningTimeDelay <- 2, maxTimelyPacketAge <- 1,
  Deadlines <- {0, 99}, NoDeadline <- 99, Errors <- {0, 3, 8},
  Jitter <- {0, 1}, Discontinuity <- 4, Steps <- {1, 2, 4}, MaxNow <- 6,
  live <- slewLive, now <- slewNow, last <- slewLast, t <- slewT
\* A sender's clock that steps, over a wrap of the timestamps.
NE == INSTANCE NtpEstimator WITH
  M <- 6, maxSRSamples <- 3, minSamplesReady <- 2,
  maxConsecutiveOutliers <- 3, Clocks <- {k1, k2}, Copies <- 3, Final <- 11,
  e <- ntpE

ASSUME Bounds ==
  /\ SB!BuilderAssumption

buildVars == <<tails, newest, buildS, popped, buildPop, gaveUp>>
gateVars == <<gateNow, pushed, gateFirst, gateLast, buffer, score,
              gateDone, released, dropped>>
trackVars == <<mode, trackLive, trackThrottled, trackStill, trackNow, trackT, trackLast, trackOut>>
endVars == <<track, ssrcByID, psBySSRC, ps, endEnd, lost, began>>
engineVars == <<tracks, trackIDs, engineSt, clocks, session, rtcp>>
slewVars == <<slewLive, slewNow, ntp, slewLast, slewT, source>>
ntpVars == <<media, ntpE, votes>>
vars == <<component, buildVars, gateVars, trackVars, endVars, engineVars, slewVars,
          ntpVars>>

Components == {"build", "gate", "track", "end", "engine", "slew", "ntp"}

\* A component that does not run stays in one of its initial states.
Init ==
  /\ component \in Components
  /\ SB!Init /\ (component # "build" => tails)
  /\ SG!Init /\ (component # "gate" => gateLast.frame = 1)
  /\ TT!Init /\ (component # "track" => mode = "OneShot" /\ trackLive = 99 /\ trackNow = 0
                                         /\ trackT.startRTP = 0 /\ ~trackThrottled)
             /\ (trackT.startRTP # 0 => ~trackThrottled /\ trackNow = 0
                                        /\ (mode = "Rebase" => trackLive = 99))
  /\ SE!Init
  /\ SY!Init
  /\ SET!Init /\ (component # "slew" => slewLive = 99 /\ ntp.error = 0)
  /\ NE!Init /\ (component # "ntp" => media = [place |-> 0, clock |-> k1, copies |-> 0])

Next ==
  /\ UNCHANGED component
  /\ \/ /\ component = "build" /\ SB!Next
        /\ UNCHANGED <<gateVars, trackVars, endVars, engineVars, slewVars,
                      ntpVars>>
     \/ /\ component = "gate" /\ SG!Next
        /\ UNCHANGED <<buildVars, trackVars, endVars, engineVars, slewVars,
                      ntpVars>>
     \/ /\ component = "track" /\ TT!Next
        /\ UNCHANGED <<buildVars, gateVars, endVars, engineVars, slewVars,
                      ntpVars>>
     \/ /\ component = "end" /\ SE!Next
        /\ UNCHANGED <<buildVars, gateVars, trackVars, engineVars, slewVars,
                      ntpVars>>
     \/ /\ component = "engine" /\ SY!Next
        /\ UNCHANGED <<buildVars, gateVars, trackVars, endVars, slewVars,
                      ntpVars>>
     \/ /\ component = "slew" /\ SET!Next
        /\ UNCHANGED <<buildVars, gateVars, trackVars, endVars, engineVars,
                      ntpVars>>
     \/ /\ component = "ntp" /\ NE!Next
        /\ UNCHANGED <<buildVars, gateVars, trackVars, endVars, engineVars,
                      slewVars>>

Spec == Init /\ [][Next]_vars

-----------------------------------------------------------------------------
\* The sample builder keeps its own invariants (samplebuilder.go check), pops whole frames in the
\* order they were sent and none twice, and passes over a hole only maxLate packets later.
SamplesWhole ==
  /\ [](component = "build" => SB!TypeOK /\ SB!check /\ SB!FramesWhole)
  /\ SB!FramesInOrder /\ SB!LossIsWaitedFor

\* What the start gate lets through at its pace begins with a frame and holds no burst and no stall,
\* and every packet is released, held or counted (start_gate.go).
StartSteady == component = "gate" => SG!TypeOK /\ SG!PacedStart /\ SG!Accounted /\ SG!WholeStart

\* A track's time does not go back because of a correction, a sender report measures the drift at its
\* own place, a correction stays within the live window, packets of a frame share its fate, and in the
\* one-shot mode nothing creeps (track.go getPTSWithoutRebase, getPTSWithRebase, onSenderReport).
TimelineSteady ==
  /\ [](component = "track" => TT!TypeOK /\ TT!OneShotSettled)
  /\ TT!NoRegress /\ TT!DriftExact /\ TT!StaysLive /\ TT!FrameTogether

\* The older synchronizer's End drains the tracks that are registered to one time, no less than what
\* any track had reached, unless another track took its place (synchronizer.go AddTrack, RemoveTrack,
\* End; participant.go). In the sync engine, what is left of tracks that replaced each other, of
\* estimators, clocks and maps, belongs to a registered track, and the time of a session that ended
\* does not change (syncengine.go AddTrack, RemoveTrack, OnRTCP, End).
EndsTogether ==
  /\ [](component = "end" => SE!TypeOK /\ SE!DrainsTogether)
  /\ [](component = "engine" => SY!TypeOK /\ SY!NoZombies /\ SY!NoUncheckedFit /\ SY!MapsAgree)
  /\ SY!SessionSealed

\* The time of the sync engine's track stays near the wall clock and moves as the media does, whatever
\* the regression says, and the regression follows a clock that stepped and agrees with its reports
\* (syncenginetrack.go, ntpestimator.go).
RegressionFollowed ==
  /\ [](component = "slew" => SET!TypeOK /\ SET!NearWall /\ SET!NothingStale)
  /\ [](component = "ntp" => NE!TypeOK /\ NE!QueryAgrees /\ NE!SteppedClockFollowed)
  /\ SET!Smooth
=============================================================================
