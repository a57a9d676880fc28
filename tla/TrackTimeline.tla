---------------------------- MODULE TrackTimeline ----------------------------
(***************************************************************************)
(* TrackSynchronizer (pkg/synchronizer/track.go): the presentation times   *)
(* one track gives its packets, and how sender reports move them.          *)
(*                                                                         *)
(* Time, RTP ticks and the millisecond of "move it forward" are one unit.  *)
(* A packet carries the place p of its frame in the sender's media, whose  *)
(* RTP timestamp is p further than the first one's, modulo M; the sender's *)
(* clock reads p when it is sent.                                          *)
(***************************************************************************)
EXTENDS Integers

CONSTANTS
  M,                         \* timestamps are modulo M: 2^32 in the code
  Modes,                     \* senderReportSyncMode
  maxTsDiff, maxDriftAdjustment, oneShotDriftCorrectionThreshold,
  oldPacketThreshold, maxMediaRunningTimeDelay,
  cMaxTimelyPacketAge, cStartTimeAdjustWindow, cStartTimeAdjustThreshold,
  Deadlines, NoDeadline,     \* how far the pipeline's deadline is behind the clock
  Bases,                     \* how long after the first track this one starts
  Firsts,                    \* when the first packet comes
  StartRTPs,                 \* its timestamp
  Delays,                    \* delays of the network, and estimates of it
  Skews,                     \* by how much the clock of the reports is off the media
  MaxNow, MaxPTS             \* bounds of the clock, and of the times given out

None == -100

VARIABLES
  mode, live,  \* the mode; one of Deadlines
  throttled,   \* driftAdjustmentWindowPercent > 0: an adjustment holds off the next
  still,       \* audio, with audioPTSAdjustmentsDisabled
  now,
  t,           \* the fields of the TrackSynchronizer
  last,        \* the place of the frame of lastTS
  out          \* what became of the packet seen last, or of the report

config == <<mode, live, throttled, still>>
vars == <<config, now, t, last, out>>

Abs(n) == IF n < 0 THEN -n ELSE n
Larger(a, b) == IF a > b THEN a ELSE b
TS(p) == (t.startRTP + p) % M
Dur(a, b) == (a + M - b) % M      \* ToDuration of an unsigned difference
rebases == mode \in {"Rebase", "OneShot"}

Outcomes == {"none", "emitted", "old", "order", "report", "corrected", "refused"}

TypeOK ==
  /\ mode \in Modes /\ live \in Deadlines /\ {throttled, still} \subseteq BOOLEAN
  /\ now \in 0 .. MaxNow
  /\ {t.ts, t.dropped, t.startRTP} \subseteq 0 .. M - 1 /\ t.sr \in -1 .. M - 1
  /\ {t.start, t.base, t.off, t.want, t.pts, t.adj, t.timely, t.next, t.residual} \subseteq Int
  /\ out.what \in Outcomes

\* initialize, by the first packet, which was sent at 0 and came late or not.
Init ==
  /\ mode \in Modes /\ live \in Deadlines /\ throttled \in BOOLEAN
  /\ still \in {FALSE, mode = "WithoutRebase"}   \* no other mode reads it
  /\ now \in Firsts /\ last = None
  /\ out = [what |-> "none", p |-> None, repaired |-> FALSE]
  /\ \E base \in Bases, startRTP \in StartRTPs :
       t = [start |-> now, startRTP |-> startRTP, base |-> base, off |-> base, want |-> base,
            ts |-> 0, pts |-> 0, adj |-> 0, dropped |-> 0, timely |-> None, next |-> 0, sr |-> -1, residual |-> 0]

hasDeadline == live # NoDeadline
deadline == now - live
acceptable(d) == Abs(d) < maxTsDiff

-----------------------------------------------------------------------------
(* GetPTS.                                                                 *)

\* Mutant: each packet of a frame is judged by itself.
Refused_Each(p, received) == oldPacketThreshold # 0 /\ now - received > oldPacketThreshold

\* isPacketTooOld, or another packet of the frame was.
Refused(p, received) ==
  TS(p) = t.dropped \/ (oldPacketThreshold # 0 /\ now - received > oldPacketThreshold)

\* By the distance to the frame before, or by the time of arrival.
Advanced(ts) == t.pts + Dur(ts, t.ts)
Estimated(received) == received - t.start
Raw(ts, received) == IF t.pts = 0 THEN Larger(1, Estimated(received)) ELSE Advanced(ts)
Repaired(ts, received) == Raw(ts, received) < t.pts \/ ~acceptable(Raw(ts, received) - Estimated(received))

\* Mutant: the offset is reset, what is aimed at is not.
clearOneShotDriftCorrections_OffsetOnly(b) == [b EXCEPT !.off = t.base]

clearOneShotDriftCorrections(b) == [b EXCEPT !.off = t.base, !.want = t.base]

\* Mutant: a smaller offset is aimed at whatever the packet.
shouldAdjustPTS_Regress(b, pts) ==
  now >= b.next /\ Abs(b.want - b.off) >= maxDriftAdjustment

shouldAdjustPTS(b, pts) ==
  /\ ~(still /\ mode = "WithoutRebase")
  /\ now >= b.next /\ Abs(b.want - b.off) >= maxDriftAdjustment
  /\ pts - b.pts > maxDriftAdjustment \/ b.want > b.off

maybeAdjustPTSOffset(b, pts) ==
  IF ~shouldAdjustPTS(b, pts) THEN b
  ELSE [b EXCEPT !.off = IF b.want > b.off THEN @ + maxDriftAdjustment ELSE @ - maxDriftAdjustment,
                 !.next = now + IF throttled THEN maxDriftAdjustment ELSE 0]

\* normalizePTSToMediaPipelineTimeline: a track that has been behind for long
\* is pulled to the middle of the live window.
Behind(b, pts) == hasDeadline /\ pts + b.off < deadline
Pulled(b, pts) == Behind(b, pts) /\ b.timely # None /\ now - b.timely > cMaxTimelyPacketAge
Timely(b, pts) == IF Behind(b, pts) /\ b.timely # None /\ ~Pulled(b, pts) THEN b.timely ELSE now
Normal(b, pts) ==
  IF Pulled(b, pts) THEN Larger(0, deadline + maxMediaRunningTimeDelay - b.off) ELSE pts

\* "Always move it forward."
Forward(pts) == IF pts < t.adj THEN t.adj + 1 ELSE pts

Emit(p, received) ==
  LET ts == TS(p)
      repaired == Repaired(ts, received)
      pts == IF repaired THEN Estimated(received) ELSE Raw(ts, received)
      clear == IF repaired /\ mode = "OneShot" THEN clearOneShotDriftCorrections(t) ELSE t
      b == maybeAdjustPTSOffset(clear, pts)
      final == Normal(b, pts)
  IN /\ t' = [b EXCEPT !.ts = ts, !.pts = final, !.adj = Forward(final + b.off), !.timely = Timely(b, pts)]
     /\ last' = p
     /\ out' = [what |-> "emitted", p |-> p, repaired |-> repaired \/ final # pts]

Drop(p, what) ==
  /\ out' = [what |-> what, p |-> p, repaired |-> FALSE]
  /\ t' = [t EXCEPT !.dropped = IF what = "old" THEN TS(p) ELSE @]
  /\ UNCHANGED last

GetPTS(p, received) ==
  /\ IF TS(p) = t.ts THEN /\ out' = [what |-> "emitted", p |-> p, repaired |-> FALSE]
                          /\ UNCHANGED <<t, last>>
     ELSE IF rebases /\ t.ts # 0 /\ Dur(TS(p), t.ts) > M \div 2 THEN Drop(p, "order")
     ELSE IF Refused(p, received) THEN Drop(p, "old")
     ELSE Emit(p, received)
  /\ UNCHANGED <<config, now>>

-----------------------------------------------------------------------------
(* onSenderReport.                                                         *)

\* Mutant: the distance to the last frame is taken without its sign.
SRPTS_Unsigned(r) ==
  t.pts + IF Dur(r, t.ts) < Dur(t.ts, r) THEN Dur(r, t.ts) ELSE Dur(t.ts, r)

SRPTS(r) ==
  IF (IF rebases THEN Dur(r, t.ts) < M \div 2 ELSE r > t.ts)
  THEN t.pts + Dur(r, t.ts) ELSE t.pts - Dur(t.ts, r)

Repeats(r) == t.sr # -1 /\ (r = t.sr \/ (t.sr # 0 /\ Dur(r, t.sr) > M \div 2))

acceptableSRDrift(drift) ==
  Abs(drift) < IF maxMediaRunningTimeDelay > 0 THEN maxMediaRunningTimeDelay ELSE oldPacketThreshold

\* maybeAdjustStartTime and applyQuantizedStartTimeAdvance: the first packet
\* may have come late.  What is left of an adjustment joins the next one.
Advance(r, sent) ==
  LET samplesDiff == Dur(TS(r + now - sent), t.startRTP)
      asked == samplesDiff - (now - t.start)
  IN IF /\ now - t.start <= cStartTimeAdjustWindow /\ samplesDiff < M \div 2
        /\ asked > 0 /\ asked <= cStartTimeAdjustThreshold
     THEN asked + t.residual ELSE 0

Started(r, sent) ==
  LET total == Advance(r, sent)
      applied == (total \div maxDriftAdjustment) * maxDriftAdjustment
  IN IF total = 0 THEN t ELSE [t EXCEPT !.start = @ - applied, !.residual = total - applied]

DriftOf(b, sent, pts) == sent - (b.start + pts)

Report(b, r, what) ==
  /\ t' = [b EXCEPT !.sr = TS(r)]
  /\ out' = [what |-> what, p |-> r, repaired |-> FALSE]

\* The delay is revised once the start is adjusted.
Steers(r, sent, revised) ==
  LET b == IF mode = "Rebase" THEN Started(r, sent) ELSE t
      drift == DriftOf(b, revised, SRPTS(TS(r)))
  IN IF acceptableSRDrift(drift) THEN Report([b EXCEPT !.want = t.base + drift], r, "report")
     ELSE t' = b /\ out' = [what |-> "refused", p |-> r, repaired |-> FALSE]

\* Mutant: a corrected time is not compared with the live window.
InWindow_Any(pts) == hasDeadline

InWindow(pts) == hasDeadline /\ pts >= deadline /\ pts <= deadline + 2 * maxMediaRunningTimeDelay

\* applyOneShotDriftCorrection.
Jumps(r, sent) ==
  LET pts == SRPTS(TS(r))
      drift == sent - t.start + t.base - (pts + t.off)
      jump == Abs(drift) >= oneShotDriftCorrectionThreshold /\ InWindow(pts + t.off + drift)
  IN IF ~acceptableSRDrift(drift) THEN t' = t /\ out' = [what |-> "refused", p |-> r, repaired |-> FALSE]
     ELSE Report(IF jump THEN [t EXCEPT !.off = @ + drift, !.want = t.off + drift] ELSE t, r,
                 IF jump THEN "corrected" ELSE "report")

\* A report on the sender's media at r, sent at the same time by a clock that
\* is off by skew; rebased by the estimated delay.
onSenderReport(r, skew, delay, revised) ==
  LET Rebased(d) == r + skew + (IF rebases THEN d ELSE 0) IN
  /\ ~Repeats(TS(r))
  /\ acceptable(SRPTS(TS(r)) - (now - t.start))
  /\ IF mode = "OneShot" THEN Jumps(r, Rebased(delay))
     ELSE Steers(r, Rebased(delay), Rebased(IF mode = "Rebase" THEN revised ELSE delay))
  /\ UNCHANGED <<config, now, last>>

-----------------------------------------------------------------------------
Tick ==
  /\ now < MaxNow /\ now' = now + 1
  /\ UNCHANGED <<config, t, last, out>>

\* Packets come in order; the rebasing modes check it.  One may wait too
\* long for the application.
Waits == {0, oldPacketThreshold, oldPacketThreshold + 1}

Next ==
  \/ Tick
  \/ \E delay \in Delays, waits \in Waits :
       /\ now - delay - waits >= 0 /\ (rebases \/ now - delay - waits >= last)
       /\ t.adj <= MaxPTS
       /\ GetPTS(now - delay - waits, now - waits)
  \/ \E sent \in 0 .. now, skew \in Skews, delay, revised \in Delays :
       /\ now - sent \in Delays
       /\ onSenderReport(sent, skew, delay, revised)

Spec == Init /\ [][Next]_vars

-----------------------------------------------------------------------------
\* In the one-shot mode the offset moves by corrections alone: what is aimed
\* at never differs from what is used, so packets do not creep towards it.
OneShotSettled == mode = "OneShot" => t.off = t.want

\* "Don't regress the PTS" (track.go): unless a frame's time is repaired by
\* its arrival, a move of the offset never puts it behind the frame before.
NoRegress ==
  [][out'.what = "emitted" /\ t.ts # t'.ts /\ ~out'.repaired /\ t.adj = t.pts + t.off
       => t'.adj = t'.pts + t'.off]_vars

\* A report that is accepted measures the track against the sender's clock at
\* the place the report is about, whichever side of the last frame it lies.
\* With rebasing that is so over a wrap of the timestamps too; without it, one
\* from the other side of a wrap is never accepted (see PlacedByDistance).
DriftExact ==
  [][out'.what = "report" /\ t' # t /\ mode # "OneShot" /\ last # None
       => \E skew \in Skews, delay \in IF rebases THEN Delays ELSE {0} :
            t'.want = t.base + out'.p + skew + delay - (t'.start + t.pts + out'.p - last)]_vars

\* Violated: "pkt.RTPTime > t.lastTS" (track.go:529) does not see a wrap, and
\* without rebasing a report from its other side is taken to be M away.
PlacedByDistance ==
  last # None => \A r \in 0 .. now : SRPTS(TS(r)) = t.pts + r - last

\* A correction leaves the track inside the live window of the pipeline.
StaysLive ==
  [][out'.what = "corrected" /\ t' # t /\ last # None
       => LET pts == t.pts + t'.off + out'.p - last IN
          pts >= deadline /\ pts <= deadline + 2 * maxMediaRunningTimeDelay]_vars

\* All packets of a frame meet the same fate.
FrameTogether ==
  [][out'.p = out.p /\ out.what \in {"emitted", "old"} /\ out'.what \in {"emitted", "old"}
       => out'.what = out.what]_vars

\* With reports and packets without delay, "adjusting only one way" puts the
\* start back to when the sender began, and not before.
StartHolds == t.start >= 0
=============================================================================
