---------------------------- MODULE NtpEstimator ----------------------------
(***************************************************************************)
(* NtpEstimator (pkg/synchronizer/ntpestimator.go): which sender reports   *)
(* the regression of a track is made of, and how RTP timestamps that wrap  *)
(* are placed on it.                                                       *)
(*                                                                         *)
(* A report says that the sender's clock c reads the time of place r of    *)
(* the media; its RTP timestamp is r modulo M.  Unwrapped, it is r plus    *)
(* whole turns of M.  Samples of one clock and one turn lie on a line; a   *)
(* report off that line is an outlier.                                     *)
(***************************************************************************)
EXTENDS Integers, Sequences

CONSTANTS
  M,                       \* timestamps are modulo M: 2^32 in the code
  maxSRSamples, minSamplesReady, maxConsecutiveOutliers,
  Clocks,                  \* clocks of the sender: the second one after a step
  Copies,                  \* how often a report is dispatched
  Final                    \* bound: the media's last place

VARIABLES
  media,    \* the place, and the clock, of the report dispatched last; how often it was
  e,        \* the estimator
  votes     \* reports since the last one accepted

vars == <<media, e, votes>>

Empty == [samples |-> <<>>, has |-> FALSE, lastRTP |-> 0, offset |-> 0, ready |-> FALSE, outliers |-> 0]

TypeOK ==
  /\ media.place \in 0 .. Final /\ media.clock \in Clocks /\ media.copies \in 0 .. Copies
  /\ Len(e.samples) <= maxSRSamples /\ e.lastRTP \in 0 .. M - 1
  /\ e.outliers \in 0 .. maxConsecutiveOutliers - 1
  /\ e.ready => Len(e.samples) >= minSamplesReady

Init ==
  /\ \E place \in 0 .. M - 1, clock \in Clocks : media = [place |-> place, clock |-> clock, copies |-> 0]
  /\ e = Empty /\ votes = 0

-----------------------------------------------------------------------------
\* Mutant: only wraps forward are seen.
Wraps_Forward(rtp) ==
  IF e.has /\ (rtp + M - e.lastRTP) % M \in 1 .. M \div 2 - 1 /\ rtp < e.lastRTP THEN M ELSE 0

\* By the signed difference to the last report.
Wraps(rtp) ==
  LET forward == (rtp + M - e.lastRTP) % M \in 1 .. M \div 2 - 1
  IN IF ~e.has THEN 0
     ELSE IF forward /\ rtp < e.lastRTP THEN M
     ELSE IF ~forward /\ rtp > e.lastRTP THEN -M ELSE 0

\* unwrapRTPQuery; unwrapRTP keeps the offset and the timestamp.
Unwrapped(rtp) == e.offset + Wraps(rtp) + rtp
Moved(b, rtp) == [b EXCEPT !.has = TRUE, !.lastRTP = rtp, !.offset = @ + Wraps(rtp)]

Line(sample) == <<sample.clock, sample.turn>>
Lines(b) == {Line(b.samples[i]) : i \in DOMAIN b.samples}

Repeats(sample) == e.samples # <<>> /\ e.samples[Len(e.samples)] = sample

\* Off the one line of the samples; what lies off several of them depends on the deviation.
Judgements(sample) ==
  IF ~e.ready \/ Lines(e) = {Line(sample)} THEN {FALSE}
  ELSE IF \E line \in Lines(e) : Lines(e) = {line} THEN {TRUE} ELSE BOOLEAN

Accepted(b, sample) ==
  LET all == Append(b.samples, sample)
      kept == IF Len(all) > maxSRSamples THEN Tail(all) ELSE all
  IN [b EXCEPT !.samples = kept, !.outliers = 0,
               !.ready = @ \/ (Len(kept) >= minSamplesReady /\ \E i, j \in DOMAIN kept : kept[i].place # kept[j].place)]

\* Mutant: the new regression starts with the old offset.
Rebuilt_KeepsOffset(r, clock) ==
  LET rtp == r % M IN
  Accepted([Empty EXCEPT !.has = TRUE, !.lastRTP = rtp, !.offset = e.offset],
           [clock |-> clock, place |-> r, turn |-> rtp - r])

\* resetLocked, and the report taken as the first one.
Rebuilt(r, clock) ==
  LET rtp == r % M IN
  Accepted([Empty EXCEPT !.has = TRUE, !.lastRTP = rtp], [clock |-> clock, place |-> r, turn |-> rtp - r])

Patience_OneMore == e.outliers < maxConsecutiveOutliers
Patience == e.outliers + 1 < maxConsecutiveOutliers

\* A report of place r by the sender's clock, dispatched for the copies-th time.
OnSenderReport(r, clock, copies) ==
  LET sample == [clock |-> clock, place |-> r, turn |-> Unwrapped(r % M) - r]
      moved == Moved(e, r % M)
      count == IF copies = 1 THEN votes + 1 ELSE votes
  IN /\ media' = [place |-> r, clock |-> clock, copies |-> copies]
     /\ \/ /\ Repeats(sample)
           /\ e' = moved /\ UNCHANGED votes
        \/ /\ ~Repeats(sample) /\ FALSE \in Judgements(sample)
           /\ e' = Accepted(moved, sample) /\ votes' = 0
        \/ /\ ~Repeats(sample) /\ TRUE \in Judgements(sample) /\ Patience
           /\ e' = [moved EXCEPT !.outliers = @ + 1] /\ votes' = count
        \/ /\ ~Repeats(sample) /\ TRUE \in Judgements(sample) /\ ~Patience
           /\ e' = Rebuilt(r, clock) /\ votes' = 0

\* The sender's next report: its clock may have stepped.
NextReport ==
  \E r \in media.place + 1 .. media.place + M \div 2 - 1, clock \in Clocks :
    r <= Final /\ OnSenderReport(r, clock, 1)

\* The same report through the callback of another publication.
SameReport == media.copies \in 1 .. Copies - 1 /\ OnSenderReport(media.place, media.clock, media.copies + 1)

Next == NextReport \/ SameReport
Spec == Init /\ [][Next]_vars

-----------------------------------------------------------------------------
\* A timestamp within half a turn of the last report is placed on the regression where the
\* reports of that place are: rebuilding it on another turn, outliers that move the offset and
\* wraps in either direction do not tear the two apart (unwrapRTP, unwrapRTPQuery, resetLocked).
QueryAgrees ==
  (e.has /\ e.samples # <<>>) =>
    \A r \in media.place - M \div 2 + 1 .. media.place + M \div 2 - 1 :
      \A sample \in {e.samples[i] : i \in DOMAIN e.samples} : Unwrapped(r % M) - r = sample.turn

\* A clock that stepped is followed: never are more than maxConsecutiveOutliers - 1 reports in a
\* row kept out of the regression.
SteppedClockFollowed == votes < maxConsecutiveOutliers

\* What maxConsecutiveOutliers means ("how many SRs may be rejected in a row before the estimator
\* decides the sender's NTP clock has stepped"): the regression is not given up for fewer reports.
\* It is: an outlier is not remembered, so the copies of one report, which the comparison with
\* the last sample is there to skip, count as reports of their own.
OneReportOneVote ==
  [][(e.outliers > 0 /\ Len(e'.samples) = 1 /\ Len(e.samples) > 1) =>
       votes + (IF media'.copies = 1 THEN 1 ELSE 0) >= maxConsecutiveOutliers]_vars
=============================================================================
