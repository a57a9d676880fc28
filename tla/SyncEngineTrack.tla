--------------------------- MODULE SyncEngineTrack ---------------------------
(***************************************************************************)
(* syncEngineTrack.GetPTS (pkg/synchronizer/syncenginetrack.go): a time on *)
(* the session's timeline from the NTP regression when there is one, from  *)
(* the wall clock otherwise, each change of source or of the regression    *)
(* absorbed little by little.                                              *)
(*                                                                         *)
(* Time, RTP ticks and the millisecond of monotonicity are one unit.  A    *)
(* packet carries the place p of its frame in the sender's media.  The     *)
(* regression answers p plus its present error.                            *)
(***************************************************************************)
EXTENDS Integers

CONSTANTS
  ntpTrustThreshold, wallClockSanityThreshold, deadbandThreshold,
  slewDivisor,              \* a slew of 1 per so many units: 200 in the code
  alphaDivisor,             \* 1 / wallSlewAlpha
  maxMediaRunningTimeDelay, maxTimelyPacketAge,
  Deadlines, NoDeadline,    \* how far the running time is behind the clock
  Errors,                   \* of the regression
  Jitter,                   \* of the network
  Discontinuity,            \* the jump that resets the regression: 30 s
  Steps,                    \* from a frame to the next
  MaxNow                    \* bound

VARIABLES
  live, now,
  ntp,      \* the regression: ready, its error
  last,     \* the place of the frame of lastTS
  t,        \* the fields of the track
  source    \* where the last time came from, and what was done to it

vars == <<live, now, ntp, last, t, source>>

Abs(n) == IF n < 0 THEN -n ELSE n
Sign(n) == IF n < 0 THEN -1 ELSE IF n = 0 THEN 0 ELSE 1
Toward0(n, step) == IF Abs(n) <= step THEN 0 ELSE n - Sign(n) * step
Truncated(n, d) == Sign(n) * (Abs(n) \div d)

Sources == {"none", "wall", "fallback", "ntp", "clamped"}

TypeOK ==
  /\ live \in Deadlines /\ now \in 0 .. MaxNow /\ last \in -1 .. MaxNow + Discontinuity
  /\ ntp \in [ready : BOOLEAN, error : Errors]
  /\ {t.offset, t.slewed, t.unslewed, t.adjusted, t.slew, t.slewPTS, t.raw, t.correction} \subseteq Int
  /\ {t.emitted, t.transitioned, t.hasRaw} \subseteq BOOLEAN /\ t.timely \in 0 .. MaxNow
  /\ source \in [from : Sources, pulled : BOOLEAN, bumped : BOOLEAN]

\* initializeLocked, by the first packet.
Init ==
  /\ live \in Deadlines /\ now = 0 /\ last = 0
  /\ ntp \in [ready : {FALSE}, error : Errors]
  /\ t = [offset |-> 0, slewed |-> 0, unslewed |-> 0, adjusted |-> 0, emitted |-> FALSE,
          transitioned |-> FALSE, slew |-> 0, slewPTS |-> 0, raw |-> 0, hasRaw |-> FALSE,
          correction |-> 0, timely |-> 0]
  /\ source = [from |-> "none", pulled |-> FALSE, bumped |-> FALSE]

-----------------------------------------------------------------------------
(* wallClockPTSForRTPLocked.                                               *)

wallElapsed(received) == IF received + t.offset < 0 THEN 0 ELSE received + t.offset
Drifted(p, received) == t.slewed + (p - last) - wallElapsed(received)
Insane(p, received) == Abs(Drifted(p, received)) > wallClockSanityThreshold

wallPTS(p, received) ==
  IF Insane(p, received) THEN wallElapsed(received)
  ELSE t.slewed + (p - last) - Truncated(Drifted(p, received), alphaDivisor)

-----------------------------------------------------------------------------
(* The NTP state of the track, before the packet's time is computed.       *)

Jumps(p) == p - last >= Discontinuity
Ready(p) == ntp.ready /\ ~Jumps(p)

\* Mutant: a lost regression leaves the smoothing of the old one.
Forget_Not(b) == b

\* Forget what was being smoothed.
Forget(b) == [b EXCEPT !.transitioned = FALSE, !.slew = 0, !.correction = 0, !.hasRaw = FALSE, !.raw = 0]

\* Mutant: jumps of the regression are passed on.
Corrected_Not(b, p) == b.correction

\* A jump of the regression against the frame before is taken back at first.
Corrected(b, p) ==
  LET jump == p + ntp.error - (b.raw + (p - last)) IN
  IF b.hasRaw /\ p > last /\ Abs(jump) > deadbandThreshold THEN b.correction - jump ELSE b.correction

Smoothed(p) ==
  IF ~Ready(p) THEN Forget(t)
  ELSE [t EXCEPT !.correction = Corrected(t, p), !.raw = p + ntp.error, !.hasRaw = TRUE]

\* Mutant: the regression is compared with the wall clock before its jumps are
\* taken back.
Clamped_Raw(b, wall) == Abs(b.raw - wall) > ntpTrustThreshold

\* What the regression says, unless it is too far from the wall clock.
Clamped(b, wall) == Abs(b.raw + b.correction - wall) > ntpTrustThreshold
Base(b, p, wall) == IF ~Ready(p) \/ Clamped(b, wall) THEN wall ELSE b.raw + b.correction

\* Mutant: the change to the regression's time is made at once.
Transition_Sharp(b, p, wall) == IF Ready(p) THEN [b EXCEPT !.transitioned = TRUE] ELSE b

\* The first time that is not clamped starts from the wall clock's.
Transition(b, p, wall) ==
  IF Ready(p) /\ ~Clamped(b, wall) /\ ~b.transitioned
  THEN [b EXCEPT !.transitioned = TRUE, !.slew = wall - Base(b, p, wall)] ELSE b

\* Both slews are absorbed as the media goes on.
Absorbed(b, base) ==
  LET step == IF b.emitted /\ base > b.slewPTS THEN (base - b.slewPTS) \div slewDivisor ELSE 0 IN
  [b EXCEPT !.slew = Toward0(@, step), !.correction = Toward0(@, step)]

-----------------------------------------------------------------------------
(* The pipeline's deadline.                                                *)

limit == now - live - maxMediaRunningTimeDelay
Behind(pts) == live # NoDeadline /\ pts < limit
Pulled(pts) == Behind(pts) /\ now - t.timely > maxTimelyPacketAge

GetPTS(p, received) ==
  LET wall == wallPTS(p, received)
      b == Transition(Smoothed(p), p, wall)
      base == Base(b, p, wall)
      pts == base + b.slew
      c == Absorbed(b, base)
      final == IF Pulled(pts) THEN now - live - maxMediaRunningTimeDelay \div 2 ELSE pts
      pull == final - pts
      floor == IF t.emitted THEN t.adjusted + 1 ELSE final
      unslewed == IF Jumps(p) THEN wall ELSE t.unslewed + (p - last)
  IN /\ t.emitted => p # last       \* else the frame's time is returned again
     /\ t' = [c EXCEPT !.offset = @ + pull, !.timely = IF Behind(pts) /\ ~Pulled(pts) THEN @ ELSE now,
                       !.slewed = wall + pull, !.unslewed = unslewed, !.slewPTS = base + pull,
                       !.adjusted = IF final < floor THEN floor ELSE final, !.emitted = TRUE]
     /\ last' = p
     /\ source' = [from |-> IF ~Ready(p) THEN (IF Insane(p, received) THEN "fallback" ELSE "wall")
                            ELSE IF Clamped(b, wall) THEN "clamped" ELSE "ntp",
                   pulled |-> Pulled(pts), bumped |-> final < floor]
     /\ ntp' = IF Jumps(p) THEN [ntp EXCEPT !.ready = FALSE] ELSE ntp
     /\ UNCHANGED <<live, now>>

\* Sender reports: the regression becomes ready, moves, or is rebuilt.
Regress ==
  /\ ntp' \in [ready : BOOLEAN, error : Errors] /\ ntp' # ntp
  /\ UNCHANGED <<live, now, last, t, source>>

Tick ==
  /\ now < MaxNow /\ now' = now + 1
  /\ UNCHANGED <<live, ntp, last, t, source>>

\* Packets in order, at most one frame per unit of time.
Next ==
  \/ Tick \/ Regress
  \/ \E p \in 0 .. now, received \in 0 .. now :
       /\ received - p \in Jitter /\ (~t.emitted \/ p - last \in Steps)
       /\ GetPTS(p, received)

Spec == Init /\ [][Next]_vars

-----------------------------------------------------------------------------
\* Between frames the time goes on as the media does, but for the slews, the
\* deadband and what the wall clock's own slew takes back: neither a change to
\* the regression nor a jump of it shows at once.
Smooth ==
  [][last' # last /\ t.emitted
     /\ <<source.from, source'.from>> \in {<<"wall", "wall">>, <<"wall", "ntp">>, <<"ntp", "ntp">>}
     /\ ~source.pulled /\ ~source'.pulled /\ ~source.bumped /\ ~source'.bumped
       => Abs((t'.adjusted - t.adjusted) - (last' - last))
            <= deadbandThreshold + 2 * ((last' - last) \div slewDivisor)
               + Truncated(wallClockSanityThreshold, alphaDivisor)]_vars

\* Whatever the reports say, the time stays near the wall clock's.
NearWall ==
  ~source.bumped /\ ~source.pulled
    => Abs(t.adjusted - t.slewed) <= 2 * ntpTrustThreshold

\* The smoothing never outlives the regression it was made for.
NothingStale ==
  source.from \in {"wall", "fallback"} => t.slew = 0 /\ t.correction = 0 /\ ~t.transitioned

\* "Force-correct PTS forward" for a track behind the deadline: the next frame
\* goes on from there.  The code keeps the correction in the wall clock's time
\* only: when it is within ntpTrustThreshold, the regression's time of the next
\* frame is behind again, and is moved up by a millisecond.
PullKept ==
  [][source.pulled /\ last' # last /\ source'.from = "ntp" => ~source'.bumped]_vars
=============================================================================
