-------------------------- MODULE SampleTimestamps --------------------------
(***************************************************************************)
(* The RTP timestamps of LocalTrack.WriteSample (localtrack.go): from the  *)
(* PacketTimestamp, the wall clock or the duration of each sample, beside  *)
(* the packetizer's own clock, which WriteSample moves by differences.     *)
(*                                                                         *)
(* Times are counted in RTP ticks, durations in parts of a tick; the wall  *)
(* clock stands still or runs between samples.  A frame may fail to be     *)
(* encrypted once the packetizer has moved.                                *)
(***************************************************************************)
EXTENDS Naturals

CONSTANTS
  M,            \* timestamps are modulo M: 2^32 in the code
  Parts,        \* parts of a tick
  Durations,    \* durations of samples, in parts
  Dropped,      \* values of PrevDroppedPackets
  MaxTime, MaxSamples   \* bounds

TimestampAssumption ==
  /\ M % 4 = 0 /\ {M, Parts, MaxTime, MaxSamples} \subseteq Nat \ {0}
  /\ (Durations \cup Dropped) \subseteq Nat

Minus(a, b) == (a + M - b) % M
Plus(a, b) == (a + b) % M

VARIABLES
  last,     \* lastRTPTimestamp and lastTS; 0 is "none" for both
  clock,    \* the packetizer's timestamp, counted from its random start
  offset,   \* how far it was ahead of lastRTPTimestamp at the first sample
  wall,     \* the wall clock
  origin,   \* ticks written and wall clock since the first sample, by Timestamp only
  strayed,  \* packets dropped; whether a sample was refused on its way
  samples   \* samples given

vars == <<last, clock, offset, wall, origin, strayed, samples>>

Epoch == 100   \* of the wall clock

None == [written |-> 0, since |-> 0, whole |-> FALSE]

TypeOK ==
  /\ last.rtp \in 0 .. M - 1 /\ last.ts \in Nat
  /\ {clock, offset} \subseteq 0 .. M - 1 /\ wall \in Epoch .. Epoch + MaxTime /\ samples \in 0 .. MaxSamples
  /\ strayed.dropped \in Nat /\ strayed.refused \in BOOLEAN

Init ==
  /\ last = [rtp |-> 0, ts |-> 0] /\ clock = 0 /\ offset = 0
  /\ wall = Epoch /\ origin = None /\ samples = 0
  /\ strayed = [dropped |-> 0, refused |-> FALSE]

-----------------------------------------------------------------------------
Samples == [pt : 0 .. M - 1, timed : BOOLEAN, dur : Durations, dropped : Dropped]

packetCount(s) == s.dropped + 1
Elapsed(s) == (packetCount(s) * s.dur) \div Parts
samplesPerPacket(s) == Elapsed(s) \div packetCount(s)

\* Mutant: a sample may go back in time.
OutOfOrder_Never(s) == FALSE

OutOfOrder(s) == s.pt # 0 /\ Minus(s.pt, last.rtp) > M \div 2

\* Where the sample before ended.  The first one starts at a random timestamp
\* of the third quartile, unless it carries one.
Starts(s) ==
  IF last.rtp # 0 THEN {last.rtp}
  ELSE IF s.pt # 0 THEN {Minus(s.pt, Elapsed(s) % M)}
  ELSE M \div 2 .. M \div 2 + M \div 4 - 1

Before(s) ==
  IF last.rtp # 0 /\ last.ts # 0 THEN last.ts ELSE wall - Elapsed(s)

\* Where it ends: by PacketTimestamp, Timestamp or Duration; 0 stands for
\* neither of the first two.
Wanted(s, start) ==
  LET current == IF s.pt # 0 THEN s.pt
                 ELSE IF last.rtp = 0 THEN Plus(start, Elapsed(s))
                 ELSE IF s.timed THEN Plus(start, wall - Before(s)) ELSE 0
  IN IF current = 0 THEN Plus(start, Elapsed(s)) ELSE current

\* A timestamp that comes out as 0 reads as none.
Zero(s, start) == Plus(start, wall - Before(s)) = 0

\* Mutant: the gap before a sample is not skipped.
Skipped_Nothing(s, span) == 0

Skipped(s, span) == IF span > Elapsed(s) /\ Elapsed(s) # 0 THEN span - Elapsed(s) ELSE 0

\* Mutant: the packets dropped are numbered, their samples not skipped.
Skips_ForgetsDropped(s, span) == Skipped(s, span)

\* SkipSamples, for the packets dropped and for the gap.
Skips(s, span) == Skipped(s, span) + samplesPerPacket(s) * s.dropped

Origin(s, start, span) ==
  IF ~s.timed \/ s.pt # 0 \/ last.rtp = 0 \/ Zero(s, start) THEN None
  ELSE [written |-> origin.written + Skips(s, span) + samplesPerPacket(s) + s.dropped,
        since |-> origin.since + wall - Before(s),
        whole |-> Elapsed(s) # 0]

\* The frame is encrypted between SkipSamples and Packetize; when that fails,
\* of the fields only those are set that the sample started from.
WriteSample(s, encrypted) ==
  /\ samples < MaxSamples
  /\ encrypted \/ ~strayed.refused   \* bound: one refusal
  /\ s.timed /\ last.rtp # 0 => wall >= Before(s)
  /\ last.rtp # 0 => ~OutOfOrder(s)
  /\ \E start \in Starts(s) :
       LET span == Minus(Wanted(s, start), start)
           end == Plus(start, Skipped(s, span) + Elapsed(s))
           started == IF last.rtp = 0 /\ ~s.timed THEN 0
                      ELSE IF last.rtp = 0 \/ (s.timed /\ s.pt = 0) THEN Before(s) ELSE last.ts
       IN /\ last' = IF encrypted THEN [rtp |-> end, ts |-> IF s.timed THEN wall ELSE 0]
                     ELSE [rtp |-> start, ts |-> started]
          /\ clock' = Plus(clock, Skips(s, span) + IF encrypted THEN samplesPerPacket(s) ELSE 0)
          /\ offset' = IF last.rtp = 0 THEN Minus(clock, start) ELSE offset
          /\ origin' = IF encrypted THEN Origin(s, start, span) ELSE origin
          /\ strayed' = [dropped |-> (IF last.rtp = 0 THEN 0 ELSE strayed.dropped) + s.dropped,
                         refused |-> (last.rtp # 0 /\ strayed.refused) \/ ~encrypted]
  /\ samples' = samples + 1
  /\ UNCHANGED wall

Passes ==
  /\ \E t \in wall + 1 .. Epoch + MaxTime : wall' = t
  /\ UNCHANGED <<last, clock, offset, origin, strayed, samples>>

Next == Passes \/ \E s \in Samples, encrypted \in BOOLEAN : WriteSample(s, encrypted)

Spec == Init /\ [][Next]_vars

-----------------------------------------------------------------------------
\* The packetizer's clock keeps its distance to lastRTPTimestamp: what is
\* skipped and packetized adds up to the timestamp computed for each sample,
\* but for less than a tick for each packet dropped, which the division by
\* packetCount loses; as long as every frame was encrypted.
InStep ==
  last.rtp # 0 /\ ~strayed.refused => Minus(Plus(last.rtp, offset), clock) <= strayed.dropped

\* Violated: a sample refused by the encryption has moved the packetizer, and
\* the next one moves it over the same gap again.
InStepThroughout == last.rtp # 0 => Minus(Plus(last.rtp, offset), clock) <= strayed.dropped

\* Violated: without a refusal the two clocks are together.
NothingRounded == last.rtp # 0 /\ ~strayed.refused => clock = Plus(last.rtp, offset)

\* A written sample never moves the timestamp back by half of its range.
\* (Ticks that wrap are ticks forward.)
Forward == [][samples' = samples + 1 => Minus(clock', clock) <= M \div 2]_vars

\* Samples timed by the wall clock never lag behind it: a pause between two
\* samples is skipped in the RTP timestamps too (but for one whose timestamp
\* would be 0), but for what is rounded off.  A sample without a duration after the pause breaks it: it
\* moves lastTS alone.
KeepsUp == origin.whole => origin.since <= origin.written
=============================================================================
