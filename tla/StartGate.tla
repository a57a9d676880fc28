----------------------------- MODULE StartGate -----------------------------
(***************************************************************************)
(* burstEstimatorGate (pkg/synchronizer/start_gate.go): packets are held   *)
(* back until frames arrive at the pace of their timestamps, so that the   *)
(* clock of a track is not started in the middle of a burst.               *)
(*                                                                         *)
(* Times are in tenths of the frame duration; a packet has its frame, its  *)
(* arrival, and whether it came first of its frame.  Timestamps are frames *)
(* modulo M, the differences signed.                                       *)
(***************************************************************************)
EXTENDS Integers, Sequences, SequencesExt

CONSTANTS
  M,                       \* timestamps are modulo M: 2^32 in the code
  scoreTarget, maxBuffer,
  maxStable, flushAfter,   \* maxStableDuration, flushAfter
  Delays,                  \* between packets
  MaxPackets               \* bound: packets pushed

VARIABLES
  now, pushed,             \* the time, and how many packets came
  first,                   \* firstArrival
  last,                    \* lastTS (the frame) and lastArrival; hasLast once pushed > 0
  buffer, score,
  done, released,          \* the packets of the call that opened the gate
  dropped                  \* totalDropped

vars == <<now, pushed, first, last, buffer, score, done, released, dropped>>

TypeOK ==
  /\ pushed \in 0 .. MaxPackets /\ first <= now /\ last.at <= now
  /\ Len(buffer) <= maxBuffer /\ score \in 0 .. scoreTarget
  /\ done \in {"no", "paced", "flushed"} /\ dropped \in 0 .. MaxPackets

Init ==
  /\ now = 0 /\ pushed = 0 /\ first = 0 /\ \E frame \in {1, M - 1} : last = [frame |-> frame, at |-> 0]
  /\ buffer = <<>> /\ score = 0 /\ done = "no" /\ released = <<>> /\ dropped = 0

-----------------------------------------------------------------------------
\* The signed difference of the timestamps: -M/2 .. M/2 - 1.
Ahead(frame) ==
  LET diff == ((frame % M) + M - (last.frame % M)) % M IN IF diff >= M \div 2 THEN diff - M ELSE diff

\* Mutant: the distance is not bounded from above.
Paced_Late(frames, arrival) == arrival * 10 >= frames * 70

\* minArrivalFactor 0.2 and maxSkewFactor 0.3 of the media between the two frames.
Paced(frames, arrival) ==
  LET skew == IF arrival > frames * 10 THEN arrival - frames * 10 ELSE frames * 10 - arrival
  IN arrival >= frames * 2 /\ skew <= frames * 3

\* Mutant: what arrived in a burst stays in front of the new sequence.
Restarted_Keeps(packet) == Append(buffer, packet)

\* restartSequence
Restarted(packet) == <<packet>>

\* enforceWindow
Windowed(packets) == IF Len(packets) > maxBuffer THEN Tail(packets) ELSE packets
\* Mutant: Push goes on after the window was enforced.
Overflows_Ignored(packets) == FALSE
Overflows(packets) == Len(packets) > maxBuffer

Stable(packets) == (packets[Len(packets)].frame - packets[1].frame) % M >= maxStable

Hold(packets, s) ==
  /\ buffer' = Windowed(packets) /\ score' = IF Overflows(packets) THEN 0 ELSE s
  /\ dropped' = IF Overflows(packets) THEN dropped + 1 ELSE dropped
  /\ UNCHANGED <<done, released>>

Open(packets, why, s) ==
  /\ done' = why /\ released' = packets /\ buffer' = <<>> /\ score' = s /\ UNCHANGED dropped

Push(frame, at) ==
  LET packet == [frame |-> frame, at |-> at, opens |-> pushed = 0 \/ frame # last.frame]
      frames == Ahead(frame)
      held == Append(buffer, packet)
  IN /\ now' = at /\ pushed' = pushed + 1
     /\ first' = IF pushed = 0 THEN at ELSE first
     /\ \/ /\ pushed > 0 /\ at - first > flushAfter
           /\ Open(held, "flushed", score) /\ UNCHANGED last
        \/ /\ pushed = 0
           /\ last' = [frame |-> frame, at |-> at]
           /\ Hold(<<packet>>, 0)
        \/ /\ pushed > 0 /\ at - first <= flushAfter
           /\ \/ /\ frames < 0
                 /\ dropped' = dropped + 1 /\ UNCHANGED <<last, buffer, score, done, released>>
              \/ /\ frames = 0
                 /\ Hold(held, score) /\ UNCHANGED last
              \/ /\ frames > 0 /\ ~Paced(frames, at - last.at)
                 /\ last' = [frame |-> frame, at |-> at]
                 /\ buffer' = Restarted(packet) /\ score' = 0 /\ dropped' = dropped + Len(buffer)
                 /\ UNCHANGED <<done, released>>
              \/ /\ frames > 0 /\ Paced(frames, at - last.at)
                 /\ last' = [frame |-> frame, at |-> at]
                 /\ IF ~Overflows(held) /\ (score + 1 >= scoreTarget \/ Stable(held))
                    THEN Open(held, "paced", score + 1)
                    ELSE Hold(held, score + 1)

\* The next packet: of the same frame, of a later one, or one that was overtaken.
Next ==
  /\ pushed < MaxPackets /\ done = "no"
  /\ \E frame \in {last.frame + k : k \in {-1, 0, 1, 2}}, d \in Delays : frame >= 0 /\ Push(frame, now + d)

Spec == Init /\ [][Next]_vars

-----------------------------------------------------------------------------
Opening == SelectSeq(released, LAMBDA packet : packet.opens)

\* A gate that opened because of the pace lets nothing of a burst or a stall through: from frame to
\* frame the released packets arrived within 30% of their media time, whatever was restarted,
\* dropped out of order or pushed out of the window before (Push, restartSequence).
PacedStart ==
  done = "paced" =>
    \A i \in 1 .. Len(Opening) - 1 :
      LET media == (Opening[i + 1].frame - Opening[i].frame) * 10
          arrival == Opening[i + 1].at - Opening[i].at
      IN 10 * arrival \in 7 * media .. 13 * media

\* Every packet is released, held, or counted in totalDropped, which the track's statistics and
\* the log of the gate are made of.
Accounted == pushed = Len(buffer) + Len(released) + dropped

\* A start that was not forced begins with a frame's first packet, although enforceWindow cuts
\* packet by packet: once the window is full every further packet of a frame overflows it again
\* and resets the score, so that only a restart or flushAfter opens the gate then.
WholeStart == done = "paced" => released[1].opens
=============================================================================
