--------------------------- MODULE DataTrackFrames ---------------------------
(***************************************************************************)
(* The frames of one data track (internal/datatrack): the publisher's      *)
(* packetizer, an unordered channel that does not retransmit, the          *)
(* depacketizer that puts the frames together again, and the Stream the    *)
(* application takes them from.                                            *)
(*                                                                         *)
(* A packet that is never received is lost, in the channel or because the  *)
(* subscription's queue was full.  A frame is a number; its payload is the *)
(* sequence of its chunks, each <<frame, index, chunks>>.                  *)
(***************************************************************************)
EXTENDS Naturals, Sequences, FiniteSets, Functions

CONSTANTS
  MaxFrames, Sizes,      \* bounds: frames pushed, packets of a frame
  SeqMod, FrameMod,      \* 2^16 in the code: sequence and frame numbers wrap
  FirstSeq, FirstFrame,  \* the packetizer's counters when the subscription begins
  BufferPackets,         \* maxBufferPackets (128)
  BufferSize             \* SubscribeOptions.BufferSize

FramesAssumption ==
  /\ MaxFrames \in Nat /\ Sizes \subseteq Nat /\ {SeqMod, FrameMod, BufferSize} \subseteq Nat \ {0}
  /\ FirstSeq \in 0 .. SeqMod - 1 /\ FirstFrame \in 0 .. FrameMod - 1

VARIABLES
  packetizer,   \* its sequence and frameNumber, and the frames pushed (by number)
  net,          \* packets that may yet arrive
  partials,     \* the depacketizer: incomplete frames by frame number,
  order,        \* and the numbers, oldest first
  maxPartials,  \* PipelineOptions.MaxPartialFrames
  stream        \* buffered frames, the ready token, closed, and its reader

vars == <<packetizer, net, partials, order, maxPartials, stream>>
depacketizer == <<partials, order>>

Chunks(frame, n) == [i \in 1 .. n |-> <<frame, i, n>>]
EmptyStream == [buf |-> <<>>, ready |-> FALSE, closed |-> FALSE, reader |-> "idle"]

TypeOK ==
  /\ packetizer \in [sequence : 0 .. SeqMod - 1, frameNumber : 0 .. FrameMod - 1,
                     pushed : 0 .. MaxFrames]
  /\ DOMAIN partials \subseteq 0 .. FrameMod - 1
  /\ \A f \in DOMAIN partials : DOMAIN partials[f].payloads \subseteq 0 .. SeqMod - 1
  /\ maxPartials \in 1 .. 2
  /\ {stream.ready, stream.closed} \subseteq BOOLEAN
  /\ stream.reader \in {"idle", "looked", "waiting", "ended"} /\ Len(stream.buf) <= BufferSize

Init ==
  /\ packetizer = [sequence |-> FirstSeq, frameNumber |-> FirstFrame, pushed |-> 0]
  /\ net = {} /\ partials = <<>> /\ order = <<>>
  /\ maxPartials \in 1 .. 2 /\ stream = EmptyStream

-----------------------------------------------------------------------------
(* The publisher.                                                          *)

frameMarker(i, n) ==
  CASE n <= 1 -> "single" [] i = 1 -> "start" [] i = n -> "final" [] OTHER -> "inter"

\* Mutant: the sequence number advances once a frame.
packetize_PerFrame(frame, n) ==
  {[frameNumber |-> packetizer.frameNumber, sequence |-> packetizer.sequence,
    marker |-> frameMarker(i, n), payload |-> Chunks(frame, n)[i]] : i \in 1 .. n}

packetize(frame, n) ==
  {[frameNumber |-> packetizer.frameNumber, sequence |-> (packetizer.sequence + i - 1) % SeqMod,
    marker |-> frameMarker(i, n), payload |-> Chunks(frame, n)[i]] : i \in 1 .. n}

\* processFrame: an empty payload has a frame number, and no packets.
TryPush(n) ==
  /\ packetizer.pushed < MaxFrames
  /\ LET frame == packetizer.pushed + 1 IN
     /\ net' = net \union packetize(frame, n)
     /\ packetizer' = [sequence |-> (packetizer.sequence + n) % SeqMod,
                       frameNumber |-> (packetizer.frameNumber + 1) % FrameMod, pushed |-> frame]
  /\ UNCHANGED <<depacketizer, maxPartials, stream>>

-----------------------------------------------------------------------------
(* The subscription's worker.                                              *)

Forget(f, frames) == [g \in DOMAIN f \ frames |-> f[g]]

\* Mutant: the frame keeps its place in the order.
remove_Partial(frame) == partials' = Forget(partials, {frame}) /\ UNCHANGED order

remove(frame) ==
  /\ partials' = Forget(partials, {frame})
  /\ \/ (\A i \in 1 .. Len(order) : order[i] # frame) /\ UNCHANGED order
     \/ \E i \in 1 .. Len(order) :
          /\ order[i] = frame /\ \A j \in 1 .. i - 1 : order[j] # frame
          /\ order' = [j \in 1 .. Len(order) - 1 |-> order[IF j < i THEN j ELSE j + 1]]

\* Mutant: the ready channel holds no token.
push_Unbuffered(payload) ==
  stream' = IF stream.closed THEN stream
            ELSE [stream EXCEPT
                   !.buf = Append(IF Len(@) = BufferSize THEN Tail(@) ELSE @, payload),
                   !.ready = stream.reader = "waiting"]

\* Stream.push: the oldest frame makes room.
push(payload) ==
  stream' = IF stream.closed THEN stream
            ELSE [stream EXCEPT
                   !.buf = Append(IF Len(@) = BufferSize THEN Tail(@) ELSE @, payload),
                   !.ready = TRUE]

evictOldest == IF order = <<>> THEN UNCHANGED depacketizer ELSE remove(Head(order))

\* frameFromSingle: at capacity the oldest partial is evicted.
frameFromSingle(p) ==
  /\ IF Len(order) >= maxPartials THEN evictOldest ELSE UNCHANGED depacketizer
  /\ push(<<p.payload>>)

\* beginPartial: the oldest are evicted until there is room for the frame.
beginPartial(p) ==
  LET excess == IF Len(order) < maxPartials THEN 0 ELSE Len(order) + 1 - maxPartials
      kept == SubSeq(order, excess + 1, Len(order))
      known == Forget(partials, {order[i] : i \in 1 .. excess})
      n == p.frameNumber IN
  /\ order' = IF n \in DOMAIN known THEN kept ELSE Append(kept, n)
  /\ partials' = [f \in DOMAIN known \union {n} |->
                   IF f # n THEN known[f]
                   ELSE [startSequence |-> p.sequence,
                         payloads |-> [s \in {p.sequence} |-> p.payload]]]
  /\ UNCHANGED stream

\* finalize: a frame all of whose packets, from the start's on, are there.
finalize(partial, payloads, last) ==
  LET expected == ((last + SeqMod - partial.startSequence) % SeqMod) + 1
      sequence == [i \in 1 .. expected |-> (partial.startSequence + i - 1) % SeqMod] IN
  IF DOMAIN payloads = {sequence[i] : i \in 1 .. expected}
  THEN push([i \in 1 .. expected |-> payloads[sequence[i]]])
  ELSE UNCHANGED stream

pushToPartial(p) ==
  LET n == p.frameNumber IN
  IF n \notin DOMAIN partials THEN UNCHANGED <<depacketizer, stream>>
  ELSE LET old == partials[n].payloads
           payloads == [s \in DOMAIN old \union {p.sequence} |->
                         IF s = p.sequence THEN p.payload ELSE old[s]] IN
       IF Cardinality(DOMAIN old) >= BufferPackets
       THEN remove(n) /\ UNCHANGED stream
       ELSE IF p.marker = "final"
       THEN remove(n) /\ finalize(partials[n], payloads, p.sequence)
       ELSE /\ partials' = [partials EXCEPT ![n].payloads = payloads]
            /\ UNCHANGED <<order, stream>>

processPacket(p) ==
  CASE p.marker = "single" -> frameFromSingle(p)
    [] p.marker = "start" -> beginPartial(p)
    [] OTHER -> pushToPartial(p)

\* deliver, runPipeline.
Receive ==
  /\ \E p \in net : net' = net \ {p} /\ processPacket(p)
  /\ UNCHANGED <<packetizer, maxPartials>>

SetPipelineOptions ==
  /\ maxPartials = 2 /\ maxPartials' = 1
  /\ UNCHANGED <<packetizer, net, depacketizer, stream>>

-----------------------------------------------------------------------------
(* The application.                                                        *)

\* Stream.Next: it looks at the buffer, lets go of the lock, and waits.
Take == stream.buf # <<>> /\ stream' = [stream EXCEPT !.reader = "idle", !.buf = Tail(@)]
Look == stream.buf = <<>> /\ ~stream.closed /\ stream' = [stream EXCEPT !.reader = "looked"]
EOF == stream.buf = <<>> /\ stream.closed /\ stream' = [stream EXCEPT !.reader = "ended"]
Wake == (stream.ready \/ stream.closed) /\ stream' = [stream EXCEPT !.reader = "idle", !.ready = FALSE]

StreamNext ==
  /\ \/ stream.reader = "idle" /\ (Take \/ Look \/ EOF)
     \/ stream.reader = "looked" /\ stream' = [stream EXCEPT !.reader = "waiting"]
     \/ stream.reader = "waiting" /\ Wake
  /\ UNCHANGED <<packetizer, net, depacketizer, maxPartials>>

\* The track ends, or the application closes the stream.
Close ==
  /\ ~stream.closed
  /\ stream' = [stream EXCEPT !.closed = TRUE]
  /\ UNCHANGED <<packetizer, net, depacketizer, maxPartials>>

-----------------------------------------------------------------------------
Next ==
  \/ \E n \in Sizes : TryPush(n)
  \/ Receive \/ SetPipelineOptions \/ StreamNext \/ Close

Spec == Init /\ [][Next]_vars

-----------------------------------------------------------------------------
\* However packets are lost and reordered, a frame the application gets is a
\* frame that was pushed, whole and with its own chunks only, also when the
\* numbers wrap.
FramesIntact ==
  \A i \in 1 .. Len(stream.buf) :
    LET payload == stream.buf[i] IN payload = Chunks(payload[1][1], payload[1][3])

\* The list of the partial frames' age names each of them once, so that
\* evicting the oldest makes room.
OrderListsPartials ==
  /\ IsInjective(order)
  /\ {order[i] : i \in 1 .. Len(order)} = DOMAIN partials

\* A reader does not wait beside a buffered frame, or on a closed stream.
ReaderWoken == stream.reader = "waiting" /\ stream.buf # <<>> => stream.ready
=============================================================================
