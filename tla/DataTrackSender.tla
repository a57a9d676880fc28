--------------------------- MODULE DataTrackSender ---------------------------
(***************************************************************************)
(* dataTrackSender (datatracksender.go): the goroutine that writes the     *)
(* frames of all local data tracks to the current data channel.  It holds  *)
(* back while the channel's buffer is above its low threshold, and keeps   *)
(* one frame, the latest, for when it may send again.                      *)
(*                                                                         *)
(* The Pushers are application goroutines inside LocalTrack.TryPush, which *)
(* numbers a frame under the track's lock and hands it over after it.      *)
(***************************************************************************)
EXTENDS Naturals, Sequences

CONSTANTS
  Pushers,
  Packets,                \* packets of a frame
  Low,                    \* dataTrackBufferedAmountLowThreshold, in packets
  MaxFrames, MaxChannels  \* bounds

SenderAssumption ==
  /\ {Packets, MaxChannels} \subseteq Nat \ {0} /\ {Low, MaxFrames} \subseteq Nat

None == [frame |-> 0, packet |-> 0]
Channels == 1 .. MaxChannels

VARIABLES
  frames,    \* frames numbered so far
  pushing,   \* the frame each pusher has yet to hand over, or 0
  frame,     \* the frame kept, or 0
  notify,    \* the token that wakes the worker
  dc,        \* the channel set last, or 0
  channel,   \* each channel: its state, buffered packets, packets sent
  callback,  \* an OnOpen or OnBufferedAmountLow callback is due
  worker,    \* where the worker is, its channel, and its frame in flight
  done       \* the sender is stopped

vars == <<frames, pushing, frame, notify, dc, channel, callback, worker, done>>

TypeOK ==
  /\ frames \in 0 .. MaxFrames /\ pushing \in [Pushers -> 0 .. MaxFrames]
  /\ frame \in 0 .. MaxFrames /\ {notify, callback, done} \subseteq BOOLEAN
  /\ dc \in 0 .. MaxChannels
  /\ \A c \in Channels : channel[c].state \in {"connecting", "open", "closed"}
  /\ worker.at \in {"select", "look", "check", "send", "stopped"}
  /\ worker.inFlight \in [frame : 0 .. MaxFrames, packet : 0 .. Packets]

Init ==
  /\ frames = 0 /\ pushing = [p \in Pushers |-> 0] /\ frame = 0
  /\ notify = FALSE /\ dc = 0 /\ callback = FALSE /\ done = FALSE
  /\ channel = [c \in Channels |-> [state |-> "connecting", amount |-> 0, sent |-> <<>>]]
  /\ worker = [at |-> "select", dc |-> 0, inFlight |-> None]

-----------------------------------------------------------------------------
(* Applications, the engine and the channel.                               *)

TryPush(p) ==
  /\ pushing[p] = 0 /\ frames < MaxFrames
  /\ frames' = frames + 1 /\ pushing' = [pushing EXCEPT ![p] = frames + 1]
  /\ UNCHANGED <<frame, notify, dc, channel, callback, worker, done>>

\* Mutant: the worker is woken by a frame that finds none kept.
wake_IfEmpty == notify' = (notify \/ (frame = 0 /\ worker.inFlight = None))

wake == notify' = TRUE

\* push: the frame kept before is dropped.
Send(p) ==
  /\ pushing[p] # 0
  /\ frame' = pushing[p] /\ pushing' = [pushing EXCEPT ![p] = 0]
  /\ wake
  /\ UNCHANGED <<frames, dc, channel, callback, worker, done>>

\* The engine made new peer connections, or its first ones.
setDataChannel ==
  /\ dc < MaxChannels /\ dc' = dc + 1
  /\ wake
  /\ UNCHANGED <<frames, pushing, frame, channel, callback, worker, done>>

stop ==
  /\ ~done /\ done' = TRUE
  /\ UNCHANGED <<frames, pushing, frame, notify, dc, channel, callback, worker>>

Opens(c) ==
  /\ c <= dc /\ channel[c].state = "connecting"
  /\ channel' = [channel EXCEPT ![c].state = "open"]
  /\ callback' = TRUE
  /\ UNCHANGED <<frames, pushing, frame, notify, dc, worker, done>>

Closes(c) ==
  /\ c <= dc /\ channel[c].state = "open"
  /\ channel' = [channel EXCEPT ![c].state = "closed"]
  /\ UNCHANGED <<frames, pushing, frame, notify, dc, callback, worker, done>>

\* A packet leaves the buffer; the callback is due when that crosses the threshold.
Drains(c) ==
  /\ channel[c].amount > 0
  /\ channel' = [channel EXCEPT ![c].amount = @ - 1]
  /\ callback' = (callback \/ channel[c].amount = Low + 1)
  /\ UNCHANGED <<frames, pushing, frame, notify, dc, worker, done>>

Callback ==
  /\ callback /\ callback' = FALSE
  /\ wake
  /\ UNCHANGED <<frames, pushing, frame, dc, channel, worker, done>>

-----------------------------------------------------------------------------
(* The worker.                                                             *)

Select ==
  /\ worker.at = "select"
  /\ \/ done /\ worker' = [worker EXCEPT !.at = "stopped"] /\ UNCHANGED notify
     \/ notify /\ notify' = FALSE /\ worker' = [worker EXCEPT !.at = "look"]
  /\ UNCHANGED <<frames, pushing, frame, dc, channel, callback, done>>

\* Mutant: a frame begun on the old channel goes on on the new one.
Switched_Keeps == [worker EXCEPT !.at = "check", !.dc = dc]

Switched ==
  [worker EXCEPT !.at = "check", !.dc = dc, !.inFlight = IF worker.dc = dc THEN @ ELSE None]

Look ==
  /\ worker.at = "look"
  /\ worker' = Switched
  /\ UNCHANGED <<frames, pushing, frame, notify, dc, channel, callback, done>>

Ready(c) == c # 0 /\ channel[c].state = "open" /\ channel[c].amount <= Low

\* The loop's condition, and the frame to go on with.
Check ==
  /\ worker.at = "check"
  /\ IF ~Ready(worker.dc) \/ (worker.inFlight = None /\ frame = 0)
     THEN worker' = [worker EXCEPT !.at = "select"] /\ UNCHANGED frame
     ELSE IF worker.inFlight # None
     THEN worker' = [worker EXCEPT !.at = "send"] /\ UNCHANGED frame
     ELSE /\ worker' = [worker EXCEPT !.at = "send", !.inFlight = [frame |-> frame, packet |-> 1]]
          /\ frame' = 0
  /\ UNCHANGED <<frames, pushing, notify, dc, channel, callback, done>>

\* The packet of the frame in flight that follows packet p.
Following(p) == IF p.packet = Packets THEN None ELSE [p EXCEPT !.packet = @ + 1]

\* A packet that cannot be sent is skipped.
SendPacket ==
  /\ worker.at = "send"
  /\ channel' = IF channel[worker.dc].state # "open" THEN channel
                ELSE [channel EXCEPT ![worker.dc].amount = @ + 1,
                                     ![worker.dc].sent = Append(@, worker.inFlight)]
  /\ worker' = [worker EXCEPT !.at = "check", !.inFlight = Following(@)]
  /\ UNCHANGED <<frames, pushing, frame, notify, dc, callback, done>>

-----------------------------------------------------------------------------
Next ==
  \/ \E p \in Pushers : TryPush(p) \/ Send(p)
  \/ setDataChannel \/ stop \/ Callback
  \/ \E c \in Channels : Opens(c) \/ Closes(c) \/ Drains(c)
  \/ Select \/ Look \/ Check \/ SendPacket

Spec == Init /\ [][Next]_vars

-----------------------------------------------------------------------------
\* While a frame is kept that the channel would take, the worker runs, or
\* something is about to wake it.
WakeNotLost ==
  worker.at = "select" /\ frame # 0 /\ Ready(dc) => notify \/ callback

\* On each channel the packets are those of whole frames, one after another;
\* only the last frame may be incomplete.
FramesWhole ==
  \A c \in Channels : LET sent == channel[c].sent IN
    \A i \in 1 .. Len(sent) :
      \/ sent[i].packet = 1 /\ (i > 1 => sent[i - 1].packet = Packets)
      \/ i > 1 /\ sent[i] = [sent[i - 1] EXCEPT !.packet = @ + 1]

\* The sender keeps "only the freshest frame" (datatracksender.go:28): a
\* frame is not sent after one that its track was given later.
FreshestLast ==
  \A c \in Channels : LET sent == channel[c].sent IN
    \A i \in 2 .. Len(sent) : sent[i].frame >= sent[i - 1].frame
=============================================================================
