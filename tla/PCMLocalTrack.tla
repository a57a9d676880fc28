--------------------------- MODULE PCMLocalTrack ---------------------------
(***************************************************************************)
(* PCMLocalTrack (pkg/media/pcmlocaltrack.go): the application writes      *)
(* chunks of PCM samples, a goroutine takes one frame per tick out of them *)
(* (silence where they do not suffice), other goroutines mute, close and   *)
(* wait until everything was played.                                       *)
(*                                                                         *)
(* Samples are numbered in the order they enter the buffer, so a chunk is  *)
(* an interval [from, to].  t.mu is held where `holder` says so; numSamples*)
(* and the flags are atomics read without it.                              *)
(***************************************************************************)
EXTENDS Integers, Sequences

CONSTANTS
  samplesPerFrame,
  Sizes,                   \* of the chunks written
  MaxSamples,              \* bound: samples ever pushed
  MaxMutes                 \* bound: calls of setMuted

PCMAssumption ==
  /\ samplesPerFrame \in Nat \ {0} /\ Sizes \subseteq Nat \ {0}
  /\ {MaxSamples, MaxMutes} \subseteq Nat

VARIABLES
  chunkBuffer, numSamples,
  bound, muted, closed,    \* the flags
  writer,                  \* WriteSample: 0, or the size of the chunk past the checks
  processor,               \* processSamples: "none", "loop", "take", "frame", "signal", "tick", "ended"
  room,                    \* the samples its frame has yet to get
  muter,                   \* setMuted: "idle", "clear", "signal"; MaxMutes bounds `mutes`
  mutes,
  waiter,                  \* WaitForPlayout: "idle", "check", "wait"
  pushed,                  \* the number of the last sample pushed
  gone,                    \* the last sample taken for a frame, or cleared
  owed                     \* the samples pushed before Close

vars == <<chunkBuffer, numSamples, bound, muted, closed, writer, processor, room, muter, mutes, waiter,
          pushed, gone, owed>>

TypeOK ==
  /\ \A i \in DOMAIN chunkBuffer : chunkBuffer[i].from \in 1 .. MaxSamples /\ chunkBuffer[i].to \in 1 .. MaxSamples
  /\ numSamples \in 0 .. MaxSamples /\ {bound, muted, closed} \subseteq BOOLEAN
  /\ writer \in Sizes \cup {0} /\ processor \in {"none", "loop", "take", "frame", "signal", "tick", "ended"}
  /\ muter \in {"idle", "clear", "signal"} /\ mutes \in 0 .. MaxMutes /\ waiter \in {"idle", "check", "wait"}
  /\ room \in 0 .. samplesPerFrame /\ {pushed, gone, owed} \subseteq 0 .. MaxSamples

Init ==
  /\ chunkBuffer = <<>> /\ numSamples = 0 /\ bound = FALSE /\ muted = FALSE /\ closed = FALSE
  /\ writer = 0 /\ processor = "none" /\ room = 0 /\ muter = "idle" /\ mutes = 0 /\ waiter = "idle"
  /\ pushed = 0 /\ gone = 0 /\ owed = 0

MuFree == processor \notin {"frame", "signal"} /\ muter # "signal"
Woken == IF waiter = "wait" THEN "check" ELSE waiter

-----------------------------------------------------------------------------
Bind ==
  /\ ~bound /\ bound' = TRUE
  /\ processor' = "loop"
  /\ UNCHANGED <<chunkBuffer, numSamples, muted, closed, writer, room, muter, mutes, waiter, pushed, gone, owed>>

WriteSampleCheck ==
  /\ writer = 0 /\ ~closed /\ ~muted /\ bound
  /\ writer' \in {size \in Sizes : pushed + size <= MaxSamples}
  /\ UNCHANGED <<chunkBuffer, numSamples, bound, muted, closed, processor, room, muter, mutes, waiter, pushed, gone, owed>>

WriteSamplePush ==
  /\ writer # 0 /\ MuFree
  /\ chunkBuffer' = Append(chunkBuffer, [from |-> pushed + 1, to |-> pushed + writer])
  /\ numSamples' = numSamples + writer /\ pushed' = pushed + writer /\ writer' = 0
  /\ UNCHANGED <<bound, muted, closed, processor, room, muter, mutes, waiter, gone, owed>>

-----------------------------------------------------------------------------
\* Mutant: the rest of a chunk goes to the back.
PutBack_AtEnd(rest, chunk) == Append(rest, chunk)

PutBack(rest, chunk) == <<chunk>> \o rest

\* Mutant: the loop ends with the track.
GoesOn_UntilClosed == ~closed
GoesOn == ~closed \/ numSamples # 0

Loop ==
  /\ processor = "loop"
  /\ processor' = IF GoesOn THEN "take" ELSE "ended"
  /\ UNCHANGED <<chunkBuffer, numSamples, bound, muted, closed, writer, room, muter, mutes, waiter, pushed, gone, owed>>

\* getFrameFromChunkBuffer; a closed and empty track has no frame.
Take ==
  /\ processor = "take" /\ MuFree
  /\ IF closed /\ numSamples = 0
     THEN processor' = "tick" /\ UNCHANGED room
     ELSE processor' = "frame" /\ room' = samplesPerFrame
  /\ UNCHANGED <<chunkBuffer, numSamples, bound, muted, closed, writer, muter, mutes, waiter, pushed, gone, owed>>

\* The frame takes the first chunk, or as much of it as there is room for.
TakeChunk ==
  /\ processor = "frame" /\ room > 0 /\ chunkBuffer # <<>>
  /\ LET chunk == Head(chunkBuffer)
         size == chunk.to - chunk.from + 1
         remaining == IF size > room THEN room ELSE size
     IN /\ chunkBuffer' = IF remaining < size
                          THEN PutBack(Tail(chunkBuffer), [chunk EXCEPT !.from = @ + remaining])
                          ELSE Tail(chunkBuffer)
        /\ numSamples' = numSamples - remaining /\ room' = room - remaining
        /\ gone' = chunk.from + remaining - 1
  /\ UNCHANGED <<bound, muted, closed, writer, processor, muter, mutes, waiter, pushed, owed>>

\* What is missing is silence.
FrameFull ==
  /\ processor = "frame" /\ (room = 0 \/ chunkBuffer = <<>>)
  /\ processor' = IF chunkBuffer = <<>> THEN "signal" ELSE "tick"
  /\ UNCHANGED <<chunkBuffer, numSamples, bound, muted, closed, writer, room, muter, mutes, waiter, pushed, gone, owed>>

Signal ==
  /\ processor = "signal" /\ processor' = "tick" /\ waiter' = Woken
  /\ UNCHANGED <<chunkBuffer, numSamples, bound, muted, closed, writer, room, muter, mutes, pushed, gone, owed>>

Tick ==
  /\ processor = "tick" /\ processor' = "loop"
  /\ UNCHANGED <<chunkBuffer, numSamples, bound, muted, closed, writer, room, muter, mutes, waiter, pushed, gone, owed>>

-----------------------------------------------------------------------------
SetMuted(on) ==
  /\ muter = "idle" /\ mutes < MaxMutes /\ mutes' = mutes + 1 /\ ~closed
  /\ muted' = on
  /\ muter' = IF ~muted /\ on THEN "clear" ELSE "idle"
  /\ UNCHANGED <<chunkBuffer, numSamples, bound, closed, writer, processor, room, waiter, pushed, gone, owed>>

ClearQueue ==
  /\ muter = "clear" /\ MuFree
  /\ chunkBuffer' = <<>> /\ numSamples' = 0 /\ gone' = pushed
  /\ muter' = "signal"
  /\ UNCHANGED <<bound, muted, closed, writer, processor, room, mutes, waiter, pushed, owed>>

\* Mutant: nobody is told.
Cleared_Silently == waiter
Cleared == Woken

ClearQueueSignal ==
  /\ muter = "signal" /\ muter' = "idle" /\ waiter' = Cleared
  /\ UNCHANGED <<chunkBuffer, numSamples, bound, muted, closed, writer, processor, room, mutes, pushed, gone, owed>>

Close ==
  /\ ~closed /\ closed' = TRUE /\ owed' = pushed
  /\ UNCHANGED <<chunkBuffer, numSamples, bound, muted, writer, processor, room, muter, mutes, waiter, pushed, gone>>

\* WaitForPlayout looks and falls asleep under emptyBufMu, which every signal takes.
WaitForPlayout ==
  /\ \/ waiter = "idle" /\ waiter' = "check"
     \/ waiter = "check" /\ waiter' = IF numSamples > 0 THEN "wait" ELSE "idle"
  /\ UNCHANGED <<chunkBuffer, numSamples, bound, muted, closed, writer, processor, room, muter, mutes, pushed, gone, owed>>

Next ==
  \/ Bind \/ WriteSampleCheck \/ WriteSamplePush
  \/ Loop \/ Take \/ TakeChunk \/ FrameFull \/ Signal \/ Tick
  \/ (\E on \in BOOLEAN : SetMuted(on)) \/ ClearQueue \/ ClearQueueSignal
  \/ Close \/ WaitForPlayout

Spec == Init /\ [][Next]_vars

-----------------------------------------------------------------------------
\* What was pushed is played in its order and whole, however frames cut the chunks, unless a mute
\* clears it: the buffer holds exactly the samples after the last one gone, and numSamples counts
\* them (getFrameFromChunkBuffer, WriteSample, ClearQueue).
NothingSkipped ==
  /\ numSamples = pushed - gone
  /\ IF chunkBuffer = <<>> THEN gone = pushed
     ELSE chunkBuffer[1].from = gone + 1 /\ chunkBuffer[Len(chunkBuffer)].to = pushed
  /\ \A i \in 1 .. Len(chunkBuffer) :
       /\ chunkBuffer[i].from <= chunkBuffer[i].to
       /\ i > 1 => chunkBuffer[i].from = chunkBuffer[i - 1].to + 1

\* Nobody sleeps in WaitForPlayout over an empty buffer unless the signal is on its way: not when
\* the last frame, not when a mute emptied it (emptyBufCond, ClearQueue).
WaiterHeard == waiter = "wait" => numSamples > 0 \/ processor \in {"frame", "signal"} \/ muter = "signal"

\* What was written before Close is played (or muted away) before the writers are closed.
PlayedOut == processor = "ended" => gone >= owed

\* What the comment of processSamples says ("we continue to write on close until the buffer is
\* empty"): nothing stays behind.  A WriteSample that looked at `closed` before Close may push
\* after the goroutine ended, and WaitForPlayout then waits for ever.
EmptyAtEnd == processor = "ended" => numSamples = 0

\* What the comment of setMuted says ("Pending samples are dropped on mute, but we continue to
\* write silence"): a muted track plays nothing.  A WriteSample that looked at `muted` before the
\* mute pushes after ClearQueue, and its samples are heard.
MutedIsSilent == [][(muted /\ muter = "idle") => gone' = gone]_vars
=============================================================================
