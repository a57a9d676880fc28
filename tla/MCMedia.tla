------------------------------ MODULE MCMedia -------------------------------
(***************************************************************************)
(* Media and data between the application and the wire: frames and streams *)
(* of data, samples and their timestamps, keys, and the packets asked for  *)
(* again. Each component is its own specification; one runs in a           *)
(* behaviour, and a property is asked of the component that runs.          *)
(***************************************************************************)
EXTENDS Naturals, Sequences, TLC

\* Those of the components, under other names where two of them differ.
CONSTANTS
  NONE,         \* no value
  MaxFrames, Sizes, SeqMod, FrameMod, FirstSeq, FirstFrame, BufferPackets, BufferSize,
  Pushers, Packets, Low, MaxChannels,
  Callers, TaskChunks, MaxWrites, MaxLosses, LinkMayDie,
  Providers, MaxWorkers,
  samplesPerFrame, ChunkSizes, MaxPCM, MaxMutes,
  ClockMod, Parts, Durations, Dropped, MaxTime, MaxSamples,
  Codecs, h265SingleSliceFlush, MaxUnits,
  Calls, Indexes, MaxKeys,
  NackMod, Reach, Final

VARIABLES
  component,    \* the one that runs
  packetizer, net, partials, order, maxPartials, receiveStream,
  frames, pushing, frame, notify, dc, sendChannel, callback, sendWorker,
  sendDone,
  broken, streamOnce, writes, offer, streamWorker, streamLock,
  closer, finished, engine, streamChannel, room, reader,
  track, startup, writerWriter, source, completed, failed,
  chunkBuffer, numSamples, bound, muted, closed, pcmWriter, processor,
  frameRoom, muter, mutes, waiter, pushed, gone, owed,
  timestampsLast, clock, offset, wall, origin, strayed, samples,
  codec, unitsStream, pending, metadata, sample, unitsOut, ended,
  keys, currentIndex, state, cache, rotateMu, calls, since, keysOut,
  seen, head, nackQueue, skippedAtWrap

\* Frames of packets whose numbers wrap, over a network that loses and reorders.
DTF == INSTANCE DataTrackFrames WITH stream <- receiveStream
\* Frames pushed while the channel is replaced.
DTS == INSTANCE DataTrackSender WITH
  channel <- sendChannel, worker <- sendWorker, done <- sendDone
\* A stream written by SendText or SendFile and by the application.
DS == INSTANCE DataStreams WITH
  Chunks <- TaskChunks,
  once <- streamOnce, worker <- streamWorker, lock <- streamLock,
  channel <- streamChannel
\* A track bound, unbound and bound again.
LTW == INSTANCE LocalTrackWriter WITH writer <- writerWriter
\* Chunks that do not fill the frames.
PCM == INSTANCE PCMLocalTrack WITH
  Sizes <- ChunkSizes, MaxSamples <- MaxPCM, writer <- pcmWriter, room <- frameRoom
\* Samples with a duration and pauses between them.
ST == INSTANCE SampleTimestamps WITH M <- ClockMod, last <- timestampsLast
\* Both codecs' NAL units.
AU == INSTANCE AccessUnits WITH stream <- unitsStream, out <- unitsOut
\* Keys set and rotated between calls.
FK == INSTANCE FrameKeys WITH out <- keysOut
\* Packets over the wrap of the sequence numbers.
NG == INSTANCE NackGenerator WITH M <- NackMod

ASSUME Bounds ==
  /\ DTF!FramesAssumption
  /\ DTS!SenderAssumption
  /\ DS!StreamsAssumption
  /\ LTW!WriterAssumption
  /\ PCM!PCMAssumption
  /\ ST!TimestampAssumption
  /\ AU!UnitsAssumption
  /\ FK!KeysAssumption
  /\ NG!NackAssumption

receiveVars == <<packetizer, net, partials, order, maxPartials,
                 receiveStream>>
sendVars == <<frames, pushing, frame, notify, dc, sendChannel, callback,
              sendWorker, sendDone>>
streamVars == <<broken, streamOnce, writes, offer,
                streamWorker, streamLock, closer, finished, engine,
                streamChannel, room, reader>>
writerVars == <<track, startup, writerWriter, source, completed, failed>>
pcmVars == <<chunkBuffer, numSamples, bound, muted, closed, pcmWriter,
             processor, frameRoom, muter, mutes, waiter, pushed, gone, owed>>
timestampsVars == <<timestampsLast, clock, offset, wall, origin, strayed,
                    samples>>
unitsVars == <<codec, unitsStream, pending, metadata, sample, unitsOut,
               ended>>
keysVars == <<keys, currentIndex, state, cache, rotateMu, calls, since,
              keysOut>>
nackVars == <<seen, head, nackQueue, skippedAtWrap>>
vars == <<component, receiveVars, sendVars, streamVars, writerVars, pcmVars,
          timestampsVars, unitsVars, keysVars, nackVars>>

Components == {"receive", "send", "stream", "writer", "pcm", "timestamps",
               "units", "keys", "nack"}

\* A component that does not run stays in one of its initial states.
Init ==
  /\ component \in Components
  /\ DTF!Init /\ (component # "receive" => maxPartials = 1)
  /\ DTS!Init
  /\ DS!Init
  /\ LTW!Init
  /\ PCM!Init
  /\ ST!Init
  /\ AU!Init /\ (component # "units" => codec = CHOOSE c \in Codecs : TRUE)
  /\ FK!Init /\ (component # "keys" => currentIndex = CHOOSE i \in Indexes : TRUE)
  /\ NG!Init /\ (component # "nack" => head = 0)

Next ==
  /\ UNCHANGED component
  /\ \/ /\ component = "receive" /\ DTF!Next
        /\ UNCHANGED <<sendVars, streamVars, writerVars, pcmVars,
                      timestampsVars, unitsVars, keysVars, nackVars>>
     \/ /\ component = "send" /\ DTS!Next
        /\ UNCHANGED <<receiveVars, streamVars, writerVars, pcmVars,
                      timestampsVars, unitsVars, keysVars, nackVars>>
     \/ /\ component = "stream" /\ DS!Next
        /\ UNCHANGED <<receiveVars, sendVars, writerVars, pcmVars,
                      timestampsVars, unitsVars, keysVars, nackVars>>
     \/ /\ component = "writer" /\ LTW!Next
        /\ UNCHANGED <<receiveVars, sendVars, streamVars, pcmVars,
                      timestampsVars, unitsVars, keysVars, nackVars>>
     \/ /\ component = "pcm" /\ PCM!Next
        /\ UNCHANGED <<receiveVars, sendVars, streamVars, writerVars,
                      timestampsVars, unitsVars, keysVars, nackVars>>
     \/ /\ component = "timestamps" /\ ST!Next
        /\ UNCHANGED <<receiveVars, sendVars, streamVars, writerVars,
                      pcmVars, unitsVars, keysVars, nackVars>>
     \/ /\ component = "units" /\ AU!Next
        /\ UNCHANGED <<receiveVars, sendVars, streamVars, writerVars,
                      pcmVars, timestampsVars, keysVars, nackVars>>
     \/ /\ component = "keys" /\ FK!Next
        /\ UNCHANGED <<receiveVars, sendVars, streamVars, writerVars,
                      pcmVars, timestampsVars, unitsVars, nackVars>>
     \/ /\ component = "nack" /\ NG!Next
        /\ UNCHANGED <<receiveVars, sendVars, streamVars, writerVars,
                      pcmVars, timestampsVars, unitsVars, keysVars>>

Spec == Init /\ [][Next]_vars

-----------------------------------------------------------------------------
\* A frame the application gets is one that was pushed, whole and with its own chunks, however the
\* packets are lost and reordered and the numbers wrap, and no reader sleeps beside one; a frame kept
\* for the channel is sent without a further push, and each channel carries whole frames
\* (internal/datatrack/depacketizer.go, remote.go; datatracksender.go).
FramesKept ==
  /\ component = "receive" => DTF!TypeOK /\ DTF!FramesIntact /\ DTF!OrderListsPartials /\ DTF!ReaderWoken
  /\ component = "send" => DTS!TypeOK /\ DTS!WakeNotLost /\ DTS!FramesWhole

\* A data stream is read in the order it was published, each chunk once; if no message was lost and
\* nobody but a task's onDone closed it, all of it, task by task; until the close no chunk handed over
\* is left unpublished; the trailer comes between two tasks; readers are released by the trailer or
\* the room's cleanup; closing the engine is not stuck while the channel drains (streams.go, room.go).
StreamsWhole ==
  component = "stream" =>
    DS!TypeOK /\ DS!SentWhole /\ DS!TrailerBetweenTasks /\ DS!ReadersReleased /\ DS!EngineCloseGoesOn

\* A bound track has one live writer as long as its provider has samples, unless an error ended it or
\* an earlier provider's goroutine began last; and a PCM track plays what was pushed in its order,
\* wakes who waits for the end, and plays out before it is closed (localtrack.go,
\* pkg/media/pcmlocaltrack.go).
MediaOut ==
  /\ component = "writer" => LTW!TypeOK /\ LTW!OneReader /\ LTW!WriterRuns
  /\ component = "pcm" => PCM!TypeOK /\ PCM!NothingSkipped /\ PCM!WaiterHeard /\ PCM!PlayedOut

\* RTP timestamps follow the durations and the pauses, within a tick for each packet dropped and until
\* a frame cannot be encrypted, and never jump back; and the access units read
\* from a file lose no NAL unit, hold one picture each and carry its own metadata (localtrack.go,
\* readersampleprovider.go).
PicturesTimed ==
  /\ [](component = "timestamps" => ST!TypeOK /\ ST!InStep /\ ST!KeepsUp)
  /\ [](component = "units" => AU!TypeOK /\ AU!NothingLost /\ AU!WholePictures /\ AU!MetadataFollows)
  /\ ST!Forward

\* The key index sent with a frame is that of the key it was sealed with, and a cached block is of a
\* key the provider held during the call (e2ee/frameencryptor.go, e2ee/datacryptor.go).
KeysMatch == [](component = "keys" => FK!TypeOK /\ FK!LabelMatches) /\ FK!CipherFresh

\* What is missing is asked for and what came is not, through the wrap of the sequence numbers but for
\* the packets skipped right at it (pkg/interceptor/nackgenerator.go).
LossAsked == component = "nack" => NG!TypeOK /\ NG!GapsRequested /\ NG!OnlyMissing
=============================================================================
