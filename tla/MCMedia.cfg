SPECIFICATION Spec
CONSTANTS
  NONE = NONE
  MaxFrames = 3
  Sizes = {0, 1, 3}
  SeqMod = 16
  FrameMod = 4
  FirstSeq = 14
  FirstFrame = 3
  BufferPackets = 3
  BufferSize = 1
  Pushers = {c1, c2}
  Packets = 2
  Low = 1
  MaxChannels = 2
  Callers = {c1}
  TaskChunks = 2
  MaxWrites = 2
  MaxLosses = 1
  LinkMayDie = TRUE
  Providers = {p1, p2}
  MaxWorkers = 3
  samplesPerFrame = 2
  ChunkSizes = {1, 3}
  MaxPCM = 7
  MaxMutes = 3
  ClockMod = 12
  Parts = 2
  Durations = {2, 3}
  Dropped = {0, 1}
  MaxTime = 3
  MaxSamples = 3
  Codecs = {"H264", "H265"}
  h265SingleSliceFlush = FALSE
  MaxUnits = 5
  Calls = {c1, c2}
  Indexes = {0, 1}
  MaxKeys = 2
  NackMod = 8
  Reach = 3
  Final = 13
INVARIANTS
  FramesKept
  StreamsWhole
  MediaOut
  LossAsked
PROPERTIES
  PicturesTimed
  KeysMatch
CHECK_DEADLOCK FALSE
