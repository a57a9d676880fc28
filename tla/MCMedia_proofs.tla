--------------------------- MODULE MCMedia_proofs ---------------------------
(***************************************************************************)
(* What is proved of the components of MCMedia, for every value of the     *)
(* constants its assumption Bounds admits.  Each component has an          *)
(* inductive invariant that holds of its initial states and is kept by its *)
(* steps; the components that do not run stand still (OneRuns).            *)
(***************************************************************************)
EXTENDS MCMedia, FiniteSetTheorems, SequenceTheorems, WellFoundedInduction, TLAPS


KeyPairs == Indexes \X (0 .. MaxKeys)
CallPlaces == {"idle", "frame", "rotate", "store", "cipher", "cached"}
CallRecord == [at : CallPlaces, index : Indexes \cup {NONE}, key : KeyPairs \cup {NONE}]

KeysTyped ==
  /\ keys \in [Indexes -> 0 .. MaxKeys] /\ currentIndex \in Indexes
  /\ state \in [index : Indexes, key : KeyPairs]
  /\ cache \in [Indexes -> KeyPairs \cup {NONE}]
  /\ rotateMu \in Calls \cup {NONE}
  /\ since \in [Calls -> [Indexes -> 0 .. MaxKeys]]
  /\ calls \in [Calls -> CallRecord]

\* A block in the cache is of a key of its own index.
CacheOfIndex == \A i \in Indexes : cache[i] # NONE => cache[i] \in {i} \X (0 .. MaxKeys)

\* A call that has read a key has read it at its own index ...
OwnKey ==
  \A c \in Calls :
    /\ calls[c].at # "idle" => calls[c].index \in Indexes
    /\ calls[c].at \in {"store", "cipher", "cached"} =>
         calls[c].key \in KeyPairs /\ calls[c].key[1] = calls[c].index

\* ... and one that looks into the cache has read the one that was set when it began.
KeyOfBeginning ==
  \A c \in Calls : calls[c].at \in {"cipher", "cached"} => calls[c].key[2] = since[c][calls[c].index]

BlockOfIndex == state.key[1] = state.index

KeysInv == KeysTyped /\ CacheOfIndex /\ OwnKey /\ KeyOfBeginning /\ BlockOfIndex /\ FK!LabelMatches

-----------------------------------------------------------------------------
\* A call that is not idle is not over (calls of other goroutines leave it as it is).
LEMMA CallNotIdle == \A r : r.at \in {"cipher", "cached"} => r # FK!Idle
  BY DEF FK!Idle

LEMMA KeysInit == ASSUME FK!KeysAssumption PROVE FK!Init => KeysInv
<1> SUFFICES ASSUME FK!Init PROVE KeysInv OBVIOUS
<1> USE DEF FK!KeysAssumption
<1>1. PICK i \in Indexes : /\ keys = [j \in Indexes |-> IF j = i THEN 1 ELSE 0]
                           /\ currentIndex = i /\ state = [index |-> i, key |-> <<i, 1>>]
  BY DEF FK!Init
<1>2. KeysTyped
  <2>1. keys \in [Indexes -> 0 .. MaxKeys] /\ currentIndex \in Indexes BY <1>1
  <2>2. since \in [Calls -> [Indexes -> 0 .. MaxKeys]] BY <2>1 DEF FK!Init
  <2>3. FK!Idle \in CallRecord BY DEF FK!Idle, CallRecord, CallPlaces
  <2>4. calls \in [Calls -> CallRecord] BY <2>3 DEF FK!Init
  <2>5. state \in [index : Indexes, key : KeyPairs] BY <1>1 DEF KeyPairs
  <2>6. cache \in [Indexes -> KeyPairs \cup {NONE}] /\ rotateMu \in Calls \cup {NONE} BY DEF FK!Init
  <2> QED BY <2>1, <2>2, <2>4, <2>5, <2>6 DEF KeysTyped
<1>3. CacheOfIndex /\ OwnKey /\ KeyOfBeginning
  BY DEF FK!Init, FK!Idle, CacheOfIndex, OwnKey, KeyOfBeginning
<1>4. BlockOfIndex BY <1>1 DEF BlockOfIndex
<1>5. FK!LabelMatches BY DEF FK!Init, FK!LabelMatches
<1> QED BY <1>2, <1>3, <1>4, <1>5 DEF KeysInv

\* A call that returns the key it read keeps the invariant.
LEMMA KeyReturned ==
  ASSUME KeysInv, NEW c \in Calls, calls[c].at \in {"cipher", "cached"},
         calls' = [calls EXCEPT ![c] = FK!Idle],
         FK!Result(c, calls[c].index, calls[c].key),
         cache' = cache \/ cache' = [cache EXCEPT ![calls[c].index] = calls[c].key],
         UNCHANGED <<keys, currentIndex, state, rotateMu, since>>
  PROVE  KeysInv'
<1> USE DEF KeysInv
<1>1. /\ calls[c].index \in Indexes /\ calls[c].key \in KeyPairs
      /\ calls[c].key[1] = calls[c].index
  BY DEF OwnKey
<1>2. KeysTyped'
  <2>1. calls' \in [Calls -> CallRecord] BY DEF KeysTyped, CallRecord, FK!Idle, CallPlaces
  <2>2. cache' \in [Indexes -> KeyPairs \cup {NONE}] BY <1>1 DEF KeysTyped
  <2> QED BY <2>1, <2>2 DEF KeysTyped
<1>3. OwnKey' /\ KeyOfBeginning' BY DEF OwnKey, KeyOfBeginning, FK!Idle, KeysTyped
<1>4. BlockOfIndex' /\ FK!LabelMatches' BY <1>1 DEF BlockOfIndex, FK!LabelMatches, FK!Result
<1>5. calls[c].key \in {calls[c].index} \X (0 .. MaxKeys) BY <1>1 DEF KeyPairs
<1>6. CacheOfIndex' BY <1>1, <1>5 DEF CacheOfIndex, KeysTyped
<1> QED BY <1>2, <1>3, <1>4, <1>6

LEMMA KeysNext == ASSUME FK!KeysAssumption PROVE KeysInv /\ [FK!Next]_(FK!vars) => KeysInv'
<1> SUFFICES ASSUME KeysInv, [FK!Next]_(FK!vars) PROVE KeysInv' OBVIOUS
<1> USE DEF KeysInv
<1>1. ASSUME NEW i \in Indexes, FK!SetKey(i) PROVE KeysInv'
  <2>1. KeysTyped' BY <1>1 DEF FK!SetKey, KeysTyped, FK!KeysAssumption
  <2>2. CacheOfIndex' /\ OwnKey' /\ KeyOfBeginning'
    BY <1>1 DEF FK!SetKey, CacheOfIndex, OwnKey, KeyOfBeginning
  <2>3. BlockOfIndex' /\ FK!LabelMatches' BY <1>1 DEF FK!SetKey, BlockOfIndex, FK!LabelMatches
  <2> QED BY <2>1, <2>2, <2>3
<1>2. ASSUME NEW c \in Calls, FK!EncryptFrame(c) PROVE KeysInv'
  <2>1. calls' = [calls EXCEPT ![c] = [at |-> "frame", index |-> currentIndex, key |-> NONE]]
    BY <1>2 DEF FK!EncryptFrame
  <2>2. KeysTyped' BY <1>2, <2>1 DEF FK!EncryptFrame, KeysTyped, CallRecord, CallPlaces
  <2>3. OwnKey' /\ KeyOfBeginning' BY <1>2, <2>1 DEF FK!EncryptFrame, OwnKey, KeyOfBeginning, KeysTyped
  <2>4. CacheOfIndex' /\ BlockOfIndex' /\ FK!LabelMatches'
    BY <1>2 DEF FK!EncryptFrame, CacheOfIndex, BlockOfIndex, FK!LabelMatches
  <2> QED BY <2>2, <2>3, <2>4
<1>3. ASSUME NEW c \in Calls, FK!FrameFast(c) \/ FK!Rotate(c) PROVE KeysInv'
  <2>1. CASE FK!Matches(calls[c].index)
    <3>1. /\ FK!Result(c, calls[c].index, state.key) /\ calls' = [calls EXCEPT ![c] = FK!Idle]
          /\ UNCHANGED <<keys, currentIndex, state, cache, rotateMu, since>>
      BY <1>3, <2>1 DEF FK!FrameFast, FK!Rotate
    <3>2. KeysTyped' BY <3>1 DEF KeysTyped, CallRecord, FK!Idle, CallPlaces
    <3>3. OwnKey' /\ KeyOfBeginning' BY <3>1 DEF OwnKey, KeyOfBeginning, FK!Idle, KeysTyped
    <3>4. CacheOfIndex' /\ BlockOfIndex' BY <3>1 DEF CacheOfIndex, BlockOfIndex
    <3>5. FK!LabelMatches' BY <3>1, <2>1 DEF FK!LabelMatches, FK!Result, FK!Matches, BlockOfIndex
    <3> QED BY <3>2, <3>3, <3>4, <3>5
  <2>2. CASE ~FK!Matches(calls[c].index) /\ FK!FrameFast(c)
    <3>1. /\ calls[c].at = "frame" /\ calls' = [calls EXCEPT ![c].at = "rotate"]
          /\ UNCHANGED <<keys, currentIndex, state, cache, rotateMu, since, keysOut>>
      BY <2>2 DEF FK!FrameFast
    <3>2. KeysTyped' BY <3>1 DEF KeysTyped, CallRecord, CallPlaces
    <3>3. OwnKey' /\ KeyOfBeginning' BY <3>1 DEF OwnKey, KeyOfBeginning, KeysTyped, CallRecord
    <3> QED BY <3>1, <3>2, <3>3 DEF CacheOfIndex, BlockOfIndex, FK!LabelMatches
  <2>3. CASE ~FK!Matches(calls[c].index) /\ FK!Rotate(c)
    <3>1. /\ calls[c].at = "rotate"
          /\ calls' = [calls EXCEPT ![c].at = "store", ![c].key = FK!Key(calls[c].index)]
          /\ rotateMu' = c
          /\ UNCHANGED <<keys, currentIndex, state, cache, since, keysOut>>
      BY <2>3 DEF FK!Rotate
    <3>2. calls[c].index \in Indexes BY <3>1 DEF OwnKey
    <3>3. FK!Key(calls[c].index) \in KeyPairs /\ FK!Key(calls[c].index)[1] = calls[c].index
      BY <3>2 DEF FK!Key, KeyPairs, KeysTyped
    <3>4. KeysTyped' BY <3>1, <3>3 DEF KeysTyped, CallRecord, CallPlaces
    <3>5. OwnKey' /\ KeyOfBeginning' BY <3>1, <3>2, <3>3 DEF OwnKey, KeyOfBeginning, KeysTyped, CallRecord
    <3> QED BY <3>1, <3>4, <3>5 DEF CacheOfIndex, BlockOfIndex, FK!LabelMatches
  <2> QED BY <1>3, <2>1, <2>2, <2>3
<1>4. ASSUME NEW c \in Calls, FK!RotateStore(c) PROVE KeysInv'
  <2>1. /\ calls[c].at = "store" /\ calls' = [calls EXCEPT ![c] = FK!Idle]
        /\ state' = [index |-> calls[c].index, key |-> calls[c].key]
        /\ FK!Result(c, calls[c].index, calls[c].key)
        /\ rotateMu' = NONE /\ UNCHANGED <<keys, currentIndex, cache, since>>
    BY <1>4 DEF FK!RotateStore
  <2>2. calls[c].key[1] = calls[c].index /\ calls[c].index \in Indexes /\ calls[c].key \in KeyPairs
    BY <2>1 DEF OwnKey
  <2>3. KeysTyped' BY <2>1, <2>2 DEF KeysTyped, CallRecord, FK!Idle, CallPlaces
  <2>4. OwnKey' /\ KeyOfBeginning' BY <2>1 DEF OwnKey, KeyOfBeginning, FK!Idle, KeysTyped
  <2>5. CacheOfIndex' /\ BlockOfIndex' /\ FK!LabelMatches' BY <2>1, <2>2 DEF CacheOfIndex, BlockOfIndex, FK!LabelMatches, FK!Result
  <2> QED BY <2>3, <2>4, <2>5
<1>5. ASSUME NEW c \in Calls, NEW i \in Indexes, FK!GetCipher(c, i) PROVE KeysInv'
  <2>1. /\ calls' = [calls EXCEPT ![c] = [at |-> "cipher", index |-> i, key |-> FK!Key(i)]]
        /\ since' = [since EXCEPT ![c] = keys]
        /\ UNCHANGED <<keys, currentIndex, state, cache, rotateMu, keysOut>>
    BY <1>5 DEF FK!GetCipher
  <2>2. FK!Key(i) \in KeyPairs /\ FK!Key(i)[1] = i /\ FK!Key(i)[2] = keys[i] BY DEF FK!Key, KeyPairs, KeysTyped
  <2>3. KeysTyped' BY <2>1, <2>2 DEF KeysTyped, CallRecord, CallPlaces
  <2>4. OwnKey' BY <2>1, <2>2 DEF OwnKey, KeysTyped
  <2>5. KeyOfBeginning' BY <2>1, <2>2 DEF KeyOfBeginning, KeysTyped
  <2> QED BY <2>1, <2>3, <2>4, <2>5 DEF CacheOfIndex, BlockOfIndex, FK!LabelMatches
<1>6. ASSUME NEW c \in Calls, FK!CipherCached(c) PROVE KeysInv'
  <2>1. CASE FK!Hit(c)
    <3>1. /\ calls[c].at = "cipher" /\ calls' = [calls EXCEPT ![c] = FK!Idle]
          /\ FK!Result(c, calls[c].index, calls[c].key)
          /\ UNCHANGED <<keys, currentIndex, state, cache, rotateMu, since>>
      BY <1>6, <2>1 DEF FK!CipherCached, FK!Hit
    <3> QED BY <3>1, KeyReturned
  <2>2. CASE ~FK!Hit(c)
    <3>1. /\ calls[c].at = "cipher" /\ calls' = [calls EXCEPT ![c].at = "cached"]
          /\ UNCHANGED <<keys, currentIndex, state, cache, rotateMu, since, keysOut>>
      BY <1>6, <2>2 DEF FK!CipherCached
    <3>2. KeysTyped' BY <3>1 DEF KeysTyped, CallRecord, CallPlaces
    <3>3. OwnKey' /\ KeyOfBeginning' BY <3>1 DEF OwnKey, KeyOfBeginning, KeysTyped, CallRecord
    <3> QED BY <3>1, <3>2, <3>3 DEF CacheOfIndex, BlockOfIndex, FK!LabelMatches
  <2> QED BY <2>1, <2>2
<1>7. ASSUME NEW c \in Calls, FK!CipherStore(c) PROVE KeysInv'
  <2>1. /\ calls[c].at = "cached" /\ calls' = [calls EXCEPT ![c] = FK!Idle]
        /\ FK!Result(c, calls[c].index, calls[c].key)
        /\ cache' = [cache EXCEPT ![calls[c].index] = calls[c].key]
        /\ UNCHANGED <<keys, currentIndex, state, rotateMu, since>>
    BY <1>7 DEF FK!CipherStore
  <2> QED BY <2>1, KeyReturned
<1>8. CASE UNCHANGED FK!vars
  BY <1>8 DEF FK!vars, KeysTyped, CacheOfIndex, OwnKey, KeyOfBeginning, BlockOfIndex, FK!LabelMatches
<1> QED BY <1>1, <1>2, <1>3, <1>4, <1>5, <1>6, <1>7, <1>8 DEF FK!Next

LEMMA FreshNext ==
  ASSUME KeysInv, [FK!Next]_(FK!vars), keysOut' # keysOut,
         NEW c \in Calls, calls[c].at \in {"cipher", "cached"}, calls'[c] = FK!Idle
  PROVE  keysOut'.key[2] >= keysOut'.began
<1> USE DEF KeysInv
<1>1. calls'[c] # calls[c] BY CallNotIdle
<1>2. ~ UNCHANGED FK!vars BY DEF FK!vars
<1>3. FK!CipherCached(c) \/ FK!CipherStore(c)
  <2>1. ASSUME NEW i \in Indexes, FK!SetKey(i) PROVE FALSE BY <2>1, <1>1 DEF FK!SetKey
  <2>2. ASSUME NEW d \in Calls, FK!EncryptFrame(d) PROVE FALSE BY <2>2, <1>1 DEF FK!EncryptFrame
  <2>3. ASSUME NEW d \in Calls, FK!FrameFast(d) \/ FK!Rotate(d) \/ FK!RotateStore(d) PROVE FALSE
    <3>1. d # c BY <2>3 DEF FK!FrameFast, FK!Rotate, FK!RotateStore
    <3>2. calls'[c] = calls[c] BY <2>3, <3>1 DEF FK!FrameFast, FK!Rotate, FK!RotateStore, KeysTyped
    <3> QED BY <3>2, <1>1
  <2>4. ASSUME NEW d \in Calls, NEW i \in Indexes, FK!GetCipher(d, i) PROVE FALSE
    BY <2>4 DEF FK!GetCipher
  <2>5. ASSUME NEW d \in Calls, FK!CipherCached(d) \/ FK!CipherStore(d) PROVE d = c
    <3>1. d # c => calls'[c] = calls[c] BY <2>5 DEF FK!CipherCached, FK!CipherStore, KeysTyped
    <3> QED BY <3>1, <1>1
  <2> QED BY <1>2, <2>1, <2>2, <2>3, <2>4, <2>5 DEF FK!Next
<1>4. FK!Result(c, calls[c].index, calls[c].key) BY <1>3 DEF FK!CipherCached, FK!CipherStore, FK!Hit
<1>5. calls[c].index \in Indexes /\ calls[c].key[2] = since[c][calls[c].index]
  BY DEF OwnKey, KeyOfBeginning
<1>6. since[c][calls[c].index] \in 0 .. MaxKeys BY <1>5 DEF KeysTyped
<1>7. since[c][calls[c].index] \in Nat BY <1>6, Bounds DEF FK!KeysAssumption
<1> QED BY <1>4, <1>5, <1>7 DEF FK!Result

LEMMA KeysTypeOK == KeysInv => FK!TypeOK
<1> SUFFICES ASSUME KeysInv PROVE FK!TypeOK OBVIOUS
<1>1. state.index \in Indexes /\ state.key \in Indexes \X (0 .. MaxKeys)
  BY DEF KeysInv, KeysTyped, KeyPairs
<1>2. \A i \in Indexes : cache[i] = NONE \/ cache[i] \in {i} \X (0 .. MaxKeys)
  BY DEF KeysInv, CacheOfIndex
<1>3. \A c \in Calls : calls[c].at \in CallPlaces BY DEF KeysInv, KeysTyped, CallRecord
<1> QED BY <1>1, <1>2, <1>3 DEF KeysInv, KeysTyped, FK!TypeOK, CallPlaces

LEMMA KeysRun == [Next]_vars => [FK!Next]_(FK!vars)
  BY DEF Next, vars, keysVars, FK!vars

\* What is sent with a key index was sealed with a key of that index, and a block taken from a cache,
\* or put into it, is of a key the provider held during the call.
THEOREM KeysAlwaysMatch == Spec => KeysMatch
<1> USE Bounds
<1>1. Init => KeysInv BY KeysInit DEF Init
<1>2. KeysInv /\ [Next]_vars => KeysInv' BY KeysNext, KeysRun
<1>3. KeysInv => (component = "keys" => FK!TypeOK /\ FK!LabelMatches) BY KeysTypeOK DEF KeysInv
<1>4. KeysInv /\ [Next]_vars =>
        [(keysOut' # keysOut /\ \E c \in Calls : calls[c].at \in {"cipher", "cached"} /\ calls'[c] = FK!Idle)
           => keysOut'.key[2] >= keysOut'.began]_(FK!vars)
  BY FreshNext, KeysRun
<1> QED BY <1>1, <1>2, <1>3, <1>4, PTL DEF Spec, KeysMatch, FK!CipherFresh

-----------------------------------------------------------------------------
(* PCM chunks cut into frames.                                             *)

Chunk == [from : 1 .. MaxPCM, to : 1 .. MaxPCM]

FlagsTyped ==
  /\ bound \in BOOLEAN /\ muted \in BOOLEAN /\ closed \in BOOLEAN
  /\ processor \in {"none", "loop", "take", "frame", "signal", "tick", "ended"}
  /\ muter \in {"idle", "clear", "signal"} /\ mutes \in 0 .. MaxMutes
  /\ waiter \in {"idle", "check", "wait"}
  /\ processor # "none" => bound

CountsTyped ==
  /\ pcmWriter \in ChunkSizes \cup {0} /\ frameRoom \in 0 .. samplesPerFrame
  /\ pushed \in 0 .. MaxPCM /\ gone \in 0 .. MaxPCM /\ owed \in 0 .. MaxPCM
  /\ pcmWriter # 0 => pushed + pcmWriter <= MaxPCM
  /\ gone <= pushed /\ owed <= pushed /\ numSamples = pushed - gone

\* Chunks s hold the samples after the first g up to sample p.
Holds(s, g, p) ==
  /\ IF s = <<>> THEN g = p ELSE s[1].from = g + 1 /\ s[Len(s)].to = p
  /\ \A i \in 1 .. Len(s) :
       /\ s[i].from <= s[i].to /\ s[i].to <= p
       /\ i > 1 => s[i].from = s[i - 1].to + 1

BufferHolds == chunkBuffer \in Seq(Chunk) /\ Holds(chunkBuffer, gone, pushed)

EndsPlayed == (processor = "ended" => closed) /\ PCM!PlayedOut

PCMInv == FlagsTyped /\ CountsTyped /\ BufferHolds /\ PCM!WaiterHeard /\ EndsPlayed

LEMMA PCMNumbers ==
  ASSUME PCM!PCMAssumption
  PROVE  /\ samplesPerFrame \in Nat /\ samplesPerFrame # 0 /\ MaxPCM \in Nat /\ MaxMutes \in Nat
         /\ \A n \in ChunkSizes : n \in Nat /\ n # 0
  BY DEF PCM!PCMAssumption

LEMMA PCMInit == ASSUME PCM!PCMAssumption PROVE PCM!Init => PCMInv
<1> SUFFICES ASSUME PCM!Init PROVE PCMInv OBVIOUS
<1> USE PCMNumbers DEF PCM!Init
<1>1. bound \in BOOLEAN /\ muted \in BOOLEAN /\ closed \in BOOLEAN BY Zenon
<1>10. mutes \in 0 .. MaxMutes OBVIOUS
<1>11. FlagsTyped BY <1>1, <1>10 DEF FlagsTyped
<1>2. CountsTyped BY DEF CountsTyped
<1>3. BufferHolds
  <2>1. chunkBuffer \in Seq(Chunk) /\ Len(chunkBuffer) = 0 OBVIOUS
  <2> QED BY <2>1 DEF BufferHolds, Holds
<1>4. PCM!WaiterHeard /\ EndsPlayed BY DEF PCM!WaiterHeard, EndsPlayed, PCM!PlayedOut
<1> QED BY <1>11, <1>2, <1>3, <1>4 DEF PCMInv

LEMMA ChunkPushed ==
  ASSUME NEW s \in Seq(Chunk), NEW g \in Nat, NEW p \in Nat, NEW n \in Nat, n # 0,
         p + n <= MaxPCM, MaxPCM \in Nat, Holds(s, g, p)
  PROVE  /\ Append(s, [from |-> p + 1, to |-> p + n]) \in Seq(Chunk)
         /\ Holds(Append(s, [from |-> p + 1, to |-> p + n]), g, p + n)
<1> DEFINE c == [from |-> p + 1, to |-> p + n]
           t == Append(s, c)
<1>1. c \in Chunk /\ c.from = p + 1 /\ c.to = p + n BY DEF Chunk
<1> HIDE DEF c
<1>2. /\ t \in Seq(Chunk) /\ Len(t) = Len(s) + 1 /\ Len(s) \in Nat /\ t # <<>>
      /\ \A i \in 1 .. Len(s) : t[i] = s[i]
      /\ t[Len(t)] = c
  BY <1>1, AppendProperties, LenProperties
<1>3. s # <<>> => Len(s) >= 1 BY <1>2, EmptySeq
<1>4. \A i \in 1 .. Len(s) : s[i] \in Chunk BY ElementOfSeq
<1> HIDE DEF t
<1>5. t[1].from = g + 1
  <2>1. CASE s = <<>> BY <2>1, <1>1, <1>2 DEF Holds
  <2>2. CASE s # <<>> BY <2>2, <1>2, <1>3 DEF Holds
  <2> QED BY <2>1, <2>2
<1>6. ASSUME NEW i \in 1 .. Len(t)
      PROVE  /\ t[i].from <= t[i].to /\ t[i].to <= p + n
             /\ i > 1 => t[i].from = t[i - 1].to + 1
  <2>1. CASE i \in 1 .. Len(s)
    <3>1. t[i] = s[i] /\ (i > 1 => t[i - 1] = s[i - 1]) BY <2>1, <1>2
    <3>2. s[i].to \in Nat /\ s[i].to <= p BY <2>1, <1>4 DEF Chunk, Holds
    <3>3. s[i].to <= p + n BY <3>2
    <3> QED BY <2>1, <3>1, <3>3 DEF Holds
  <2>2. CASE i = Len(t)
    <3>1. t[i] = c /\ c.from <= c.to /\ c.to <= p + n BY <2>2, <1>1, <1>2
    <3>2. i > 1 => s # <<>> /\ t[i - 1] = s[Len(s)] BY <2>2, <1>2
    <3> QED BY <3>1, <3>2, <1>1 DEF Holds
  <2> QED BY <2>1, <2>2, <1>2
<1>7. Holds(t, g, p + n) BY <1>1, <1>2, <1>5, <1>6 DEF Holds
<1> QED BY <1>2, <1>7 DEF t, c

\* The chunks after the first.
LEMMA ChunkGone ==
  ASSUME NEW s \in Seq(Chunk), NEW g \in Nat, NEW p \in Nat, s # <<>>, Holds(s, g, p)
  PROVE  /\ Tail(s) \in Seq(Chunk) /\ Head(s) \in Chunk
         /\ Head(s).from = g + 1 /\ Head(s).from <= Head(s).to /\ Head(s).to <= p
         /\ Holds(Tail(s), Head(s).to, p)
<1> DEFINE t == Tail(s)
<1>1. /\ t \in Seq(Chunk) /\ Len(t) = Len(s) - 1 /\ Len(s) \in Nat /\ Len(s) # 0
      /\ \A i \in 1 .. Len(t) : t[i] = s[i + 1]
      /\ Head(s) = s[1] /\ Head(s) \in Chunk
  BY HeadTailProperties, LenProperties, EmptySeq
<1>2. t = <<>> <=> Len(t) = 0 BY <1>1, EmptySeq
<1> HIDE DEF t
<1>3. Head(s).from = g + 1 /\ Head(s).from <= Head(s).to /\ Head(s).to <= p
  BY <1>1 DEF Holds
<1>4. IF t = <<>> THEN Head(s).to = p ELSE t[1].from = Head(s).to + 1 /\ t[Len(t)].to = p
  <2>1. CASE t = <<>>
    <3>1. Len(s) = 1 BY <2>1, <1>1, <1>2
    <3> QED BY <2>1, <3>1, <1>1 DEF Holds
  <2>2. CASE t # <<>>
    <3>1. t[1] = s[2] /\ t[Len(t)] = s[Len(s)] /\ 2 \in 1 .. Len(s) BY <2>2, <1>1, <1>2
    <3>2. s[2].from = s[1].to + 1 BY <3>1 DEF Holds
    <3> QED BY <2>2, <3>1, <3>2, <1>1 DEF Holds
  <2> QED BY <2>1, <2>2
<1>5. ASSUME NEW i \in 1 .. Len(t)
      PROVE  /\ t[i].from <= t[i].to /\ t[i].to <= p
             /\ i > 1 => t[i].from = t[i - 1].to + 1
  <2>1. i + 1 \in 1 .. Len(s) /\ t[i] = s[i + 1] BY <1>1
  <2>2. i > 1 => t[i - 1] = s[i] BY <1>1
  <2>3. s[i + 1].from = s[i].to + 1 /\ s[i + 1].from <= s[i + 1].to /\ s[i + 1].to <= p
    <3>1. (i + 1) - 1 = i /\ i + 1 > 1 OBVIOUS
    <3> QED BY <2>1, <3>1 DEF Holds
  <2> QED BY <2>1, <2>2, <2>3
<1>6. Holds(t, Head(s).to, p) BY <1>4, <1>5 DEF Holds
<1> QED BY <1>1, <1>3, <1>6 DEF t

\* The rest of a chunk goes back to where it was.
LEMMA ChunkCut ==
  ASSUME NEW s \in Seq(Chunk), NEW g \in Nat, NEW p \in Nat, s # <<>>, Holds(s, g, p),
         NEW r \in Nat, g + r < Head(s).to, MaxPCM \in Nat
  PROVE  /\ PCM!PutBack(Tail(s), [Head(s) EXCEPT !.from = @ + r]) \in Seq(Chunk)
         /\ Holds(PCM!PutBack(Tail(s), [Head(s) EXCEPT !.from = @ + r]), g + r, p)
<1> DEFINE c == [Head(s) EXCEPT !.from = @ + r]
           rest == Tail(s)
           t == <<c>> \o rest
<1>1. /\ rest \in Seq(Chunk) /\ Head(s) \in Chunk /\ Head(s).from = g + 1 /\ Head(s).to <= p
      /\ Holds(rest, Head(s).to, p)
  BY ChunkGone
<1>2. c \in Chunk /\ c.from = g + r + 1 /\ c.to = Head(s).to
  <2>1. Head(s).from + r \in 1 .. MaxPCM BY <1>1 DEF Chunk
  <2>2. Head(s).from + r = g + r + 1 BY <1>1
  <2>3. c.from = Head(s).from + r /\ c.to = Head(s).to BY <1>1 DEF Chunk
  <2>4. c \in Chunk BY <1>1, <2>1 DEF Chunk
  <2> QED BY <2>2, <2>3, <2>4
<1> HIDE DEF c, rest
<1>3. <<c>> \in Seq(Chunk) /\ Len(<<c>>) = 1 /\ <<c>>[1] = c BY <1>2
<1>4. /\ t \in Seq(Chunk) /\ Len(t) = Len(rest) + 1 /\ Len(rest) \in Nat
      /\ t[1] = c /\ \A i \in 1 .. Len(t) : i > 1 => t[i] = rest[i - 1]
  BY <1>1, <1>3, ConcatProperties, LenProperties
<1>5. t # <<>> BY <1>4, EmptySeq
<1>6. rest # <<>> => Len(rest) >= 1 BY <1>1, <1>4, EmptySeq
<1> HIDE DEF t
<1>7. t[1].from = (g + r) + 1 /\ t[Len(t)].to = p
  <2>1. CASE rest = <<>>
    <3>1. Len(t) = 1 BY <2>1, <1>4
    <3>2. Head(s).to = p BY <2>1, <1>1 DEF Holds
    <3> QED BY <3>1, <3>2, <1>2, <1>4
  <2>2. CASE rest # <<>>
    <3>1. t[Len(t)] = rest[Len(rest)] BY <2>2, <1>4, <1>6
    <3> QED BY <2>2, <3>1, <1>1, <1>2, <1>4 DEF Holds
  <2> QED BY <2>1, <2>2
<1>8. ASSUME NEW i \in 1 .. Len(t)
      PROVE  /\ t[i].from <= t[i].to /\ t[i].to <= p
             /\ i > 1 => t[i].from = t[i - 1].to + 1
  <2>1. CASE i = 1
    <3>1. c.from <= c.to
      <4>1. Head(s).to \in Nat BY <1>1 DEF Chunk
      <4> QED BY <4>1, <1>2
    <3> QED BY <2>1, <3>1, <1>1, <1>2, <1>4
  <2>2. CASE i = 2
    <3>1. t[2] = rest[1] /\ 1 \in 1 .. Len(rest) /\ rest # <<>> BY <2>2, <1>4
    <3>2. rest[1].from = Head(s).to + 1 BY <3>1, <1>1 DEF Holds
    <3> QED BY <2>2, <3>1, <3>2, <1>1, <1>2, <1>4 DEF Holds
  <2>3. CASE i > 2
    <3> DEFINE j == i - 1
    <3>1. j \in 1 .. Len(rest) /\ j > 1 /\ t[i] = rest[j] /\ t[i - 1] = rest[j - 1] BY <2>3, <1>4
    <3> HIDE DEF j
    <3> QED BY <3>1, <1>1 DEF Holds
  <2> QED BY <2>1, <2>2, <2>3
<1>9. Holds(t, g + r, p) BY <1>5, <1>7, <1>8 DEF Holds
<1> QED BY <1>4, <1>9 DEF t, c, rest, PCM!PutBack

LEMMA PCMNext == ASSUME PCM!PCMAssumption PROVE PCMInv /\ [PCM!Next]_(PCM!vars) => PCMInv'
<1> SUFFICES ASSUME PCMInv, [PCM!Next]_(PCM!vars) PROVE PCMInv' OBVIOUS
<1> USE PCMNumbers DEF PCMInv
<1>1. CASE PCM!Bind \/ PCM!Take \/ PCM!FrameFull \/ PCM!Signal \/ PCM!Tick
  <2>1. /\ UNCHANGED <<chunkBuffer, numSamples, muted, closed, pcmWriter, muter, mutes, pushed, gone, owed>>
        /\ processor' # "ended" /\ frameRoom' \in {frameRoom, samplesPerFrame}
        /\ processor' \in {"loop", "frame", "signal", "tick"} /\ bound' \in {bound, TRUE}
        /\ waiter' \in {waiter, "check"}
    BY <1>1 DEF PCM!Bind, PCM!Take, PCM!FrameFull, PCM!Signal, PCM!Tick, PCM!Woken
  <2>2. FlagsTyped'
    <3>1. CASE PCM!Bind
      <4>1. bound' = TRUE BY <3>1 DEF PCM!Bind
      <4> QED BY <2>1, <4>1 DEF FlagsTyped
    <3>2. CASE PCM!Take \/ PCM!FrameFull \/ PCM!Signal \/ PCM!Tick
      <4>1. bound' = bound /\ processor # "none"
        BY <3>2 DEF PCM!Take, PCM!FrameFull, PCM!Signal, PCM!Tick
      <4> QED BY <2>1, <4>1 DEF FlagsTyped
    <3> QED BY <1>1, <3>1, <3>2
  <2>3. CountsTyped' BY <2>1 DEF CountsTyped
  <2>4. BufferHolds' BY <2>1 DEF BufferHolds
  <2>5. EndsPlayed' BY <2>1 DEF EndsPlayed, PCM!PlayedOut
  <2>6. PCM!WaiterHeard'
    <3>1. CASE waiter' # "wait" BY <3>1 DEF PCM!WaiterHeard
    <3>2. CASE PCM!Bind BY <2>1, <3>2 DEF PCM!Bind, PCM!WaiterHeard, FlagsTyped
    <3>3. CASE PCM!Take BY <2>1, <3>3 DEF PCM!Take, PCM!WaiterHeard
    <3>4. CASE PCM!FrameFull
      <4>1. numSamples = 0 => chunkBuffer = <<>>
        <5>1. SUFFICES ASSUME chunkBuffer # <<>> PROVE gone < pushed BY DEF CountsTyped
        <5>2. chunkBuffer \in Seq(Chunk) /\ Holds(chunkBuffer, gone, pushed) BY DEF BufferHolds
        <5>3. gone \in Nat /\ pushed \in Nat BY DEF CountsTyped
        <5>4. Head(chunkBuffer).from = gone + 1 /\ Head(chunkBuffer).from <= Head(chunkBuffer).to
              /\ Head(chunkBuffer).to <= pushed /\ Head(chunkBuffer) \in Chunk
          BY <5>1, <5>2, <5>3, ChunkGone
        <5>5. Head(chunkBuffer).to \in Nat BY <5>4 DEF Chunk
        <5> QED BY <5>3, <5>4, <5>5
      <4>2. numSamples' = numSamples /\ numSamples \in Nat BY <2>1 DEF CountsTyped
      <4> QED BY <4>1, <4>2, <3>4 DEF PCM!FrameFull, PCM!WaiterHeard
    <3>5. CASE PCM!Signal BY <3>5 DEF PCM!Signal, PCM!Woken, PCM!WaiterHeard
    <3>6. CASE PCM!Tick BY <2>1, <3>6 DEF PCM!Tick, PCM!WaiterHeard
    <3> QED BY <1>1, <3>2, <3>3, <3>4, <3>5, <3>6
  <2> QED BY <2>2, <2>3, <2>4, <2>5, <2>6
<1>2. CASE PCM!WriteSampleCheck
  <2>1. UNCHANGED <<chunkBuffer, numSamples, bound, muted, closed, processor, frameRoom, muter, mutes, waiter,
                    pushed, gone, owed>>
    BY <1>2 DEF PCM!WriteSampleCheck
  <2>2. pcmWriter' \in ChunkSizes /\ pushed + pcmWriter' <= MaxPCM BY <1>2 DEF PCM!WriteSampleCheck
  <2>3. CountsTyped' BY <2>1, <2>2 DEF CountsTyped
  <2> QED BY <2>1, <2>3 DEF FlagsTyped, BufferHolds, PCM!WaiterHeard, EndsPlayed, PCM!PlayedOut
<1>3. CASE PCM!WriteSamplePush
  <2>1. /\ pcmWriter # 0 /\ chunkBuffer' = Append(chunkBuffer, [from |-> pushed + 1, to |-> pushed + pcmWriter])
        /\ numSamples' = numSamples + pcmWriter /\ pushed' = pushed + pcmWriter /\ pcmWriter' = 0
        /\ UNCHANGED <<bound, muted, closed, processor, frameRoom, muter, mutes, waiter, gone, owed>>
    BY <1>3 DEF PCM!WriteSamplePush
  <2>2. /\ pcmWriter \in Nat /\ pushed \in Nat /\ gone \in Nat /\ owed \in Nat
        /\ pushed + pcmWriter <= MaxPCM
    BY <2>1 DEF CountsTyped
  <2>3. CountsTyped' BY <2>1, <2>2 DEF CountsTyped
  <2>4. BufferHolds'
    <3>1. chunkBuffer \in Seq(Chunk) /\ Holds(chunkBuffer, gone, pushed) BY DEF BufferHolds
    <3>2. chunkBuffer' \in Seq(Chunk) /\ Holds(chunkBuffer', gone, pushed + pcmWriter)
      BY <2>1, <2>2, <3>1, ChunkPushed
    <3> QED BY <2>1, <3>2 DEF BufferHolds
  <2>5. PCM!WaiterHeard'
    <3>1. numSamples' > 0 BY <2>1, <2>2 DEF CountsTyped
    <3> QED BY <3>1 DEF PCM!WaiterHeard
  <2> QED BY <2>1, <2>3, <2>4, <2>5 DEF FlagsTyped, EndsPlayed, PCM!PlayedOut
<1>4. CASE PCM!Loop
  <2>1. /\ UNCHANGED <<chunkBuffer, numSamples, bound, muted, closed, pcmWriter, frameRoom, muter, mutes, waiter,
                       pushed, gone, owed>>
        /\ processor = "loop" /\ processor' \in {"take", "ended"}
        /\ processor' = "ended" => closed /\ numSamples = 0
    BY <1>4 DEF PCM!Loop, PCM!GoesOn
  <2>2. EndsPlayed' BY <2>1 DEF EndsPlayed, PCM!PlayedOut, CountsTyped
  <2>3. PCM!WaiterHeard' BY <2>1 DEF PCM!WaiterHeard
  <2> QED BY <2>1, <2>2, <2>3 DEF FlagsTyped, CountsTyped, BufferHolds
<1>5. CASE PCM!TakeChunk
  <2> DEFINE chunk == Head(chunkBuffer)
             size == chunk.to - chunk.from + 1
             remaining == IF size > frameRoom THEN frameRoom ELSE size
  <2>1. /\ processor = "frame" /\ frameRoom > 0 /\ chunkBuffer # <<>>
        /\ chunkBuffer' = IF remaining < size
                          THEN PCM!PutBack(Tail(chunkBuffer), [chunk EXCEPT !.from = @ + remaining])
                          ELSE Tail(chunkBuffer)
        /\ numSamples' = numSamples - remaining /\ frameRoom' = frameRoom - remaining
        /\ gone' = chunk.from + remaining - 1
        /\ UNCHANGED <<bound, muted, closed, pcmWriter, processor, muter, mutes, waiter, pushed, owed>>
    BY <1>5 DEF PCM!TakeChunk
  <2>2. chunkBuffer \in Seq(Chunk) /\ Holds(chunkBuffer, gone, pushed) /\ gone \in Nat /\ pushed \in Nat
    BY DEF BufferHolds, CountsTyped
  <2>3. /\ Tail(chunkBuffer) \in Seq(Chunk) /\ chunk \in Chunk
        /\ chunk.from = gone + 1 /\ chunk.from <= chunk.to /\ chunk.to <= pushed
        /\ Holds(Tail(chunkBuffer), chunk.to, pushed)
    BY <2>1, <2>2, ChunkGone
  <2>4. chunk.to \in Nat /\ chunk.from \in Nat BY <2>3 DEF Chunk
  <2>5. size \in Nat /\ size > 0 /\ gone + size = chunk.to
    <3>1. PICK f, t, g : f = chunk.from /\ t = chunk.to /\ g = gone OBVIOUS
    <3>2. f \in Nat /\ t \in Nat /\ g \in Nat /\ f = g + 1 /\ f <= t BY <2>2, <2>3, <2>4, <3>1
    <3>3. t - f + 1 \in Nat /\ t - f + 1 > 0 /\ g + (t - f + 1) = t BY ONLY <3>2
    <3> QED BY <3>1, <3>3
  <2>50. frameRoom \in Nat BY DEF CountsTyped
  <2>51. remaining \in Nat /\ remaining > 0 /\ remaining <= size /\ remaining <= frameRoom
    BY <2>1, <2>5, <2>50
  <2>6. remaining < size =>
          /\ PCM!PutBack(Tail(chunkBuffer), [chunk EXCEPT !.from = @ + remaining]) \in Seq(Chunk)
          /\ Holds(PCM!PutBack(Tail(chunkBuffer), [chunk EXCEPT !.from = @ + remaining]), gone + remaining, pushed)
    <3> HIDE DEF remaining
    <3>1. remaining < size => gone + remaining < chunk.to BY <2>2, <2>4, <2>5, <2>51
    <3> QED BY <2>1, <2>2, <2>51, <3>1, ChunkCut
  <2> HIDE DEF remaining
  <2>7. gone' = gone + remaining BY <2>1, <2>2, <2>3, <2>51
  <2>8. BufferHolds'
    <3>1. CASE remaining < size BY <2>1, <2>6, <2>7, <3>1 DEF BufferHolds
    <3>2. CASE ~(remaining < size)
      <4>1. remaining = size BY <2>5, <2>51, <3>2
      <4>2. gone' = chunk.to /\ chunkBuffer' = Tail(chunkBuffer) /\ pushed' = pushed BY <2>1, <2>5, <2>7, <4>1, <3>2
      <4> HIDE DEF chunk
      <4> QED BY <2>3, <4>2 DEF BufferHolds
    <3> QED BY <3>1, <3>2
  <2> HIDE DEF chunk, size
  <2>9. CountsTyped'
    <3>1. gone + remaining <= pushed BY <2>2, <2>3, <2>4, <2>5, <2>51
    <3>2. numSamples' = pushed - gone' BY <2>1, <2>2, <2>7, <2>51 DEF CountsTyped
    <3>3. frameRoom' \in 0 .. samplesPerFrame BY <2>1, <2>50, <2>51 DEF CountsTyped
    <3>4. gone' \in 0 .. MaxPCM /\ gone' <= pushed BY <2>2, <2>7, <2>51, <3>1 DEF CountsTyped
    <3> QED BY <2>1, <3>2, <3>3, <3>4 DEF CountsTyped
  <2>10. FlagsTyped' /\ PCM!WaiterHeard' /\ EndsPlayed'
    BY <2>1 DEF FlagsTyped, PCM!WaiterHeard, EndsPlayed, PCM!PlayedOut
  <2> QED BY <2>8, <2>9, <2>10
<1>6. ASSUME NEW on \in BOOLEAN, PCM!SetMuted(on) PROVE PCMInv'
  <2>1. /\ UNCHANGED <<chunkBuffer, numSamples, bound, closed, pcmWriter, processor, frameRoom, waiter,
                       pushed, gone, owed>>
        /\ muter = "idle" /\ mutes < MaxMutes /\ mutes' = mutes + 1 /\ muted' = on /\ muter' \in {"clear", "idle"}
    BY <1>6 DEF PCM!SetMuted
  <2>2. FlagsTyped' BY <2>1 DEF FlagsTyped
  <2> QED BY <2>1, <2>2 DEF CountsTyped, BufferHolds, PCM!WaiterHeard, EndsPlayed, PCM!PlayedOut
<1>7. CASE PCM!ClearQueue
  <2>1. /\ UNCHANGED <<bound, muted, closed, pcmWriter, processor, frameRoom, mutes, waiter, pushed, owed>>
        /\ chunkBuffer' = <<>> /\ numSamples' = 0 /\ gone' = pushed /\ muter' = "signal"
    BY <1>7 DEF PCM!ClearQueue
  <2>2. CountsTyped' BY <2>1 DEF CountsTyped
  <2>3. BufferHolds'
    <3>1. chunkBuffer' \in Seq(Chunk) /\ Len(chunkBuffer') = 0 BY <2>1
    <3> QED BY <2>1, <3>1 DEF BufferHolds, Holds
  <2>4. EndsPlayed' BY <2>1 DEF EndsPlayed, PCM!PlayedOut, CountsTyped
  <2> QED BY <2>1, <2>2, <2>3, <2>4 DEF FlagsTyped, PCM!WaiterHeard
<1>8. CASE PCM!ClearQueueSignal
  <2>1. /\ UNCHANGED <<chunkBuffer, numSamples, bound, muted, closed, pcmWriter, processor, frameRoom, mutes,
                       pushed, gone, owed>>
        /\ muter' = "idle" /\ waiter' = IF waiter = "wait" THEN "check" ELSE waiter
    BY <1>8 DEF PCM!ClearQueueSignal, PCM!Cleared, PCM!Woken
  <2> QED BY <2>1 DEF FlagsTyped, CountsTyped, BufferHolds, PCM!WaiterHeard, EndsPlayed, PCM!PlayedOut
<1>9. CASE PCM!Close
  <2>1. /\ UNCHANGED <<chunkBuffer, numSamples, bound, muted, pcmWriter, processor, frameRoom, muter, mutes, waiter,
                       pushed, gone>>
        /\ ~closed /\ closed' = TRUE /\ owed' = pushed
    BY <1>9 DEF PCM!Close
  <2>2. CountsTyped' BY <2>1 DEF CountsTyped
  <2> QED BY <2>1, <2>2 DEF FlagsTyped, BufferHolds, PCM!WaiterHeard, EndsPlayed, PCM!PlayedOut
<1>10. CASE PCM!WaitForPlayout
  <2>1. /\ UNCHANGED <<chunkBuffer, numSamples, bound, muted, closed, pcmWriter, processor, frameRoom, muter, mutes,
                       pushed, gone, owed>>
        /\ waiter' \in {"check", "wait", "idle"} /\ (waiter' = "wait" => numSamples > 0)
    BY <1>10 DEF PCM!WaitForPlayout
  <2> QED BY <2>1 DEF FlagsTyped, CountsTyped, BufferHolds, PCM!WaiterHeard, EndsPlayed, PCM!PlayedOut
<1>11. CASE UNCHANGED PCM!vars
  BY <1>11 DEF PCM!vars, FlagsTyped, CountsTyped, BufferHolds, PCM!WaiterHeard, EndsPlayed, PCM!PlayedOut
<1> QED
  BY <1>1, <1>2, <1>3, <1>4, <1>5, <1>6, <1>7, <1>8, <1>9, <1>10, <1>11 DEF PCM!Next

LEMMA PCMPlays ==
  ASSUME PCM!PCMAssumption, PCMInv PROVE PCM!TypeOK /\ PCM!NothingSkipped /\ PCM!WaiterHeard /\ PCM!PlayedOut
<1> USE PCMNumbers DEF PCMInv
<1>1. PCM!NothingSkipped BY DEF BufferHolds, Holds, CountsTyped, PCM!NothingSkipped
<1>2. \A i \in DOMAIN chunkBuffer : chunkBuffer[i].from \in 1 .. MaxPCM /\ chunkBuffer[i].to \in 1 .. MaxPCM
  <2>1. chunkBuffer \in Seq(Chunk) /\ DOMAIN chunkBuffer = 1 .. Len(chunkBuffer) BY LenProperties DEF BufferHolds
  <2>2. \A i \in 1 .. Len(chunkBuffer) : chunkBuffer[i] \in Chunk BY <2>1, ElementOfSeq
  <2> QED BY <2>1, <2>2 DEF Chunk
<1>3. numSamples \in 0 .. MaxPCM BY DEF CountsTyped
<1>4. {bound, muted, closed} \subseteq BOOLEAN BY DEF FlagsTyped
<1>5. PCM!TypeOK BY <1>2, <1>3, <1>4 DEF FlagsTyped, CountsTyped, PCM!TypeOK
<1> QED BY <1>1, <1>5 DEF EndsPlayed

LEMMA PCMRun == [Next]_vars => [PCM!Next]_(PCM!vars)
  BY DEF Next, vars, pcmVars, PCM!vars

-----------------------------------------------------------------------------
(* The writers of a track.                                                 *)

Reading == {"next", "sleep"}
Writers == [at : LTW!Places, provider : Providers \cup {NONE},
            previous : 0 .. MaxWorkers, cancelled : BOOLEAN]

WriterTyped ==
  /\ track \in [bound : BOOLEAN, provider : Providers \cup {NONE}, cancelWrite : 0 .. MaxWorkers]
  /\ writerWriter \in [LTW!Workers -> [at : LTW!Places, provider : Providers \cup {NONE},
                             previous : 0 .. MaxWorkers, cancelled : BOOLEAN]]

ReaderIsCurrent == \A w \in LTW!Workers : writerWriter[w].at \in Reading => w = track.cancelWrite

WaiterFollows ==
  \A w \in LTW!Workers : writerWriter[w].at = "wait" => startup = w /\ writerWriter[w].previous = track.cancelWrite

WriterInv == WriterTyped /\ ReaderIsCurrent /\ WaiterFollows

-----------------------------------------------------------------------------
LEMMA WriterInit == ASSUME LTW!WriterAssumption PROVE LTW!Init => WriterInv
  BY DEF LTW!WriterAssumption, LTW!Init, WriterInv, WriterTyped, ReaderIsCurrent, WaiterFollows, Reading, LTW!Places, LTW!Workers

\* A goroutine that gets the start-up lock is still a goroutine.
LEMMA WaitingTyped ==
  ASSUME NEW f \in [LTW!Workers -> Writers], NEW w \in LTW!Workers, NEW n \in 0 .. MaxWorkers
  PROVE  [f EXCEPT ![w].at = "wait", ![w].previous = n] \in [LTW!Workers -> Writers]
<1>1. [f[w] EXCEPT !.at = "wait"] \in Writers BY DEF Writers, LTW!Places
<1>2. [[f[w] EXCEPT !.at = "wait"] EXCEPT !.previous = n] \in Writers BY <1>1 DEF Writers
<1>3. [f EXCEPT ![w] = [[f[w] EXCEPT !.at = "wait"] EXCEPT !.previous = n]]
        = [f EXCEPT ![w].at = "wait", ![w].previous = n]
  BY DEF Writers
<1> QED BY <1>2, <1>3

LEMMA ProviderSet ==
  ASSUME NEW f \in [LTW!Workers -> Writers], NEW w \in LTW!Workers, NEW p \in Providers \cup {NONE}
  PROVE  [f EXCEPT ![w].provider = p] \in [LTW!Workers -> Writers]
<1>1. [f[w] EXCEPT !.provider = p] \in Writers BY DEF Writers, LTW!Places
<1>2. [f EXCEPT ![w] = [f[w] EXCEPT !.provider = p]] = [f EXCEPT ![w].provider = p] OBVIOUS
<1> QED BY <1>1, <1>2

\* A new goroutine neither reads nor waits yet.
LEMMA SpawnKeeps ==
  ASSUME LTW!WriterAssumption, WriterInv, NEW p \in Providers, LTW!Unused # {}, LTW!Spawn(p),
         track'.cancelWrite = track.cancelWrite, UNCHANGED startup,
         track' \in [bound : BOOLEAN, provider : Providers \cup {NONE}, cancelWrite : 0 .. MaxWorkers]
  PROVE  WriterInv'
<1> USE DEF WriterInv
<1>1. LTW!NextWorker \in LTW!Workers BY DEF LTW!NextWorker, LTW!Unused
<1>2. [writerWriter EXCEPT ![LTW!NextWorker].at = "start"]
        \in [LTW!Workers -> [at : LTW!Places, provider : Providers \cup {NONE},
                        previous : 0 .. MaxWorkers, cancelled : BOOLEAN]]
  BY <1>1 DEF WriterTyped, LTW!Places
<1>3. WriterTyped'
  <2>1. writerWriter' = [[writerWriter EXCEPT ![LTW!NextWorker].at = "start"] EXCEPT ![LTW!NextWorker].provider = p]
    BY <1>1 DEF LTW!Spawn, WriterTyped
  <2>2. PICK f \in [LTW!Workers -> Writers] : f = [writerWriter EXCEPT ![LTW!NextWorker].at = "start"]
    BY <1>2 DEF Writers
  <2>3. writerWriter' = [f EXCEPT ![LTW!NextWorker].provider = p] BY <2>1, <2>2
  <2>4. [f EXCEPT ![LTW!NextWorker].provider = p] \in [LTW!Workers -> Writers] BY <1>1, ProviderSet
  <2> QED BY <1>1, <2>3, <2>4 DEF WriterTyped, Writers
<1>4. ReaderIsCurrent' BY <1>1 DEF LTW!Spawn, WriterTyped, ReaderIsCurrent, Reading
<1>5. WaiterFollows' BY <1>1 DEF LTW!Spawn, WriterTyped, WaiterFollows
<1> QED BY <1>3, <1>4, <1>5

\* Nor does cancelling a writer.
LEMMA CancelKeeps ==
  ASSUME LTW!WriterAssumption, WriterInv, writerWriter' = LTW!Cancelled(track.cancelWrite),
         track'.cancelWrite = track.cancelWrite, UNCHANGED startup,
         track' \in [bound : BOOLEAN, provider : Providers \cup {NONE}, cancelWrite : 0 .. MaxWorkers]
  PROVE  WriterInv'
<1> USE DEF WriterInv
<1>1. WriterTyped' BY DEF LTW!Cancelled, WriterTyped
<1>2. ReaderIsCurrent' /\ WaiterFollows'
  BY DEF LTW!Cancelled, WriterTyped, ReaderIsCurrent, WaiterFollows
<1> QED BY <1>1, <1>2

LEMMA WriterNext == ASSUME LTW!WriterAssumption PROVE WriterInv /\ [LTW!Next]_(LTW!vars) => WriterInv'
<1> SUFFICES ASSUME WriterInv, [LTW!Next]_(LTW!vars) PROVE WriterInv' OBVIOUS
<1> USE DEF WriterInv
<1>1. CASE LTW!Bind
  <2>1. track' \in [bound : BOOLEAN, provider : Providers \cup {NONE}, cancelWrite : 0 .. MaxWorkers]
        /\ track'.cancelWrite = track.cancelWrite
    BY <1>1 DEF LTW!Bind, WriterTyped
  <2>2. CASE track.provider # NONE
    BY <1>1, <2>1, <2>2, SpawnKeeps DEF LTW!Bind, WriterTyped
  <2>3. CASE track.provider = NONE
    BY <1>1, <2>1, <2>3 DEF LTW!Bind, WriterTyped, ReaderIsCurrent, WaiterFollows
  <2> QED BY <2>2, <2>3
<1>2. CASE LTW!Unbind
  <2>1. track' \in [bound : BOOLEAN, provider : Providers \cup {NONE}, cancelWrite : 0 .. MaxWorkers]
        /\ track'.cancelWrite = track.cancelWrite
    BY <1>2 DEF LTW!Unbind, WriterTyped
  <2> QED BY <1>2, <2>1, CancelKeeps DEF LTW!Unbind
<1>3. CASE LTW!Close BY <1>3, CancelKeeps DEF LTW!Close, WriterTyped
<1>4. ASSUME NEW p \in Providers, LTW!StartWrite(p) PROVE WriterInv'
  <2>1. track' \in [bound : BOOLEAN, provider : Providers \cup {NONE}, cancelWrite : 0 .. MaxWorkers]
        /\ track'.cancelWrite = track.cancelWrite
    BY <1>4 DEF LTW!StartWrite, WriterTyped
  <2>2. CASE track.bound BY <1>4, <2>1, <2>2, SpawnKeeps DEF LTW!StartWrite
  <2>3. CASE ~track.bound
    BY <1>4, <2>1, <2>3 DEF LTW!StartWrite, WriterTyped, ReaderIsCurrent, WaiterFollows
  <2> QED BY <2>2, <2>3
<1>5. ASSUME NEW w \in LTW!Workers, LTW!Lock(w) PROVE WriterInv'
  <2>1. \A v \in LTW!Workers : writerWriter[v].at # "wait"
    BY <1>5 DEF LTW!Lock, WaiterFollows, LTW!Workers, LTW!WriterAssumption
  <2>2. WriterTyped'
    <3>1. LTW!Cancelled(track.cancelWrite) \in [LTW!Workers -> Writers]
      BY DEF LTW!Cancelled, WriterTyped, Writers
    <3>2. track.cancelWrite \in 0 .. MaxWorkers BY DEF WriterTyped
    <3>3. writerWriter' \in [LTW!Workers -> Writers]
      BY <1>5, <3>1, <3>2, WaitingTyped DEF LTW!Lock
    <3>4. track' = track BY <1>5 DEF LTW!Lock
    <3> QED BY <3>3, <3>4 DEF WriterTyped, Writers
  <2>3. ReaderIsCurrent' BY <1>5 DEF LTW!Lock, LTW!Cancelled, WriterTyped, ReaderIsCurrent, Reading
  <2>4. WaiterFollows' BY <1>5, <2>1 DEF LTW!Lock, LTW!Cancelled, WriterTyped, WaiterFollows
  <2> QED BY <2>2, <2>3, <2>4
<1>6. ASSUME NEW w \in LTW!Workers, LTW!Begin(w) PROVE WriterInv'
  <2>1. startup = w /\ writerWriter[w].previous = track.cancelWrite
    BY <1>6 DEF LTW!Begin, WaiterFollows
  <2>2. \A v \in LTW!Workers : writerWriter[v].at \notin Reading
    <3>1. SUFFICES ASSUME NEW v \in LTW!Workers, writerWriter[v].at \in Reading PROVE FALSE OBVIOUS
    <3>2. v = writerWriter[w].previous /\ v # 0
      BY <2>1, <3>1 DEF ReaderIsCurrent, LTW!Workers, LTW!WriterAssumption
    <3>3. writerWriter[v].at = "done" BY <1>6, <3>2 DEF LTW!Begin, LTW!PreviousClosed
    <3> QED BY <3>1, <3>3 DEF Reading
  <2>3. \A v \in LTW!Workers : v # w => writerWriter[v].at # "wait" BY <2>1 DEF WaiterFollows
  <2>4. w \in 0 .. MaxWorkers BY DEF LTW!Workers, LTW!WriterAssumption
  <2>5. WriterTyped' BY <1>6, <2>4 DEF LTW!Begin, WriterTyped, LTW!Places
  <2>6. ReaderIsCurrent' BY <1>6, <2>2 DEF LTW!Begin, WriterTyped, ReaderIsCurrent, Reading
  <2>7. WaiterFollows' BY <1>6, <2>3 DEF LTW!Begin, WriterTyped, WaiterFollows
  <2> QED BY <2>5, <2>6, <2>7
<1>7. ASSUME NEW w \in LTW!Workers, LTW!NextSample(w) \/ LTW!SampleFails(w) \/ LTW!NextSampleFails(w) \/ LTW!Sleep(w) PROVE WriterInv'
  <2>1. writerWriter[w].at \in Reading /\ UNCHANGED <<track, startup>>
    BY <1>7 DEF LTW!NextSample, LTW!SampleFails, LTW!NextSampleFails, LTW!Sleep, Reading
  <2>2. PICK at \in {"next", "sleep", "done"} : writerWriter' = [writerWriter EXCEPT ![w].at = at]
    BY <1>7 DEF LTW!NextSample, LTW!SampleFails, LTW!NextSampleFails, LTW!Sleep, LTW!End, WriterTyped
  <2>3. WriterTyped' BY <2>1, <2>2 DEF WriterTyped, LTW!Places
  <2>4. ReaderIsCurrent' /\ WaiterFollows'
    BY <2>1, <2>2 DEF WriterTyped, ReaderIsCurrent, WaiterFollows, Reading
  <2> QED BY <2>3, <2>4
<1>8. CASE UNCHANGED LTW!vars
  BY <1>8 DEF LTW!vars, WriterTyped, ReaderIsCurrent, WaiterFollows
<1> QED BY <1>1, <1>2, <1>3, <1>4, <1>5, <1>6, <1>7, <1>8 DEF LTW!Next

LEMMA AtMostOne == WriterInv => LTW!OneReader
  BY DEF WriterInv, ReaderIsCurrent, LTW!OneReader, LTW!Live, Reading

-----------------------------------------------------------------------------
(* A bound track is written.                                               *)

HasBegun == {"next", "sleep", "done"}
Done == {w \in LTW!Workers : writerWriter[w].at = "done"}

SourcesTyped == startup \in 0 .. MaxWorkers /\ failed \subseteq LTW!Workers /\ source \in [Providers -> {"open", "ended", "closed"}]
CompletedCounted ==
  /\ completed.calls = Cardinality(Done)
  /\ completed.early \in Nat /\ completed.early <= completed.calls
CurrentBegan == track.cancelWrite # 0 => writerWriter[track.cancelWrite].at \in HasBegun

\* Only a writer that has begun is cancelled, and one that ended was cancelled, failed, or its provider
\* has no more.
WriterEnds ==
  \A w \in LTW!Workers :
    /\ writerWriter[w].at # "none" => writerWriter[w].provider \in Providers
    /\ writerWriter[w].cancelled => writerWriter[w].at \in HasBegun
    /\ writerWriter[w].at = "done" =>
         writerWriter[w].cancelled \/ source[writerWriter[w].provider] # "open" \/ w \in failed

\* A bound track without a writer, or with one that is cancelled, gets another.
Succeeded ==
  track.bound /\ track.provider # NONE /\ source[track.provider] = "open" =>
    \/ LTW!Starting # {}
    \/ track.cancelWrite # 0 /\ ~writerWriter[track.cancelWrite].cancelled

RunsInv == WriterInv /\ SourcesTyped /\ CompletedCounted /\ CurrentBegan /\ WriterEnds /\ Succeeded

LEMMA WorkerNumbers ==
  ASSUME LTW!WriterAssumption
  PROVE  /\ MaxWorkers \in Nat /\ NONE \notin Providers /\ LTW!Workers = 1 .. MaxWorkers
         /\ IsFiniteSet(LTW!Workers) /\ Cardinality(LTW!Workers) = MaxWorkers
<1>1. MaxWorkers \in Nat /\ NONE \notin Providers /\ LTW!Workers = 1 .. MaxWorkers
  BY DEF LTW!WriterAssumption, LTW!Workers
<1>2. IsFiniteSet(1 .. MaxWorkers) /\ Cardinality(1 .. MaxWorkers) = MaxWorkers
  <2>1. /\ IsFiniteSet(1 .. MaxWorkers)
        /\ Cardinality(1 .. MaxWorkers) = IF 1 > MaxWorkers THEN 0 ELSE MaxWorkers - 1 + 1
    BY <1>1, FS_Interval
  <2> QED BY <1>1, <2>1
<1> QED BY <1>1, <1>2

LEMMA DoneFinite ==
  ASSUME LTW!WriterAssumption
  PROVE  IsFiniteSet(Done) /\ Cardinality(Done) \in Nat /\ Cardinality(Done) <= MaxWorkers
<1>1. Done \subseteq LTW!Workers BY DEF Done
<1>2. IsFiniteSet(Done) /\ Cardinality(Done) <= Cardinality(LTW!Workers) BY <1>1, WorkerNumbers, FS_Subset
<1> QED BY <1>2, WorkerNumbers, FS_CardinalityType

LEMMA RunsInit == ASSUME LTW!WriterAssumption PROVE LTW!Init => RunsInv
<1> SUFFICES ASSUME LTW!Init PROVE RunsInv OBVIOUS
<1>1. WriterInv BY WriterInit
<1>2. \A w \in LTW!Workers : writerWriter[w].at = "none" /\ ~writerWriter[w].cancelled BY DEF LTW!Init
<1>3. track.cancelWrite = 0 /\ ~track.bound BY DEF LTW!Init
<1>4. SourcesTyped BY WorkerNumbers DEF LTW!Init, SourcesTyped
<1>5. Done = {} BY <1>2 DEF Done
<1>6. CompletedCounted BY <1>5, FS_EmptySet DEF LTW!Init, CompletedCounted
<1>7. CurrentBegan /\ WriterEnds /\ Succeeded BY <1>2, <1>3 DEF CurrentBegan, WriterEnds, Succeeded
<1> QED BY <1>1, <1>4, <1>6, <1>7 DEF RunsInv

\* Writers that stay as they are.
LEMMA CountKept ==
  ASSUME CompletedCounted, completed' = completed,
         \A w \in LTW!Workers : writerWriter'[w].at = "done" <=> writerWriter[w].at = "done"
  PROVE  CompletedCounted'
<1>1. Done' = Done BY DEF Done
<1> QED BY <1>1 DEF CompletedCounted

LEMMA Spawned ==
  ASSUME WriterTyped, NEW p, LTW!Unused # {}, LTW!Spawn(p)
  PROVE  \E n \in LTW!Workers :
           /\ writerWriter[n].at = "none" /\ writerWriter'[n].at = "start" /\ writerWriter'[n].provider = p
           /\ writerWriter'[n].cancelled = writerWriter[n].cancelled
           /\ \A v \in LTW!Workers : v # n => writerWriter'[v] = writerWriter[v]
<1>1. LTW!NextWorker \in LTW!Workers /\ writerWriter[LTW!NextWorker].at = "none"
  BY DEF LTW!NextWorker, LTW!Unused
<1>2. writerWriter' = [writerWriter EXCEPT ![LTW!NextWorker].at = "start", ![LTW!NextWorker].provider = p]
  BY DEF LTW!Spawn
<1>3. writerWriter'[LTW!NextWorker].at = "start" /\ writerWriter'[LTW!NextWorker].provider = p
      /\ writerWriter'[LTW!NextWorker].cancelled = writerWriter[LTW!NextWorker].cancelled
      /\ \A v \in LTW!Workers : v # LTW!NextWorker => writerWriter'[v] = writerWriter[v]
  BY <1>1, <1>2 DEF WriterTyped
<1> QED BY <1>1, <1>3

LEMMA CancelledAre ==
  ASSUME WriterTyped, NEW k \in 0 .. MaxWorkers
  PROVE  \A v \in LTW!Workers :
           /\ LTW!Cancelled(k)[v].at = writerWriter[v].at
           /\ LTW!Cancelled(k)[v].provider = writerWriter[v].provider
           /\ LTW!Cancelled(k)[v].cancelled => writerWriter[v].cancelled \/ v = k
           /\ writerWriter[v].cancelled => LTW!Cancelled(k)[v].cancelled
  BY DEF WriterTyped, LTW!Cancelled

\* A new goroutine, which will start.
LEMMA SpawnRuns ==
  ASSUME LTW!WriterAssumption, RunsInv, NEW p \in Providers, LTW!Unused # {}, LTW!Spawn(p),
         track'.cancelWrite = track.cancelWrite, UNCHANGED <<startup, source, completed, failed>>, WriterInv'
  PROVE  RunsInv'
<1> USE DEF RunsInv
<1>1. PICK n \in LTW!Workers :
           /\ writerWriter[n].at = "none" /\ writerWriter'[n].at = "start" /\ writerWriter'[n].provider = p
           /\ writerWriter'[n].cancelled = writerWriter[n].cancelled
           /\ \A v \in LTW!Workers : v # n => writerWriter'[v] = writerWriter[v]
  BY Spawned DEF WriterInv
<1>2. ~writerWriter'[n].cancelled BY <1>1 DEF WriterEnds, HasBegun
<1>3. CompletedCounted' BY <1>1, CountKept
<1>4. CurrentBegan'
  <2>1. track.cancelWrite # 0 => track.cancelWrite \in LTW!Workers BY WorkerNumbers DEF WriterInv, WriterTyped
  <2>2. track.cancelWrite # n BY <1>1 DEF CurrentBegan, HasBegun, LTW!Workers
  <2> QED BY <1>1, <2>1, <2>2 DEF CurrentBegan
<1>5. WriterEnds' BY <1>1, <1>2 DEF WriterEnds
<1>6. LTW!Starting' # {} BY <1>1 DEF LTW!Starting
<1> QED BY <1>3, <1>4, <1>5, <1>6 DEF SourcesTyped, Succeeded

LEMMA RunsNext == ASSUME LTW!WriterAssumption PROVE RunsInv /\ [LTW!Next]_(LTW!vars) => RunsInv'
<1> SUFFICES ASSUME RunsInv, [LTW!Next]_(LTW!vars) PROVE RunsInv' OBVIOUS
<1> USE DEF RunsInv
<1>0. /\ WriterInv' /\ WriterTyped /\ track.cancelWrite \in 0 .. MaxWorkers
      /\ (track.cancelWrite # 0 => track.cancelWrite \in LTW!Workers)
      /\ track.provider \in Providers \cup {NONE}
  BY WriterNext, WorkerNumbers DEF WriterInv, WriterTyped
<1>1. CASE LTW!Bind
  <2>1. track'.cancelWrite = track.cancelWrite /\ track'.provider = track.provider
        /\ UNCHANGED <<startup, source, completed, failed>>
    BY <1>0, <1>1 DEF LTW!Bind, WriterTyped
  <2>2. CASE track.provider # NONE
    <3>1. track.provider \in Providers /\ LTW!Unused # {} /\ LTW!Spawn(track.provider)
      BY <1>0, <1>1, <2>2 DEF LTW!Bind
    <3> QED BY <1>0, <2>1, <3>1, SpawnRuns
  <2>3. CASE track.provider = NONE
    <3>1. writerWriter' = writerWriter BY <1>1, <2>3 DEF LTW!Bind
    <3>2. CompletedCounted' BY <2>1, <3>1, CountKept
    <3> QED BY <1>0, <2>1, <2>3, <3>1, <3>2 DEF SourcesTyped, CurrentBegan, WriterEnds, Succeeded
  <2> QED BY <2>2, <2>3
<1>2. CASE LTW!Unbind \/ LTW!Close
  <2>1. /\ writerWriter' = LTW!Cancelled(track.cancelWrite) /\ UNCHANGED <<startup, completed, failed>>
        /\ track'.cancelWrite = track.cancelWrite
    BY <1>0, <1>2 DEF LTW!Unbind, LTW!Close, WriterTyped
  <2>2. \A v \in LTW!Workers :
           /\ writerWriter'[v].at = writerWriter[v].at /\ writerWriter'[v].provider = writerWriter[v].provider
           /\ writerWriter'[v].cancelled => writerWriter[v].cancelled \/ v = track.cancelWrite
           /\ writerWriter[v].cancelled => writerWriter'[v].cancelled
    BY <1>0, <2>1, CancelledAre
  <2>3. CompletedCounted' BY <2>1, <2>2, CountKept
  <2>4. CurrentBegan' BY <1>0, <2>1, <2>2 DEF CurrentBegan
  <2>5. SourcesTyped' /\ \A p \in Providers : source[p] # "open" => source'[p] # "open"
    <3>1. CASE LTW!Unbind BY <3>1 DEF LTW!Unbind, SourcesTyped
    <3>2. CASE LTW!Close
      <4>1. source' = [source EXCEPT ![track.provider] = "closed"] BY <3>2 DEF LTW!Close
      <4> QED BY <2>1, <4>1 DEF SourcesTyped
    <3> QED BY <1>2, <3>1, <3>2
  <2>6. WriterEnds'
    <3> SUFFICES ASSUME NEW w \in LTW!Workers
                 PROVE  /\ writerWriter'[w].at # "none" => writerWriter'[w].provider \in Providers
                        /\ writerWriter'[w].cancelled => writerWriter'[w].at \in HasBegun
                        /\ writerWriter'[w].at = "done" =>
                             writerWriter'[w].cancelled \/ source'[writerWriter'[w].provider] # "open" \/ w \in failed'
      BY DEF WriterEnds
    <3>1. writerWriter'[w].at # "none" => writerWriter'[w].provider \in Providers BY <2>2 DEF WriterEnds
    <3>2. writerWriter'[w].cancelled => writerWriter'[w].at \in HasBegun
      <4>1. CASE writerWriter[w].cancelled BY <2>2, <4>1 DEF WriterEnds
      <4>2. CASE w = track.cancelWrite
        <5>1. track.cancelWrite # 0 BY <4>2, WorkerNumbers
        <5> QED BY <2>2, <4>2, <5>1 DEF CurrentBegan
      <4> QED BY <2>2, <4>1, <4>2
    <3>3. writerWriter'[w].at = "done" =>
            writerWriter'[w].cancelled \/ source'[writerWriter'[w].provider] # "open" \/ w \in failed'
      <4>1. SUFFICES ASSUME writerWriter[w].at = "done", ~writerWriter[w].cancelled, w \notin failed
                     PROVE  source'[writerWriter[w].provider] # "open"
        BY <2>1, <2>2
      <4>2. writerWriter[w].provider \in Providers /\ source[writerWriter[w].provider] # "open"
        BY <4>1 DEF WriterEnds
      <4> QED BY <2>5, <4>2
    <3> QED BY <3>1, <3>2, <3>3
  <2>7. Succeeded'
    <3>1. CASE LTW!Unbind
      <4>1. track'.bound = FALSE BY <1>0, <3>1 DEF LTW!Unbind, WriterTyped
      <4> QED BY <4>1 DEF Succeeded
    <3>2. CASE LTW!Close
      <4>1. track' = track /\ track.provider \in Providers /\ source' = [source EXCEPT ![track.provider] = "closed"]
        BY <1>0, <3>2 DEF LTW!Close
      <4>2. source'[track'.provider] = "closed" BY <4>1 DEF SourcesTyped
      <4> QED BY <4>2 DEF Succeeded
    <3> QED BY <1>2, <3>1, <3>2
  <2> QED BY <1>0, <2>3, <2>4, <2>5, <2>6, <2>7
<1>3. ASSUME NEW p \in Providers, LTW!StartWrite(p) PROVE RunsInv'
  <2>1. track'.cancelWrite = track.cancelWrite /\ track'.bound = track.bound
        /\ UNCHANGED <<startup, source, completed, failed>> /\ LTW!Unused # {}
    BY <1>0, <1>3 DEF LTW!StartWrite, WriterTyped
  <2>2. CASE track.bound
    <3>1. LTW!Spawn(p) BY <1>3, <2>2 DEF LTW!StartWrite
    <3> QED BY <1>0, <2>1, <3>1, SpawnRuns
  <2>3. CASE ~track.bound
    <3>1. writerWriter' = writerWriter BY <1>3, <2>3 DEF LTW!StartWrite
    <3>2. CompletedCounted' BY <2>1, <3>1, CountKept
    <3> QED BY <1>0, <2>1, <2>3, <3>1, <3>2 DEF SourcesTyped, CurrentBegan, WriterEnds, Succeeded
  <2> QED BY <2>2, <2>3
<1>4. ASSUME NEW w \in LTW!Workers, LTW!Lock(w) PROVE RunsInv'
  <2>1. /\ writerWriter[w].at = "start" /\ startup' = w /\ UNCHANGED <<track, source, completed, failed>>
        /\ writerWriter' = [LTW!Cancelled(track.cancelWrite) EXCEPT ![w].at = "wait",
                                                                     ![w].previous = track.cancelWrite]
    BY <1>4 DEF LTW!Lock
  <2>2. \A v \in LTW!Workers :
           /\ v # w => writerWriter'[v].at = writerWriter[v].at
           /\ writerWriter'[v].provider = writerWriter[v].provider
           /\ writerWriter'[v].cancelled => writerWriter[v].cancelled \/ v = track.cancelWrite
           /\ writerWriter[v].cancelled => writerWriter'[v].cancelled
    <3>1. LTW!Cancelled(track.cancelWrite) \in [LTW!Workers -> Writers]
      BY <1>0 DEF LTW!Cancelled, WriterTyped, Writers
    <3>2. \A v \in LTW!Workers :
           /\ v # w => writerWriter'[v] = LTW!Cancelled(track.cancelWrite)[v]
           /\ writerWriter'[v].provider = LTW!Cancelled(track.cancelWrite)[v].provider
           /\ writerWriter'[v].cancelled = LTW!Cancelled(track.cancelWrite)[v].cancelled
      BY <2>1, <3>1 DEF Writers
    <3> QED BY <1>0, <3>2, CancelledAre
  <2>3. writerWriter'[w].at = "wait"
    <3>1. LTW!Cancelled(track.cancelWrite) \in [LTW!Workers -> Writers]
      BY <1>0 DEF LTW!Cancelled, WriterTyped, Writers
    <3> QED BY <2>1, <3>1 DEF Writers
  <2>4. CompletedCounted' BY <2>1, <2>2, <2>3, CountKept
  <2>5. track.cancelWrite # w BY <2>1, WorkerNumbers DEF CurrentBegan, HasBegun
  <2>6. CurrentBegan' BY <1>0, <2>1, <2>2, <2>5 DEF CurrentBegan
  <2>7. WriterEnds'
    <3>1. ~writerWriter'[w].cancelled BY <2>1, <2>2, <2>5 DEF WriterEnds, HasBegun
    <3>2. \A v \in LTW!Workers : v # w => (writerWriter'[v].cancelled => writerWriter'[v].at \in HasBegun)
      BY <1>0, <2>2, WorkerNumbers DEF WriterEnds, CurrentBegan
    <3>3. writerWriter'[w].provider \in Providers BY <2>1, <2>2 DEF WriterEnds
    <3> QED BY <2>1, <2>2, <2>3, <3>1, <3>2, <3>3 DEF WriterEnds
  <2>8. Succeeded' BY <2>3 DEF Succeeded, LTW!Starting
  <2>9. SourcesTyped' BY <2>1, WorkerNumbers DEF SourcesTyped
  <2> QED BY <1>0, <2>4, <2>6, <2>7, <2>8, <2>9
<1>5. ASSUME NEW w \in LTW!Workers, LTW!Begin(w) PROVE RunsInv'
  <2>1. /\ writerWriter[w].at = "wait" /\ UNCHANGED <<source, completed, failed>> /\ startup' = 0
        /\ track' = [track EXCEPT !.cancelWrite = w] /\ writerWriter' = [writerWriter EXCEPT ![w].at = "next"]
    BY <1>5 DEF LTW!Begin
  <2>2. /\ writerWriter'[w].at = "next" /\ writerWriter'[w].provider = writerWriter[w].provider
        /\ writerWriter'[w].cancelled = writerWriter[w].cancelled /\ track'.cancelWrite = w
        /\ \A v \in LTW!Workers : v # w => writerWriter'[v] = writerWriter[v]
    BY <1>0, <2>1 DEF WriterTyped
  <2>3. CompletedCounted' BY <2>1, <2>2, CountKept
  <2>4. CurrentBegan' BY <2>2 DEF CurrentBegan, HasBegun
  <2>5. ~writerWriter'[w].cancelled /\ w # 0 BY <2>1, <2>2, WorkerNumbers DEF WriterEnds, HasBegun
  <2>6. WriterEnds' BY <2>1, <2>2, <2>5 DEF WriterEnds
  <2>7. Succeeded' BY <2>2, <2>5 DEF Succeeded
  <2>8. SourcesTyped' BY <2>1, WorkerNumbers DEF SourcesTyped
  <2> QED BY <1>0, <2>3, <2>4, <2>6, <2>7, <2>8
<1>6. ASSUME NEW w \in LTW!Workers, LTW!NextSample(w) \/ LTW!SampleFails(w) \/ LTW!NextSampleFails(w) \/ LTW!Sleep(w) PROVE RunsInv'
  <2>1. /\ writerWriter[w].at \in {"next", "sleep"} /\ UNCHANGED <<track, startup>>
        /\ writerWriter[w].provider \in Providers
    BY <1>6 DEF LTW!NextSample, LTW!SampleFails, LTW!NextSampleFails, LTW!Sleep, WriterEnds
  <2>2. PICK at \in {"next", "sleep", "done"} :
          /\ writerWriter' = [writerWriter EXCEPT ![w].at = at]
          /\ at # "done" => UNCHANGED <<source, completed>>
          /\ at = "done" => LTW!End(w) /\ (writerWriter[w].cancelled \/ w \in failed'
                                            \/ source'[writerWriter[w].provider] # "open")
          /\ failed \subseteq failed' /\ failed' \subseteq LTW!Workers
          /\ source' = source \/ source' = [source EXCEPT ![writerWriter[w].provider] = "ended"]
    <3> failed \subseteq LTW!Workers BY DEF SourcesTyped
    <3>1. CASE LTW!Sleep(w) /\ UNCHANGED completed /\ writerWriter' = [writerWriter EXCEPT ![w].at = "next"]
      BY <3>1 DEF LTW!Sleep
    <3>2. CASE LTW!Sleep(w) /\ writerWriter[w].cancelled /\ LTW!End(w) BY <3>2 DEF LTW!Sleep, LTW!End
    <3>3. CASE LTW!NextSampleFails(w) BY <3>3 DEF LTW!NextSampleFails, LTW!End
    <3>6. CASE LTW!SampleFails(w) BY <3>6 DEF LTW!SampleFails, LTW!End
    <3>4. CASE LTW!NextSample(w) /\ UNCHANGED <<source, completed>>
               /\ writerWriter' \in {writerWriter, [writerWriter EXCEPT ![w].at = "sleep"]}
      <4>1. writerWriter[w].at = "next" BY <3>4 DEF LTW!NextSample
      <4>2. writerWriter = [writerWriter EXCEPT ![w].at = "next"] BY <1>0, <4>1 DEF WriterTyped
      <4> QED BY <3>4, <4>2 DEF LTW!NextSample
    <3>5. CASE LTW!NextSample(w) /\ source' = [source EXCEPT ![writerWriter[w].provider] = "ended"] /\ LTW!End(w)
      <4>1. source'[writerWriter[w].provider] = "ended" BY <2>1, <3>5 DEF SourcesTyped
      <4> QED BY <3>5, <4>1 DEF LTW!NextSample, LTW!End
    <3> QED BY <1>6, <3>1, <3>2, <3>3, <3>4, <3>5, <3>6 DEF LTW!NextSample, LTW!Sleep
  <2>3. /\ writerWriter'[w].at = at
        /\ \A v \in LTW!Workers : /\ writerWriter'[v].provider = writerWriter[v].provider
                                  /\ writerWriter'[v].cancelled = writerWriter[v].cancelled
                                  /\ v # w => writerWriter'[v].at = writerWriter[v].at
    BY <1>0, <2>2 DEF WriterTyped
  <2>4. SourcesTyped' /\ \A p \in Providers : source[p] # "open" => source'[p] # "open"
    BY <2>1, <2>2 DEF SourcesTyped
  <2>5. CompletedCounted'
    <3>1. CASE at # "done" BY <2>1, <2>2, <2>3, <3>1, CountKept
    <3>2. CASE at = "done"
      <4>1. Done' = Done \cup {w} /\ w \notin Done BY <2>1, <2>3, <3>2 DEF Done
      <4>2. Cardinality(Done') = Cardinality(Done) + 1 /\ Cardinality(Done) \in Nat
        BY <4>1, DoneFinite, FS_AddElement
      <4>3. /\ completed'.calls = completed.calls + 1
            /\ completed'.early = completed.early \/ completed'.early = completed.early + 1
        BY <2>2, <3>2 DEF LTW!End, CompletedCounted
      <4> QED BY <4>2, <4>3 DEF CompletedCounted
    <3> QED BY <3>1, <3>2
  <2>6. CurrentBegan' BY <1>0, <2>1, <2>2, <2>3 DEF CurrentBegan, HasBegun
  <2>7. WriterEnds'
    <3>1. \A v \in LTW!Workers : writerWriter'[v].at # "none" => writerWriter'[v].provider \in Providers
      BY <2>1, <2>3 DEF WriterEnds
    <3>2. \A v \in LTW!Workers : writerWriter'[v].cancelled => writerWriter'[v].at \in HasBegun
      BY <2>2, <2>3 DEF WriterEnds, HasBegun
    <3>3. \A v \in LTW!Workers : writerWriter'[v].at = "done" =>
            writerWriter'[v].cancelled \/ source'[writerWriter'[v].provider] # "open" \/ v \in failed'
      BY <2>2, <2>3, <2>4 DEF WriterEnds
    <3> QED BY <3>1, <3>2, <3>3 DEF WriterEnds
  <2>8. Succeeded'
    <3>1. LTW!Starting' = LTW!Starting
      BY <2>1, <2>2, <2>3 DEF LTW!Starting
    <3>2. track.provider # NONE /\ source'[track.provider] = "open" => source[track.provider] = "open"
      BY <1>0, <2>2, <2>4 DEF SourcesTyped
    <3> QED BY <1>0, <2>1, <2>3, <3>1, <3>2 DEF Succeeded
  <2> QED BY <1>0, <2>4, <2>5, <2>6, <2>7, <2>8
<1>7. CASE UNCHANGED LTW!vars
  BY <1>0, <1>7 DEF LTW!vars, SourcesTyped, CompletedCounted, Done, CurrentBegan, WriterEnds, Succeeded, LTW!Starting
<1> QED BY <1>1, <1>2, <1>3, <1>4, <1>5, <1>6, <1>7 DEF LTW!Next

LEMMA WriterGoesOn ==
  ASSUME LTW!WriterAssumption, RunsInv PROVE LTW!TypeOK /\ LTW!OneReader /\ LTW!WriterRuns
<1> USE DEF RunsInv
<1>1. LTW!OneReader BY AtMostOne
<1>2. LTW!WriterRuns
  <2> SUFFICES ASSUME track.bound, track.provider # NONE, source[track.provider] = "open", LTW!Starting = {},
                      writerWriter[track.cancelWrite].provider = track.provider,
                      track.cancelWrite \notin failed
               PROVE  \E w \in LTW!Live : ~writerWriter[w].cancelled
    BY DEF LTW!WriterRuns, Succeeded
  <2> DEFINE w == track.cancelWrite
  <2>1. w # 0 /\ ~writerWriter[w].cancelled BY DEF Succeeded
  <2>2. w \in LTW!Workers BY <2>1, WorkerNumbers DEF WriterInv, WriterTyped
  <2>3. writerWriter[w].at \in {"next", "sleep"} BY <2>1, <2>2 DEF CurrentBegan, WriterEnds, HasBegun
  <2> QED BY <2>1, <2>2, <2>3 DEF LTW!Live
<1>3. completed.early <= completed.calls /\ completed.calls <= MaxWorkers BY DoneFinite DEF CompletedCounted
<1>4. \A w \in LTW!Workers : writerWriter[w].at \in LTW!Places /\ writerWriter[w].previous \in 0 .. MaxWorkers
  BY DEF WriterInv, WriterTyped
<1>5. LTW!TypeOK BY <1>3, <1>4 DEF WriterInv, WriterTyped, SourcesTyped, LTW!TypeOK
<1> QED BY <1>1, <1>2, <1>5

LEMMA WriterRun == [Next]_vars => [LTW!Next]_(LTW!vars)
  BY DEF Next, vars, writerVars, LTW!vars

\* A bound track has one live writer at a time, and one as long as its provider has more; a PCM track
\* plays what was pushed in its order, wakes who waits for the end, and plays out before it is closed.
THEOREM MediaAlwaysOut == Spec => []MediaOut
<1> USE Bounds
<1>1. Init => RunsInv /\ PCMInv BY RunsInit, PCMInit DEF Init
<1>2. RunsInv /\ PCMInv /\ [Next]_vars => (RunsInv /\ PCMInv)'
  BY RunsNext, WriterRun, PCMNext, PCMRun
<1>3. RunsInv /\ PCMInv => MediaOut BY WriterGoesOn, PCMPlays DEF MediaOut
<1> QED BY <1>1, <1>2, <1>3, PTL DEF Spec

-----------------------------------------------------------------------------
(* Frames for the data channel.                                            *)

Packet == [frame : Nat, packet : Nat]
Channel == [state : {"connecting", "open", "closed"}, amount : Nat, sent : Seq(Packet)]
Begun == [frame : 1 .. MaxFrames, packet : 1 .. Packets]

SendPlaces == {"select", "look", "check", "send", "stopped"}

ScalarsTyped ==
  /\ pushing \in [Pushers -> 0 .. MaxFrames] /\ frame \in 0 .. MaxFrames
  /\ frames \in 0 .. MaxFrames
  /\ notify \in BOOLEAN /\ callback \in BOOLEAN /\ sendDone \in BOOLEAN
  /\ dc \in 0 .. MaxChannels

ChannelTyped == sendChannel \in [DTS!Channels -> Channel]

WorkerTyped ==
  sendWorker \in [at : SendPlaces, dc : 0 .. MaxChannels, inFlight : Begun \cup {DTS!None}]

SenderTyped == ScalarsTyped /\ ChannelTyped /\ WorkerTyped

\* A worker that has yet to see the channel set last is about to be woken.
SwitchNoticed == sendWorker.at \notin {"look", "stopped"} /\ sendWorker.dc # dc => notify

WakeInv == SenderTyped /\ SwitchNoticed /\ DTS!WakeNotLost

EndsWhole(sent) == sent = <<>> \/ sent[Len(sent)].packet = Packets

\* What has been sent on an open channel is what precedes the frame in flight.
Continues(sent, next) ==
  IF next = DTS!None \/ next.packet = 1
  THEN EndsWhole(sent)
  ELSE sent # <<>> /\ next = [sent[Len(sent)] EXCEPT !.packet = @ + 1]

Whole(sent) ==
  \A i \in 1 .. Len(sent) :
    \/ sent[i].packet = 1 /\ (i > 1 => sent[i - 1].packet = Packets)
    \/ i > 1 /\ sent[i] = [sent[i - 1] EXCEPT !.packet = @ + 1]

Sending == sendWorker.at = "send" => sendWorker.dc # 0 /\ sendWorker.inFlight # DTS!None

\* The worker is on no channel before it was set, nothing was sent on the later
\* ones, and a frame is begun on an open channel only.
NothingAhead ==
  /\ sendWorker.dc <= dc
  /\ \A c \in DTS!Channels : c > sendWorker.dc \/ sendChannel[c].state = "connecting" => sendChannel[c].sent = <<>>
  /\ sendWorker.dc # 0 /\ sendChannel[sendWorker.dc].state = "connecting" => sendWorker.inFlight = DTS!None

Resumes ==
  sendWorker.dc # 0 /\ sendChannel[sendWorker.dc].state # "closed" =>
    Continues(sendChannel[sendWorker.dc].sent, sendWorker.inFlight)

FrameInv == SenderTyped /\ Sending /\ NothingAhead /\ Resumes /\ DTS!FramesWhole

-----------------------------------------------------------------------------
LEMMA Parameters ==
  ASSUME DTS!SenderAssumption
  PROVE  /\ Packets \in Nat /\ Packets # 0 /\ MaxChannels \in Nat /\ MaxChannels # 0
         /\ Low \in Nat /\ MaxFrames \in Nat
  BY DEF DTS!SenderAssumption

LEMMA SenderTypedInit == ASSUME DTS!SenderAssumption PROVE DTS!Init => SenderTyped
<1> SUFFICES ASSUME DTS!Init PROVE SenderTyped OBVIOUS
<1>1. [state |-> "connecting", amount |-> 0, sent |-> <<>>] \in Channel
  BY DEF Channel
<1>2. sendChannel \in [DTS!Channels -> Channel] BY <1>1 DEF DTS!Init
<1>3. ScalarsTyped
  <2>1. 0 \in 0 .. MaxFrames /\ 0 \in 0 .. MaxChannels BY Parameters
  <2>2. pushing \in [Pushers -> 0 .. MaxFrames] BY <2>1 DEF DTS!Init
  <2> QED BY <2>1, <2>2 DEF DTS!Init, ScalarsTyped
<1>4. WorkerTyped BY Parameters DEF DTS!Init, WorkerTyped, SendPlaces
<1> QED BY <1>2, <1>3, <1>4 DEF SenderTyped, ChannelTyped

\* The packet in flight, sent.
LEMMA SentTyped ==
  ASSUME DTS!SenderAssumption, SenderTyped, Sending, sendWorker.at = "send"
  PROVE  /\ sendWorker.dc \in DTS!Channels /\ sendWorker.inFlight \in Begun
         /\ sendWorker.inFlight \in Packet
         /\ Append(sendChannel[sendWorker.dc].sent, sendWorker.inFlight) \in Seq(Packet)
<1>1. sendWorker.dc \in DTS!Channels /\ sendWorker.inFlight \in Begun
  BY Parameters DEF SenderTyped, WorkerTyped, Sending, DTS!Channels
<1>2. sendWorker.inFlight \in Packet BY <1>1, Parameters DEF Begun, Packet
<1>3. sendChannel[sendWorker.dc].sent \in Seq(Packet) BY <1>1 DEF SenderTyped, ChannelTyped, Channel
<1> QED BY <1>1, <1>2, <1>3, AppendProperties

LEMMA ScalarsStep == ASSUME DTS!SenderAssumption PROVE ScalarsTyped /\ [DTS!Next]_(DTS!vars) => ScalarsTyped'
<1> SUFFICES ASSUME ScalarsTyped, [DTS!Next]_(DTS!vars) PROVE ScalarsTyped' OBVIOUS
<1> USE Parameters DEF ScalarsTyped
<1>1. ASSUME NEW p \in Pushers, DTS!TryPush(p) PROVE ScalarsTyped' BY <1>1 DEF DTS!TryPush
<1>2. ASSUME NEW p \in Pushers, DTS!Send(p) PROVE ScalarsTyped' BY <1>2 DEF DTS!Send, DTS!wake
<1>3. CASE DTS!setDataChannel BY <1>3 DEF DTS!setDataChannel, DTS!wake
<1>4. CASE DTS!stop \/ DTS!Callback BY <1>4 DEF DTS!stop, DTS!Callback, DTS!wake
<1>5. ASSUME NEW c \in DTS!Channels, DTS!Opens(c) \/ DTS!Closes(c) \/ DTS!Drains(c) PROVE ScalarsTyped'
  BY <1>5 DEF DTS!Opens, DTS!Closes, DTS!Drains
<1>6. CASE DTS!Select BY <1>6 DEF DTS!Select
<1>7. CASE DTS!Look BY <1>7 DEF DTS!Look
<1>8. CASE DTS!Check BY <1>8 DEF DTS!Check
<1>9. CASE DTS!SendPacket BY <1>9 DEF DTS!SendPacket
<1>10. CASE UNCHANGED DTS!vars BY <1>10 DEF DTS!vars
<1> QED BY <1>1, <1>2, <1>3, <1>4, <1>5, <1>6, <1>7, <1>8, <1>9, <1>10 DEF DTS!Next

LEMMA ChannelStep ==
  ASSUME DTS!SenderAssumption PROVE SenderTyped /\ Sending /\ [DTS!Next]_(DTS!vars) => ChannelTyped'
<1> SUFFICES ASSUME SenderTyped, Sending, [DTS!Next]_(DTS!vars) PROVE ChannelTyped' OBVIOUS
<1>1. ASSUME NEW c \in DTS!Channels, DTS!Opens(c) \/ DTS!Closes(c) \/ DTS!Drains(c) PROVE ChannelTyped'
  <2>1. sendChannel[c] \in Channel /\ sendChannel \in [DTS!Channels -> Channel] BY DEF SenderTyped, ChannelTyped
  <2>2. CASE DTS!Opens(c) \/ DTS!Closes(c)
    <3>1. PICK s \in {"open", "closed"} : sendChannel' = [sendChannel EXCEPT ![c].state = s]
      BY <2>2 DEF DTS!Opens, DTS!Closes
    <3>2. [sendChannel[c] EXCEPT !.state = s] \in Channel BY <2>1 DEF Channel
    <3> QED BY <2>1, <3>1, <3>2 DEF ChannelTyped
  <2>3. CASE DTS!Drains(c)
    <3>1. sendChannel[c].amount > 0 /\ sendChannel[c].amount \in Nat BY <2>1, <2>3 DEF Channel, DTS!Drains
    <3>2. sendChannel[c].amount - 1 \in Nat BY <3>1
    <3>3. [sendChannel[c] EXCEPT !.amount = @ - 1] \in Channel BY <2>1, <3>2 DEF Channel
    <3> QED BY <2>1, <2>3, <3>3 DEF ChannelTyped, DTS!Drains
  <2> QED BY <1>1, <2>2, <2>3
<1>2. CASE DTS!SendPacket
  <2>1. sendChannel[sendWorker.dc] \in Channel /\ sendWorker.at = "send"
    BY <1>2, SentTyped DEF DTS!SendPacket, SenderTyped, ChannelTyped
  <2> DEFINE new == [sendChannel[sendWorker.dc] EXCEPT !.amount = @ + 1,
                                               !.sent = Append(@, sendWorker.inFlight)]
  <2>2. new \in Channel
    <3>1. sendChannel[sendWorker.dc].amount + 1 \in Nat BY <2>1 DEF Channel
    <3>2. Append(sendChannel[sendWorker.dc].sent, sendWorker.inFlight) \in Seq(Packet) BY <2>1, SentTyped
    <3> HIDE DEF Packet
    <3> QED BY <2>1, <3>1, <3>2 DEF Channel
  <2>3. sendChannel' = sendChannel \/ sendChannel' = [sendChannel EXCEPT ![sendWorker.dc] = new]
    BY <1>2, <2>1, SentTyped DEF DTS!SendPacket, SenderTyped, ChannelTyped, Channel
  <2> QED BY <2>2, <2>3 DEF SenderTyped, ChannelTyped
<1>3. CASE UNCHANGED sendChannel BY <1>3 DEF SenderTyped, ChannelTyped
<1> QED
  BY <1>1, <1>2, <1>3
  DEF DTS!Next, DTS!vars, DTS!TryPush, DTS!Send, DTS!setDataChannel, DTS!stop, DTS!Callback, DTS!Select, DTS!Look, DTS!Check

LEMMA WorkerStep ==
  ASSUME DTS!SenderAssumption
  PROVE  SenderTyped /\ Sending /\ [DTS!Next]_(DTS!vars) => WorkerTyped' /\ Sending'
<1> SUFFICES ASSUME SenderTyped, Sending, [DTS!Next]_(DTS!vars) PROVE WorkerTyped' /\ Sending' OBVIOUS
<1> USE DEF SenderTyped, WorkerTyped, SendPlaces
<1>1. CASE DTS!Select BY <1>1 DEF DTS!Select, Sending
<1>2. CASE DTS!Look BY <1>2 DEF DTS!Look, DTS!Switched, Sending, ScalarsTyped
<1>3. CASE DTS!Check
  <2>1. frame # 0 => [frame |-> frame, packet |-> 1] \in Begun
    BY Parameters DEF ScalarsTyped, Begun
  <2>2. [frame |-> frame, packet |-> 1] # DTS!None BY DEF DTS!None
  <2>3. DTS!Ready(sendWorker.dc) => sendWorker.dc # 0 BY DEF DTS!Ready
  <2> QED BY <1>3, <2>1, <2>2, <2>3 DEF DTS!Check, Sending
<1>4. CASE DTS!SendPacket
  <2>1. sendWorker.inFlight \in Begun BY <1>4, SentTyped DEF DTS!SendPacket
  <2>2. DTS!Following(sendWorker.inFlight) \in Begun \cup {DTS!None}
    BY <2>1, Parameters DEF Begun, DTS!Following
  <2> QED BY <1>4, <2>2 DEF DTS!SendPacket, Sending
<1>5. CASE UNCHANGED sendWorker BY <1>5 DEF Sending
<1> QED
  BY <1>1, <1>2, <1>3, <1>4, <1>5
  DEF DTS!Next, DTS!vars, DTS!TryPush, DTS!Send, DTS!setDataChannel, DTS!stop, DTS!Callback, DTS!Opens, DTS!Closes, DTS!Drains

LEMMA SenderTypedStep ==
  ASSUME DTS!SenderAssumption PROVE SenderTyped /\ Sending /\ [DTS!Next]_(DTS!vars) => SenderTyped' /\ Sending'
  BY ScalarsStep, ChannelStep, WorkerStep DEF SenderTyped

-----------------------------------------------------------------------------
(* The worker is woken.                                                    *)

LEMMA WakeInit == ASSUME DTS!SenderAssumption PROVE DTS!Init => WakeInv /\ Sending
<1> SUFFICES ASSUME DTS!Init PROVE WakeInv /\ Sending OBVIOUS
<1>1. SwitchNoticed /\ DTS!WakeNotLost /\ Sending BY DEF DTS!Init, SwitchNoticed, DTS!WakeNotLost, Sending
<1> QED BY <1>1, SenderTypedInit DEF WakeInv

LEMMA WakeStep ==
  ASSUME DTS!SenderAssumption PROVE WakeInv /\ Sending /\ [DTS!Next]_(DTS!vars) => (WakeInv /\ Sending)'
<1> SUFFICES ASSUME WakeInv, Sending, [DTS!Next]_(DTS!vars) PROVE SwitchNoticed' /\ DTS!WakeNotLost'
  BY SenderTypedStep DEF WakeInv
<1> USE DEF WakeInv
<1>1. ASSUME NEW p \in Pushers, DTS!TryPush(p) \/ DTS!Send(p) PROVE SwitchNoticed' /\ DTS!WakeNotLost'
  BY <1>1 DEF DTS!TryPush, DTS!Send, DTS!wake, SwitchNoticed, DTS!WakeNotLost, DTS!Ready
<1>2. CASE DTS!setDataChannel \/ DTS!stop \/ DTS!Callback
  BY <1>2 DEF DTS!setDataChannel, DTS!stop, DTS!Callback, DTS!wake, SwitchNoticed, DTS!WakeNotLost, DTS!Ready
<1>3. ASSUME NEW c \in DTS!Channels, DTS!Opens(c) \/ DTS!Closes(c) PROVE SwitchNoticed' /\ DTS!WakeNotLost'
  <2>1. SwitchNoticed' BY <1>3 DEF DTS!Opens, DTS!Closes, SwitchNoticed
  <2>2. sendChannel \in [DTS!Channels -> Channel] /\ c \in DTS!Channels BY DEF SenderTyped, ChannelTyped
  <2>3. DTS!Ready(dc)' => DTS!Ready(dc) \/ callback'
    <3>1. CASE DTS!Opens(c) BY <3>1 DEF DTS!Opens
    <3>2. CASE DTS!Closes(c)
      <4>1. CASE dc = c BY <2>2, <3>2, <4>1 DEF DTS!Closes, DTS!Ready, Channel
      <4>2. CASE dc # c BY <2>2, <3>2, <4>2 DEF DTS!Closes, DTS!Ready
      <4> QED BY <4>1, <4>2
    <3> QED BY <1>3, <3>1, <3>2
  <2> QED BY <1>3, <2>1, <2>3 DEF DTS!Opens, DTS!Closes, DTS!WakeNotLost
\* A packet that leaves the buffer makes the channel ready only from Low + 1.
<1>4. ASSUME NEW c \in DTS!Channels, DTS!Drains(c) PROVE SwitchNoticed' /\ DTS!WakeNotLost'
  <2>1. SwitchNoticed' BY <1>4 DEF DTS!Drains, SwitchNoticed
  <2>2. sendChannel[c].amount \in Nat /\ sendChannel \in [DTS!Channels -> Channel]
    BY DEF SenderTyped, ChannelTyped, Channel
  <2>3. DTS!Ready(dc)' => DTS!Ready(dc) \/ callback'
    <3>1. CASE dc # c BY <1>4, <2>2, <3>1 DEF DTS!Drains, DTS!Ready
    <3>2. CASE dc = c
      <4>1. sendChannel' = [sendChannel EXCEPT ![c].amount = @ - 1] /\ dc' = dc BY <1>4 DEF DTS!Drains
      <4>2. sendChannel'[c].state = sendChannel[c].state /\ sendChannel'[c].amount = sendChannel[c].amount - 1
        BY <2>2, <4>1 DEF Channel
      <4>3. sendChannel[c].amount - 1 <= Low => sendChannel[c].amount <= Low \/ sendChannel[c].amount = Low + 1
        BY <2>2, Parameters
      <4> QED BY <1>4, <3>2, <4>1, <4>2, <4>3 DEF DTS!Drains, DTS!Ready
    <3> QED BY <3>1, <3>2
  <2> QED BY <1>4, <2>1, <2>3 DEF DTS!Drains, DTS!WakeNotLost
<1>5. CASE DTS!Select BY <1>5 DEF DTS!Select, SwitchNoticed, DTS!WakeNotLost, SenderTyped, WorkerTyped, SendPlaces
<1>6. CASE DTS!Look BY <1>6 DEF DTS!Look, DTS!Switched, SwitchNoticed, DTS!WakeNotLost, SenderTyped, WorkerTyped, SendPlaces
\* The worker goes to sleep on the channel it knows: if it is not the one set
\* last, the token is there.
<1>7. CASE DTS!Check
  <2>1. /\ sendWorker'.dc = sendWorker.dc /\ sendWorker.at = "check" /\ sendWorker'.at \in {"select", "send"}
        /\ UNCHANGED <<dc, sendChannel, notify, callback>>
    BY <1>7 DEF DTS!Check, SenderTyped, WorkerTyped, SendPlaces
  <2>2. SwitchNoticed' BY <2>1 DEF SwitchNoticed
  <2>3. CASE ~DTS!Ready(sendWorker.dc) \/ (sendWorker.inFlight = DTS!None /\ frame = 0)
    <3>1. frame' = frame BY <1>7, <2>3 DEF DTS!Check
    <3> QED BY <2>1, <2>2, <2>3, <3>1 DEF SwitchNoticed, DTS!WakeNotLost, DTS!Ready
  <2>4. CASE ~(~DTS!Ready(sendWorker.dc) \/ (sendWorker.inFlight = DTS!None /\ frame = 0))
    <3>1. sendWorker'.at = "send" BY <1>7, <2>4 DEF DTS!Check, SenderTyped, WorkerTyped, SendPlaces
    <3> QED BY <2>2, <3>1 DEF DTS!WakeNotLost
  <2> QED BY <2>2, <2>3, <2>4
<1>8. CASE DTS!SendPacket BY <1>8 DEF DTS!SendPacket, SwitchNoticed, DTS!WakeNotLost, SenderTyped, WorkerTyped, SendPlaces
<1>9. CASE UNCHANGED DTS!vars BY <1>9 DEF DTS!vars, SwitchNoticed, DTS!WakeNotLost, DTS!Ready
<1> QED BY <1>1, <1>2, <1>3, <1>4, <1>5, <1>6, <1>7, <1>8, <1>9 DEF DTS!Next

-----------------------------------------------------------------------------
(* Frames are not mixed.                                                   *)

LEMMA FrameInit == ASSUME DTS!SenderAssumption PROVE DTS!Init => FrameInv
<1> SUFFICES ASSUME DTS!Init PROVE FrameInv OBVIOUS
<1>1. \A c \in DTS!Channels : sendChannel[c].sent = <<>> BY DEF DTS!Init
<1>2. DTS!FramesWhole BY <1>1 DEF DTS!FramesWhole
<1>3. Sending /\ NothingAhead /\ Resumes
  BY <1>1 DEF DTS!Init, Sending, NothingAhead, Resumes, DTS!None
<1> QED BY <1>2, <1>3, SenderTypedInit DEF FrameInv

\* A packet that continues what was sent leaves whole frames.
LEMMA AppendWhole ==
  ASSUME DTS!SenderAssumption, NEW sent \in Seq(Packet), NEW next \in Begun, next \in Packet,
         next # DTS!None, Whole(sent), Continues(sent, next)
  PROVE  /\ Whole(Append(sent, next))
         /\ Continues(Append(sent, next),
                      DTS!Following(next))
<1> DEFINE more == Append(sent, next)
<1>1. /\ more \in Seq(Packet) /\ Len(more) = Len(sent) + 1 /\ Len(sent) \in Nat
      /\ more # <<>>
      /\ \A i \in 1 .. Len(sent) : more[i] = sent[i]
      /\ more[Len(more)] = next
  BY AppendProperties, LenProperties
<1>2. sent # <<>> => Len(sent) >= 1 BY <1>1, EmptySeq
<1> HIDE DEF more
<1>3. Whole(more)
  <2> SUFFICES ASSUME NEW i \in 1 .. Len(more)
               PROVE  \/ more[i].packet = 1 /\ (i > 1 => more[i - 1].packet = Packets)
                      \/ i > 1 /\ more[i] = [more[i - 1] EXCEPT !.packet = @ + 1]
    BY DEF Whole
  <2>1. CASE i \in 1 .. Len(sent)
    <3>1. i > 1 => i - 1 \in 1 .. Len(sent) BY <1>1, <2>1
    <3>2. more[i] = sent[i] /\ (i > 1 => more[i - 1] = sent[i - 1]) BY <1>1, <2>1, <3>1
    <3> QED BY <2>1, <3>2 DEF Whole
  <2>2. CASE i = Len(more)
    <3>1. CASE sent = <<>>
      BY <1>1, <2>2, <3>1 DEF Continues
    <3>2. CASE sent # <<>>
      <4>1. i > 1 /\ i - 1 = Len(sent) /\ more[i - 1] = sent[Len(sent)] BY <1>1, <1>2, <2>2, <3>2
      <4> QED BY <1>1, <2>2, <3>2, <4>1 DEF Continues, EndsWhole
    <3> QED BY <3>1, <3>2
  <2> QED BY <1>1, <2>1, <2>2
<1>4. CASE next.packet = Packets BY <1>1, <1>3, <1>4 DEF Continues, EndsWhole, DTS!Following, more
<1>5. CASE next.packet # Packets
  <2>1. [next EXCEPT !.packet = @ + 1].packet # 1 BY DEF Begun
  <2>2. [next EXCEPT !.packet = @ + 1] # DTS!None BY DEF Begun, DTS!None
  <2> QED BY <1>1, <1>3, <1>5, <2>1, <2>2 DEF Continues, DTS!Following, more
<1> QED BY <1>4, <1>5

LEMMA FrameStep == ASSUME DTS!SenderAssumption PROVE FrameInv /\ [DTS!Next]_(DTS!vars) => FrameInv'
<1> SUFFICES ASSUME FrameInv, [DTS!Next]_(DTS!vars) PROVE NothingAhead' /\ Resumes' /\ DTS!FramesWhole'
  BY SenderTypedStep DEF FrameInv
<1> USE DEF FrameInv
<1>1. CASE UNCHANGED <<dc, sendChannel, sendWorker>>
  BY <1>1 DEF NothingAhead, Resumes, DTS!FramesWhole
<1>2. CASE DTS!setDataChannel
  <2>1. dc' = dc + 1 /\ UNCHANGED <<sendChannel, sendWorker>> BY <1>2 DEF DTS!setDataChannel
  <2>2. sendWorker.dc <= dc => sendWorker.dc <= dc + 1 BY Parameters DEF SenderTyped, ScalarsTyped, WorkerTyped
  <2> QED BY <2>1, <2>2 DEF NothingAhead, Resumes, DTS!FramesWhole
<1>3. ASSUME NEW c \in DTS!Channels, DTS!Opens(c) \/ DTS!Closes(c) \/ DTS!Drains(c)
      PROVE  NothingAhead' /\ Resumes' /\ DTS!FramesWhole'
  <2>1. /\ UNCHANGED <<dc, sendWorker>>
        /\ \A d \in DTS!Channels : sendChannel'[d].sent = sendChannel[d].sent
        /\ \A d \in DTS!Channels : sendChannel'[d].state = "connecting" => sendChannel[d].state = "connecting"
        /\ \A d \in DTS!Channels : sendChannel'[d].state # "closed" => sendChannel[d].state # "closed"
    <3>1. sendChannel \in [DTS!Channels -> Channel] BY DEF SenderTyped, ChannelTyped
    <3>2. CASE DTS!Opens(c) BY <3>1, <3>2 DEF DTS!Opens, Channel
    <3>3. CASE DTS!Closes(c) BY <3>1, <3>3 DEF DTS!Closes, Channel
    <3>4. CASE DTS!Drains(c) BY <3>1, <3>4 DEF DTS!Drains, Channel
    <3> QED BY <1>3, <3>2, <3>3, <3>4
  <2>2. sendWorker.dc # 0 => sendWorker.dc \in DTS!Channels BY Parameters DEF SenderTyped, WorkerTyped, DTS!Channels
  <2>3. NothingAhead' BY <2>1, <2>2 DEF NothingAhead
  <2>4. Resumes' BY <2>1, <2>2 DEF Resumes
  <2>5. DTS!FramesWhole' BY <2>1 DEF DTS!FramesWhole
  <2> QED BY <2>3, <2>4, <2>5
<1>4. CASE DTS!Select
  <2>1. UNCHANGED <<dc, sendChannel>> /\ sendWorker'.dc = sendWorker.dc /\ sendWorker'.inFlight = sendWorker.inFlight
    BY <1>4 DEF DTS!Select, SenderTyped, WorkerTyped, SendPlaces
  <2> QED BY <2>1 DEF NothingAhead, Resumes, DTS!FramesWhole
\* A new channel begins with a new frame.
<1>5. CASE DTS!Look
  <2>1. UNCHANGED <<dc, sendChannel>> /\ sendWorker'.dc = dc
    BY <1>5 DEF DTS!Look, DTS!Switched, SenderTyped, WorkerTyped, SendPlaces
  <2>2. DTS!FramesWhole' BY <2>1 DEF DTS!FramesWhole
  <2>3. CASE sendWorker.dc = dc
    <3>1. sendWorker'.inFlight = sendWorker.inFlight
      BY <1>5, <2>3 DEF DTS!Look, DTS!Switched, SenderTyped, WorkerTyped, SendPlaces
    <3> QED BY <2>1, <2>2, <2>3, <3>1 DEF NothingAhead, Resumes
  <2>4. CASE sendWorker.dc # dc
    <3>1. sendWorker'.inFlight = DTS!None BY <1>5, <2>4 DEF DTS!Look, DTS!Switched, SenderTyped, WorkerTyped, SendPlaces
    <3>2. dc \in DTS!Channels /\ sendChannel[dc].sent = <<>>
      <4>1. dc \in 1 .. MaxChannels /\ dc > sendWorker.dc
        BY <2>4, Parameters DEF NothingAhead, SenderTyped, ScalarsTyped, WorkerTyped
      <4> QED BY <4>1 DEF NothingAhead, DTS!Channels
    <3>3. NothingAhead'
      <4>1. \A c \in DTS!Channels : c > dc => c > sendWorker.dc
        BY Parameters DEF NothingAhead, SenderTyped, ScalarsTyped, WorkerTyped, DTS!Channels
      <4>2. dc <= dc BY Parameters DEF SenderTyped, ScalarsTyped
      <4> QED BY <2>1, <3>1, <4>1, <4>2 DEF NothingAhead
    <3>4. Resumes' BY <2>1, <3>1, <3>2 DEF Resumes, Continues, EndsWhole
    <3> QED BY <2>2, <3>3, <3>4
  <2> QED BY <2>3, <2>4
\* A frame begins after a whole one.
<1>6. CASE DTS!Check
  <2>1. UNCHANGED <<dc, sendChannel>> /\ sendWorker'.dc = sendWorker.dc
    BY <1>6 DEF DTS!Check, SenderTyped, WorkerTyped, SendPlaces
  <2>2. DTS!FramesWhole' BY <2>1 DEF DTS!FramesWhole
  <2>3. CASE sendWorker'.inFlight = sendWorker.inFlight
    BY <2>1, <2>2, <2>3 DEF NothingAhead, Resumes
  <2>4. CASE sendWorker'.inFlight # sendWorker.inFlight
    <3>1. /\ DTS!Ready(sendWorker.dc) /\ sendWorker.inFlight = DTS!None
          /\ sendWorker'.inFlight = [frame |-> frame, packet |-> 1]
      BY <1>6, <2>4 DEF DTS!Check, SenderTyped, WorkerTyped, SendPlaces
    <3>2. NothingAhead' BY <2>1, <3>1 DEF NothingAhead, DTS!Ready
    <3>3. Resumes' BY <2>1, <3>1 DEF Resumes, Continues
    <3> QED BY <2>2, <3>2, <3>3
  <2> QED BY <2>3, <2>4
<1>7. CASE DTS!SendPacket
  <2> DEFINE c == sendWorker.dc
             next == sendWorker.inFlight
             then == DTS!Following(next)
  <2>1. /\ sendWorker.at = "send" /\ dc' = dc /\ sendWorker'.dc = c /\ sendWorker'.inFlight = then
        /\ sendChannel' = IF sendChannel[c].state # "open" THEN sendChannel
                      ELSE [sendChannel EXCEPT ![c].amount = @ + 1, ![c].sent = Append(@, next)]
    BY <1>7 DEF DTS!SendPacket, SenderTyped, WorkerTyped, SendPlaces
  <2>2. c \in DTS!Channels /\ c # 0 /\ next \in Begun /\ next \in Packet /\ next # DTS!None
    BY <2>1, SentTyped DEF Sending
  <2> HIDE DEF c, next
  <2>3. CASE sendChannel[c].state # "open"
    <3>1. sendChannel' = sendChannel BY <2>1, <2>3
    <3>2. sendChannel[c].state = "closed" BY <2>2, <2>3 DEF NothingAhead, SenderTyped, ChannelTyped, Channel, c, next
    <3>3. NothingAhead' BY <2>1, <3>1, <3>2 DEF NothingAhead, c
    <3>4. Resumes' BY <2>1, <3>1, <3>2 DEF Resumes
    <3> QED BY <3>1, <3>3, <3>4 DEF DTS!FramesWhole
  <2>4. CASE sendChannel[c].state = "open"
    <3>1. sendChannel[c].sent \in Seq(Packet) BY <2>2 DEF SenderTyped, ChannelTyped, Channel
    <3>2. Whole(sendChannel[c].sent) BY <2>2 DEF DTS!FramesWhole, Whole
    <3>3. Continues(sendChannel[c].sent, next) BY <2>2, <2>4 DEF Resumes, c, next
    <3>4. Whole(Append(sendChannel[c].sent, next)) /\ Continues(Append(sendChannel[c].sent, next), then)
      BY <2>2, <3>1, <3>2, <3>3, AppendWhole
    <3>5. /\ sendChannel'[c].sent = Append(sendChannel[c].sent, next)
          /\ sendChannel'[c].state = "open"
          /\ \A d \in DTS!Channels : d # c => sendChannel'[d] = sendChannel[d]
      <4>1. sendChannel \in [DTS!Channels -> Channel] BY DEF SenderTyped, ChannelTyped
      <4> QED BY <2>1, <2>2, <2>4, <4>1 DEF Channel
    <3> HIDE DEF then
    <3>6. NothingAhead'
      <4>1. ~(c > sendWorker.dc) BY Parameters DEF c, SenderTyped, WorkerTyped
      <4>2. \A d \in DTS!Channels : d > sendWorker.dc \/ sendChannel'[d].state = "connecting" => d # c
        BY <3>5, <4>1
      <4> QED BY <2>1, <3>5, <4>2 DEF NothingAhead, c
    <3>7. Resumes' BY <2>1, <3>4, <3>5 DEF Resumes
    <3>8. \A d \in DTS!Channels : Whole(sendChannel'[d].sent)
      <4>1. \A d \in DTS!Channels : Whole(sendChannel[d].sent) BY DEF DTS!FramesWhole, Whole
      <4> QED BY <3>4, <3>5, <4>1
    <3>9. DTS!FramesWhole' BY <3>8 DEF DTS!FramesWhole, Whole
    <3> QED BY <3>6, <3>7, <3>9
  <2> QED BY <2>3, <2>4
<1> QED
  BY <1>1, <1>2, <1>3, <1>4, <1>5, <1>6, <1>7
  DEF DTS!Next, DTS!vars, DTS!TryPush, DTS!Send, DTS!stop, DTS!Callback

LEMMA SenderTypeOK == ASSUME DTS!SenderAssumption, SenderTyped PROVE DTS!TypeOK
<1> USE Parameters DEF SenderTyped, ScalarsTyped
<1>1. {notify, callback, sendDone} \subseteq BOOLEAN OBVIOUS
<1>2. \A c \in DTS!Channels : sendChannel[c].state \in {"connecting", "open", "closed"}
  BY DEF ChannelTyped, Channel
<1>3. sendWorker.inFlight \in [frame : 0 .. MaxFrames, packet : 0 .. Packets]
  BY DEF WorkerTyped, Begun, DTS!None
<1>4. sendWorker.at \in SendPlaces BY DEF WorkerTyped
<1> QED BY <1>1, <1>2, <1>3, <1>4 DEF DTS!TypeOK, SendPlaces

LEMMA SenderRun == [Next]_vars => [DTS!Next]_(DTS!vars)
  BY DEF Next, vars, sendVars, DTS!vars

-----------------------------------------------------------------------------
\* Remainders: what the sequence numbers of two packets say of their distance.
LEMMA Remainder ==
  ASSUME NEW m \in Nat \ {0}, NEW q \in Nat, NEW r \in 0 .. m - 1
  PROVE  (q * m + r) % m = r
  OBVIOUS

LEMMA Quotient ==
  ASSUME NEW m \in Nat \ {0}, NEW a \in Nat
  PROVE  \E q \in Nat, r \in 0 .. m - 1 : a = q * m + r /\ a % m = r
<1>1. a = (a \div m) * m + (a % m) OBVIOUS
<1>2. a \div m \in Nat OBVIOUS
<1>3. a % m \in 0 .. m - 1 OBVIOUS
<1> QED BY <1>1, <1>2, <1>3

LEMMA Apart ==
  ASSUME NEW m \in Nat \ {0}, NEW a \in Nat, NEW d \in 0 .. m - 1
  PROVE  /\ a % m \in 0 .. m - 1
         /\ \/ (a % m) + d < m /\ (a + d) % m = (a % m) + d
            \/ (a % m) + d >= m /\ (a + d) % m = ((a % m) + d) - m
<1>1. PICK q \in Nat, r \in 0 .. m - 1 : a = q * m + r /\ a % m = r BY Quotient
<1>2. CASE r + d < m
  <2>1. a + d = q * m + (r + d) BY <1>1
  <2>2. (q * m + (r + d)) % m = r + d BY <1>2, Remainder
  <2> QED BY <1>1, <1>2, <2>1, <2>2
<1>3. CASE r + d >= m
  <2>1. PICK p \in Nat : p = q + 1 OBVIOUS
  <2>2. PICK s \in 0 .. m - 1 : s = (r + d) - m BY <1>3
  <2>3. a + d = p * m + s BY <1>1, <2>1, <2>2
  <2>4. (p * m + s) % m = s BY Remainder
  <2> QED BY <1>1, <1>3, <2>2, <2>3, <2>4
<1> QED BY <1>2, <1>3

LEMMA Once ==
  ASSUME NEW m \in Nat \ {0}, NEW a \in 0 .. 2 * m - 1
  PROVE  a % m = IF a < m THEN a ELSE a - m
<1>1. CASE a < m BY <1>1
<1>2. CASE a >= m BY <1>2
<1> QED BY <1>1, <1>2

LEMMA LeastMember ==
  ASSUME NEW S \in SUBSET Nat, S # {}
  PROVE  \E x \in S : \A y \in S : x <= y
<1>1. \E x \in S : \A y \in S : ~(<<y, x>> \in OpToRel(<, Nat))
  BY WFMin, NatLessThanWellFounded
<1>2. \A x, y \in S : <<y, x>> \in OpToRel(<, Nat) <=> y < x
  <2> SUFFICES ASSUME NEW x \in S, NEW y \in S PROVE <<y, x>> \in OpToRel(<, Nat) <=> y < x
    OBVIOUS
  <2>1. x \in Nat /\ y \in Nat /\ <<y, x>> \in Nat \X Nat OBVIOUS
  <2> QED BY <2>1 DEF OpToRel
<1>3. \A x, y \in S : ~(y < x) => x <= y OBVIOUS
<1> QED BY <1>1, <1>2, <1>3

-----------------------------------------------------------------------------
\* The packets received, the newest of them, and the numbers asked for.
NewestIsHead == \A k \in seen : k <= head
NackInv == NG!TypeOK /\ NewestIsHead /\ NG!GapsRequested /\ NG!OnlyMissing

\* The packets that came are numbered from the oldest, and a later one does not change it.
LEMMA OldestIs ==
  ASSUME NEW S \in SUBSET Nat, NEW x \in S, \A y \in S : x <= y
  PROVE  (CHOOSE n \in S : \A k \in S : n <= k) = x
<1>1. \A z \in S : (\A k \in S : z <= k) => z = x OBVIOUS
<1> QED BY <1>1

LEMMA NackTypes ==
  ASSUME NG!NackAssumption, NG!TypeOK
  PROVE  /\ NackMod \in Nat \ {0} /\ Reach \in Nat /\ Final \in Nat
         /\ Reach < NackMod \div 2 /\ NackMod \div 2 \in Nat /\ 2 * (NackMod \div 2) <= NackMod
         /\ seen \in SUBSET Nat /\ head \in Nat /\ head \in seen
<1> USE DEF NG!NackAssumption, NG!TypeOK
<1>1. NackMod \in Nat /\ Reach \in Nat /\ Final \in Nat /\ Reach < NackMod \div 2 OBVIOUS
<1>2. NackMod \div 2 \in Nat /\ 2 * (NackMod \div 2) <= NackMod BY <1>1
<1>3. NackMod # 0 BY <1>1, <1>2
<1>4. seen \in SUBSET Nat /\ head \in seen BY <1>1
<1> QED BY <1>1, <1>2, <1>3, <1>4

LEMMA OldestKept ==
  ASSUME NackInv, NG!NackAssumption, NEW n \in 0 .. Final, NG!Read(n)
  PROVE  NG!Oldest \in seen /\ NG!Oldest \in Nat /\ NG!Oldest <= head /\ NG!Oldest' = NG!Oldest
<1> USE DEF NackInv
<1>1. PICK x \in seen : \A y \in seen : x <= y BY LeastMember, NackTypes
<1>2. NG!Oldest = x BY <1>1, OldestIs, NackTypes DEF NG!Oldest
<1>3. seen' = seen \cup {n} /\ \E k \in seen : k <= n BY DEF NG!Read
<1>4. n \in Nat BY NackTypes
<1>5. x <= n BY <1>1, <1>3, <1>4, NackTypes
<1>6. seen' \in SUBSET Nat /\ x \in seen' /\ \A y \in seen' : x <= y BY <1>1, <1>3, <1>4, <1>5, NackTypes
<1>7. NG!Oldest' = x BY <1>6, OldestIs DEF NG!Oldest
<1> QED BY <1>1, <1>2, <1>7, NackTypes

LEMMA NackInit == ASSUME NG!NackAssumption PROVE NG!Init => NackInv
<1> SUFFICES ASSUME NG!Init PROVE NackInv OBVIOUS
<1>1. PICK n \in 0 .. NackMod - 1 : seen = {n} /\ head = n BY DEF NG!Init
<1>2. NG!TypeOK BY <1>1 DEF NG!Init, NG!TypeOK, NG!NackAssumption
<1>3. NewestIsHead BY <1>1 DEF NewestIsHead
<1>4. NG!Oldest = n BY <1>1 DEF NG!Oldest
<1>5. NG!Missing = {} BY <1>1, <1>4, <1>2, NackTypes DEF NG!Missing
<1>6. NG!GapsRequested /\ NG!OnlyMissing BY <1>5 DEF NG!GapsRequested, NG!OnlyMissing, NG!Init
<1> QED BY <1>2, <1>3, <1>6 DEF NackInv

-----------------------------------------------------------------------------
\* The numbers of two packets that are no further apart than one overtakes the other differ, and
\* their difference in 16 bits says which is newer.
LEMMA Numbers ==
  ASSUME NackInv, NG!NackAssumption, NEW a \in Nat, NEW b \in Nat, a < b, b <= a + Reach
  PROVE  /\ NG!Seq(a) \in 0 .. NackMod - 1 /\ NG!Seq(b) \in 0 .. NackMod - 1
         /\ \/ NG!Seq(a) + (b - a) < NackMod /\ NG!Seq(b) = NG!Seq(a) + (b - a)
            \/ NG!Seq(a) + (b - a) >= NackMod /\ NG!Seq(b) = (NG!Seq(a) + (b - a)) - NackMod
         /\ NG!Seq(a) # NG!Seq(b)
<1>1. /\ NackMod \in Nat \ {0} /\ Reach \in Nat /\ Reach < NackMod
  BY NackTypes DEF NackInv
<1>2. PICK d \in 0 .. NackMod - 1 : d = b - a /\ d # 0 /\ a + d = b BY <1>1
<1>3. /\ a % NackMod \in 0 .. NackMod - 1
      /\ \/ (a % NackMod) + d < NackMod /\ (a + d) % NackMod = (a % NackMod) + d
         \/ (a % NackMod) + d >= NackMod /\ (a + d) % NackMod = ((a % NackMod) + d) - NackMod
  BY <1>1, Apart
<1>4. /\ NG!Seq(a) \in 0 .. NackMod - 1
      /\ \/ NG!Seq(a) + (b - a) < NackMod /\ NG!Seq(b) = NG!Seq(a) + (b - a)
         \/ NG!Seq(a) + (b - a) >= NackMod /\ NG!Seq(b) = (NG!Seq(a) + (b - a)) - NackMod
  BY <1>2, <1>3 DEF NG!Seq
<1>5. NG!Seq(b) \in 0 .. NackMod - 1 /\ NG!Seq(a) # NG!Seq(b) BY <1>1, <1>2, <1>4
<1> QED BY <1>4, <1>5

LEMMA NewerNumbers ==
  ASSUME NackInv, NG!NackAssumption, NEW n \in 0 .. Final, NG!Read(n)
  PROVE  /\ n \in Nat /\ n # head /\ (NG!IsNewer(n) <=> n > head)
         /\ n <= head + Reach /\ head <= n + Reach
<1>1. /\ NackMod \in Nat \ {0} /\ Reach \in Nat /\ Reach < NackMod \div 2 /\ NackMod \div 2 \in Nat
      /\ 2 * (NackMod \div 2) <= NackMod /\ head \in Nat /\ head \in seen
  BY NackTypes DEF NackInv
<1>2. n \in Nat BY NackTypes DEF NackInv
<1>3. n # head /\ n <= head + Reach /\ head <= n + Reach BY <1>1, <1>2 DEF NG!Read
<1>4. CASE n > head
  <2>1. /\ NG!Seq(head) \in 0 .. NackMod - 1 /\ NG!Seq(n) \in 0 .. NackMod - 1
        /\ \/ NG!Seq(n) = NG!Seq(head) + (n - head)
           \/ NG!Seq(n) = (NG!Seq(head) + (n - head)) - NackMod
    BY <1>1, <1>2, <1>3, <1>4, Numbers
  <2> DEFINE s == NG!Seq(n) - NG!Seq(head) + NackMod
  <2>2. n - head \in 1 .. NackMod \div 2 - 1 BY <1>1, <1>2, <1>3, <1>4
  <2>3. s \in 0 .. 2 * NackMod - 1 /\ (s = (n - head) + NackMod \/ s = n - head) BY <2>1, <2>2, <1>1
  <2>4. s % NackMod = IF s < NackMod THEN s ELSE s - NackMod
    <3> HIDE DEF s
    <3> QED BY <2>3, <1>1, Once
  <2> HIDE DEF s
  <2>5. s % NackMod = n - head BY <2>2, <2>3, <2>4, <1>1
  <2>6. NG!IsNewer(n) BY <2>2, <2>5 DEF NG!IsNewer, s
  <2> QED BY <1>2, <1>3, <1>4, <2>6
<1>5. CASE n < head
  <2>1. /\ NG!Seq(n) \in 0 .. NackMod - 1 /\ NG!Seq(head) \in 0 .. NackMod - 1
        /\ \/ NG!Seq(head) = NG!Seq(n) + (head - n)
           \/ NG!Seq(head) = (NG!Seq(n) + (head - n)) - NackMod
    BY <1>1, <1>2, <1>3, <1>5, Numbers
  <2> DEFINE s == NG!Seq(n) - NG!Seq(head) + NackMod
  <2>2. head - n \in 1 .. NackMod \div 2 - 1 BY <1>1, <1>2, <1>3, <1>5
  <2>3. s = NackMod - (head - n) \/ s = 2 * NackMod - (head - n) BY <2>1, <1>1, <1>2
  <2>8. s \in 0 .. 2 * NackMod - 1
    <3> HIDE DEF s
    <3> QED BY <2>2, <2>3, <1>1, <1>2
  <2>4. s % NackMod = IF s < NackMod THEN s ELSE s - NackMod
    <3> HIDE DEF s
    <3> QED BY <2>8, <1>1, Once
  <2> HIDE DEF s
  <2>5. s % NackMod = NackMod - (head - n) BY <2>2, <2>3, <2>4, <1>1
  <2>6. ~(s % NackMod \in 1 .. NackMod \div 2 - 1) BY <2>2, <2>5, <1>1
  <2>7. ~NG!IsNewer(n) BY <2>6 DEF NG!IsNewer, s
  <2> QED BY <1>1, <1>2, <1>3, <1>5, <2>7
<1> QED BY <1>1, <1>2, <1>3, <1>4, <1>5

\* The loop of the interceptor names the packets skipped, and no other, unless the numbers wrap
\* between the two ends: then it names none.
LEMMA LoopNames ==
  ASSUME NackInv, NG!NackAssumption, NEW n \in Nat, n > head, n <= head + Reach
  PROVE  /\ \A k \in head + 1 .. n - 1 :
              (NG!Seq(n) < NG!Seq(head) /\ NG!Seq(head) # NackMod - 1) \/ NG!Seq(k) \in NG!Skipped(n)
         /\ \A q \in NG!Skipped(n) : \E k \in head + 1 .. n - 1 : NG!Seq(k) = q
<1>1. /\ NackMod \in Nat \ {0} /\ Reach \in Nat /\ head \in Nat /\ Reach < NackMod
  BY NackTypes DEF NackInv
<1>2. /\ NG!Seq(head) \in 0 .. NackMod - 1 /\ NG!Seq(n) \in 0 .. NackMod - 1
      /\ \/ NG!Seq(head) + (n - head) < NackMod /\ NG!Seq(n) = NG!Seq(head) + (n - head)
         \/ NG!Seq(head) + (n - head) >= NackMod /\ NG!Seq(n) = (NG!Seq(head) + (n - head)) - NackMod
  BY <1>1, Numbers
<1>3. ASSUME NEW k \in head + 1 .. n - 1
      PROVE  /\ NG!Seq(k) \in 0 .. NackMod - 1
             /\ \/ NG!Seq(head) + (k - head) < NackMod /\ NG!Seq(k) = NG!Seq(head) + (k - head)
                \/ NG!Seq(head) + (k - head) >= NackMod /\ NG!Seq(k) = (NG!Seq(head) + (k - head)) - NackMod
  <2>1. k \in Nat /\ head < k /\ k <= head + Reach BY <1>1
  <2> QED BY <1>1, <2>1, Numbers
<1> DEFINE first == (NG!Seq(head) + 1) % NackMod
<1>4. first = IF NG!Seq(head) = NackMod - 1 THEN 0 ELSE NG!Seq(head) + 1
  <2>1. PICK s \in 0 .. 2 * NackMod - 1 : s = NG!Seq(head) + 1 BY <1>1, <1>2
  <2>2. s % NackMod = IF s < NackMod THEN s ELSE s - NackMod BY <1>1, Once
  <2>3. first = s % NackMod BY <2>1
  <2> HIDE DEF first
  <2> QED BY <1>1, <1>2, <2>1, <2>2, <2>3
<1>5. NG!Skipped(n) = first .. NG!Seq(n) - 1 BY DEF NG!Skipped
<1> HIDE DEF first
<1>6. ASSUME NEW k \in head + 1 .. n - 1, ~(NG!Seq(n) < NG!Seq(head) /\ NG!Seq(head) # NackMod - 1)
      PROVE  NG!Seq(k) \in first .. NG!Seq(n) - 1
  BY <1>1, <1>2, <1>3, <1>4, <1>6
<1>7. ASSUME NEW q \in first .. NG!Seq(n) - 1
      PROVE  \E k \in head + 1 .. n - 1 : NG!Seq(k) = q
  <2> DEFINE k == n - (NG!Seq(n) - q)
  <2>1. q \in 0 .. NackMod - 1 /\ q < NG!Seq(n) BY <1>1, <1>2, <1>4
  <2>2. k \in head + 1 .. n - 1 BY <1>1, <1>2, <1>4, <2>1
  <2>3. PICK t \in Nat, r \in 0 .. NackMod - 1 : n = t * NackMod + r /\ n % NackMod = r
    BY <1>1, Quotient
  <2>4. k = t * NackMod + q BY <2>1, <2>3, <1>1 DEF NG!Seq
  <2>5. (t * NackMod + q) % NackMod = q BY <1>1, <2>1, <2>3, Remainder
  <2>6. NG!Seq(k) = q BY <2>4, <2>5 DEF NG!Seq
  <2> HIDE DEF k
  <2> QED BY <2>2, <2>6
<1> QED BY <1>5, <1>6, <1>7

LEMMA NackRead ==
  ASSUME NackInv, NG!NackAssumption, NEW n \in 0 .. Final, NG!Read(n)
  PROVE  NackInv'
<1>1. /\ NackMod \in Nat \ {0} /\ Reach \in Nat /\ Reach < NackMod /\ head \in Nat /\ head \in seen
      /\ seen \in SUBSET Nat /\ Final \in Nat
  BY NackTypes DEF NackInv
<1>2. /\ n \in Nat /\ n # head /\ (NG!IsNewer(n) <=> n > head)
      /\ n <= head + Reach /\ head <= n + Reach
  BY NewerNumbers
<1>3. NG!Oldest \in Nat /\ NG!Oldest <= head /\ NG!Oldest' = NG!Oldest BY OldestKept
<1>4. seen' = seen \cup {n} /\ n \notin seen BY DEF NG!Read
<1>5. \A k \in seen : k <= head BY DEF NackInv, NewestIsHead
<1>6. NG!Missing = (NG!Oldest .. head) \ seen BY DEF NG!Missing
<1>7. NG!Missing' = (NG!Oldest .. head') \ (seen \cup {n}) BY <1>3, <1>4 DEF NG!Missing
<1>8. NG!Recent = head - Reach .. head /\ NG!Recent' = head' - Reach .. head' BY DEF NG!Recent
<1>9. ASSUME NEW k \in Nat, k # n, k <= n + Reach, n <= k + Reach PROVE NG!Seq(k) # NG!Seq(n)
  <2>1. CASE k < n BY <1>2, <1>9, <2>1, Numbers
  <2>2. CASE n < k BY <1>2, <1>9, <2>2, Numbers
  <2> QED BY <1>2, <1>9, <2>1, <2>2
<1>10. /\ \A k \in (NG!Missing \cap NG!Recent) \ skippedAtWrap : NG!Seq(k) \in nackQueue
       /\ \A q \in nackQueue : \E k \in NG!Missing : NG!Seq(k) = q
  BY DEF NackInv, NG!GapsRequested, NG!OnlyMissing
<1>11. NG!Removed(n) = nackQueue \ {NG!Seq(n)} BY DEF NG!Removed
<1>12. CASE n > head
  <2>1. /\ nackQueue' = (nackQueue \ {NG!Seq(n)}) \cup NG!Skipped(n) /\ head' = n
        /\ skippedAtWrap' = IF NG!Seq(n) < NG!Seq(head) /\ NG!Seq(head) # NackMod - 1
                            THEN skippedAtWrap \cup (head + 1 .. n - 1) ELSE skippedAtWrap
    BY <1>2, <1>11, <1>12 DEF NG!Read
  <2>2. /\ \A k \in head + 1 .. n - 1 :
              (NG!Seq(n) < NG!Seq(head) /\ NG!Seq(head) # NackMod - 1) \/ NG!Seq(k) \in NG!Skipped(n)
        /\ \A q \in NG!Skipped(n) : \E k \in head + 1 .. n - 1 : NG!Seq(k) = q
    BY <1>2, <1>12, LoopNames
  <2>3. NG!TypeOK'
    <3>1. seen' \subseteq 0 .. Final /\ head' \in seen' BY <1>4, <2>1 DEF NackInv, NG!TypeOK
    <3>2. NG!Seq(n) \in 0 .. NackMod - 1 /\ NG!Seq(head) \in 0 .. NackMod - 1
      BY <1>1, <1>2, <1>12, Numbers
    <3>3. (NG!Seq(head) + 1) % NackMod \in 0 .. NackMod - 1 BY <1>1, <3>2
    <3>4. NG!Skipped(n) \subseteq 0 .. NackMod - 1 BY <1>1, <3>2, <3>3 DEF NG!Skipped
    <3>5. nackQueue' \subseteq 0 .. NackMod - 1 BY <2>1, <3>4 DEF NackInv, NG!TypeOK
    <3>6. head + 1 .. n - 1 \subseteq 0 .. Final BY <1>1
    <3>7. skippedAtWrap' \subseteq 0 .. Final BY <2>1, <3>6 DEF NackInv, NG!TypeOK
    <3> QED BY <3>1, <3>5, <3>7 DEF NG!TypeOK
  <2>4. NewestIsHead' BY <1>1, <1>2, <1>4, <1>5, <1>12, <2>1 DEF NewestIsHead
  <2>5. NG!GapsRequested'
    <3> SUFFICES ASSUME NEW k \in (NG!Missing' \cap NG!Recent') \ skippedAtWrap' PROVE NG!Seq(k) \in nackQueue'
      BY DEF NG!GapsRequested, NG!Seq
    <3>1. k \in Nat /\ k \in NG!Oldest .. n /\ k \notin seen /\ k # n /\ k >= n - Reach /\ k < n
      BY <1>1, <1>2, <1>3, <1>7, <1>8, <2>1
    <3>2. CASE k <= head
      <4>1. k \in NG!Missing /\ k \in NG!Recent BY <1>1, <1>2, <1>3, <1>6, <1>8, <1>12, <3>1, <3>2
      <4>2. k \notin skippedAtWrap BY <2>1
      <4>3. NG!Seq(k) \in nackQueue BY <4>1, <4>2, <1>10
      <4>4. NG!Seq(k) # NG!Seq(n) BY <1>1, <1>2, <3>1, <1>9
      <4> QED BY <2>1, <4>3, <4>4
    <3>3. CASE k > head
      <4>1. k \in head + 1 .. n - 1 BY <1>1, <1>2, <3>1, <3>3
      <4>2. ~(NG!Seq(n) < NG!Seq(head) /\ NG!Seq(head) # NackMod - 1) BY <2>1, <4>1
      <4> QED BY <2>1, <2>2, <4>1, <4>2
    <3> QED BY <1>1, <3>1, <3>2, <3>3
  <2>6. NG!OnlyMissing'
    <3> SUFFICES ASSUME NEW q \in nackQueue' PROVE \E k \in NG!Missing' : NG!Seq(k) = q
      BY DEF NG!OnlyMissing, NG!Seq
    <3>1. CASE q \in nackQueue \ {NG!Seq(n)}
      <4>1. PICK k \in NG!Missing : NG!Seq(k) = q BY <1>10, <3>1
      <4>2. k # n BY <3>1, <4>1
      <4>3. k \in NG!Missing' BY <1>1, <1>2, <1>3, <1>6, <1>7, <1>12, <2>1, <4>2
      <4> QED BY <4>1, <4>3
    <3>2. CASE q \in NG!Skipped(n)
      <4>1. PICK k \in head + 1 .. n - 1 : NG!Seq(k) = q BY <2>2, <3>2
      <4>2. k \notin seen /\ k # n BY <1>1, <1>2, <1>5
      <4>3. k \in NG!Missing' BY <1>1, <1>2, <1>3, <1>7, <2>1, <4>2
      <4> QED BY <4>1, <4>3
    <3> QED BY <2>1, <3>1, <3>2
  <2> QED BY <2>3, <2>4, <2>5, <2>6 DEF NackInv
<1>13. CASE n < head
  <2>1. nackQueue' = nackQueue \ {NG!Seq(n)} /\ head' = head /\ skippedAtWrap' = skippedAtWrap
    BY <1>1, <1>2, <1>11, <1>13 DEF NG!Read
  <2>2. NG!TypeOK' BY <1>4, <2>1 DEF NackInv, NG!TypeOK
  <2>3. NewestIsHead' BY <1>1, <1>2, <1>4, <1>5, <1>13, <2>1 DEF NewestIsHead
  <2>4. NG!GapsRequested'
    <3> SUFFICES ASSUME NEW k \in (NG!Missing' \cap NG!Recent') \ skippedAtWrap' PROVE NG!Seq(k) \in nackQueue'
      BY DEF NG!GapsRequested, NG!Seq
    <3>1. k \in NG!Missing /\ k \in NG!Recent /\ k \notin skippedAtWrap /\ k # n
      BY <1>6, <1>7, <1>8, <2>1
    <3>2. NG!Seq(k) \in nackQueue BY <3>1, <1>10
    <3>3. k \in Nat /\ k <= n + Reach /\ n <= k + Reach
      BY <1>1, <1>2, <1>3, <1>6, <1>8, <1>13, <3>1
    <3>4. NG!Seq(k) # NG!Seq(n) BY <3>1, <3>3, <1>9
    <3> QED BY <2>1, <3>2, <3>4
  <2>5. NG!OnlyMissing'
    <3> SUFFICES ASSUME NEW q \in nackQueue' PROVE \E k \in NG!Missing' : NG!Seq(k) = q
      BY DEF NG!OnlyMissing, NG!Seq
    <3>1. PICK k \in NG!Missing : NG!Seq(k) = q BY <1>10, <2>1
    <3>2. k # n BY <2>1, <3>1
    <3>3. k \in NG!Missing' BY <1>6, <1>7, <2>1, <3>2
    <3> QED BY <3>1, <3>3
  <2> QED BY <2>2, <2>3, <2>4, <2>5 DEF NackInv
<1> QED BY <1>1, <1>2, <1>12, <1>13

LEMMA NackStep ==
  ASSUME NackInv, NG!NackAssumption, [Next]_vars
  PROVE  NackInv'
<1>1. [NG!Next]_(NG!vars) BY DEF Next, vars, nackVars, NG!vars
<1>2. CASE NG!Next BY <1>2, NackRead DEF NG!Next
<1>3. CASE UNCHANGED NG!vars
  BY <1>3 DEF NG!vars, NackInv, NG!TypeOK, NewestIsHead, NG!GapsRequested, NG!OnlyMissing,
     NG!Missing, NG!Recent, NG!Oldest
<1> QED BY <1>1, <1>2, <1>3

\* A packet missing between two others is asked for, but for those skipped right at the wrap of the
\* sequence numbers, and nothing that came is asked for.
THEOREM LossAlwaysAsked == Spec => []LossAsked
<1> USE Bounds
<1>1. Init => NackInv BY NackInit DEF Init
<1>2. NackInv /\ [Next]_vars => NackInv' BY NackStep
<1>3. NackInv => LossAsked BY DEF NackInv, LossAsked
<1> QED BY <1>1, <1>2, <1>3, PTL DEF Spec


-----------------------------------------------------------------------------
(* Frames of packets whose numbers wrap.                                   *)

\* The packets of the behaviour do not use a sequence number twice.
Suffices(most) == (\A n \in Sizes : n <= most) /\ MaxFrames * most <= SeqMod
NumbersSuffice == \E most \in Nat : Suffices(most)
Most == CHOOSE most \in Nat : Suffices(most)

Pieces == Nat \X Nat \X Nat

\* The number of the k-th packet the publisher makes.
Number(k) == (FirstSeq + (k - 1)) % SeqMod

Received == UNION {[D -> Pieces] : D \in SUBSET (0 .. SeqMod - 1)}
Partial == [startSequence : 0 .. SeqMod - 1, payloads : Received]
Markers == {"single", "start", "final", "inter"}
FramePacket == [frameNumber : 0 .. FrameMod - 1, sequence : 0 .. SeqMod - 1, marker : Markers, payload : Pieces]
FramePayload == {DTF!Chunks(f, n) : f \in Nat, n \in Nat \ {0}}
BufferedStream == [buf : Seq(FramePayload), ready : BOOLEAN, closed : BOOLEAN,
                   reader : {"idle", "looked", "waiting", "ended"}]

PublisherOK ==
  /\ packetizer \in [sequence : 0 .. SeqMod - 1, frameNumber : 0 .. FrameMod - 1, pushed : 0 .. MaxFrames]
  /\ net \subseteq FramePacket

PartialsOK ==
  /\ partials \in [DOMAIN partials -> Partial] /\ DOMAIN partials \subseteq 0 .. FrameMod - 1
  /\ order \in Seq(0 .. FrameMod - 1)
  /\ DTF!OrderListsPartials

\* A reader that has looked at an empty buffer finds a token when a frame has come since.
StreamOK ==
  /\ receiveStream \in BufferedStream /\ Len(receiveStream.buf) <= BufferSize
  /\ receiveStream.reader \in {"looked", "waiting"} /\ receiveStream.buf # <<>> => receiveStream.ready

\* h holds the chunks of the L packets made so far, frame by frame ...
FrameByFrame(L, h) ==
  \A k \in 1 .. L :
    /\ h[k][2] \in 1 .. h[k][3] /\ h[k][2] <= k /\ (k - h[k][2]) + h[k][3] <= L
    /\ \A j \in 1 .. h[k][3] : h[(k - h[k][2]) + j] = <<h[k][1], j, h[k][3]>>

\* ... and what is on its way, or was received, is one of them under its number.
Made(L, h, s, chunk) == \E k \in 1 .. L : s = Number(k) /\ chunk = h[k]

NetMade(L, h) ==
  \A p \in net : p.marker = DTF!frameMarker(p.payload[2], p.payload[3]) /\ Made(L, h, p.sequence, p.payload)

\* A partial frame begins with the first chunk of a frame and lacks the last of any.
PartialMade(L, h, partial) ==
  /\ \E k \in 1 .. L : partial.startSequence = Number(k) /\ h[k][2] = 1
  /\ \A s \in DOMAIN partial.payloads :
       Made(L, h, s, partial.payloads[s]) /\ partial.payloads[s][2] # partial.payloads[s][3]

PartialsMade(L, h) == \A f \in DOMAIN partials : PartialMade(L, h, partials[f])

History(L, h) ==
  /\ L <= packetizer.pushed * Most /\ packetizer.sequence = (FirstSeq + L) % SeqMod
  /\ FrameByFrame(L, h) /\ NetMade(L, h) /\ PartialsMade(L, h)

ReceiveInv ==
  /\ PublisherOK /\ PartialsOK /\ StreamOK /\ maxPartials \in 1 .. 2
  /\ \E L \in 0 .. SeqMod : \E h \in [1 .. L -> Pieces] : History(L, h)

-----------------------------------------------------------------------------
LEMMA FrameParameters ==
  ASSUME DTF!FramesAssumption
  PROVE  /\ SeqMod \in Nat \ {0} /\ FrameMod \in Nat \ {0} /\ BufferSize \in Nat \ {0}
         /\ FirstSeq \in 0 .. SeqMod - 1 /\ FirstFrame \in 0 .. FrameMod - 1
         /\ MaxFrames \in Nat /\ Sizes \subseteq Nat
  BY DEF DTF!FramesAssumption

LEMMA MostSuffices == NumbersSuffice => Most \in Nat /\ Suffices(Most)
  BY DEF NumbersSuffice, Most

LEMMA NumberTyped ==
  ASSUME DTF!FramesAssumption, NEW k \in Nat \ {0} PROVE Number(k) \in 0 .. SeqMod - 1
<1>1. FirstSeq + (k - 1) \in Nat BY FrameParameters
<1> QED BY <1>1, FrameParameters DEF Number

\* A turn further the numbers are the same, and within one they differ.
LEMMA NumberOnward ==
  ASSUME DTF!FramesAssumption, NEW k \in Nat \ {0}, NEW d \in 0 .. SeqMod - 1
  PROVE  /\ Number(k) \in 0 .. SeqMod - 1
         /\ \/ Number(k) + d < SeqMod /\ Number(k + d) = Number(k) + d
            \/ Number(k) + d >= SeqMod /\ Number(k + d) = (Number(k) + d) - SeqMod
<1>1. PICK a \in Nat : a = FirstSeq + (k - 1) BY FrameParameters
<1>2. FirstSeq + ((k + d) - 1) = a + d BY <1>1, FrameParameters
<1>3. /\ a % SeqMod \in 0 .. SeqMod - 1
      /\ \/ (a % SeqMod) + d < SeqMod /\ (a + d) % SeqMod = (a % SeqMod) + d
         \/ (a % SeqMod) + d >= SeqMod /\ (a + d) % SeqMod = ((a % SeqMod) + d) - SeqMod
  BY FrameParameters, Apart
<1> QED BY <1>1, <1>2, <1>3 DEF Number

LEMMA NumbersDiffer ==
  ASSUME DTF!FramesAssumption, NEW L \in 0 .. SeqMod, NEW j \in 1 .. L, NEW k \in 1 .. L,
         Number(j) = Number(k)
  PROVE  j = k
<1>1. SeqMod \in Nat \ {0} /\ j \in Nat \ {0} /\ k \in Nat \ {0} BY FrameParameters
<1>2. ASSUME NEW a \in 1 .. L, NEW b \in 1 .. L, a < b PROVE Number(a) # Number(b)
  <2>1. PICK d \in 0 .. SeqMod - 1 : d = b - a /\ d # 0 /\ b = a + d BY <1>1, <1>2
  <2>2. a \in Nat \ {0} BY <1>1
  <2>3. /\ Number(a) \in 0 .. SeqMod - 1
        /\ \/ Number(a) + d < SeqMod /\ Number(a + d) = Number(a) + d
           \/ Number(a) + d >= SeqMod /\ Number(a + d) = (Number(a) + d) - SeqMod
    BY <2>2, NumberOnward
  <2> QED BY <1>1, <2>1, <2>3
<1> QED BY <1>1, <1>2

LEMMA NumberAgain ==
  ASSUME DTF!FramesAssumption, NEW k \in Nat \ {0}, NEW i \in Nat
  PROVE  (Number(k) + i) % SeqMod = Number(k + i)
<1>1. PICK a \in Nat : a = FirstSeq + (k - 1) BY FrameParameters
<1>2. SeqMod \in Nat \ {0} BY FrameParameters
<1>3. PICK q \in Nat, r \in 0 .. SeqMod - 1 : a = q * SeqMod + r /\ a % SeqMod = r BY <1>2, Quotient
<1>4. PICK b \in Nat : b = r + i BY <1>2
<1>5. PICK t \in Nat, u \in 0 .. SeqMod - 1 : b = t * SeqMod + u /\ b % SeqMod = u BY <1>2, Quotient
<1>6. PICK v \in Nat : v = q + t OBVIOUS
<1>7. a + i = v * SeqMod + u BY <1>2, <1>3, <1>4, <1>5, <1>6
<1>8. (v * SeqMod + u) % SeqMod = u BY <1>2, Remainder
<1>9. FirstSeq + ((k + i) - 1) = a + i BY <1>1, FrameParameters
<1>10. Number(k) + i = b BY <1>1, <1>3, <1>4 DEF Number
<1>11. Number(k + i) = (a + i) % SeqMod BY <1>9 DEF Number
<1> QED BY <1>5, <1>7, <1>8, <1>10, <1>11

\* The number of packets finalize expects, when the last is d after the first.
LEMMA Expected ==
  ASSUME DTF!FramesAssumption, NEW k \in Nat \ {0}, NEW d \in 0 .. SeqMod - 1
  PROVE  (Number(k + d) + SeqMod - Number(k)) % SeqMod = d
<1>1. SeqMod \in Nat \ {0} BY FrameParameters
<1>2. /\ Number(k) \in 0 .. SeqMod - 1
      /\ \/ Number(k) + d < SeqMod /\ Number(k + d) = Number(k) + d
         \/ Number(k) + d >= SeqMod /\ Number(k + d) = (Number(k) + d) - SeqMod
  BY NumberOnward
<1>3. PICK s \in 0 .. 2 * SeqMod - 1 :
        s = Number(k + d) + SeqMod - Number(k) /\ (s = d \/ s = SeqMod + d)
  BY <1>1, <1>2
<1>4. s % SeqMod = IF s < SeqMod THEN s ELSE s - SeqMod BY <1>1, Once
<1> QED BY <1>1, <1>3, <1>4

-----------------------------------------------------------------------------
LEMMA ChunksAre ==
  ASSUME NEW f \in Nat, NEW n \in Nat \ {0}
  PROVE  /\ DTF!Chunks(f, n) \in FramePayload
         /\ DTF!Chunks(f, n) = [i \in 1 .. n |-> <<f, i, n>>]
         /\ DTF!Chunks(f, n)[1] = <<f, 1, n>>
<1>1. DTF!Chunks(f, n) = [i \in 1 .. n |-> <<f, i, n>>] BY DEF DTF!Chunks
<1>2. 1 \in 1 .. n OBVIOUS
<1>3. DTF!Chunks(f, n)[1] = <<f, 1, n>> BY <1>1, <1>2
<1> QED BY <1>1, <1>3 DEF FramePayload

\* All the packets finalize expects are there when the one numbered m has come.
Finalized(h, partial, m, payloads, expected, sequence) ==
  /\ h[m][2] = h[m][3]
  /\ payloads = [s \in DOMAIN partial.payloads \cup {Number(m)} |->
                  IF s = Number(m) THEN h[m] ELSE partial.payloads[s]]
  /\ expected = ((Number(m) + SeqMod - partial.startSequence) % SeqMod) + 1
  /\ sequence = [i \in 1 .. expected |-> (partial.startSequence + i - 1) % SeqMod]
  /\ DOMAIN payloads = {sequence[i] : i \in 1 .. expected}

\* A frame that is finalized is one that was pushed: were more packets expected than it has, its last
\* chunk would be among those received before, and were there fewer, its last would not be the last.
LEMMA FrameFinalized ==
  ASSUME DTF!FramesAssumption,
         NEW L \in 0 .. SeqMod, NEW h \in [1 .. L -> Pieces], FrameByFrame(L, h),
         NEW partial \in Partial, PartialMade(L, h, partial),
         NEW m \in 1 .. L, NEW payloads, NEW expected, NEW sequence,
         Finalized(h, partial, m, payloads, expected, sequence)
  PROVE  [i \in 1 .. expected |-> payloads[sequence[i]]] \in FramePayload
<1>0. /\ h[m][2] = h[m][3]
      /\ payloads = [s \in DOMAIN partial.payloads \cup {Number(m)} |->
                      IF s = Number(m) THEN h[m] ELSE partial.payloads[s]]
      /\ expected = ((Number(m) + SeqMod - partial.startSequence) % SeqMod) + 1
      /\ sequence = [i \in 1 .. expected |-> (partial.startSequence + i - 1) % SeqMod]
      /\ DOMAIN payloads = {sequence[i] : i \in 1 .. expected}
  BY DEF Finalized
<1>1. PICK k \in 1 .. L : partial.startSequence = Number(k) /\ h[k][2] = 1 BY DEF PartialMade
<1>2. SeqMod \in Nat \ {0} /\ k \in Nat \ {0} /\ L \in Nat BY FrameParameters
<1>3. \A i \in 1 .. L : h[i] \in Pieces OBVIOUS
<1>4. PICK f \in Nat, n \in Nat \ {0} :
        /\ (k - 1) + n <= L
        /\ \A j \in 1 .. n : h[(k - 1) + j] = <<f, j, n>>
  <2>1. h[k] \in Pieces BY <1>3
  <2>2. h[k][1] \in Nat /\ h[k][3] \in Nat BY <2>1 DEF Pieces
  <2>3. h[k][2] \in 1 .. h[k][3] /\ (k - 1) + h[k][3] <= L
    BY <1>1 DEF FrameByFrame
  <2>4. \A j \in 1 .. h[k][3] : h[(k - 1) + j] = <<h[k][1], j, h[k][3]>> BY <1>1 DEF FrameByFrame
  <2>5. h[k][3] \in Nat \ {0} BY <1>1, <2>2, <2>3
  <2> QED BY <2>2, <2>3, <2>4, <2>5
<1>5. expected \in 1 .. SeqMod
  <2>1. Number(m) \in 0 .. SeqMod - 1 /\ Number(k) \in 0 .. SeqMod - 1 BY <1>2, NumberTyped
  <2>2. PICK s \in Nat : s = Number(m) + SeqMod - partial.startSequence BY <1>1, <1>2, <2>1
  <2>3. s % SeqMod \in 0 .. SeqMod - 1 BY <1>2, <2>2
  <2> QED BY <1>0, <1>2, <2>2, <2>3
<1>6. \A i \in 1 .. expected : sequence[i] = Number((k - 1) + i)
  <2> SUFFICES ASSUME NEW i \in 1 .. expected PROVE sequence[i] = Number((k - 1) + i) OBVIOUS
  <2>1. PICK j \in Nat : j = i - 1 BY <1>5
  <2>2. (Number(k) + j) % SeqMod = Number(k + j) BY <1>2, NumberAgain
  <2>3. Number(k) \in Nat BY <1>2, NumberTyped
  <2>4. sequence[i] = (partial.startSequence + i - 1) % SeqMod BY <1>0
  <2>5. partial.startSequence + i - 1 = Number(k) + j /\ k + j = (k - 1) + i
    BY <1>1, <1>2, <1>5, <2>1, <2>3
  <2> QED BY <2>2, <2>4, <2>5
<1>7. ASSUME NEW i \in 1 .. n, i <= expected
      PROVE  /\ (k - 1) + i \in 1 .. L /\ sequence[i] = Number((k - 1) + i)
             /\ sequence[i] \in DOMAIN payloads /\ h[(k - 1) + i] = <<f, i, n>>
             /\ payloads[sequence[i]] = <<f, i, n>>
             /\ (k - 1) + i # m => i # n
  <2>1. (k - 1) + i \in 1 .. L /\ i \in 1 .. expected BY <1>2, <1>4, <1>5, <1>7
  <2>2. sequence[i] = Number((k - 1) + i) /\ sequence[i] \in DOMAIN payloads BY <1>0, <1>6, <2>1
  <2>3. h[(k - 1) + i] = <<f, i, n>> BY <1>4
  <2>4. CASE (k - 1) + i = m BY <1>0, <2>1, <2>2, <2>3, <2>4
  <2>5. CASE (k - 1) + i # m
    <3>1. sequence[i] # Number(m) BY <2>1, <2>2, <2>5, NumbersDiffer
    <3>2. sequence[i] \in DOMAIN partial.payloads /\ payloads[sequence[i]] = partial.payloads[sequence[i]]
      BY <1>0, <2>2, <3>1
    <3>3. PICK l \in 1 .. L : /\ sequence[i] = Number(l) /\ partial.payloads[sequence[i]] = h[l]
                              /\ h[l][2] # h[l][3]
      <4>1. /\ Made(L, h, sequence[i], partial.payloads[sequence[i]])
            /\ partial.payloads[sequence[i]][2] # partial.payloads[sequence[i]][3]
        BY <3>2 DEF PartialMade
      <4> QED BY <4>1 DEF Made
    <3>4. l = (k - 1) + i BY <2>1, <2>2, <3>3, NumbersDiffer
    <3>5. h[l] = <<f, i, n>> BY <2>3, <3>4
    <3>6. i # n BY <3>3, <3>5
    <3> QED BY <2>1, <2>2, <2>3, <3>2, <3>3, <3>5, <3>6
  <2> QED BY <2>4, <2>5
<1>8. expected = n
  <2>1. CASE expected >= n
    <3>1. n \in 1 .. n /\ n <= expected BY <1>4, <1>5, <2>1
    <3>2. m = (k - 1) + n BY <1>7, <3>1
    <3>3. PICK d \in 0 .. SeqMod - 1 : d = n - 1 /\ m = k + d
      <4>1. n - 1 \in 0 .. SeqMod - 1 /\ m = k + (n - 1) BY <1>2, <1>4, <3>2
      <4> QED BY <4>1
    <3>4. (Number(k + d) + SeqMod - Number(k)) % SeqMod = d BY <1>2, Expected
    <3>5. expected = d + 1 BY <1>0, <1>1, <3>3, <3>4
    <3> QED BY <1>4, <3>3, <3>5
  <2>2. CASE expected < n
    <3>1. PICK d \in 0 .. SeqMod - 1 : d + 1 = expected
      <4>1. expected - 1 \in 0 .. SeqMod - 1 /\ (expected - 1) + 1 = expected BY <1>2, <1>5
      <4> QED BY <4>1
    <3>2. Number(m) \in 0 .. SeqMod - 1 /\ Number(k) \in 0 .. SeqMod - 1 BY <1>2, NumberTyped
    <3>3. d = (Number(m) + SeqMod - Number(k)) % SeqMod
      <4>1. PICK e \in Nat : e = (Number(m) + SeqMod - Number(k)) % SeqMod
        <5>1. PICK s \in Nat : s = Number(m) + SeqMod - Number(k) BY <1>2, <3>2
        <5>2. s % SeqMod \in Nat BY <1>2, <5>1
        <5> QED BY <5>1, <5>2
      <4>2. expected = e + 1 BY <1>0, <1>1, <4>1
      <4> QED BY <3>1, <4>1, <4>2
    <3>4. Number(k + d) = Number(m)
      <4>1. (Number(k + d) + SeqMod - Number(k)) % SeqMod = d BY <1>2, Expected
      <4>2. \/ Number(k) + d < SeqMod /\ Number(k + d) = Number(k) + d
            \/ Number(k) + d >= SeqMod /\ Number(k + d) = (Number(k) + d) - SeqMod
        BY <1>2, NumberOnward
      <4>3. PICK s \in 0 .. 2 * SeqMod - 1 : s = Number(m) + SeqMod - Number(k) BY <1>2, <3>2
      <4>4. s % SeqMod = IF s < SeqMod THEN s ELSE s - SeqMod BY <1>2, Once
      <4>5. s = d \/ s = d + SeqMod BY <1>2, <3>3, <4>3, <4>4
      <4> QED BY <1>2, <3>2, <4>2, <4>3, <4>5
    <3>5. k + d \in 1 .. L BY <1>2, <1>4, <2>2, <3>1
    <3>6. k + d = m BY <3>4, <3>5, NumbersDiffer
    <3>7. expected \in 1 .. n /\ (k - 1) + expected = k + d BY <1>2, <1>4, <1>5, <2>2, <3>1
    <3>8. h[m] = <<f, expected, n>> BY <1>4, <3>6, <3>7
    <3>9. expected = n BY <1>0, <3>8
    <3> QED BY <3>9
  <2> QED BY <1>4, <1>5, <2>1, <2>2
<1>9. [i \in 1 .. expected |-> payloads[sequence[i]]] = [i \in 1 .. n |-> <<f, i, n>>]
  <2>1. \A i \in 1 .. n : i <= expected BY <1>4, <1>8
  <2>2. \A i \in 1 .. n : payloads[sequence[i]] = <<f, i, n>> BY <1>7, <2>1
  <2> QED BY <1>8, <2>2
<1>10. DTF!Chunks(f, n) \in FramePayload /\ DTF!Chunks(f, n) = [i \in 1 .. n |-> <<f, i, n>>]
  BY ChunksAre
<1> QED BY <1>9, <1>10

-----------------------------------------------------------------------------
LEMMA FramePushed ==
  ASSUME DTF!FramesAssumption, StreamOK, NEW payload \in FramePayload, DTF!push(payload)
  PROVE  StreamOK'
<1>1. CASE receiveStream.closed
  <2>1. receiveStream' = receiveStream BY <1>1 DEF DTF!push
  <2> QED BY <2>1 DEF StreamOK
<1>2. CASE ~receiveStream.closed
  <2> DEFINE b == receiveStream.buf
             k == IF Len(b) = BufferSize THEN Tail(b) ELSE b
  <2>1. receiveStream \in BufferedStream /\ b \in Seq(FramePayload) /\ Len(b) <= BufferSize /\ Len(b) \in Nat
    BY LenProperties DEF StreamOK, BufferedStream
  <2>2. receiveStream' = [receiveStream EXCEPT !.buf = Append(k, payload), !.ready = TRUE]
    BY <1>2 DEF DTF!push
  <2>3. BufferSize \in Nat \ {0} BY FrameParameters
  <2>4. k \in Seq(FramePayload) /\ Len(k) \in Nat /\ Len(k) + 1 <= BufferSize
    <3> HIDE DEF b
    <3>1. CASE Len(b) = BufferSize
      <4>1. b # <<>> BY <2>1, <2>3, <3>1, EmptySeq
      <4>2. Tail(b) \in Seq(FramePayload) /\ Len(Tail(b)) = Len(b) - 1 BY <2>1, <4>1, HeadTailProperties
      <4> QED BY <2>1, <2>3, <3>1, <4>2
    <3>2. CASE Len(b) # BufferSize BY <2>1, <2>3, <3>2
    <3> QED BY <3>1, <3>2
  <2> HIDE DEF k
  <2>5. Append(k, payload) \in Seq(FramePayload) /\ Len(Append(k, payload)) <= BufferSize
    BY <2>3, <2>4, AppendProperties
  <2>6. /\ receiveStream'.buf = Append(k, payload) /\ receiveStream'.ready = TRUE
        /\ receiveStream' \in BufferedStream
    BY <2>1, <2>2, <2>5 DEF BufferedStream
  <2> QED BY <2>5, <2>6 DEF StreamOK
<1> QED BY <1>1, <1>2

LEMMA PartialRemoved ==
  ASSUME PartialsOK, NEW f, DTF!remove(f)
  PROVE  PartialsOK' /\ \A g \in DOMAIN partials' : g \in DOMAIN partials /\ partials'[g] = partials[g]
<1>1. /\ partials \in [DOMAIN partials -> Partial] /\ DOMAIN partials \subseteq 0 .. FrameMod - 1
      /\ order \in Seq(0 .. FrameMod - 1) /\ Len(order) \in Nat
      /\ \A i \in 1 .. Len(order) : order[i] \in 0 .. FrameMod - 1
  BY LenProperties, ElementOfSeq DEF PartialsOK
<1>2. DOMAIN order = 1 .. Len(order) BY <1>1, LenProperties
<1>3. /\ \A i, j \in 1 .. Len(order) : order[i] = order[j] => i = j
      /\ {order[i] : i \in 1 .. Len(order)} = DOMAIN partials
  BY <1>2 DEF PartialsOK, DTF!OrderListsPartials, DTF!IsInjective
<1>4. /\ partials' = [g \in DOMAIN partials \ {f} |-> partials[g]]
      /\ DOMAIN partials' = DOMAIN partials \ {f}
  BY DEF DTF!remove, DTF!Forget
<1>5. /\ \A g \in DOMAIN partials' : g \in DOMAIN partials /\ partials'[g] = partials[g]
      /\ partials' \in [DOMAIN partials' -> Partial] /\ DOMAIN partials' \subseteq 0 .. FrameMod - 1
  <2>1. \A g \in DOMAIN partials' : g \in DOMAIN partials /\ partials'[g] = partials[g] BY <1>4
  <2>2. \A g \in DOMAIN partials : partials[g] \in Partial BY <1>1
  <2>3. partials' \in [DOMAIN partials \ {f} -> Partial] BY <1>4, <2>2
  <2> QED BY <1>1, <1>4, <2>1, <2>3
<1>6. CASE (\A i \in 1 .. Len(order) : order[i] # f) /\ UNCHANGED order
  <2>1. f \notin DOMAIN partials BY <1>3, <1>6
  <2>2. DOMAIN partials' = DOMAIN partials BY <1>4, <2>1
  <2>3. DTF!OrderListsPartials' BY <1>2, <1>3, <1>6, <2>2 DEF DTF!OrderListsPartials, DTF!IsInjective
  <2> QED BY <1>1, <1>5, <1>6, <2>3 DEF PartialsOK
<1>7. ASSUME NEW i \in 1 .. Len(order), order[i] = f,
             order' = [j \in 1 .. Len(order) - 1 |-> order[IF j < i THEN j ELSE j + 1]]
      PROVE  PartialsOK'
  <2>1. \A j \in 1 .. Len(order) - 1 : (IF j < i THEN j ELSE j + 1) \in 1 .. Len(order) BY <1>1
  <2>2. PICK n \in Nat : n = Len(order) - 1 BY <1>1, <1>7
  <2>3. order' \in [1 .. n -> 0 .. FrameMod - 1] BY <1>1, <1>7, <2>1, <2>2
  <2>4. order' \in Seq(0 .. FrameMod - 1) BY <2>3, SeqDef
  <2>5. Len(order') = n /\ DOMAIN order' = 1 .. n BY <2>3, <2>4, LenProperties
  <2>6. ASSUME NEW a \in 1 .. n, NEW b \in 1 .. n, order'[a] = order'[b] PROVE a = b
    <3>1. PICK x \in 1 .. Len(order) : x = (IF a < i THEN a ELSE a + 1) /\ order'[a] = order[x]
      BY <1>7, <2>1, <2>2
    <3>2. PICK y \in 1 .. Len(order) : y = (IF b < i THEN b ELSE b + 1) /\ order'[b] = order[y]
      BY <1>7, <2>1, <2>2
    <3>3. x = y BY <1>3, <2>6, <3>1, <3>2
    <3> QED BY <1>1, <2>2, <3>1, <3>2, <3>3
  <2>7. ASSUME NEW a \in 1 .. n PROVE order'[a] \in DOMAIN partials \ {f}
    <3>1. PICK x \in 1 .. Len(order) : x = (IF a < i THEN a ELSE a + 1) /\ order'[a] = order[x]
      BY <1>7, <2>1, <2>2
    <3>2. x # i BY <1>1, <2>2, <3>1
    <3>3. order[x] # f BY <1>3, <1>7, <3>2
    <3> QED BY <1>3, <3>1, <3>3
  <2>8. ASSUME NEW g \in DOMAIN partials \ {f} PROVE \E a \in 1 .. n : order'[a] = g
    <3>1. PICK x \in 1 .. Len(order) : order[x] = g BY <1>3
    <3>2. x # i BY <1>7, <3>1
    <3>3. CASE x < i
      <4>1. x \in 1 .. n /\ order'[x] = order[x] BY <1>1, <1>7, <2>2, <3>3
      <4> QED BY <3>1, <4>1
    <3>4. CASE x > i
      <4>1. PICK a \in 1 .. n : a = x - 1 /\ ~(a < i) /\ a + 1 = x BY <1>1, <2>2, <3>4
      <4>2. order'[a] = order[x] BY <1>7, <2>2, <4>1
      <4> QED BY <3>1, <4>2
    <3> QED BY <1>1, <3>2, <3>3, <3>4
  <2>9. {order'[a] : a \in 1 .. n} = DOMAIN partials \ {f} BY <2>7, <2>8
  <2>10. DTF!OrderListsPartials' BY <1>4, <2>5, <2>6, <2>9 DEF DTF!OrderListsPartials, DTF!IsInjective
  <2> QED BY <1>5, <2>4, <2>10 DEF PartialsOK
<1> QED BY <1>5, <1>6, <1>7 DEF DTF!remove

\* The partial frame a start makes.
Fresh(p) == [startSequence |-> p.sequence, payloads |-> [s \in {p.sequence} |-> p.payload]]

LEMMA FreshTyped ==
  ASSUME NEW p \in FramePacket PROVE Fresh(p) \in Partial
<1>1. p.sequence \in 0 .. SeqMod - 1 /\ p.payload \in Pieces BY DEF FramePacket
<1>2. [s \in {p.sequence} |-> p.payload] \in [{p.sequence} -> Pieces] BY <1>1
<1>3. {p.sequence} \in SUBSET (0 .. SeqMod - 1) BY <1>1
<1>4. [s \in {p.sequence} |-> p.payload] \in Received BY <1>2, <1>3 DEF Received
<1> QED BY <1>1, <1>4 DEF Fresh, Partial

LEMMA PartialBegun ==
  ASSUME DTF!FramesAssumption, PartialsOK, maxPartials \in 1 .. 2,
         NEW p \in FramePacket, DTF!beginPartial(p)
  PROVE  /\ PartialsOK'
         /\ \A g \in DOMAIN partials' :
              partials'[g] = Fresh(p) \/ (g \in DOMAIN partials /\ partials'[g] = partials[g])
<1>1. /\ partials \in [DOMAIN partials -> Partial] /\ DOMAIN partials \subseteq 0 .. FrameMod - 1
      /\ order \in Seq(0 .. FrameMod - 1) /\ Len(order) \in Nat
      /\ \A i \in 1 .. Len(order) : order[i] \in 0 .. FrameMod - 1
  BY LenProperties, ElementOfSeq DEF PartialsOK
<1>2. DOMAIN order = 1 .. Len(order) BY <1>1, LenProperties
<1>3. /\ \A i, j \in 1 .. Len(order) : order[i] = order[j] => i = j
      /\ {order[i] : i \in 1 .. Len(order)} = DOMAIN partials
  BY <1>2 DEF PartialsOK, DTF!OrderListsPartials, DTF!IsInjective
<1>4. PICK excess \in 0 .. Len(order) :
        /\ excess = IF Len(order) < maxPartials THEN 0 ELSE Len(order) + 1 - maxPartials
  <2>1. (IF Len(order) < maxPartials THEN 0 ELSE Len(order) + 1 - maxPartials) \in 0 .. Len(order) BY <1>1
  <2> QED BY <2>1
<1> DEFINE kept == SubSeq(order, excess + 1, Len(order))
           gone0 == {order[i] : i \in 1 .. excess}
           rest == DOMAIN partials \ gone0
           n == p.frameNumber
<1>5. /\ order' = IF n \in rest THEN kept ELSE Append(kept, n)
      /\ partials' = [f \in rest \cup {n} |-> IF f # n THEN partials[f] ELSE Fresh(p)]
  <2>1. DTF!Forget(partials, gone0) = [g \in rest |-> partials[g]] BY DEF DTF!Forget
  <2>2. /\ order' = IF n \in DOMAIN DTF!Forget(partials, gone0) THEN kept ELSE Append(kept, n)
        /\ partials' = [f \in DOMAIN DTF!Forget(partials, gone0) \cup {n} |->
                         IF f # n THEN DTF!Forget(partials, gone0)[f] ELSE Fresh(p)]
    BY <1>4 DEF DTF!beginPartial, Fresh
  <2> HIDE DEF rest, gone0, kept
  <2>3. DOMAIN DTF!Forget(partials, gone0) = rest /\ \A f \in rest : DTF!Forget(partials, gone0)[f] = partials[f]
    BY <2>1
  <2>4. \A f \in rest \cup {n} : f # n => f \in rest OBVIOUS
  <2> QED BY <2>2, <2>3, <2>4
<1>6. n \in 0 .. FrameMod - 1 BY DEF FramePacket
<1>7. /\ kept \in Seq(0 .. FrameMod - 1) /\ Len(kept) = Len(order) - excess
      /\ \A i \in 1 .. Len(kept) : kept[i] = order[excess + i]
  <2>1. \A i \in excess + 1 .. Len(order) : order[i] \in 0 .. FrameMod - 1 BY <1>1
  <2>2. excess + 1 \in Int /\ Len(order) \in Int BY <1>1
  <2>3. /\ kept \in Seq(0 .. FrameMod - 1)
        /\ Len(kept) = IF excess + 1 <= Len(order) THEN Len(order) - (excess + 1) + 1 ELSE 0
        /\ \A i \in 1 .. Len(order) - (excess + 1) + 1 : kept[i] = order[(excess + 1) + i - 1]
    BY <2>1, <2>2, SubSeqProperties
  <2> HIDE DEF kept
  <2>4. Len(kept) = Len(order) - excess BY <1>1, <2>3
  <2>5. \A i \in 1 .. Len(kept) : i \in 1 .. Len(order) - (excess + 1) + 1 /\ (excess + 1) + i - 1 = excess + i
    BY <1>1, <2>4
  <2> QED BY <2>3, <2>4, <2>5
<1>8. \A g \in 0 .. FrameMod - 1 : g \in rest <=> \E i \in 1 .. Len(kept) : kept[i] = g
  <2> HIDE DEF kept
  <2>1. ASSUME NEW g \in rest PROVE \E i \in 1 .. Len(kept) : kept[i] = g
    <3>1. PICK x \in 1 .. Len(order) : order[x] = g BY <1>3
    <3>2. ~(x \in 1 .. excess) BY <3>1
    <3>3. PICK i \in 1 .. Len(kept) : excess + i = x
      <4>1. x - excess \in 1 .. Len(kept) /\ excess + (x - excess) = x BY <1>1, <1>7, <3>2
      <4> QED BY <4>1
    <3> QED BY <1>7, <3>1, <3>3
  <2>2. ASSUME NEW i \in 1 .. Len(kept) PROVE kept[i] \in rest
    <3>1. excess + i \in 1 .. Len(order) /\ kept[i] = order[excess + i] /\ ~(excess + i \in 1 .. excess)
      BY <1>1, <1>7
    <3>2. kept[i] \in DOMAIN partials BY <1>3, <3>1
    <3>3. kept[i] \notin gone0
      <4> SUFFICES ASSUME NEW j \in 1 .. excess, order[j] = kept[i] PROVE FALSE OBVIOUS
      <4>1. j \in 1 .. Len(order) BY <1>1
      <4> QED BY <1>3, <3>1, <4>1
    <3> QED BY <3>2, <3>3
  <2> QED BY <2>1, <2>2
<1>9. \A i, j \in 1 .. Len(kept) : kept[i] = kept[j] => i = j
  <2> HIDE DEF kept
  <2> SUFFICES ASSUME NEW i \in 1 .. Len(kept), NEW j \in 1 .. Len(kept), kept[i] = kept[j] PROVE i = j
    OBVIOUS
  <2>1. excess + i \in 1 .. Len(order) /\ excess + j \in 1 .. Len(order) BY <1>1, <1>7
  <2>2. excess + i = excess + j BY <1>3, <1>7, <2>1
  <2> QED BY <1>7, <2>2
<1>10. rest \subseteq 0 .. FrameMod - 1 /\ \A f \in rest : f \in DOMAIN partials BY <1>1
<1>11. PICK r : r = rest OBVIOUS
<1>12. PICK k : k = kept OBVIOUS
<1> HIDE DEF kept, rest, gone0
<1>13. /\ DOMAIN partials' = r \cup {n}
       /\ \A f \in r \cup {n} : partials'[f] = IF f # n THEN partials[f] ELSE Fresh(p)
  BY <1>5, <1>11
<1>14. partials' \in [DOMAIN partials' -> Partial] /\ DOMAIN partials' \subseteq 0 .. FrameMod - 1
  <2>1. \A f \in r \cup {n} : (IF f # n THEN partials[f] ELSE Fresh(p)) \in Partial
    BY <1>1, <1>10, <1>11, FreshTyped
  <2>2. partials' \in [r \cup {n} -> Partial] BY <1>5, <1>11, <2>1
  <2>3. r \cup {n} \subseteq 0 .. FrameMod - 1 BY <1>6, <1>10, <1>11
  <2> QED BY <1>13, <2>2, <2>3
<1>15. \A g \in DOMAIN partials' :
         partials'[g] = Fresh(p) \/ (g \in DOMAIN partials /\ partials'[g] = partials[g])
  BY <1>10, <1>11, <1>13
<1>16. order' \in Seq(0 .. FrameMod - 1) /\ DTF!OrderListsPartials'
  <2>1. k \in Seq(0 .. FrameMod - 1) /\ Len(k) \in Nat /\ DOMAIN k = 1 .. Len(k)
    BY <1>7, <1>12, LenProperties
  <2>2. CASE n \in r
    <3>1. order' = k /\ DOMAIN partials' = r BY <1>5, <1>11, <1>12, <1>13, <2>2
    <3>2. \A i \in 1 .. Len(k) : k[i] \in 0 .. FrameMod - 1 BY <2>1, ElementOfSeq
    <3>3. {k[i] : i \in 1 .. Len(k)} = r BY <1>8, <1>10, <1>11, <1>12, <3>2
    <3> QED BY <1>9, <1>12, <2>1, <3>1, <3>3 DEF DTF!OrderListsPartials, DTF!IsInjective
  <2>3. CASE n \notin r
    <3>1. order' = Append(k, n) /\ DOMAIN partials' = r \cup {n} BY <1>5, <1>11, <1>12, <1>13, <2>3
    <3>2. PICK s : s = Append(k, n) OBVIOUS
    <3>3. /\ s \in Seq(0 .. FrameMod - 1) /\ Len(s) = Len(k) + 1
          /\ \A i \in 1 .. Len(k) : s[i] = k[i]
          /\ s[Len(k) + 1] = n
      BY <1>6, <2>1, <3>2, AppendProperties
    <3>4. \A i \in 1 .. Len(k) : k[i] \in 0 .. FrameMod - 1 BY <2>1, ElementOfSeq
    <3>5. \A i \in 1 .. Len(k) : k[i] \in r BY <1>8, <1>11, <1>12, <3>4
    <3>6. \A g \in r : \E i \in 1 .. Len(k) : k[i] = g BY <1>8, <1>10, <1>11, <1>12
    <3>7. \A i \in 1 .. Len(s) : i \in 1 .. Len(k) \/ i = Len(k) + 1 BY <2>1, <3>3
    <3>8. {s[i] : i \in 1 .. Len(s)} = r \cup {n}
      <4>1. \A i \in 1 .. Len(s) : s[i] \in r \cup {n} BY <3>3, <3>5, <3>7
      <4>2. Len(k) + 1 \in 1 .. Len(s) /\ \A i \in 1 .. Len(k) : i \in 1 .. Len(s) BY <2>1, <3>3
      <4>3. \A g \in r \cup {n} : \E i \in 1 .. Len(s) : s[i] = g BY <3>3, <3>6, <4>2
      <4> QED BY <4>1, <4>3
    <3>9. ASSUME NEW i \in 1 .. Len(s), NEW j \in 1 .. Len(s), s[i] = s[j] PROVE i = j
      <4>1. CASE i \in 1 .. Len(k) /\ j \in 1 .. Len(k)
        BY <1>9, <1>12, <3>3, <3>9, <4>1
      <4>2. CASE i = Len(k) + 1 /\ j \in 1 .. Len(k) BY <2>3, <3>3, <3>5, <3>9, <4>2
      <4>3. CASE i \in 1 .. Len(k) /\ j = Len(k) + 1 BY <2>3, <3>3, <3>5, <3>9, <4>3
      <4> QED BY <3>7, <4>1, <4>2, <4>3
    <3>10. DOMAIN s = 1 .. Len(s) BY <3>3, LenProperties
    <3> QED BY <3>1, <3>2, <3>3, <3>8, <3>9, <3>10 DEF DTF!OrderListsPartials, DTF!IsInjective
  <2> QED BY <2>2, <2>3
<1> QED BY <1>14, <1>15, <1>16 DEF PartialsOK

-----------------------------------------------------------------------------
LEMMA Marked ==
  ASSUME NEW i \in Nat, NEW n \in Nat, i \in 1 .. n, NEW marker, marker = DTF!frameMarker(i, n)
  PROVE  /\ marker \in Markers
         /\ marker = "single" => n = 1 /\ i = 1
         /\ marker = "start" => i = 1 /\ n # 1
         /\ marker = "final" => i = n
         /\ marker \in Markers \ {"single", "start", "final"} => i # n
<1>1. \/ marker = "single" /\ n = 1 /\ i = 1
      \/ marker = "start" /\ i = 1 /\ n # 1
      \/ marker = "final" /\ i = n
      \/ marker = "inter" /\ i # n
  <2>1. CASE n = 1
    <3>1. n <= 1 /\ i = 1 BY <2>1
    <3> QED BY <2>1, <3>1 DEF DTF!frameMarker
  <2>2. CASE n # 1
    <3>1. ~(n <= 1) BY <2>2
    <3>2. CASE i = 1 BY <2>2, <3>1, <3>2 DEF DTF!frameMarker
    <3>3. CASE i # 1 /\ i = n BY <2>2, <3>1, <3>3 DEF DTF!frameMarker
    <3>4. CASE i # 1 /\ i # n BY <2>2, <3>1, <3>4 DEF DTF!frameMarker
    <3> QED BY <3>2, <3>3, <3>4
  <2> QED BY <2>1, <2>2
<1> QED BY <1>1 DEF Markers

\* What a packet on its way carries.
LEMMA PacketMade ==
  ASSUME PublisherOK, NEW L \in 0 .. SeqMod, NEW h \in [1 .. L -> Pieces], History(L, h), NEW p \in net
  PROVE  /\ p \in FramePacket
         /\ \E m \in 1 .. L : /\ p.sequence = Number(m) /\ p.payload = h[m]
                              /\ h[m] \in Pieces /\ h[m][2] \in 1 .. h[m][3]
                              /\ p.marker = DTF!frameMarker(h[m][2], h[m][3])
<1>1. p \in FramePacket BY DEF PublisherOK
<1>2. p.marker = DTF!frameMarker(p.payload[2], p.payload[3]) /\ Made(L, h, p.sequence, p.payload)
  BY DEF History, NetMade
<1>3. PICK m \in 1 .. L : p.sequence = Number(m) /\ p.payload = h[m] BY <1>2 DEF Made
<1>4. h[m] \in Pieces OBVIOUS
<1>5. h[m][2] \in 1 .. h[m][3] BY DEF History, FrameByFrame
<1> QED BY <1>1, <1>2, <1>3, <1>4, <1>5

LEMMA FreshMade ==
  ASSUME NEW L, NEW h, NEW p, NEW m \in 1 .. L, p.sequence = Number(m), p.payload = h[m],
         h[m][2] = 1, h[m][3] # 1
  PROVE  PartialMade(L, h, Fresh(p))
<1>1. Fresh(p).startSequence = p.sequence /\ Fresh(p).payloads = [s \in {p.sequence} |-> p.payload]
  BY DEF Fresh
<1>2. DOMAIN Fresh(p).payloads = {p.sequence} /\ Fresh(p).payloads[p.sequence] = p.payload BY <1>1
<1>3. \A s \in DOMAIN Fresh(p).payloads : s = p.sequence BY <1>2
<1>4. Made(L, h, p.sequence, p.payload) BY DEF Made
<1>5. p.payload[2] # p.payload[3] OBVIOUS
<1> QED BY <1>1, <1>2, <1>3, <1>4, <1>5 DEF PartialMade

\* The partial frames that stay are those that were.
LEMMA PartialsStay ==
  ASSUME NEW L, NEW h, PartialsMade(L, h),
         \A g \in DOMAIN partials' : g \in DOMAIN partials /\ partials'[g] = partials[g]
  PROVE  PartialsMade(L, h)'
  BY DEF PartialsMade, PartialMade, Made, Number

\* One packet is put into the frames.
ProcessedOK(L, h) == PartialsOK' /\ StreamOK' /\ PartialsMade(L, h)'

LEMMA SingleReceived ==
  ASSUME DTF!FramesAssumption, PartialsOK, StreamOK, NEW L, NEW h, PartialsMade(L, h),
         NEW p, NEW f \in Nat, p.payload = <<f, 1, 1>>, DTF!frameFromSingle(p)
  PROVE  ProcessedOK(L, h)
<1>1. /\ PartialsOK'
      /\ \A g \in DOMAIN partials' : g \in DOMAIN partials /\ partials'[g] = partials[g]
  <2>1. UNCHANGED <<partials, order>> \/ DTF!remove(Head(order))
    BY DEF DTF!frameFromSingle, DTF!evictOldest, DTF!depacketizer
  <2>2. CASE UNCHANGED <<partials, order>>
    BY <2>2 DEF PartialsOK, DTF!OrderListsPartials
  <2>3. CASE DTF!remove(Head(order)) BY <2>3, PartialRemoved
  <2> QED BY <2>1, <2>2, <2>3
<1>2. PartialsMade(L, h)' BY <1>1, PartialsStay
<1>3. DTF!push(<<p.payload>>) BY DEF DTF!frameFromSingle
<1>4. <<p.payload>> \in FramePayload
  <2>1. PICK n \in Nat \ {0} : n = 1 OBVIOUS
  <2>3. DTF!Chunks(f, n) \in FramePayload /\ DTF!Chunks(f, n) = [i \in 1 .. n |-> <<f, i, n>>] BY ChunksAre
  <2>2. [i \in 1 .. 1 |-> <<f, i, 1>>] = <<<<f, 1, 1>>>> OBVIOUS
  <2> QED BY <2>1, <2>2, <2>3
<1>5. StreamOK' BY <1>3, <1>4, FramePushed
<1> QED BY <1>1, <1>2, <1>5 DEF ProcessedOK

LEMMA StartReceived ==
  ASSUME DTF!FramesAssumption, PartialsOK, StreamOK, maxPartials \in 1 .. 2,
         NEW L, NEW h, PartialsMade(L, h), NEW p \in FramePacket, NEW m \in 1 .. L, p.sequence = Number(m),
         p.payload = h[m], h[m][2] = 1, h[m][3] # 1, DTF!beginPartial(p)
  PROVE  ProcessedOK(L, h)
<1>1. /\ PartialsOK'
      /\ \A g \in DOMAIN partials' :
           partials'[g] = Fresh(p) \/ (g \in DOMAIN partials /\ partials'[g] = partials[g])
  BY PartialBegun
<1>2. PartialMade(L, h, Fresh(p)) BY FreshMade
<1>3. \A g \in DOMAIN partials' : PartialMade(L, h, partials'[g]) BY <1>1, <1>2 DEF PartialsMade
<1>4. PartialsMade(L, h)' BY <1>3 DEF PartialsMade, PartialMade, Made, Number
<1>5. StreamOK'
  <2>1. receiveStream' = receiveStream BY DEF DTF!beginPartial
  <2> QED BY <2>1 DEF StreamOK
<1> QED BY <1>1, <1>4, <1>5 DEF ProcessedOK

LEMMA OtherReceived ==
  ASSUME DTF!FramesAssumption, PartialsOK, StreamOK, NEW L \in 0 .. SeqMod, NEW h \in [1 .. L -> Pieces],
         FrameByFrame(L, h), PartialsMade(L, h), NEW p \in FramePacket, NEW m \in 1 .. L,
         p.sequence = Number(m), p.payload = h[m], p.marker = "final" => h[m][2] = h[m][3],
         p.marker # "final" => h[m][2] # h[m][3], DTF!pushToPartial(p)
  PROVE  ProcessedOK(L, h)
<1> DEFINE n == p.frameNumber
           old == partials[n].payloads
           payloads == [s \in DOMAIN old \cup {p.sequence} |-> IF s = p.sequence THEN p.payload ELSE old[s]]
<1>1. CASE n \notin DOMAIN partials
  <2>1. UNCHANGED <<partials, order, receiveStream>> BY <1>1 DEF DTF!pushToPartial, DTF!depacketizer
  <2>2. PartialsOK' /\ StreamOK' BY <2>1 DEF PartialsOK, StreamOK, DTF!OrderListsPartials
  <2>3. PartialsMade(L, h)' BY <2>1, PartialsStay
  <2> QED BY <2>2, <2>3 DEF ProcessedOK
<1>2. ASSUME n \in DOMAIN partials, DTF!remove(n), UNCHANGED receiveStream PROVE ProcessedOK(L, h)
  <2>1. PartialsOK' /\ PartialsMade(L, h)' BY <1>2, PartialRemoved, PartialsStay
  <2>2. StreamOK' BY <1>2 DEF StreamOK
  <2> QED BY <2>1, <2>2 DEF ProcessedOK
<1>3. ASSUME n \in DOMAIN partials PROVE partials[n] \in Partial /\ PartialMade(L, h, partials[n])
  BY <1>3 DEF PartialsOK, PartialsMade
<1>4. ASSUME n \in DOMAIN partials, p.marker = "final", DTF!remove(n),
             DTF!finalize(partials[n], payloads, p.sequence)
      PROVE  ProcessedOK(L, h)
  <2>1. PartialsOK' /\ PartialsMade(L, h)' BY <1>4, PartialRemoved, PartialsStay
  <2> DEFINE expected == ((p.sequence + SeqMod - partials[n].startSequence) % SeqMod) + 1
             sequence == [i \in 1 .. expected |-> (partials[n].startSequence + i - 1) % SeqMod]
  <2>2. CASE DOMAIN payloads = {sequence[i] : i \in 1 .. expected}
    <3>1. DTF!push([i \in 1 .. expected |-> payloads[sequence[i]]])
      BY <1>4, <2>2 DEF DTF!finalize
    <3>2. payloads = [s \in DOMAIN old \cup {Number(m)} |-> IF s = Number(m) THEN h[m] ELSE old[s]] OBVIOUS
    <3>3. expected = ((Number(m) + SeqMod - partials[n].startSequence) % SeqMod) + 1 OBVIOUS
    <3>4. h[m][2] = h[m][3] BY <1>4
    <3> HIDE DEF expected, payloads
    <3>5. [i \in 1 .. expected |-> payloads[sequence[i]]] \in FramePayload
      <4> HIDE DEF sequence
      <4>1. sequence = [i \in 1 .. expected |-> (partials[n].startSequence + i - 1) % SeqMod] BY DEF sequence
      <4>2. PICK partial \in Partial : partial = partials[n] /\ PartialMade(L, h, partial) BY <1>3, <1>4
      <4>3. /\ payloads = [s \in DOMAIN partial.payloads \cup {Number(m)} |->
                            IF s = Number(m) THEN h[m] ELSE partial.payloads[s]]
            /\ expected = ((Number(m) + SeqMod - partial.startSequence) % SeqMod) + 1
            /\ sequence = [i \in 1 .. expected |-> (partial.startSequence + i - 1) % SeqMod]
        BY <3>2, <3>3, <4>1, <4>2
      <4>4. DOMAIN payloads = {sequence[i] : i \in 1 .. expected} BY <2>2
      <4>5. PICK all, count, list : all = payloads /\ count = expected /\ list = sequence OBVIOUS
      <4>6. [i \in 1 .. count |-> all[list[i]]] \in FramePayload
        <5>1. Finalized(h, partial, m, all, count, list) BY <3>4, <4>3, <4>4, <4>5 DEF Finalized
        <5> QED BY <4>2, <5>1, FrameFinalized
      <4> QED BY <4>5, <4>6
    <3>6. StreamOK' BY <3>1, <3>5, FramePushed
    <3> QED BY <2>1, <3>6 DEF ProcessedOK
  <2>3. CASE DOMAIN payloads # {sequence[i] : i \in 1 .. expected}
    <3>1. UNCHANGED receiveStream BY <1>4, <2>3 DEF DTF!finalize
    <3>2. StreamOK' BY <3>1 DEF StreamOK
    <3> QED BY <2>1, <3>2 DEF ProcessedOK
  <2> QED BY <2>2, <2>3
<1>5. ASSUME n \in DOMAIN partials, p.marker # "final", UNCHANGED <<order, receiveStream>>,
             partials' = [partials EXCEPT ![n].payloads = payloads]
      PROVE  ProcessedOK(L, h)
  <2>1. partials[n] \in Partial /\ PartialMade(L, h, partials[n]) BY <1>3, <1>5
  <2>2. old \in Received BY <2>1 DEF Partial
  <2>3. PICK D \in SUBSET (0 .. SeqMod - 1) : old \in [D -> Pieces] BY <2>2 DEF Received
  <2>4. p.sequence \in 0 .. SeqMod - 1 /\ p.payload \in Pieces BY DEF FramePacket
  <2>5. payloads \in [D \cup {p.sequence} -> Pieces] BY <2>3, <2>4
  <2>6. payloads \in Received
    <3>1. D \cup {p.sequence} \in SUBSET (0 .. SeqMod - 1) BY <2>4
    <3> HIDE DEF payloads
    <3> QED BY <2>5, <3>1 DEF Received
  <2>7. /\ DOMAIN payloads = DOMAIN old \cup {p.sequence}
        /\ \A s \in DOMAIN payloads :
             \/ s = p.sequence /\ payloads[s] = p.payload
             \/ s \in DOMAIN old /\ payloads[s] = old[s]
    OBVIOUS
  <2>8. PICK new \in Partial : /\ new = [partials[n] EXCEPT !.payloads = payloads]
                               /\ new.startSequence = partials[n].startSequence /\ new.payloads = payloads
    <3> HIDE DEF payloads
    <3>1. PICK s \in 0 .. SeqMod - 1, r \in Received : partials[n] = [startSequence |-> s, payloads |-> r]
      BY <2>1 DEF Partial
    <3>2. [partials[n] EXCEPT !.payloads = payloads] = [startSequence |-> s, payloads |-> payloads] BY <3>1
    <3>3. [startSequence |-> s, payloads |-> payloads] \in Partial BY <2>6 DEF Partial
    <3> QED BY <3>1, <3>2, <3>3
  <2>9. PartialMade(L, h, new)
    <3>1. \E k \in 1 .. L : new.startSequence = Number(k) /\ h[k][2] = 1 BY <2>1, <2>8 DEF PartialMade
    <3>2. ASSUME NEW s \in DOMAIN new.payloads
          PROVE  Made(L, h, s, new.payloads[s]) /\ new.payloads[s][2] # new.payloads[s][3]
      <4>1. CASE s = p.sequence /\ new.payloads[s] = p.payload
        <5>1. Made(L, h, p.sequence, p.payload) BY DEF Made
        <5>2. p.payload[2] # p.payload[3] BY <1>5
        <5> QED BY <4>1, <5>1, <5>2
      <4>2. CASE s \in DOMAIN old /\ new.payloads[s] = old[s]
        <5>1. Made(L, h, s, old[s]) /\ old[s][2] # old[s][3] BY <2>1, <4>2 DEF PartialMade
        <5> QED BY <4>2, <5>1
      <4> QED BY <2>7, <2>8, <4>1, <4>2
    <3> QED BY <3>1, <3>2 DEF PartialMade
  <2>10. /\ DOMAIN partials' = DOMAIN partials
         /\ \A f \in DOMAIN partials : partials'[f] = IF f = n THEN new ELSE partials[f]
         /\ partials' \in [DOMAIN partials -> Partial]
    <3>1. partials \in [DOMAIN partials -> Partial] BY DEF PartialsOK
    <3>2. partials' = [partials EXCEPT ![n] = new] BY <1>5, <2>8
    <3> HIDE DEF n
    <3> QED BY <3>1, <3>2
  <2>11. PartialsOK'
    BY <1>5, <2>10 DEF PartialsOK, DTF!OrderListsPartials
  <2>12. \A f \in DOMAIN partials' : PartialMade(L, h, partials'[f]) BY <2>9, <2>10 DEF PartialsMade
  <2>13. PartialsMade(L, h)' BY <2>12 DEF PartialsMade, PartialMade, Made, Number
  <2>14. StreamOK' BY <1>5 DEF StreamOK
  <2> QED BY <2>11, <2>13, <2>14 DEF ProcessedOK
<1>6. CASE n \in DOMAIN partials
  <2>1. \/ DTF!remove(n) /\ UNCHANGED receiveStream
        \/ p.marker = "final" /\ DTF!remove(n) /\ DTF!finalize(partials[n], payloads, p.sequence)
        \/ /\ p.marker # "final" /\ UNCHANGED <<order, receiveStream>>
           /\ partials' = [partials EXCEPT ![n].payloads = payloads]
    BY <1>6 DEF DTF!pushToPartial
  <2> HIDE DEF payloads
  <2> QED BY <1>2, <1>4, <1>5, <1>6, <2>1
<1> QED BY <1>1, <1>6

-----------------------------------------------------------------------------
LEMMA ReceiveInit == ASSUME DTF!FramesAssumption, NumbersSuffice PROVE DTF!Init => ReceiveInv
<1> SUFFICES ASSUME DTF!Init PROVE ReceiveInv OBVIOUS
<1> USE DEF DTF!Init
<1>1. /\ SeqMod \in Nat \ {0} /\ FirstSeq \in 0 .. SeqMod - 1 /\ BufferSize \in Nat \ {0} /\ MaxFrames \in Nat
  BY FrameParameters
<1>2. PublisherOK BY <1>1, FrameParameters DEF PublisherOK
<1>3. PartialsOK
  <2>1. partials = [f \in {} |-> f] /\ DOMAIN partials = {} /\ order = <<>> OBVIOUS
  <2>2. partials \in [DOMAIN partials -> Partial] BY <2>1
  <2>3. order \in Seq(0 .. FrameMod - 1) /\ Len(order) = 0 /\ DOMAIN order = {} BY <2>1
  <2>4. {order[i] : i \in 1 .. Len(order)} = {} BY <2>3
  <2>5. DTF!OrderListsPartials BY <2>1, <2>3, <2>4 DEF DTF!OrderListsPartials, DTF!IsInjective
  <2> QED BY <2>1, <2>2, <2>3, <2>5 DEF PartialsOK
<1>4. StreamOK
  <2>1. receiveStream = [buf |-> <<>>, ready |-> FALSE, closed |-> FALSE, reader |-> "idle"]
    BY DEF DTF!EmptyStream
  <2>2. <<>> \in Seq(FramePayload) /\ Len(<<>>) = 0 OBVIOUS
  <2>3. receiveStream \in BufferedStream BY <2>1, <2>2 DEF BufferedStream
  <2> QED BY <1>1, <2>1, <2>2, <2>3 DEF StreamOK
<1>5. maxPartials \in 1 .. 2 OBVIOUS
<1>6. \E h \in [1 .. 0 -> Pieces] : History(0, h)
  <2>1. PICK h \in [1 .. 0 -> Pieces] : TRUE
    <3>1. [k \in 1 .. 0 |-> <<0, 0, 0>>] \in [1 .. 0 -> Pieces] BY DEF Pieces
    <3> QED BY <3>1
  <2>2. 0 <= packetizer.pushed * Most
    <3>1. packetizer.pushed = 0 OBVIOUS
    <3>2. 0 * Most = 0 BY MostSuffices
    <3> QED BY <3>1, <3>2
  <2>3. packetizer.sequence = (FirstSeq + 0) % SeqMod
    <3>1. packetizer.sequence = FirstSeq OBVIOUS
    <3>2. FirstSeq % SeqMod = FirstSeq BY <1>1
    <3>3. FirstSeq + 0 = FirstSeq BY <1>1
    <3> QED BY <3>1, <3>2, <3>3
  <2>4. FrameByFrame(0, h) BY DEF FrameByFrame
  <2>5. NetMade(0, h) BY DEF NetMade
  <2>6. PartialsMade(0, h)
    <3>1. DOMAIN partials = {} OBVIOUS
    <3> QED BY <3>1 DEF PartialsMade
  <2> QED BY <2>2, <2>3, <2>4, <2>5, <2>6 DEF History
<1>7. 0 \in 0 .. SeqMod BY <1>1
<1> QED BY <1>2, <1>3, <1>4, <1>5, <1>6, <1>7 DEF ReceiveInv

LEMMA ReceiveStep ==
  ASSUME DTF!FramesAssumption, ReceiveInv, DTF!Receive
  PROVE  ReceiveInv'
<1>1. PICK p \in net : net' = net \ {p} /\ DTF!processPacket(p) BY DEF DTF!Receive
<1>2. packetizer' = packetizer /\ maxPartials' = maxPartials BY DEF DTF!Receive
<1>0. PICK L \in 0 .. SeqMod : \E h \in [1 .. L -> Pieces] : History(L, h) BY DEF ReceiveInv
<1>3. PICK h \in [1 .. L -> Pieces] : History(L, h) BY <1>0
<1>4. PublisherOK /\ PartialsOK /\ StreamOK /\ maxPartials \in 1 .. 2 BY DEF ReceiveInv
<1>5. FrameByFrame(L, h) /\ NetMade(L, h) /\ PartialsMade(L, h) BY <1>3 DEF History
<1>6. PICK m \in 1 .. L : /\ p.sequence = Number(m) /\ p.payload = h[m]
                          /\ h[m] \in Pieces /\ h[m][2] \in 1 .. h[m][3]
                          /\ p.marker = DTF!frameMarker(h[m][2], h[m][3])
  BY <1>3, <1>4, PacketMade
<1>7. p \in FramePacket BY <1>4 DEF PublisherOK
<1>8. PICK f \in Nat, i \in Nat, n \in Nat : h[m] = <<f, i, n>> /\ i \in 1 .. n
  <2>1. PICK f \in Nat, i \in Nat, n \in Nat : h[m] = <<f, i, n>> BY <1>6 DEF Pieces
  <2> QED BY <1>6, <2>1
<1>9. p.marker = DTF!frameMarker(i, n) BY <1>6, <1>8
<1>10. /\ p.marker \in Markers
       /\ p.marker = "single" => n = 1 /\ i = 1
       /\ p.marker = "start" => i = 1 /\ n # 1
       /\ p.marker = "final" => i = n
       /\ p.marker \in Markers \ {"single", "start", "final"} => i # n
  BY <1>8, <1>9, Marked
<1>11. ProcessedOK(L, h)
  <2>1. CASE p.marker = "single"
    <3>1. DTF!frameFromSingle(p) BY <1>1, <2>1 DEF DTF!processPacket
    <3>2. p.payload = <<f, 1, 1>> BY <1>6, <1>8, <1>10, <2>1
    <3> QED BY <1>4, <1>5, <3>1, <3>2, SingleReceived
  <2>2. CASE p.marker = "start"
    <3>1. DTF!beginPartial(p) BY <1>1, <2>2 DEF DTF!processPacket
    <3>2. h[m][2] = 1 /\ h[m][3] # 1 BY <1>8, <1>10, <2>2
    <3> QED BY <1>4, <1>5, <1>6, <1>7, <3>1, <3>2, StartReceived
  <2>3. CASE p.marker \notin {"single", "start"}
    <3>1. DTF!pushToPartial(p) BY <1>1, <2>3 DEF DTF!processPacket
    <3>2. p.marker = "final" => h[m][2] = h[m][3] BY <1>8, <1>10
    <3>3. p.marker # "final" => h[m][2] # h[m][3] BY <1>8, <1>10, <2>3
    <3> QED BY <1>4, <1>5, <1>6, <1>7, <3>1, <3>2, <3>3, OtherReceived
  <2> QED BY <2>1, <2>2, <2>3
<1>12. NetMade(L, h)' BY <1>1, <1>5 DEF NetMade, Made, Number
<1>13. History(L, h)' BY <1>2, <1>3, <1>5, <1>11, <1>12 DEF History, ProcessedOK, FrameByFrame
<1>14. PublisherOK' BY <1>1, <1>2, <1>4 DEF PublisherOK
<1> QED BY <1>2, <1>4, <1>11, <1>13, <1>14 DEF ReceiveInv, ProcessedOK

\* What is pushed is made after what was.
LEMMA PushStep ==
  ASSUME DTF!FramesAssumption, NumbersSuffice, ReceiveInv, NEW n \in Sizes, DTF!TryPush(n)
  PROVE  ReceiveInv'
<1>1. /\ SeqMod \in Nat \ {0} /\ FrameMod \in Nat \ {0} /\ FirstSeq \in 0 .. SeqMod - 1
      /\ MaxFrames \in Nat /\ n \in Nat /\ Most \in Nat /\ n <= Most /\ MaxFrames * Most <= SeqMod
  BY FrameParameters, MostSuffices DEF Suffices
<1>0. PICK L \in 0 .. SeqMod : \E h \in [1 .. L -> Pieces] : History(L, h) BY DEF ReceiveInv
<1>2. PICK h \in [1 .. L -> Pieces] : History(L, h) BY <1>0
<1>3. PublisherOK /\ PartialsOK /\ StreamOK /\ maxPartials \in 1 .. 2 BY DEF ReceiveInv
<1>4. PICK frame0 \in Nat : frame0 = packetizer.pushed + 1 /\ frame0 <= MaxFrames
  <2>1. packetizer.pushed \in 0 .. MaxFrames /\ packetizer.pushed < MaxFrames
    BY <1>3 DEF PublisherOK, DTF!TryPush
  <2>2. packetizer.pushed + 1 \in Nat /\ packetizer.pushed + 1 <= MaxFrames BY <1>1, <2>1
  <2> QED BY <2>2
<1>5. /\ net' = net \cup DTF!packetize(frame0, n)
      /\ packetizer' = [sequence |-> (packetizer.sequence + n) % SeqMod,
                        frameNumber |-> (packetizer.frameNumber + 1) % FrameMod, pushed |-> frame0]
      /\ UNCHANGED <<partials, order, maxPartials, receiveStream>>
  BY <1>4 DEF DTF!TryPush, DTF!depacketizer
<1>6. /\ packetizer.sequence \in 0 .. SeqMod - 1 /\ packetizer.frameNumber \in 0 .. FrameMod - 1
      /\ packetizer.pushed \in Nat
  BY <1>3, <1>1 DEF PublisherOK
<1>7. PICK K \in 0 .. SeqMod : K = L + n /\ K <= frame0 * Most
  <2>1. L <= packetizer.pushed * Most BY <1>2 DEF History
  <2>2. PICK a \in Nat : a = packetizer.pushed * Most BY <1>1, <1>6
  <2>3. frame0 * Most = a + Most BY <1>1, <1>4, <1>6, <2>2
  <2>4. frame0 * Most <= MaxFrames * Most
    <3>1. PICK d \in Nat : MaxFrames = frame0 + d
      <4>1. MaxFrames - frame0 \in Nat /\ MaxFrames = frame0 + (MaxFrames - frame0) BY <1>1, <1>4
      <4> QED BY <4>1
    <3>2. MaxFrames * Most = frame0 * Most + d * Most BY <1>1, <3>1
    <3>3. d * Most \in Nat /\ frame0 * Most \in Nat BY <1>1
    <3> QED BY <3>2, <3>3
  <2>5. PICK b \in Nat, c \in Nat : b = frame0 * Most /\ c = MaxFrames * Most BY <1>1
  <2>6. L + n \in 0 .. SeqMod /\ L + n <= frame0 * Most BY <1>1, <2>1, <2>2, <2>3, <2>4, <2>5
  <2> QED BY <2>6
<1> DEFINE g == [k \in 1 .. K |-> IF k <= L THEN h[k] ELSE <<frame0, k - L, n>>]
<1>8. /\ g \in [1 .. K -> Pieces]
      /\ \A k \in 1 .. L : k \in 1 .. K /\ g[k] = h[k]
      /\ \A j \in 1 .. n : L + j \in 1 .. K /\ g[L + j] = <<frame0, j, n>>
      /\ \A k \in 1 .. K : k \in 1 .. L \/ \E j \in 1 .. n : k = L + j
  <2>1. \A k \in 1 .. K : k <= L => k \in 1 .. L OBVIOUS
  <2>2. \A k \in 1 .. K : ~(k <= L) => k - L \in Nat /\ k - L \in 1 .. n /\ k = L + (k - L) BY <1>1, <1>7
  <2>3. g \in [1 .. K -> Pieces] BY <1>1, <2>1, <2>2 DEF Pieces
  <2>4. \A k \in 1 .. L : k \in 1 .. K /\ g[k] = h[k] BY <1>1, <1>7
  <2>5. ASSUME NEW j \in 1 .. n PROVE L + j \in 1 .. K /\ g[L + j] = <<frame0, j, n>>
    <3>1. L + j \in 1 .. K /\ ~(L + j <= L) /\ (L + j) - L = j BY <1>1, <1>7
    <3> QED BY <3>1
  <2>6. \A k \in 1 .. K : k \in 1 .. L \/ \E j \in 1 .. n : k = L + j BY <2>1, <2>2
  <2> QED BY <2>3, <2>4, <2>5, <2>6
<1> HIDE DEF g
<1>9. FrameByFrame(K, g)
  <2>1. ASSUME NEW k \in 1 .. L
        PROVE  /\ g[k][2] \in 1 .. g[k][3] /\ g[k][2] <= k /\ (k - g[k][2]) + g[k][3] <= K
               /\ \A j \in 1 .. g[k][3] : g[(k - g[k][2]) + j] = <<g[k][1], j, g[k][3]>>
    <3>1. /\ h[k][2] \in 1 .. h[k][3] /\ h[k][2] <= k /\ (k - h[k][2]) + h[k][3] <= L
          /\ \A j \in 1 .. h[k][3] : h[(k - h[k][2]) + j] = <<h[k][1], j, h[k][3]>>
      BY <1>2 DEF History, FrameByFrame
    <3>2. g[k] = h[k] BY <1>8
    <3>3. h[k] \in Pieces OBVIOUS
    <3>4. h[k][2] \in Nat /\ h[k][3] \in Nat BY <3>3 DEF Pieces
    <3>5. \A j \in 1 .. h[k][3] : (k - h[k][2]) + j \in 1 .. L BY <3>1, <3>4
    <3>6. \A j \in 1 .. h[k][3] : g[(k - h[k][2]) + j] = <<h[k][1], j, h[k][3]>> BY <1>8, <3>1, <3>5
    <3>7. (k - h[k][2]) + h[k][3] <= K
      <4>1. L \in Nat /\ K \in Nat /\ L <= K BY <1>1, <1>7
      <4> QED BY <3>1, <3>4, <4>1
    <3> QED BY <3>1, <3>2, <3>6, <3>7
  <2>2. ASSUME NEW i \in 1 .. n, NEW k \in 1 .. K, k = L + i
        PROVE  /\ g[k][2] \in 1 .. g[k][3] /\ g[k][2] <= k /\ (k - g[k][2]) + g[k][3] <= K
               /\ \A j \in 1 .. g[k][3] : g[(k - g[k][2]) + j] = <<g[k][1], j, g[k][3]>>
    <3>1. g[k] = <<frame0, i, n>> BY <1>8, <2>2
    <3>2. g[k][1] = frame0 /\ g[k][2] = i /\ g[k][3] = n BY <3>1
    <3>3. k - i = L /\ L + n <= K /\ i <= k BY <1>1, <1>7, <2>2
    <3>4. \A j \in 1 .. n : g[L + j] = <<frame0, j, n>> BY <1>8
    <3> QED BY <3>2, <3>3, <3>4
  <2> QED BY <1>8, <2>1, <2>2 DEF FrameByFrame
<1>10. \A s, c : Made(L, h, s, c) => Made(K, g, s, c) BY <1>8 DEF Made
<1>11. packetizer.sequence = Number(L + 1)
  <2>1. packetizer.sequence = (FirstSeq + L) % SeqMod BY <1>2 DEF History
  <2>2. (L + 1) - 1 = L BY <1>1
  <2> QED BY <2>1, <2>2 DEF Number
<1>12. ASSUME NEW i \in Nat PROVE (packetizer.sequence + i) % SeqMod = Number((L + 1) + i)
  <2>1. L + 1 \in Nat \ {0} BY <1>1
  <2> QED BY <1>11, <2>1, NumberAgain
<1>13. packetizer'.sequence = (FirstSeq + K) % SeqMod
  <2>1. packetizer'.sequence = (packetizer.sequence + n) % SeqMod BY <1>5
  <2>2. (packetizer.sequence + n) % SeqMod = Number((L + 1) + n) BY <1>1, <1>12
  <2>3. ((L + 1) + n) - 1 = K BY <1>1, <1>7
  <2> QED BY <2>1, <2>2, <2>3 DEF Number
<1>14. ASSUME NEW p \in DTF!packetize(frame0, n)
       PROVE  /\ p \in FramePacket /\ p.marker = DTF!frameMarker(p.payload[2], p.payload[3])
              /\ Made(K, g, p.sequence, p.payload)
  <2>1. PICK i \in 1 .. n :
          p = [frameNumber |-> packetizer.frameNumber, sequence |-> (packetizer.sequence + i - 1) % SeqMod,
               marker |-> DTF!frameMarker(i, n), payload |-> DTF!Chunks(frame0, n)[i]]
    BY DEF DTF!packetize
  <2>2. DTF!Chunks(frame0, n)[i] = <<frame0, i, n>> BY DEF DTF!Chunks
  <2>3. PICK j \in Nat : j = i - 1 BY <1>1
  <2>4. packetizer.sequence + i - 1 = packetizer.sequence + j /\ (L + 1) + j = L + i
    BY <1>1, <1>6, <2>3
  <2>5. p.sequence = Number(L + i) BY <1>12, <2>1, <2>3, <2>4
  <2>6. L + i \in 1 .. K /\ g[L + i] = <<frame0, i, n>> BY <1>8
  <2>7. Made(K, g, p.sequence, p.payload) BY <2>1, <2>2, <2>5, <2>6 DEF Made
  <2>8. p.sequence \in 0 .. SeqMod - 1
    <3>1. L + i \in Nat \ {0} BY <1>1
    <3> QED BY <2>5, <3>1, NumberTyped
  <2>9. DTF!frameMarker(i, n) \in Markers
    <3>1. PICK mark : mark = DTF!frameMarker(i, n) OBVIOUS
    <3>2. i \in Nat BY <1>1
    <3>3. mark \in Markers BY <1>1, <3>1, <3>2, Marked
    <3> QED BY <3>1, <3>3
  <2>10. <<frame0, i, n>> \in Pieces BY <1>1 DEF Pieces
  <2>11. p \in FramePacket BY <1>6, <2>1, <2>2, <2>8, <2>9, <2>10 DEF FramePacket
  <2>12. p.marker = DTF!frameMarker(p.payload[2], p.payload[3]) BY <2>1, <2>2
  <2> QED BY <2>7, <2>11, <2>12
<1>15. NetMade(K, g)'
  <2>1. ASSUME NEW p \in net'
        PROVE  p.marker = DTF!frameMarker(p.payload[2], p.payload[3]) /\ Made(K, g, p.sequence, p.payload)
    <3>1. CASE p \in net
      <4>1. p.marker = DTF!frameMarker(p.payload[2], p.payload[3]) /\ Made(L, h, p.sequence, p.payload)
        BY <1>2, <3>1 DEF History, NetMade
      <4> QED BY <1>10, <4>1
    <3>2. CASE p \in DTF!packetize(frame0, n) BY <1>14, <3>2
    <3> QED BY <1>5, <3>1, <3>2
  <2> QED BY <2>1 DEF NetMade, Made, Number, DTF!frameMarker
<1>16. PartialsMade(K, g)'
  <2>1. ASSUME NEW f \in DOMAIN partials PROVE PartialMade(K, g, partials[f])
    <3>1. PartialMade(L, h, partials[f]) BY <1>2 DEF History, PartialsMade
    <3>2. PICK k \in 1 .. L : partials[f].startSequence = Number(k) /\ h[k][2] = 1 BY <3>1 DEF PartialMade
    <3>3. k \in 1 .. K /\ g[k][2] = 1 BY <1>8, <3>2
    <3>4. \A s \in DOMAIN partials[f].payloads :
            /\ Made(K, g, s, partials[f].payloads[s])
            /\ partials[f].payloads[s][2] # partials[f].payloads[s][3]
      BY <1>10, <3>1 DEF PartialMade
    <3> QED BY <3>2, <3>3, <3>4 DEF PartialMade
  <2>2. PartialsMade(K, g) BY <2>1 DEF PartialsMade
  <2> QED BY <1>5, <2>2 DEF PartialsMade, PartialMade, Made, Number
<1>17. History(K, g)'
  <2>1. packetizer'.pushed = frame0 BY <1>5
  <2>2. K <= packetizer'.pushed * Most BY <1>7, <2>1
  <2>3. FrameByFrame(K, g)' BY <1>9 DEF FrameByFrame
  <2> QED BY <1>13, <1>15, <1>16, <2>2, <2>3 DEF History, Most, Suffices
<1>18. PublisherOK'
  <2>1. (packetizer.sequence + n) % SeqMod \in 0 .. SeqMod - 1
    <3>1. packetizer.sequence + n \in Nat BY <1>1, <1>6
    <3> QED BY <1>1, <3>1
  <2>2. (packetizer.frameNumber + 1) % FrameMod \in 0 .. FrameMod - 1
    <3>1. packetizer.frameNumber + 1 \in Nat BY <1>1, <1>6
    <3> QED BY <1>1, <3>1
  <2>3. frame0 \in 0 .. MaxFrames BY <1>1, <1>4
  <2>4. packetizer' \in [sequence : 0 .. SeqMod - 1, frameNumber : 0 .. FrameMod - 1, pushed : 0 .. MaxFrames]
    BY <1>5, <2>1, <2>2, <2>3
  <2>5. net' \subseteq FramePacket BY <1>3, <1>5, <1>14 DEF PublisherOK
  <2> QED BY <2>4, <2>5 DEF PublisherOK
<1>19. PartialsOK' /\ StreamOK' /\ maxPartials' \in 1 .. 2
  BY <1>3, <1>5 DEF PartialsOK, StreamOK, DTF!OrderListsPartials
<1> QED BY <1>8, <1>17, <1>18, <1>19 DEF ReceiveInv

\* The steps of the application, and of nobody.
LEMMA ReaderStep ==
  ASSUME ReceiveInv, UNCHANGED <<packetizer, net, partials, order>>, maxPartials' \in 1 .. 2,
         \/ UNCHANGED receiveStream
         \/ receiveStream' = [receiveStream EXCEPT !.closed = TRUE]
         \/ DTF!StreamNext
  PROVE  ReceiveInv'
<1>1. PublisherOK' /\ PartialsOK'
  BY DEF ReceiveInv, PublisherOK, PartialsOK, DTF!OrderListsPartials
<1>2. ASSUME NEW L \in 0 .. SeqMod, NEW h \in [1 .. L -> Pieces], History(L, h) PROVE History(L, h)'
  BY <1>2 DEF History, FrameByFrame, NetMade, PartialsMade, PartialMade, Made, Number
<1>3. StreamOK'
  <2> DEFINE b == receiveStream.buf
  <2>1. /\ receiveStream \in BufferedStream /\ b \in Seq(FramePayload) /\ Len(b) \in Nat
        /\ Len(b) <= BufferSize
        /\ receiveStream.reader \in {"looked", "waiting"} /\ b # <<>> => receiveStream.ready
    BY LenProperties DEF ReceiveInv, StreamOK, BufferedStream
  <2>2. CASE UNCHANGED receiveStream BY <2>2 DEF ReceiveInv, StreamOK
  <2>3. CASE receiveStream' = [receiveStream EXCEPT !.closed = TRUE]
    <3>1. receiveStream' \in BufferedStream BY <2>1, <2>3 DEF BufferedStream
    <3>2. UNCHANGED <<receiveStream.buf, receiveStream.ready, receiveStream.reader>>
      BY <2>1, <2>3 DEF BufferedStream
    <3> QED BY <2>1, <3>1, <3>2 DEF StreamOK
  <2>4. ASSUME b # <<>>, receiveStream' = [receiveStream EXCEPT !.reader = "idle", !.buf = Tail(b)]
        PROVE  StreamOK'
    <3>1. Tail(b) \in Seq(FramePayload) /\ Len(Tail(b)) = Len(b) - 1 BY <2>1, <2>4, HeadTailProperties
    <3>2. Len(Tail(b)) <= Len(b) BY <2>1, <3>1
    <3>3. /\ receiveStream'.buf = Tail(b) /\ receiveStream'.reader = "idle" BY <2>1, <2>4 DEF BufferedStream
    <3>4. receiveStream' \in BufferedStream BY <2>1, <2>4, <3>1 DEF BufferedStream
    <3>5. Len(Tail(b)) <= BufferSize
      <4>1. PICK t \in Seq(FramePayload) : t = Tail(b) BY <3>1
      <4>2. Len(t) = Len(b) - 1 BY <3>1, <4>1
      <4>3. Len(t) + 1 = Len(b) BY <2>1, <4>2
      <4> QED BY <2>1, <3>2, <4>1, <4>3, Bounds, FrameParameters
    <3> QED BY <3>3, <3>4, <3>5 DEF StreamOK
  <2>5. ASSUME NEW place \in {"looked", "waiting", "ended", "idle"}, NEW ready \in BOOLEAN,
               receiveStream' = [receiveStream EXCEPT !.reader = place, !.ready = ready],
               place \in {"looked", "waiting"} => (b # <<>> => ready)
        PROVE  StreamOK'
    <3>1. /\ receiveStream'.buf = b /\ receiveStream'.reader = place /\ receiveStream'.ready = ready
          /\ receiveStream' \in BufferedStream
      BY <2>1, <2>5 DEF BufferedStream
    <3> QED BY <2>1, <2>5, <3>1 DEF StreamOK
  <2>6. CASE DTF!StreamNext
    <3>1. receiveStream.ready \in BOOLEAN /\ receiveStream = [receiveStream EXCEPT !.ready = receiveStream.ready]
      BY <2>1 DEF BufferedStream
    <3>2. \A place : [receiveStream EXCEPT !.reader = place]
                       = [receiveStream EXCEPT !.reader = place, !.ready = receiveStream.ready]
      BY <2>1 DEF BufferedStream
    <3>3. CASE DTF!Take BY <2>4, <3>3 DEF DTF!Take
    <3>4. CASE DTF!Look BY <2>5, <3>1, <3>2, <3>4 DEF DTF!Look
    <3>5. CASE DTF!EOF BY <2>5, <3>1, <3>2, <3>5 DEF DTF!EOF
    <3>6. CASE receiveStream.reader = "looked" /\ receiveStream' = [receiveStream EXCEPT !.reader = "waiting"]
      BY <2>1, <2>5, <3>1, <3>2, <3>6
    <3>7. CASE DTF!Wake BY <2>5, <3>7 DEF DTF!Wake
    <3> QED BY <2>6, <3>3, <3>4, <3>5, <3>6, <3>7 DEF DTF!StreamNext
  <2> QED BY <2>2, <2>3, <2>6
<1> QED BY <1>1, <1>2, <1>3 DEF ReceiveInv

LEMMA ReceiveNext ==
  ASSUME DTF!FramesAssumption, NumbersSuffice, ReceiveInv, [Next]_vars
  PROVE  ReceiveInv'
<1>1. [DTF!Next]_(DTF!vars) BY DEF Next, vars, receiveVars, DTF!vars
<1>2. maxPartials \in 1 .. 2 BY DEF ReceiveInv
<1>3. ASSUME NEW n \in Sizes, DTF!TryPush(n) PROVE ReceiveInv' BY <1>3, PushStep
<1>4. CASE DTF!Receive BY <1>4, ReceiveStep
<1>5. CASE DTF!SetPipelineOptions
  BY <1>5, ReaderStep DEF DTF!SetPipelineOptions, DTF!depacketizer
<1>6. CASE DTF!StreamNext BY <1>2, <1>6, ReaderStep DEF DTF!StreamNext, DTF!depacketizer
<1>7. CASE DTF!Close BY <1>2, <1>7, ReaderStep DEF DTF!Close, DTF!depacketizer
<1>8. CASE UNCHANGED DTF!vars BY <1>2, <1>8, ReaderStep DEF DTF!vars
<1> QED BY <1>1, <1>3, <1>4, <1>5, <1>6, <1>7, <1>8 DEF DTF!Next

LEMMA ReceiveShown ==
  ASSUME DTF!FramesAssumption, ReceiveInv
  PROVE  DTF!TypeOK /\ DTF!FramesIntact /\ DTF!OrderListsPartials /\ DTF!ReaderWoken
<1>1. PublisherOK /\ PartialsOK /\ StreamOK /\ maxPartials \in 1 .. 2 BY DEF ReceiveInv
<1>2. DTF!OrderListsPartials BY <1>1 DEF PartialsOK
<1>3. DTF!ReaderWoken BY <1>1 DEF StreamOK, DTF!ReaderWoken
<1>4. DTF!FramesIntact
  <2> DEFINE b == receiveStream.buf
  <2>1. b \in Seq(FramePayload) BY <1>1 DEF StreamOK, BufferedStream
  <2>2. ASSUME NEW i \in 1 .. Len(b) PROVE b[i] = DTF!Chunks(b[i][1][1], b[i][1][3])
    <3>1. b[i] \in FramePayload BY <2>1, ElementOfSeq
    <3>2. PICK f \in Nat, n \in Nat \ {0} : b[i] = DTF!Chunks(f, n) BY <3>1 DEF FramePayload
    <3>3. DTF!Chunks(f, n)[1] = <<f, 1, n>> BY ChunksAre
    <3>4. b[i][1][1] = f /\ b[i][1][3] = n BY <3>2, <3>3
    <3> QED BY <3>2, <3>4
  <2> QED BY <2>2 DEF DTF!FramesIntact
<1>5. DTF!TypeOK
  <2>1. \A f \in DOMAIN partials : DOMAIN partials[f].payloads \subseteq 0 .. SeqMod - 1
    BY <1>1 DEF PartialsOK, Partial, Received
  <2>2. /\ {receiveStream.ready, receiveStream.closed} \subseteq BOOLEAN
        /\ receiveStream.reader \in {"idle", "looked", "waiting", "ended"}
        /\ Len(receiveStream.buf) <= BufferSize
    BY <1>1 DEF StreamOK, BufferedStream
  <2>3. /\ packetizer \in [sequence : 0 .. SeqMod - 1, frameNumber : 0 .. FrameMod - 1, pushed : 0 .. MaxFrames]
        /\ DOMAIN partials \subseteq 0 .. FrameMod - 1 /\ maxPartials \in 1 .. 2
    BY <1>1 DEF PublisherOK, PartialsOK
  <2> QED BY <2>1, <2>2, <2>3 DEF DTF!TypeOK
<1> QED BY <1>2, <1>3, <1>4, <1>5

-----------------------------------------------------------------------------
\* While the packets of the behaviour do not use a sequence number twice, a frame the application
\* gets is one that was pushed, whole and with its own chunks; no reader sleeps beside one, a frame
\* kept for the channel is sent without a further push, and each channel carries whole frames.
THEOREM FramesAlwaysKept == ASSUME NumbersSuffice PROVE Spec => []FramesKept
<1> USE Bounds
<1>1. Init => ReceiveInv BY ReceiveInit DEF Init
<1>2. ReceiveInv /\ [Next]_vars => ReceiveInv' BY ReceiveNext
<1>3. Init => WakeInv /\ Sending /\ FrameInv BY WakeInit, FrameInit DEF Init
<1>4. WakeInv /\ Sending /\ FrameInv /\ [Next]_vars => (WakeInv /\ Sending /\ FrameInv)'
  BY WakeStep, FrameStep, SenderRun
<1>5. ReceiveInv /\ WakeInv /\ Sending /\ FrameInv => FramesKept
  <2>1. ReceiveInv => DTF!TypeOK /\ DTF!FramesIntact /\ DTF!OrderListsPartials /\ DTF!ReaderWoken
    BY ReceiveShown
  <2>2. WakeInv => DTS!TypeOK /\ DTS!WakeNotLost BY SenderTypeOK DEF WakeInv
  <2>3. FrameInv => DTS!FramesWhole BY DEF FrameInv
  <2> QED BY <2>1, <2>2, <2>3 DEF FramesKept
<1> QED BY <1>1, <1>2, <1>3, <1>4, <1>5, PTL DEF Spec

-----------------------------------------------------------------------------
(* Data streams.                                                           *)

StreamChunks == [type : {"chunk"}, task : 1 .. MaxWrites, chunk : 1 .. TaskChunks]
Header == [type |-> "header"]
OnStream == StreamChunks \cup {DS!Trailer}
Sent == streamChannel.sent
ToRoom == streamChannel.toRoom
AllArrived == streamChannel.lost = 0
Busy == {"taken", "waiting", "onDone"}
WithinOnce == {"lock", "break"}
Works(places) == streamWorker.at \in places
\* The number of the last chunk the worker sent of its task.
ChunksDone == TaskChunks - streamWorker.left

StreamTyped ==
  /\ DS!TypeOK /\ writes \in 0 .. MaxWrites /\ finished \subseteq 1 .. MaxWrites
  /\ streamWorker \in [at : {"select", "taken", "waiting", "onDone", "closing", "ended"},
                       task : 0 .. MaxWrites, left : 0 .. TaskChunks]
  /\ streamChannel \in [sent : Seq(OnStream), toRoom : Seq(OnStream \cup {Header}), dead : BOOLEAN,
                        lost : Nat]
  /\ room \in [at : {"up", "handlers", "closing", "cleared"}, reading : {"idle", "header"},
               raced : BOOLEAN]
  /\ reader \in [listed : BOOLEAN, buf : Seq(StreamChunks), closed : BOOLEAN, broadcast : BOOLEAN,
                 app : {"none", "reading", "waiting", "ended"}]

\* A task is in one place: offered, the worker's, or done.
TasksPlaced ==
  /\ \A c \in Callers : offer[c] # 0 =>
       /\ offer[c] <= writes /\ offer[c] \notin finished
       /\ Works(Busy) => offer[c] # streamWorker.task
       /\ \A d \in Callers : offer[d] = offer[c] => c = d
  /\ streamWorker.task <= writes /\ \A t \in finished : t <= writes
  /\ Works(Busy) => streamWorker.task # 0 /\ streamWorker.task \notin finished
  /\ Works({"closing"}) => streamWorker.task \in finished

WorkerPlaced ==
  /\ streamLock = "worker" <=> Works({"waiting"})
  /\ Works({"taken"}) => streamWorker.left = TaskChunks
  /\ Works({"waiting"}) => streamWorker.left # 0
  /\ closer["worker"] \in {"once", "lock", "break"} => Works({"closing"})
  /\ Works({"closing"}) => closer["worker"] # "idle"

\* One closer at most is within the fuse's Once.
FuseHeld ==
  /\ streamOnce = "new" => ~broken /\ \A c \in DS!Closers : closer[c] \in {"idle", "once"}
  /\ streamOnce = "running" => \E c \in DS!Closers : closer[c] \in WithinOnce
  /\ streamOnce = "done" => broken /\ \A c \in DS!Closers : closer[c] \notin WithinOnce
  /\ \A c, d \in DS!Closers : closer[c] \in WithinOnce /\ closer[d] \in WithinOnce => c = d
  /\ engine = "up" <=> closer["engine"] = "idle"
  /\ engine = "closed" => streamChannel.dead

\* There is one trailer, and the worker does not send it in the midst of a task.
TrailerPlaced ==
  /\ streamOnce = "new" \/ (\E c \in DS!Closers : closer[c] = "lock") =>
       \A i \in DOMAIN Sent : Sent[i] # DS!Trailer
  /\ \A i, j \in DOMAIN Sent : Sent[i] = DS!Trailer /\ Sent[j] = DS!Trailer => i = j
  /\ Works({"waiting"}) /\ ChunksDone # 0 => Sent # <<>> /\ Sent[Len(Sent)] # DS!Trailer
  /\ \A i \in DOMAIN Sent : Sent[i] = DS!Trailer /\ i + 1 \in DOMAIN Sent => Sent[i + 1].chunk = 1

\* What was sent is of a task that is done, or of the worker's; no chunk was sent twice.
PiecesPlaced ==
  /\ \A i \in DOMAIN Sent : Sent[i] # DS!Trailer =>
       \/ Sent[i].task \in finished
       \/ Works({"waiting", "onDone"}) /\ Sent[i].task = streamWorker.task
  /\ Works({"waiting"}) => \A i \in DOMAIN Sent :
       Sent[i] # DS!Trailer /\ Sent[i].task = streamWorker.task => Sent[i].chunk <= ChunksDone
  /\ \A i, j \in DOMAIN Sent : Sent[i] = Sent[j] => i = j

\* Until the fuse breaks no chunk is left out.
Written(t, n) == \A k \in 1 .. n : \E i \in DOMAIN Sent : Sent[i] = DS!Chunk(t, k)
WrittenUnbroken ==
  ~broken =>
    /\ \A t \in finished : Written(t, TaskChunks)
    /\ Works({"waiting", "onDone"}) => Written(streamWorker.task, ChunksDone)
    /\ Works({"onDone"}) => streamWorker.left = 0

\* The stream closed by nobody but a task's onDone.
Undisturbed == closer["app"] = "idle" /\ closer["engine"] = "idle"
SentInOrder ==
  /\ \A i \in DOMAIN Sent :
       /\ Sent[i] = DS!Trailer => i = Len(Sent)
       /\ Sent[i] # DS!Trailer /\ Sent[i].chunk # TaskChunks =>
            \/ i + 1 \in DOMAIN Sent /\ Sent[i + 1] = DS!Chunk(Sent[i].task, Sent[i].chunk + 1)
            \/ i = Len(Sent) /\ Works({"waiting"}) /\ Sent[i] = DS!Chunk(streamWorker.task, ChunksDone)
       /\ Sent[i] # DS!Trailer /\ Sent[i].chunk = TaskChunks /\ i + 1 \in DOMAIN Sent =>
            Sent[i + 1] = DS!Trailer \/ Sent[i + 1].chunk = 1
  /\ Sent # <<>> => Sent[1] # DS!Trailer /\ Sent[1].chunk = 1
  /\ Works({"waiting"}) /\ ChunksDone # 0 => Sent # <<>> /\ Sent[Len(Sent)] = DS!Chunk(streamWorker.task, ChunksDone)
  /\ streamOnce # "new" =>
       /\ ~Works({"waiting"}) /\ Sent # <<>>
       /\ \A i \in DOMAIN Sent : Sent[i] # DS!Trailer => Sent[i].task \in finished
InOrder == Undisturbed => SentInOrder

\* The header comes first and once; who reads the stream is listed until it is closed.
ReaderPlaced ==
  /\ reader.app = "none" =>
       /\ ~reader.listed /\ ~reader.closed /\ ~reader.broadcast /\ reader.buf = <<>>
  /\ room.reading = "header" => reader.app = "none"
  /\ \A k \in DOMAIN ToRoom :
       ToRoom[k] = Header => k = 1 /\ room.reading = "idle" /\ reader.app = "none"
  /\ room.reading = "header" /\ room.at # "up" => room.raced
  /\ reader.app # "none" /\ ~reader.closed /\ room.at # "cleared" => reader.listed
  /\ room.at \in {"closing", "cleared"} /\ ~room.raced /\ reader.app # "none" => reader.closed
  /\ reader.closed => reader.app # "waiting" \/ reader.broadcast
  /\ reader.app = "ended" => reader.closed

\* The messages before what is yet to be received.
ReceivedCount == IF reader.app = "none" /\ room.reading = "idle" THEN 0 ELSE Len(reader.buf) + 1
\* Unless a message was lost, what the reader has is what was sent before what is on its way, to the
\* trailer.
Delivered ==
  room.at = "up" /\ AllArrived =>
    /\ ReceivedCount = 0 => ToRoom # <<>> /\ ToRoom[1] = Header
    /\ \A k \in DOMAIN reader.buf : k \in DOMAIN Sent /\ Sent[k] = reader.buf[k]
    /\ reader.closed => ReceivedCount \in DOMAIN Sent /\ Sent[ReceivedCount] = DS!Trailer
    /\ ~reader.closed =>
         /\ \A k \in DOMAIN ToRoom : ToRoom[k] # Header =>
              /\ k + ReceivedCount # 1 /\ k + ReceivedCount - 1 \in DOMAIN Sent
              /\ Sent[k + ReceivedCount - 1] = ToRoom[k]
         /\ Len(ToRoom) + ReceivedCount = Len(Sent) + 1

\* Message x was sent before message y.
Before(s, x, y) == \E i, j \in DOMAIN s : i < j /\ s[i] = x /\ s[j] = y
IsIn(s, x) == \E i \in DOMAIN s : s[i] = x
\* Whatever was lost, messages b that were read and messages q on their way are among those sent,
\* and in their order.
OrderedOf(s, q, b) ==
  /\ \A i \in DOMAIN b : IsIn(s, b[i])
  /\ \A k \in DOMAIN q : q[k] # Header => IsIn(s, q[k])
  /\ \A i, j \in DOMAIN b : i < j => Before(s, b[i], b[j])
  /\ \A i \in DOMAIN b, k \in DOMAIN q : q[k] # Header => Before(s, b[i], q[k])
  /\ \A k, l \in DOMAIN q : k < l /\ q[k] # Header /\ q[l] # Header => Before(s, q[k], q[l])
Ordered == OrderedOf(Sent, ToRoom, reader.buf)

StreamInv ==
  /\ StreamTyped /\ TasksPlaced /\ WorkerPlaced /\ FuseHeld /\ TrailerPlaced /\ PiecesPlaced
  /\ WrittenUnbroken /\ InOrder /\ ReaderPlaced /\ Delivered /\ Ordered

\* What is not a trailer is a chunk.
LEMMA StreamMessages ==
  /\ \A m \in OnStream : m # DS!Trailer => m \in StreamChunks
  /\ \A m \in StreamChunks : m # DS!Trailer /\ m # Header /\ m.type = "chunk"
  /\ DS!Trailer # Header /\ DS!Trailer.type = "trailer" /\ Header.type = "header"
<1>1. \A m \in OnStream : m # DS!Trailer => m \in StreamChunks BY DEF OnStream
<1>2. \A m \in StreamChunks : m.type = "chunk" BY DEF StreamChunks
<1>3. DS!Trailer.type = "trailer" BY DEF DS!Trailer
<1>4. Header.type = "header" BY DEF Header
<1> QED BY <1>1, <1>2, <1>3, <1>4

LEMMA ChunkFacts ==
  ASSUME NEW t, NEW k
  PROVE  /\ DS!Chunk(t, k).task = t /\ DS!Chunk(t, k).chunk = k
         /\ t \in 1 .. MaxWrites /\ k \in 1 .. TaskChunks => DS!Chunk(t, k) \in StreamChunks
BY DEF DS!Chunk, StreamChunks

LEMMA PieceIs == \A m \in StreamChunks : m = DS!Chunk(m.task, m.chunk)
BY DEF DS!Chunk, StreamChunks

LEMMA AppendedTo ==
  ASSUME NEW S, NEW s \in Seq(S), NEW m \in S
  PROVE  /\ Append(s, m) \in Seq(S) /\ Append(s, m) # <<>>
         /\ Len(s) \in Nat /\ Len(Append(s, m)) = Len(s) + 1
         /\ DOMAIN s = 1 .. Len(s) /\ DOMAIN Append(s, m) = 1 .. Len(s) + 1
         /\ \A i \in DOMAIN s : Append(s, m)[i] = s[i]
         /\ Append(s, m)[Len(s) + 1] = m
<1>1. Append(s, m) \in Seq(S) /\ Len(Append(s, m)) = Len(s) + 1
      /\ \A i \in 1 .. Len(s) : Append(s, m)[i] = s[i]
  BY AppendProperties
<1>2. Append(s, m)[Len(s) + 1] = m BY AppendProperties
<1>3. Len(s) \in Nat /\ DOMAIN s = 1 .. Len(s) BY LenProperties
<1>4. DOMAIN Append(s, m) = 1 .. Len(s) + 1 BY <1>1, LenProperties
<1> QED BY <1>1, <1>2, <1>3, <1>4, EmptySeq

LEMMA TailOf ==
  ASSUME NEW S, NEW s \in Seq(S), s # <<>>
  PROVE  /\ Tail(s) \in Seq(S) /\ Head(s) = s[1] /\ s[1] \in S
         /\ Len(s) \in Nat /\ Len(Tail(s)) = Len(s) - 1 /\ Len(s) # 0
         /\ DOMAIN s = 1 .. Len(s) /\ DOMAIN Tail(s) = 1 .. Len(s) - 1
         /\ \A i \in DOMAIN Tail(s) : i + 1 \in DOMAIN s /\ Tail(s)[i] = s[i + 1]
<1>1. Tail(s) \in Seq(S) /\ Len(Tail(s)) = Len(s) - 1
      /\ \A i \in 1 .. Len(Tail(s)) : Tail(s)[i] = s[i + 1]
  BY HeadTailProperties
<1>2. Len(s) \in Nat /\ DOMAIN s = 1 .. Len(s) BY LenProperties
<1>3. Len(s) # 0 BY EmptySeq
<1>4. DOMAIN Tail(s) = 1 .. Len(s) - 1 BY <1>1, LenProperties
<1>5. Head(s) = s[1] BY HeadTailProperties
<1>6. s[1] \in S BY <1>2, <1>3, ElementOfSeq
<1> QED BY <1>1, <1>2, <1>3, <1>4, <1>5, <1>6

WorkerKind == [at : {"select", "taken", "waiting", "onDone", "closing", "ended"},
               task : 0 .. MaxWrites, left : 0 .. TaskChunks]
ChannelKind == [sent : Seq(OnStream), toRoom : Seq(OnStream \cup {Header}), dead : BOOLEAN,
                        lost : Nat]
RoomKind == [at : {"up", "handlers", "closing", "cleared"}, reading : {"idle", "header"},
             raced : BOOLEAN]
ReaderKind == [listed : BOOLEAN, buf : Seq(StreamChunks), closed : BOOLEAN, broadcast : BOOLEAN,
               app : {"none", "reading", "waiting", "ended"}]

\* The worker goes on with n chunks left.
Goes(n) ==
  /\ streamWorker' \in WorkerKind /\ streamWorker'.left = n
  /\ streamWorker'.task = streamWorker.task
  /\ n # 0 /\ ~broken => streamWorker'.at = "waiting" /\ streamLock' = "worker"
  /\ n = 0 \/ broken => streamWorker'.at = "onDone" /\ streamLock' = "free"
Publishes(m) ==
  /\ streamChannel' \in ChannelKind /\ streamChannel'.dead = streamChannel.dead
  /\ Sent' = Append(Sent, m)
  /\ \/ ToRoom' = ToRoom /\ ~AllArrived'
     \/ ToRoom' = Append(ToRoom, m) /\ (AllArrived' <=> AllArrived)
Places(at) == streamWorker' \in WorkerKind /\ streamWorker'.at = at
              /\ streamWorker'.task = streamWorker.task /\ streamWorker'.left = streamWorker.left

LEMMA StreamKinds == StreamTyped =>
  /\ streamWorker \in WorkerKind /\ streamChannel \in ChannelKind /\ room \in RoomKind
  /\ reader \in ReaderKind /\ TaskChunks \in Nat /\ TaskChunks # 0 /\ MaxWrites \in Nat
  /\ Sent \in Seq(OnStream) /\ ToRoom \in Seq(OnStream \cup {Header})
BY Bounds DEF StreamTyped, WorkerKind, ChannelKind, RoomKind, ReaderKind, Sent, ToRoom,
   DS!StreamsAssumption

LEMMA GotoGoes ==
  ASSUME StreamTyped, NEW n \in 0 .. TaskChunks, DS!Goto(n)
  PROVE  Goes(n)
<1>1. streamWorker \in WorkerKind /\ TaskChunks \in Nat BY StreamKinds
<1>2. CASE n # 0 /\ ~broken
  <2>1. streamWorker' = [streamWorker EXCEPT !.at = "waiting", !.left = n] /\ streamLock' = "worker"
    BY <1>1, <1>2 DEF DS!Goto
  <2> QED BY <1>1, <1>2, <2>1 DEF Goes, WorkerKind
<1>3. CASE n = 0 \/ broken
  <2>1. streamWorker' = [streamWorker EXCEPT !.at = "onDone", !.left = n] /\ streamLock' = "free"
    BY <1>1, <1>3 DEF DS!Goto, DS!Free
  <2> QED BY <1>1, <1>3, <2>1 DEF Goes, WorkerKind
<1> QED BY <1>2, <1>3

LEMMA PublishPublishes ==
  ASSUME StreamTyped, NEW m \in OnStream, DS!Publish(m)
  PROVE  Publishes(m)
<1>1. streamChannel \in ChannelKind BY StreamKinds
<1>8. streamChannel.lost \in Nat BY <1>1 DEF ChannelKind
<1>3. Append(streamChannel.sent, m) \in Seq(OnStream)
  BY <1>1, AppendedTo DEF ChannelKind
<1>4. m \in OnStream \cup {Header} OBVIOUS
<1>5. Append(streamChannel.toRoom, m) \in Seq(OnStream \cup {Header})
  BY <1>1, <1>4, AppendedTo DEF ChannelKind
<1>6. CASE streamChannel' = [streamChannel EXCEPT !.sent = Append(@, m), !.toRoom = Append(@, m)]
  <2>2. /\ streamChannel' \in ChannelKind /\ streamChannel'.sent = Append(streamChannel.sent, m)
        /\ streamChannel'.toRoom = Append(streamChannel.toRoom, m)
        /\ streamChannel'.lost = streamChannel.lost /\ streamChannel'.dead = streamChannel.dead
    BY <1>1, <1>3, <1>5, <1>6 DEF ChannelKind
  <2> QED BY <2>2 DEF Publishes, Sent, ToRoom, AllArrived
<1>7. CASE streamChannel' = [streamChannel EXCEPT !.sent = Append(@, m), !.lost = @ + 1]
  <2>1. streamChannel.lost + 1 \in Nat BY <1>8
  <2>2. /\ streamChannel' \in ChannelKind /\ streamChannel'.sent = Append(streamChannel.sent, m)
        /\ streamChannel'.toRoom = streamChannel.toRoom
        /\ streamChannel'.lost = streamChannel.lost + 1 /\ streamChannel'.dead = streamChannel.dead
    BY <1>1, <1>3, <2>1, <1>7 DEF ChannelKind
  <2> QED BY <1>8, <2>2 DEF Publishes, Sent, ToRoom, AllArrived
<1> QED BY <1>6, <1>7 DEF DS!Publish

-----------------------------------------------------------------------------
(* The steps of a stream, field by field.                                  *)

FuseSame == UNCHANGED <<broken, streamOnce, closer, engine>>
TasksSame == UNCHANGED <<writes, offer, finished>>
WorkerSame == UNCHANGED <<streamWorker, streamLock>>
ReadSame == UNCHANGED <<room, reader>>
SentSame ==
  Sent' = Sent /\ streamChannel'.dead = streamChannel.dead /\ (AllArrived' <=> AllArrived)
\* What is on its way stays, or goes with its channel.
WaySame ==
  \/ ToRoom' = ToRoom /\ (AllArrived' <=> AllArrived)
  \/ ToRoom' = <<>> /\ ~AllArrived'

OfferStep(c) ==
  /\ \/ /\ offer[c] = 0 /\ writes < MaxWrites /\ ~broken
        /\ writes' = writes + 1 /\ offer' = [offer EXCEPT ![c] = writes + 1]
     \/ offer[c] # 0 /\ writes' = writes /\ offer' = [offer EXCEPT ![c] = 0]
  /\ FuseSame /\ WorkerSame /\ ReadSame /\ UNCHANGED <<finished, streamChannel>>

TakeStep(c) ==
  /\ Works({"select"}) /\ offer[c] # 0 /\ offer' = [offer EXCEPT ![c] = 0]
  /\ streamWorker' \in WorkerKind /\ streamWorker'.at = "taken"
  /\ streamWorker'.task = offer[c] /\ streamWorker'.left = TaskChunks
  /\ FuseSame /\ ReadSame /\ UNCHANGED <<writes, finished, streamLock, streamChannel>>

LockStep ==
  /\ Works({"taken"}) /\ streamLock = "free" /\ Goes(streamWorker.left)
  /\ FuseSame /\ TasksSame /\ ReadSame /\ UNCHANGED streamChannel

ChunkStep ==
  /\ Works({"waiting"}) /\ ~streamChannel.dead /\ Goes(streamWorker.left - 1)
  /\ Publishes(DS!Chunk(streamWorker.task, ChunksDone + 1))
  /\ FuseSame /\ TasksSame /\ ReadSame

DoneStep ==
  /\ Works({"onDone"}) /\ finished' = finished \cup {streamWorker.task}
  /\ \/ Places("closing") /\ closer' = [closer EXCEPT !["worker"] = "once"]
     \/ Places("select") /\ UNCHANGED closer
  /\ UNCHANGED <<broken, streamOnce, engine, writes, offer, streamLock, streamChannel>>
  /\ ReadSame

RestStep ==
  /\ \/ Works({"closing"}) /\ closer["worker"] = "returned" /\ Places("select")
     \/ Works({"select"}) /\ Places("ended")
  /\ FuseSame /\ TasksSame /\ ReadSame /\ UNCHANGED <<streamLock, streamChannel>>

\* A closer other than the worker begins.
CloseStep ==
  /\ \/ closer["app"] = "idle" /\ closer' = [closer EXCEPT !["app"] = "once"] /\ UNCHANGED engine
     \/ /\ engine = "up" /\ engine' = "closing"
        /\ closer' = [closer EXCEPT !["engine"] = "once"]
  /\ TasksSame /\ WorkerSame /\ ReadSame
  /\ UNCHANGED <<broken, streamOnce, streamChannel>>

FuseStep(c) ==
  /\ \/ /\ closer[c] = "once" /\ streamOnce = "new" /\ streamOnce' = "running"
        /\ closer' = [closer EXCEPT ![c] = "lock"] /\ broken' \in BOOLEAN
     \/ /\ closer[c] = "once" /\ streamOnce = "done"
        /\ closer' = [closer EXCEPT ![c] = "returned"] /\ UNCHANGED <<streamOnce, broken>>
     \/ /\ closer[c] = "break" /\ streamOnce' = "done" /\ broken' = TRUE
        /\ closer' = [closer EXCEPT ![c] = "returned"]
  /\ TasksSame /\ WorkerSame /\ ReadSame /\ UNCHANGED <<engine, streamChannel>>

TrailerStep(c) ==
  /\ closer[c] = "lock" /\ streamLock = "free" /\ Publishes(DS!Trailer)
  /\ closer' = [closer EXCEPT ![c] = "break"]
  /\ TasksSame /\ WorkerSame /\ ReadSame /\ UNCHANGED <<broken, streamOnce, engine>>

DeadStep ==
  /\ \/ engine = "closing" /\ closer["engine"] = "returned" /\ engine' = "closed"
     \/ UNCHANGED engine
  /\ streamChannel' \in ChannelKind /\ (streamChannel'.dead = TRUE \/ engine' # "closed")
  /\ Sent' = Sent /\ WaySame
  /\ TasksSame /\ WorkerSame /\ ReadSame /\ UNCHANGED <<broken, streamOnce, closer>>

Reads(type) ==
  /\ room.reading = "idle" /\ ToRoom # <<>> /\ ToRoom[1].type = type
  /\ streamChannel' \in ChannelKind /\ ToRoom' = Tail(ToRoom) /\ SentSame
ReaderIs(listed, buf, closes, broadcast, app) ==
  /\ reader' \in ReaderKind /\ reader'.listed = listed /\ reader'.buf = buf
  /\ reader'.closed = closes /\ reader'.broadcast = broadcast /\ reader'.app = app
RoomTo(at, reading, raced) ==
  room' \in RoomKind /\ room'.at = at /\ room'.reading = reading /\ room'.raced = raced
Woken == IF reader.app = "waiting" THEN "reading" ELSE reader.app

StreamReceives ==
  \/ Reads("header") /\ room.at = "up" /\ RoomTo("up", "header", room.raced) /\ UNCHANGED reader
  \/ Reads("header") /\ room.at # "up" /\ ReadSame
  \/ Reads("chunk") /\ UNCHANGED room /\ (~reader.listed \/ reader.closed) /\ UNCHANGED reader
  \/ /\ Reads("chunk") /\ UNCHANGED room /\ reader.listed /\ ~reader.closed
     /\ ReaderIs(TRUE, Append(reader.buf, ToRoom[1]), FALSE, reader.broadcast, Woken)
  \/ Reads("trailer") /\ UNCHANGED room /\ ~reader.listed /\ UNCHANGED reader
  \/ /\ Reads("trailer") /\ UNCHANGED room /\ reader.listed
     /\ ReaderIs(FALSE, reader.buf, TRUE, reader.broadcast \/ ~reader.closed, reader.app)

ReadStep ==
  \/ /\ room.reading = "header" /\ RoomTo(room.at, "idle", room.at # "up")
     /\ ReaderIs(TRUE, reader.buf, reader.closed, reader.broadcast, "reading")
  \/ /\ reader.broadcast /\ UNCHANGED room
     /\ ReaderIs(reader.listed, reader.buf, reader.closed, FALSE, Woken)
  \/ /\ reader.app = "reading" /\ UNCHANGED room
     /\ ReaderIs(reader.listed, reader.buf, reader.closed, reader.broadcast,
                 IF reader.closed THEN "ended" ELSE "waiting")
  \/ /\ room.at = "up" /\ RoomTo("handlers", room.reading, room.reading = "header")
     /\ UNCHANGED reader
  \/ /\ room.at = "handlers" /\ RoomTo("closing", room.reading, room.raced)
     /\ IF reader.listed
        THEN ReaderIs(TRUE, reader.buf, TRUE, reader.broadcast \/ ~reader.closed, reader.app)
        ELSE UNCHANGED reader
  \/ /\ room.at = "closing" /\ RoomTo("cleared", room.reading, room.raced)
     /\ ReaderIs(FALSE, reader.buf, reader.closed, reader.broadcast, reader.app)

WriterSame == FuseSame /\ TasksSame /\ WorkerSame

StreamStep ==
  \/ \E c \in Callers : OfferStep(c) \/ TakeStep(c)
  \/ LockStep \/ ChunkStep \/ DoneStep \/ RestStep \/ CloseStep \/ DeadStep
  \/ \E c \in DS!Closers : FuseStep(c) \/ TrailerStep(c)
  \/ WriterSame /\ StreamReceives
  \/ WriterSame /\ ReadStep /\ UNCHANGED streamChannel

LEMMA CallerSteps ==
  ASSUME StreamTyped, NEW c \in Callers, DS!Write(c) \/ DS!WriteGivesUp(c)
  PROVE  OfferStep(c)
BY DEF DS!Write, DS!WriteGivesUp, OfferStep, FuseSame, WorkerSame, ReadSame, DS!readerVars

LEMMA TakeSteps ==
  ASSUME StreamTyped, DS!Take
  PROVE  \E c \in Callers : TakeStep(c)
<1>1. PICK c \in Callers :
        /\ streamWorker.at = "select" /\ offer[c] # 0
        /\ streamWorker' = [at |-> "taken", task |-> offer[c], left |-> TaskChunks]
        /\ offer' = [offer EXCEPT ![c] = 0]
  BY DEF DS!Take
<1>2. offer[c] \in 0 .. MaxWrites /\ TaskChunks \in 0 .. TaskChunks
  BY StreamKinds DEF StreamTyped, DS!TypeOK
<1>3. /\ streamWorker' \in WorkerKind /\ streamWorker'.at = "taken"
      /\ streamWorker'.task = offer[c] /\ streamWorker'.left = TaskChunks
  BY <1>1, <1>2 DEF WorkerKind
<1>4. FuseSame /\ ReadSame /\ UNCHANGED <<writes, finished, streamLock, streamChannel>>
  BY DEF DS!Take, FuseSame, ReadSame, DS!readerVars
<1> QED BY <1>1, <1>3, <1>4 DEF TakeStep, Works

LEMMA LockSteps ==
  ASSUME StreamTyped, DS!Lock
  PROVE  LockStep
<1>1. streamWorker.left \in 0 .. TaskChunks BY StreamKinds DEF WorkerKind
<1>2. Goes(streamWorker.left) BY <1>1, GotoGoes DEF DS!Lock
<1> QED BY <1>2 DEF DS!Lock, DS!WorkerUnchanged, LockStep, Works, FuseSame, TasksSame, ReadSame,
              DS!readerVars, DS!Free

LEMMA ChunkSteps ==
  ASSUME StreamTyped, WorkerPlaced, TasksPlaced, DS!SendChunk
  PROVE  ChunkStep
<1>1. streamWorker.left \in 0 .. TaskChunks /\ streamWorker.left # 0 /\ TaskChunks \in Nat
  BY StreamKinds DEF WorkerKind, WorkerPlaced, Works, DS!SendChunk
<1> PICK n : n = streamWorker.left - 1 OBVIOUS
<1>2. n \in 0 .. TaskChunks BY <1>1
<1>3. DS!Goto(n) BY DEF DS!SendChunk
<1>4. Goes(streamWorker.left - 1) BY <1>2, <1>3, GotoGoes
<1>5. DS!Publish(DS!Chunk(streamWorker.task, ChunksDone + 1)) BY DEF DS!SendChunk, ChunksDone
<1>6. DS!Chunk(streamWorker.task, ChunksDone + 1) \in OnStream
  <2>1. ChunksDone + 1 \in 1 .. TaskChunks BY <1>1 DEF ChunksDone
  <2>2. streamWorker.task \in 1 .. MaxWrites
    BY StreamKinds DEF WorkerKind, TasksPlaced, Works, Busy, DS!SendChunk
  <2> QED BY <2>1, <2>2, ChunkFacts DEF OnStream
<1>7. Publishes(DS!Chunk(streamWorker.task, ChunksDone + 1)) BY <1>5, <1>6, PublishPublishes
<1> QED BY <1>4, <1>7 DEF DS!SendChunk, DS!WorkerUnchanged, ChunkStep, Works, FuseSame, TasksSame,
                          ReadSame, DS!readerVars

LEMMA DoneSteps ==
  ASSUME StreamTyped, DS!OnDone
  PROVE  DoneStep
<1>1. streamWorker \in WorkerKind BY StreamKinds
<1>2. CASE streamWorker' = [streamWorker EXCEPT !.at = "closing"]
             /\ closer' = [closer EXCEPT !["worker"] = "once"]
  <2>1. streamWorker' = [streamWorker EXCEPT !.at = "closing"] BY <1>2
  <2>2. Places("closing") BY <1>1, <2>1 DEF Places, WorkerKind
  <2> QED BY <1>2, <2>2 DEF DS!OnDone, DS!WorkerUnchanged, DoneStep, Works, ReadSame, DS!readerVars
<1>3. CASE streamWorker' = [streamWorker EXCEPT !.at = "select"] /\ UNCHANGED closer
  <2>1. streamWorker' = [streamWorker EXCEPT !.at = "select"] BY <1>3
  <2>2. Places("select") BY <1>1, <2>1 DEF Places, WorkerKind
  <2> QED BY <1>3, <2>2 DEF DS!OnDone, DS!WorkerUnchanged, DoneStep, Works, ReadSame, DS!readerVars
<1> QED BY <1>2, <1>3 DEF DS!OnDone

LEMMA RestSteps ==
  ASSUME StreamTyped, DS!Closed \/ DS!Ends
  PROVE  RestStep
<1>1. streamWorker \in WorkerKind BY StreamKinds
<1>2. CASE DS!Closed
  <2>1. streamWorker' = [streamWorker EXCEPT !.at = "select"] BY <1>2 DEF DS!Closed
  <2>2. Places("select") BY <1>1, <2>1 DEF Places, WorkerKind
  <2> QED BY <1>2, <2>2 DEF DS!Closed, DS!WorkerUnchanged, RestStep, Works, ReadSame, FuseSame,
                          TasksSame, DS!readerVars
<1>3. CASE DS!Ends
  <2>1. streamWorker' = [streamWorker EXCEPT !.at = "ended"] BY <1>3 DEF DS!Ends
  <2>2. Places("ended") BY <1>1, <2>1 DEF Places, WorkerKind
  <2> QED BY <1>3, <2>2 DEF DS!Ends, RestStep, Works, ReadSame, FuseSame, TasksSame, DS!readerVars
<1> QED BY <1>2, <1>3

LEMMA CloserSteps ==
  ASSUME StreamTyped, DS!Close \/ DS!EngineCloses
  PROVE  CloseStep
BY DEF DS!Close, DS!EngineCloses, CloseStep, DS!CloserUnchanged, TasksSame, WorkerSame, ReadSame,
   DS!readerVars

LEMMA FuseSteps ==
  ASSUME StreamTyped, NEW c \in DS!Closers, DS!Once(c) \/ DS!Break(c)
  PROVE  FuseStep(c)
BY DEF DS!Once, DS!Break, FuseStep, DS!CloserUnchanged, TasksSame, WorkerSame, ReadSame,
   DS!readerVars

LEMMA TrailerSteps ==
  ASSUME StreamTyped, NEW c \in DS!Closers, DS!SendTrailer(c)
  PROVE  TrailerStep(c)
<1>1. DS!Trailer \in OnStream BY DEF OnStream
<1>2. Publishes(DS!Trailer) BY <1>1, PublishPublishes DEF DS!SendTrailer
<1> QED BY <1>2 DEF DS!SendTrailer, TrailerStep, DS!CloserUnchanged, TasksSame, WorkerSame, ReadSame,
              DS!readerVars, DS!Free

LEMMA ChannelCut ==
  ASSUME StreamTyped, NEW d \in BOOLEAN, DS!Cut(d)
  PROVE  streamChannel' \in ChannelKind /\ streamChannel'.dead = d /\ Sent' = Sent /\ WaySame
<1>1. streamChannel \in ChannelKind BY StreamKinds
<1>3. <<>> \in Seq(OnStream \cup {Header}) /\ streamChannel.lost \in Nat /\ streamChannel.lost + 1 \in Nat
  BY <1>1 DEF ChannelKind
<1>4. CASE streamChannel.toRoom = <<>> /\ streamChannel' = [streamChannel EXCEPT !.dead = d]
  BY <1>1, <1>4 DEF ChannelKind, WaySame, Sent, ToRoom, AllArrived
<1>5. CASE streamChannel' = [streamChannel EXCEPT !.dead = d, !.toRoom = <<>>, !.lost = @ + 1]
  <2>2. /\ streamChannel' \in ChannelKind /\ streamChannel'.dead = d
        /\ streamChannel'.sent = streamChannel.sent /\ streamChannel'.toRoom = <<>>
        /\ streamChannel'.lost = streamChannel.lost + 1
    BY <1>1, <1>3, <1>5 DEF ChannelKind
  <2> QED BY <1>3, <2>2 DEF WaySame, Sent, ToRoom, AllArrived
<1> QED BY <1>4, <1>5 DEF DS!Cut

LEMMA DeadSteps ==
  ASSUME StreamTyped, FuseHeld, DS!EngineClosed \/ DS!LinkDies \/ DS!ReplaceChannel
  PROVE  DeadStep
<1>1. streamChannel \in ChannelKind BY StreamKinds
<1>2. CASE DS!LinkDies
  <2>1. streamChannel' = [streamChannel EXCEPT !.dead = TRUE] BY <1>2 DEF DS!LinkDies
  <2>2. /\ streamChannel' \in ChannelKind /\ streamChannel'.dead = TRUE
        /\ Sent' = Sent /\ WaySame
    BY <1>1, <2>1 DEF ChannelKind, Sent, ToRoom, WaySame, AllArrived
  <2> QED BY <1>2, <2>2 DEF DS!LinkDies, DeadStep, TasksSame, WorkerSame, ReadSame, DS!readerVars,
                DS!writerVars
<1>3. CASE DS!EngineClosed
  <2>1. /\ streamChannel' \in ChannelKind /\ streamChannel'.dead = TRUE
        /\ Sent' = Sent /\ WaySame
    BY <1>3, ChannelCut DEF DS!EngineClosed
  <2> QED BY <1>3, <2>1 DEF DS!EngineClosed, DeadStep, DS!CloserUnchanged, TasksSame, WorkerSame,
                ReadSame, DS!readerVars
<1>4. CASE DS!ReplaceChannel
  <2>1. streamChannel' \in ChannelKind /\ Sent' = Sent /\ WaySame
    BY <1>4, ChannelCut DEF DS!ReplaceChannel
  <2>2. engine # "closed" /\ UNCHANGED <<DS!writerVars, DS!readerVars>>
    BY <1>4 DEF DS!ReplaceChannel
  <2> QED BY <2>1, <2>2 DEF DeadStep, TasksSame, WorkerSame, ReadSame, DS!readerVars, DS!writerVars
<1> QED BY <1>2, <1>3, <1>4

LEMMA ReceiveReads ==
  ASSUME StreamTyped, NEW type, DS!Receive(type)
  PROVE  Reads(type) /\ WriterSame
<1>1. streamChannel \in ChannelKind /\ ToRoom \in Seq(OnStream \cup {Header}) /\ ToRoom # <<>>
  BY StreamKinds DEF DS!Receive, ToRoom
<1>2. /\ Tail(ToRoom) \in Seq(OnStream \cup {Header}) /\ Head(ToRoom) = ToRoom[1]
  BY <1>1, TailOf
<1>3. streamChannel' = [streamChannel EXCEPT !.toRoom = Tail(@)] BY DEF DS!Receive
<1>4. /\ streamChannel' \in ChannelKind /\ ToRoom' = Tail(ToRoom) /\ Sent' = Sent
      /\ streamChannel'.dead = streamChannel.dead /\ (AllArrived' <=> AllArrived)
  BY <1>1, <1>2, <1>3 DEF ChannelKind, Sent, ToRoom, AllArrived
<1>5. ToRoom[1].type = type BY <1>2 DEF DS!Receive, ToRoom
<1> QED BY <1>1, <1>4, <1>5 DEF DS!Receive, Reads, SentSame, WriterSame, FuseSame, TasksSame, WorkerSame,
                             DS!writerVars

LEMMA ReceiveSteps ==
  ASSUME StreamTyped,
         DS!OnStreamHeader \/ DS!HeaderIgnored \/ DS!OnStreamChunk \/ DS!OnStreamTrailer
  PROVE  WriterSame /\ StreamReceives
<1>1. room \in RoomKind /\ reader \in ReaderKind BY StreamKinds
<1>2. CASE DS!OnStreamHeader
  <2>1. Reads("header") /\ WriterSame BY <1>2, ReceiveReads DEF DS!OnStreamHeader
  <2>2. room' = [room EXCEPT !.reading = "header"] /\ room.at = "up" BY <1>2 DEF DS!OnStreamHeader
  <2>3. RoomTo("up", "header", room.raced) BY <1>1, <2>2 DEF RoomTo, RoomKind
  <2> QED BY <1>2, <2>1, <2>2, <2>3 DEF DS!OnStreamHeader, StreamReceives
<1>3. CASE DS!HeaderIgnored
  <2>1. Reads("header") /\ WriterSame BY <1>3, ReceiveReads DEF DS!HeaderIgnored
  <2> QED BY <1>3, <2>1 DEF DS!HeaderIgnored, StreamReceives, ReadSame, DS!readerVars
<1>4. CASE DS!OnStreamChunk
  <2>1. Reads("chunk") /\ WriterSame BY <1>4, ReceiveReads DEF DS!OnStreamChunk
  <2>2. UNCHANGED room BY <1>4 DEF DS!OnStreamChunk
  <2>3. CASE ~reader.listed \/ reader.closed
    BY <1>4, <2>1, <2>2, <2>3 DEF DS!OnStreamChunk, StreamReceives
  <2>4. CASE reader.listed /\ ~reader.closed
    <3>1. ToRoom \in Seq(OnStream \cup {Header}) /\ ToRoom # <<>> /\ ToRoom[1].type = "chunk"
      BY <2>1, StreamKinds DEF Reads
    <3>2. Head(ToRoom) = ToRoom[1] /\ ToRoom[1] \in OnStream \cup {Header} BY <3>1, TailOf
    <3>3. ToRoom[1] \in StreamChunks BY <3>1, <3>2, StreamMessages
    <3>4. Append(reader.buf, ToRoom[1]) \in Seq(StreamChunks) BY <1>1, <3>3, AppendedTo DEF ReaderKind
    <3>5. reader' = [reader EXCEPT !.buf = Append(@, ToRoom[1]),
                                   !.app = IF @ = "waiting" THEN "reading" ELSE @]
      BY <1>4, <2>4, <3>2 DEF DS!OnStreamChunk, ToRoom
    <3>6. ReaderIs(TRUE, Append(reader.buf, ToRoom[1]), FALSE, reader.broadcast, Woken)
      <4>1. reader' \in ReaderKind BY <1>1, <3>4, <3>5 DEF ReaderKind
      <4> QED BY <1>1, <2>4, <3>5, <4>1 DEF ReaderIs, Woken, ReaderKind
    <3> QED BY <2>1, <2>2, <2>4, <3>6 DEF StreamReceives
  <2> QED BY <2>3, <2>4
<1>5. CASE DS!OnStreamTrailer
  <2>1. Reads("trailer") /\ WriterSame BY <1>5, ReceiveReads DEF DS!OnStreamTrailer
  <2>2. UNCHANGED room BY <1>5 DEF DS!OnStreamTrailer
  <2>3. CASE ~reader.listed BY <1>5, <2>1, <2>2, <2>3 DEF DS!OnStreamTrailer, StreamReceives
  <2>4. CASE reader.listed
    <3>1. reader' = [reader EXCEPT !.closed = TRUE, !.broadcast = @ \/ ~reader.closed, !.listed = FALSE]
      BY <1>5, <2>4 DEF DS!OnStreamTrailer, DS!CloseReader
    <3>2. ReaderIs(FALSE, reader.buf, TRUE, reader.broadcast \/ ~reader.closed, reader.app)
      BY <1>1, <3>1 DEF ReaderIs, ReaderKind
    <3> QED BY <2>1, <2>2, <2>4, <3>2 DEF StreamReceives
  <2> QED BY <2>3, <2>4
<1> QED BY <1>2, <1>3, <1>4, <1>5

LEMMA ReadSteps ==
  ASSUME StreamTyped, DS!StoreReader \/ DS!Broadcast \/ DS!ReadAll \/ DS!Cleanup
  PROVE  WriterSame /\ ReadStep /\ UNCHANGED streamChannel
<1>1. room \in RoomKind /\ reader \in ReaderKind BY StreamKinds
<1>2. WriterSame /\ UNCHANGED streamChannel
  BY DEF DS!StoreReader, DS!Broadcast, DS!ReadAll, DS!Cleanup, WriterSame, FuseSame, TasksSame,
         WorkerSame, DS!writerVars
<1>3. CASE DS!StoreReader
  <2>1. /\ room' = [room EXCEPT !.reading = "idle", !.raced = room.at # "up"]
        /\ reader' = [reader EXCEPT !.listed = TRUE, !.app = "reading"] /\ room.reading = "header"
    BY <1>3 DEF DS!StoreReader
  <2>2. RoomTo(room.at, "idle", room.at # "up") BY <1>1, <2>1 DEF RoomTo, RoomKind
  <2>3. ReaderIs(TRUE, reader.buf, reader.closed, reader.broadcast, "reading")
    BY <1>1, <2>1 DEF ReaderIs, ReaderKind
  <2> QED BY <1>2, <2>1, <2>2, <2>3 DEF ReadStep
<1>4. CASE DS!Broadcast
  <2>1. /\ reader' = [reader EXCEPT !.broadcast = FALSE, !.app = IF @ = "waiting" THEN "reading" ELSE @]
        /\ reader.broadcast /\ UNCHANGED room
    BY <1>4 DEF DS!Broadcast
  <2>2. ReaderIs(reader.listed, reader.buf, reader.closed, FALSE, Woken)
    BY <1>1, <2>1 DEF ReaderIs, ReaderKind, Woken
  <2> QED BY <1>2, <2>1, <2>2 DEF ReadStep
<1>5. CASE DS!ReadAll
  <2>1. /\ reader' = [reader EXCEPT !.app = IF reader.closed THEN "ended" ELSE "waiting"]
        /\ reader.app = "reading" /\ UNCHANGED room
    BY <1>5 DEF DS!ReadAll
  <2>2. ReaderIs(reader.listed, reader.buf, reader.closed, reader.broadcast,
                 IF reader.closed THEN "ended" ELSE "waiting")
    BY <1>1, <2>1 DEF ReaderIs, ReaderKind
  <2> QED BY <1>2, <2>1, <2>2 DEF ReadStep
<1>6. CASE DS!Cleanup
  <2>1. CASE room.at = "up" /\ UNCHANGED reader
             /\ room' = [room EXCEPT !.at = "handlers", !.raced = room.reading = "header"]
    <3>1. RoomTo("handlers", room.reading, room.reading = "header")
      BY <1>1, <2>1 DEF RoomTo, RoomKind
    <3> QED BY <1>2, <2>1, <3>1 DEF ReadStep
  <2>2. CASE room.at = "handlers" /\ DS!CloseReaders /\ room' = [room EXCEPT !.at = "closing"]
    <3>1. RoomTo("closing", room.reading, room.raced) BY <1>1, <2>2 DEF RoomTo, RoomKind
    <3>2. CASE ~reader.listed BY <1>2, <2>2, <3>1, <3>2 DEF ReadStep, DS!CloseReaders
    <3>3. CASE reader.listed
      <4>1. reader' = [[reader EXCEPT !.closed = TRUE, !.broadcast = @ \/ ~reader.closed,
                                      !.listed = FALSE] EXCEPT !.listed = TRUE]
        BY <2>2, <3>3 DEF DS!CloseReaders, DS!CloseReader
      <4>2. ReaderIs(TRUE, reader.buf, TRUE, reader.broadcast \/ ~reader.closed, reader.app)
        BY <1>1, <4>1 DEF ReaderIs, ReaderKind
      <4> QED BY <1>2, <2>2, <3>1, <3>3, <4>2 DEF ReadStep
    <3> QED BY <3>2, <3>3
  <2>3. CASE room.at = "closing" /\ room' = [room EXCEPT !.at = "cleared"]
             /\ reader' = [reader EXCEPT !.listed = FALSE]
    <3>1. RoomTo("cleared", room.reading, room.raced) BY <1>1, <2>3 DEF RoomTo, RoomKind
    <3>2. ReaderIs(FALSE, reader.buf, reader.closed, reader.broadcast, reader.app)
      BY <1>1, <2>3 DEF ReaderIs, ReaderKind
    <3> QED BY <1>2, <2>3, <3>1, <3>2 DEF ReadStep
  <2> QED BY <1>6, <2>1, <2>2, <2>3 DEF DS!Cleanup
<1> QED BY <1>3, <1>4, <1>5, <1>6

LEMMA StreamSteps ==
  ASSUME StreamTyped, WorkerPlaced, TasksPlaced, FuseHeld, DS!Next
  PROVE  StreamStep
<1>1. CASE \E c \in Callers : DS!Write(c) \/ DS!WriteGivesUp(c) BY <1>1, CallerSteps DEF StreamStep
<1>2. CASE DS!Take BY <1>2, TakeSteps DEF StreamStep
<1>3. CASE DS!Lock BY <1>3, LockSteps DEF StreamStep
<1>4. CASE DS!SendChunk BY <1>4, ChunkSteps DEF StreamStep
<1>5. CASE DS!OnDone BY <1>5, DoneSteps DEF StreamStep
<1>6. CASE DS!Closed \/ DS!Ends BY <1>6, RestSteps DEF StreamStep
<1>7. CASE \E c \in DS!Closers : DS!Once(c) \/ DS!Break(c) BY <1>7, FuseSteps DEF StreamStep
<1>8. CASE \E c \in DS!Closers : DS!SendTrailer(c) BY <1>8, TrailerSteps DEF StreamStep
<1>9. CASE DS!EngineClosed \/ DS!LinkDies \/ DS!ReplaceChannel BY <1>9, DeadSteps DEF StreamStep
<1>10. CASE DS!Close \/ DS!EngineCloses BY <1>10, CloserSteps DEF StreamStep
<1>11. CASE DS!OnStreamHeader \/ DS!HeaderIgnored \/ DS!OnStreamChunk \/ DS!OnStreamTrailer
  BY <1>11, ReceiveSteps DEF StreamStep
<1>12. CASE DS!StoreReader \/ DS!Broadcast \/ DS!ReadAll \/ DS!Cleanup
  BY <1>12, ReadSteps DEF StreamStep
<1> QED BY <1>1, <1>2, <1>3, <1>4, <1>5, <1>6, <1>7, <1>8, <1>9, <1>10, <1>11, <1>12
        DEF DS!Next, DS!WriterStep, DS!ReaderStep

-----------------------------------------------------------------------------
(* Types.                                                                  *)

FuseKinds ==
  /\ broken \in BOOLEAN /\ streamOnce \in {"new", "running", "done"}
  /\ closer \in [DS!Closers -> {"idle", "once", "lock", "break", "returned"}]
  /\ engine \in {"up", "closing", "closed"}
TaskKinds ==
  /\ writes \in 0 .. MaxWrites /\ offer \in [Callers -> 0 .. MaxWrites]
  /\ finished \subseteq 1 .. MaxWrites
WorkerKinds == streamWorker \in WorkerKind /\ streamLock \in {"free", "worker"}
ReadKinds == streamChannel \in ChannelKind /\ room \in RoomKind /\ reader \in ReaderKind

LEMMA TypedParts == StreamTyped <=> FuseKinds /\ TaskKinds /\ WorkerKinds /\ ReadKinds
<1>1. streamWorker \in WorkerKind => streamWorker.at \in
        {"select", "taken", "waiting", "onDone", "closing", "ended"}
  BY DEF WorkerKind
<1>2. room \in RoomKind => room.at \in {"up", "handlers", "closing", "cleared"}
                           /\ room.reading \in {"idle", "header"}
  BY DEF RoomKind
<1>3. reader \in ReaderKind => reader.app \in {"none", "reading", "waiting", "ended"}
  BY DEF ReaderKind
<1> QED BY <1>1, <1>2, <1>3 DEF StreamTyped, DS!TypeOK, FuseKinds, TaskKinds, WorkerKinds, ReadKinds,
           WorkerKind, ChannelKind, RoomKind, ReaderKind, DS!Free

LEMMA TypedStep ==
  ASSUME StreamTyped, TasksPlaced, StreamStep
  PROVE  StreamTyped'
<1>1. FuseKinds /\ TaskKinds /\ WorkerKinds /\ ReadKinds BY TypedParts
<1>2. (FuseKinds /\ TaskKinds /\ WorkerKinds /\ ReadKinds)' => StreamTyped' BY TypedParts, PTL
<1>3. MaxWrites \in Nat BY StreamKinds
<1>4. FuseSame => FuseKinds' BY <1>1 DEF FuseSame, FuseKinds
<1>5. TasksSame => TaskKinds' BY <1>1 DEF TasksSame, TaskKinds
<1>6. WorkerSame => WorkerKinds' BY <1>1 DEF WorkerSame, WorkerKinds
<1>7. ReadSame /\ streamChannel' \in ChannelKind => ReadKinds' BY <1>1 DEF ReadSame, ReadKinds
<1>8. UNCHANGED streamChannel => streamChannel' \in ChannelKind BY <1>1 DEF ReadKinds
<1>9. ASSUME NEW c \in Callers, OfferStep(c) PROVE StreamTyped'
  <2>1. FuseKinds' BY <1>4, <1>9 DEF OfferStep
  <2>2. TaskKinds'
    <3>1. CASE writes' = writes /\ offer' = [offer EXCEPT ![c] = 0]
      BY <1>1, <1>3, <1>9, <3>1 DEF OfferStep, TaskKinds
    <3>2. CASE /\ writes < MaxWrites /\ writes' = writes + 1
               /\ offer' = [offer EXCEPT ![c] = writes + 1]
      <4>1. writes + 1 \in 0 .. MaxWrites BY <1>1, <1>3, <3>2 DEF TaskKinds
      <4>2. offer' \in [Callers -> 0 .. MaxWrites] BY <1>1, <3>2, <4>1 DEF TaskKinds
      <4>3. finished' = finished BY <1>9 DEF OfferStep
      <4> QED BY <1>1, <3>2, <4>1, <4>2, <4>3 DEF TaskKinds
    <3> QED BY <1>9, <3>1, <3>2 DEF OfferStep
  <2>3. WorkerKinds' BY <1>6, <1>9 DEF OfferStep
  <2>4. ReadKinds' BY <1>7, <1>8, <1>9 DEF OfferStep
  <2> QED BY <1>2, <2>1, <2>2, <2>3, <2>4
<1>14. ASSUME NEW c \in Callers, TakeStep(c) PROVE StreamTyped'
  <2>1. FuseKinds' BY <1>4, <1>14 DEF TakeStep
  <2>2. TaskKinds' BY <1>1, <1>3, <1>14 DEF TakeStep, TaskKinds
  <2>3. WorkerKinds' BY <1>1, <1>14 DEF TakeStep, WorkerKinds
  <2>4. ReadKinds' BY <1>7, <1>8, <1>14 DEF TakeStep
  <2> QED BY <1>2, <2>1, <2>2, <2>3, <2>4
<1>10. CASE LockStep \/ ChunkStep
  <2>1. FuseKinds' BY <1>4, <1>10 DEF LockStep, ChunkStep
  <2>2. TaskKinds' BY <1>5, <1>10 DEF LockStep, ChunkStep
  <2>3. WorkerKinds' BY <1>10 DEF LockStep, ChunkStep, WorkerKinds, Goes
  <2>4. ReadKinds' BY <1>7, <1>8, <1>10 DEF LockStep, ChunkStep, Publishes
  <2> QED BY <1>2, <2>1, <2>2, <2>3, <2>4
<1>11. CASE DoneStep \/ RestStep
  <2>1. FuseKinds' BY <1>1, <1>4, <1>11 DEF DoneStep, RestStep, FuseKinds
  <2>2. TaskKinds'
    <3>1. Works({"onDone"}) => streamWorker.task \in 1 .. MaxWrites
      BY <1>1, <1>3 DEF TasksPlaced, WorkerKinds, WorkerKind, Works, Busy
    <3> QED BY <1>1, <1>5, <1>11, <3>1 DEF DoneStep, RestStep, TaskKinds
  <2>3. WorkerKinds' BY <1>1, <1>11 DEF DoneStep, RestStep, WorkerKinds, Places
  <2>4. ReadKinds' BY <1>7, <1>8, <1>11 DEF DoneStep, RestStep
  <2> QED BY <1>2, <2>1, <2>2, <2>3, <2>4
<1>12. CASE CloseStep \/ DeadStep
  <2>1. FuseKinds' BY <1>1, <1>12 DEF CloseStep, DeadStep, FuseKinds
  <2>2. TaskKinds' BY <1>5, <1>12 DEF CloseStep, DeadStep
  <2>3. WorkerKinds' BY <1>6, <1>12 DEF CloseStep, DeadStep
  <2>4. ReadKinds' BY <1>7, <1>8, <1>12 DEF CloseStep, DeadStep
  <2> QED BY <1>2, <2>1, <2>2, <2>3, <2>4
<1>15. ASSUME NEW c \in DS!Closers, FuseStep(c) \/ TrailerStep(c) PROVE StreamTyped'
  <2>1. FuseKinds' BY <1>1, <1>15 DEF FuseStep, TrailerStep, FuseKinds
  <2>2. TaskKinds' BY <1>5, <1>15 DEF FuseStep, TrailerStep
  <2>3. WorkerKinds' BY <1>6, <1>15 DEF FuseStep, TrailerStep
  <2>4. ReadKinds' BY <1>7, <1>8, <1>15 DEF FuseStep, TrailerStep, Publishes
  <2> QED BY <1>2, <2>1, <2>2, <2>3, <2>4
<1>13. CASE WriterSame /\ StreamReceives
  <2>1. FuseKinds' /\ TaskKinds' /\ WorkerKinds' BY <1>4, <1>5, <1>6, <1>13 DEF WriterSame
  <2>2. streamChannel' \in ChannelKind BY <1>13 DEF StreamReceives, Reads
  <2>3. room' \in RoomKind BY <1>1, <1>13 DEF StreamReceives, RoomTo, ReadSame, ReadKinds
  <2>4. reader' \in ReaderKind BY <1>1, <1>13 DEF StreamReceives, ReaderIs, ReadSame, ReadKinds
  <2> QED BY <1>2, <2>1, <2>2, <2>3, <2>4 DEF ReadKinds
<1>16. CASE WriterSame /\ ReadStep /\ UNCHANGED streamChannel
  <2>1. FuseKinds' /\ TaskKinds' /\ WorkerKinds' BY <1>4, <1>5, <1>6, <1>16 DEF WriterSame
  <2>2. streamChannel' \in ChannelKind BY <1>8, <1>16
  <2>3. room' \in RoomKind BY <1>1, <1>16 DEF ReadStep, RoomTo, ReadKinds
  <2>4. reader' \in ReaderKind BY <1>1, <1>16 DEF ReadStep, ReaderIs, ReadKinds
  <2> QED BY <1>2, <2>1, <2>2, <2>3, <2>4 DEF ReadKinds
<1> QED BY <1>9, <1>10, <1>11, <1>12, <1>13, <1>14, <1>15, <1>16 DEF StreamStep

-----------------------------------------------------------------------------
(* The worker's tasks and the fuse.                                        *)

LEMMA TasksStep ==
  ASSUME StreamTyped, TasksPlaced, WorkerPlaced, StreamStep
  PROVE  TasksPlaced'
<1>1. FuseKinds /\ TaskKinds /\ WorkerKinds /\ ReadKinds BY TypedParts
<1>2. CASE \E c \in Callers : OfferStep(c)
  <2>1. PICK c \in Callers : OfferStep(c) BY <1>2
  <2>2. CASE offer' = [offer EXCEPT ![c] = 0] /\ writes' = writes
    BY <1>1, <2>1, <2>2 DEF OfferStep, TasksPlaced, TaskKinds, WorkerSame, Works
  <2>3. CASE offer' = [offer EXCEPT ![c] = writes + 1] /\ writes' = writes + 1
    <3>1. writes \in Nat /\ \A t \in finished : t \in Nat /\ t < writes + 1
      BY <1>1 DEF TaskKinds, TasksPlaced
    <3>2. \A d \in Callers : offer[d] \in Nat /\ offer[d] < writes + 1
      BY <1>1, <3>1 DEF TaskKinds, TasksPlaced
    <3>3. streamWorker.task \in Nat /\ streamWorker.task < writes + 1
      BY <1>1, <3>1 DEF TasksPlaced, WorkerKinds, WorkerKind
    <3>4. UNCHANGED <<streamWorker, finished>> BY <2>1 DEF OfferStep, WorkerSame
    <3> QED BY <1>1, <2>3, <3>1, <3>2, <3>3, <3>4 DEF TasksPlaced, TaskKinds, Works
  <2> QED BY <2>1, <2>2, <2>3 DEF OfferStep
<1>3. CASE \E c \in Callers : TakeStep(c)
  BY <1>1, <1>3 DEF TakeStep, TasksPlaced, TaskKinds, WorkerKinds, WorkerKind, Works, Busy
<1>4. CASE LockStep \/ ChunkStep
  BY <1>1, <1>4 DEF LockStep, ChunkStep, Goes, TasksPlaced, TasksSame, Works, Busy
<1>5. CASE DoneStep
  <2>1. finished' = finished \cup {streamWorker.task} /\ streamWorker'.task = streamWorker.task
        /\ UNCHANGED <<writes, offer>> /\ streamWorker'.at \in {"closing", "select"}
        /\ streamWorker.task # 0 /\ Works(Busy)
    BY <1>5 DEF DoneStep, Places, TasksPlaced, Works, Busy
  <2> QED BY <1>1, <2>1 DEF TasksPlaced, Works, Busy, TaskKinds
<1>6. CASE RestStep BY <1>1, <1>6 DEF RestStep, Places, TasksPlaced, TasksSame, Works, Busy
<1>7. CASE CloseStep \/ DeadStep \/ WriterSame \/ \E c \in DS!Closers : FuseStep(c) \/ TrailerStep(c)
  <2>1. TasksSame /\ WorkerSame
    BY <1>7 DEF CloseStep, DeadStep, WriterSame, FuseStep, TrailerStep
  <2> QED BY <2>1 DEF TasksSame, WorkerSame, TasksPlaced, Works
<1> QED BY <1>2, <1>3, <1>4, <1>5, <1>6, <1>7 DEF StreamStep

LEMMA WorkerHolds ==
  ASSUME StreamTyped, WorkerPlaced, StreamStep
  PROVE  WorkerPlaced'
<1>1. FuseKinds /\ TaskKinds /\ WorkerKinds /\ ReadKinds BY TypedParts
<1>2. "worker" \in DS!Closers /\ "app" \in DS!Closers /\ "engine" \in DS!Closers BY DEF DS!Closers
<1>3. CASE \E c \in Callers : OfferStep(c)
  BY <1>3 DEF OfferStep, WorkerPlaced, WorkerSame, FuseSame, Works
<1>4. CASE \E c \in Callers : TakeStep(c)
  BY <1>1, <1>4 DEF TakeStep, WorkerPlaced, FuseSame, Works
<1>5. CASE LockStep
  BY <1>1, <1>5 DEF LockStep, WorkerPlaced, FuseSame, Works, Goes
<1>6. CASE ChunkStep
  BY <1>1, <1>6 DEF ChunkStep, WorkerPlaced, FuseSame, Works, Goes
<1>7. CASE DoneStep
  BY <1>1, <1>2, <1>7 DEF DoneStep, WorkerPlaced, Works, Places, FuseKinds
<1>8. CASE RestStep
  BY <1>1, <1>8 DEF RestStep, WorkerPlaced, FuseSame, Works, Places
<1>9. CASE CloseStep \/ DeadStep \/ \E c \in DS!Closers : FuseStep(c) \/ TrailerStep(c)
  <2>1. WorkerSame /\ (closer'["worker"] \in {"once", "lock", "break"} =>
                         closer["worker"] \in {"once", "lock", "break"})
        /\ (closer'["worker"] = "idle" => closer["worker"] = "idle")
    BY <1>1, <1>2, <1>9 DEF CloseStep, DeadStep, FuseStep, TrailerStep, FuseKinds
  <2> QED BY <2>1 DEF WorkerSame, WorkerPlaced, Works
<1>10. CASE WriterSame BY <1>10 DEF WriterSame, WorkerSame, FuseSame, WorkerPlaced, Works
<1> QED BY <1>3, <1>4, <1>5, <1>6, <1>7, <1>8, <1>9, <1>10 DEF StreamStep

LEMMA FuseStays ==
  ASSUME FuseHeld, FuseSame, streamChannel.dead => streamChannel'.dead
  PROVE  FuseHeld'
BY DEF FuseHeld, FuseSame

LEMMA FuseHolds ==
  ASSUME StreamTyped, WorkerPlaced, FuseHeld, StreamStep
  PROVE  FuseHeld'
<1>1. FuseKinds /\ TaskKinds /\ WorkerKinds /\ ReadKinds BY TypedParts
<1>2. "worker" \in DS!Closers /\ "app" \in DS!Closers /\ "engine" \in DS!Closers BY DEF DS!Closers
<1>3. ASSUME \/ \E c \in Callers : OfferStep(c) \/ TakeStep(c)
             \/ LockStep \/ ChunkStep \/ RestStep
             \/ WriterSame /\ StreamReceives
             \/ WriterSame /\ ReadStep /\ UNCHANGED streamChannel
      PROVE  FuseHeld'
  <2>1. FuseSame BY <1>3 DEF OfferStep, TakeStep, LockStep, ChunkStep, RestStep, WriterSame
  <2>2. streamChannel'.dead = streamChannel.dead
    BY <1>3 DEF OfferStep, TakeStep, LockStep, ChunkStep, RestStep, Publishes, StreamReceives, Reads,
                SentSame
  <2> QED BY <2>1, <2>2, FuseStays
<1>4. CASE DoneStep
  <2>1. closer["worker"] \notin {"once", "lock", "break"} BY <1>4 DEF DoneStep, WorkerPlaced, Works
  <2> QED BY <1>1, <1>2, <1>4, <2>1 DEF DoneStep, FuseHeld, FuseKinds, WithinOnce
<1>5. CASE CloseStep BY <1>1, <1>2, <1>5 DEF CloseStep, FuseHeld, FuseKinds, WithinOnce
<1>6. CASE DeadStep BY <1>1, <1>2, <1>6 DEF DeadStep, FuseHeld, FuseKinds
<1>7. ASSUME NEW c \in DS!Closers, FuseStep(c) PROVE FuseHeld'
  <2>1. CASE closer[c] = "once" /\ streamOnce = "new"
    BY <1>1, <1>2, <1>7, <2>1 DEF FuseStep, FuseHeld, FuseKinds, WithinOnce
  <2>2. CASE closer[c] = "once" /\ streamOnce = "done"
    BY <1>1, <1>2, <1>7, <2>2 DEF FuseStep, FuseHeld, FuseKinds, WithinOnce
  <2>3. CASE closer[c] = "break"
    BY <1>1, <1>2, <1>7, <2>3 DEF FuseStep, FuseHeld, FuseKinds, WithinOnce
  <2> QED BY <1>7, <2>1, <2>2, <2>3 DEF FuseStep
<1>8. ASSUME NEW c \in DS!Closers, TrailerStep(c) PROVE FuseHeld'
  BY <1>1, <1>2, <1>8 DEF TrailerStep, FuseHeld, FuseKinds, WithinOnce, Publishes
<1> QED BY <1>3, <1>4, <1>5, <1>6, <1>7, <1>8 DEF StreamStep

-----------------------------------------------------------------------------
(* What was sent.                                                          *)

\* A step that neither sends nor moves the worker within a task, nor the fuse.
Quiet ==
  /\ Sent' = Sent /\ UNCHANGED <<finished, broken, streamOnce>>
  /\ \A c \in DS!Closers : closer'[c] = closer[c] \/ (closer[c] = "idle" /\ closer'[c] = "once")
  /\ WorkerSame \/ (~Works({"waiting", "onDone"}) /\ ~(Works({"waiting", "onDone"})'))

LEMMA QuietSteps ==
  ASSUME StreamTyped, FuseHeld, StreamStep
  PROVE  \/ LockStep \/ ChunkStep \/ DoneStep \/ Quiet
         \/ \E c \in DS!Closers : FuseStep(c) \/ TrailerStep(c)
<1>1. FuseKinds BY TypedParts
<1>2. "app" \in DS!Closers /\ "engine" \in DS!Closers BY DEF DS!Closers
<1>3. ASSUME NEW c \in Callers, OfferStep(c) PROVE Quiet
  BY <1>3 DEF OfferStep, Quiet, FuseSame, Sent
<1>4. ASSUME NEW c \in Callers, TakeStep(c) PROVE Quiet
  BY <1>4 DEF TakeStep, Quiet, FuseSame, Sent, Works
<1>5. CASE RestStep
  BY <1>5 DEF RestStep, Quiet, FuseSame, TasksSame, Sent, Works, Places
<1>6. CASE CloseStep
  BY <1>1, <1>2, <1>6 DEF CloseStep, Quiet, TasksSame, Sent, FuseKinds, FuseHeld
<1>7. CASE DeadStep BY <1>7 DEF DeadStep, Quiet, TasksSame
<1>8. CASE WriterSame /\ StreamReceives
  BY <1>8 DEF WriterSame, StreamReceives, Reads, SentSame, Quiet, FuseSame, TasksSame
<1>9. CASE WriterSame /\ ReadStep /\ UNCHANGED streamChannel
  BY <1>9 DEF WriterSame, Quiet, FuseSame, TasksSame, Sent
<1> QED BY <1>3, <1>4, <1>5, <1>6, <1>7, <1>8, <1>9 DEF StreamStep

\* The worker's number.
LEMMA DoneIs ==
  ASSUME StreamTyped
  PROVE  /\ streamWorker.left \in Nat /\ ChunksDone \in 0 .. TaskChunks /\ TaskChunks \in Nat
         /\ ChunksDone = TaskChunks - streamWorker.left /\ TaskChunks # 0
         /\ ChunksDone = TaskChunks <=> streamWorker.left = 0
<1>1. streamWorker.left \in 0 .. TaskChunks /\ TaskChunks \in Nat /\ TaskChunks # 0
  BY StreamKinds DEF WorkerKind
<1> QED BY <1>1 DEF ChunksDone

\* The worker begins a task: none of its chunks was sent.
LEMMA LockBegins ==
  ASSUME StreamTyped, WorkerPlaced, LockStep
  PROVE  /\ Sent' = Sent /\ ChunksDone' = 0 /\ streamWorker'.left = TaskChunks
         /\ UNCHANGED <<finished, broken, streamOnce, closer>>
         /\ streamWorker'.task = streamWorker.task /\ Works({"taken"})
         /\ (Works({"waiting"})' <=> ~broken) /\ (Works({"onDone"})' <=> broken)
<1>1. Works({"taken"}) /\ streamWorker.left = TaskChunks BY DEF LockStep, WorkerPlaced
<1>2. Goes(TaskChunks) BY <1>1 DEF LockStep
<1>3. TaskChunks # 0 /\ TaskChunks \in Nat BY StreamKinds
<1>4. streamWorker'.left = TaskChunks /\ streamWorker'.task = streamWorker.task BY <1>2 DEF Goes
<1>5. ChunksDone' = 0 BY <1>3, <1>4 DEF ChunksDone
<1>6. (Works({"waiting"})' <=> ~broken) /\ (Works({"onDone"})' <=> broken)
  BY <1>2, <1>3 DEF Goes, Works
<1> QED BY <1>1, <1>4, <1>5, <1>6 DEF LockStep, Sent, FuseSame, TasksSame

\* The worker sends the next chunk.
LEMMA ChunkSent ==
  ASSUME StreamTyped, WorkerPlaced, TasksPlaced, ChunkStep, NEW m, m = DS!Chunk(streamWorker.task, ChunksDone + 1)
  PROVE  /\ m \in StreamChunks /\ m.task = streamWorker.task /\ m.chunk = ChunksDone + 1
         /\ Sent \in Seq(OnStream) /\ Sent' = Append(Sent, m) /\ ChunksDone' = ChunksDone + 1
         /\ ChunksDone + 1 \in 1 .. TaskChunks
         /\ UNCHANGED <<finished, broken, streamOnce, closer>>
         /\ streamWorker'.task = streamWorker.task /\ Works({"waiting"})
         /\ (Works({"waiting"})' <=> ~broken /\ ChunksDone + 1 # TaskChunks)
         /\ (Works({"onDone"})' <=> broken \/ ChunksDone + 1 = TaskChunks)
         /\ streamWorker'.left = streamWorker.left - 1
<1>1. Works({"waiting"}) /\ streamWorker.left # 0 BY DEF ChunkStep, WorkerPlaced
<1>2. streamWorker.left \in 0 .. TaskChunks /\ TaskChunks \in Nat /\ ChunksDone = TaskChunks - streamWorker.left
      /\ Sent \in Seq(OnStream)
  BY StreamKinds DEF WorkerKind, ChunksDone
<1>3. ChunksDone + 1 \in 1 .. TaskChunks /\ (ChunksDone + 1 = TaskChunks <=> streamWorker.left - 1 = 0)
  BY <1>1, <1>2
<1>4. streamWorker.task \in 1 .. MaxWrites
  BY <1>1, StreamKinds DEF WorkerKind, TasksPlaced, Works, Busy
<1>5. m \in StreamChunks /\ m.task = streamWorker.task /\ m.chunk = ChunksDone + 1 BY <1>3, <1>4, ChunkFacts
<1> PICK n : n = streamWorker.left - 1 OBVIOUS
<1>6. Goes(n) BY DEF ChunkStep
<1>7. streamWorker'.left = n /\ streamWorker'.task = streamWorker.task BY <1>6 DEF Goes
<1>8. ChunksDone' = ChunksDone + 1 BY <1>2, <1>7 DEF ChunksDone
<1>9. (Works({"waiting"})' <=> ~broken /\ n # 0) /\ (Works({"onDone"})' <=> broken \/ n = 0)
  BY <1>6 DEF Goes, Works
<1>10. Sent' = Append(Sent, m) /\ UNCHANGED <<finished, broken, streamOnce, closer>>
  BY DEF ChunkStep, Publishes, FuseSame, TasksSame
<1> QED BY <1>1, <1>2, <1>3, <1>5, <1>7, <1>8, <1>9, <1>10

\* A closer sends the trailer, while the worker is outside writeStreamBytes.
LEMMA TrailerSent ==
  ASSUME StreamTyped, WorkerPlaced, FuseHeld, NEW c \in DS!Closers, TrailerStep(c)
  PROVE  /\ Sent \in Seq(OnStream) /\ Sent' = Append(Sent, DS!Trailer) /\ DS!Trailer \in OnStream
         /\ closer[c] = "lock" /\ closer'[c] = "break" /\ streamOnce # "new"
         /\ \A d \in DS!Closers : d # c => closer'[d] = closer[d] /\ closer'[d] # "lock"
         /\ UNCHANGED <<finished, broken, streamOnce, streamWorker>>
         /\ ~Works({"waiting"})
<1>1. FuseKinds BY TypedParts
<1>2. closer[c] = "lock" /\ closer' = [closer EXCEPT ![c] = "break"] /\ streamLock = "free"
  BY DEF TrailerStep
<1>3. streamOnce # "new" /\ \A d \in DS!Closers : closer[d] = "lock" => d = c
  BY <1>2 DEF FuseHeld, WithinOnce
<1>4. closer'[c] = "break" /\ \A d \in DS!Closers : d # c => closer'[d] = closer[d]
  BY <1>1, <1>2 DEF FuseKinds
<1>5. ~Works({"waiting"}) BY <1>2 DEF WorkerPlaced
<1>6. Sent \in Seq(OnStream) /\ DS!Trailer \in OnStream BY StreamKinds DEF OnStream
<1> QED BY <1>2, <1>3, <1>4, <1>5, <1>6 DEF TrailerStep, Publishes, TasksSame, WorkerSame

LEMMA DoneMoves ==
  ASSUME StreamTyped, DoneStep
  PROVE  /\ Sent' = Sent /\ UNCHANGED <<broken, streamOnce>>
         /\ finished' = finished \cup {streamWorker.task}
         /\ Works({"onDone"}) /\ ~(Works({"waiting", "onDone"})')
         /\ closer'["app"] = closer["app"] /\ closer'["engine"] = closer["engine"]
         /\ \A c \in DS!Closers : closer'[c] = "lock" => closer[c] = "lock"
<1>1. FuseKinds BY TypedParts
<1>2. "worker" \in DS!Closers /\ "app" \in DS!Closers /\ "engine" \in DS!Closers BY DEF DS!Closers
<1> QED BY <1>1, <1>2 DEF DoneStep, Sent, FuseKinds, Places, Works

LEMMA FuseMoves ==
  ASSUME StreamTyped, NEW c \in DS!Closers, FuseStep(c)
  PROVE  /\ Sent' = Sent /\ UNCHANGED <<finished, streamWorker>>
         /\ closer[c] # "idle" /\ closer'[c] # "idle"
         /\ \A d \in DS!Closers : d # c => closer'[d] = closer[d]
         /\ closer'[c] = "lock" => closer[c] = "once" /\ streamOnce = "new"
         /\ streamOnce' # "new" /\ (streamOnce' # streamOnce =>
              (closer[c] = "once" /\ streamOnce = "new") \/ closer[c] = "break")
         /\ ~broken' => (streamOnce = "new" /\ closer[c] = "once") \/ ~broken
<1>1. FuseKinds BY TypedParts
<1>2. Sent' = Sent /\ UNCHANGED <<finished, streamWorker>>
  BY DEF FuseStep, Sent, TasksSame, WorkerSame
<1>3. closer[c] # "idle" /\ closer'[c] # "idle"
      /\ \A d \in DS!Closers : d # c => closer'[d] = closer[d]
  BY <1>1 DEF FuseStep, FuseKinds
<1>4. closer'[c] = "lock" => closer[c] = "once" /\ streamOnce = "new" BY <1>1 DEF FuseStep, FuseKinds
<1>5. streamOnce' # "new" /\ (streamOnce' # streamOnce =>
              (closer[c] = "once" /\ streamOnce = "new") \/ closer[c] = "break")
  BY DEF FuseStep
<1>6. ~broken' => (streamOnce = "new" /\ closer[c] = "once") \/ ~broken BY DEF FuseStep
<1> QED BY <1>2, <1>3, <1>4, <1>5, <1>6

-----------------------------------------------------------------------------
(* The trailer.                                                            *)

LEMMA TrailerSteady ==
  ASSUME TrailerPlaced, Sent' = Sent,
         (streamOnce = "new" \/ \E c \in DS!Closers : closer[c] = "lock")
           \/ ~(streamOnce' = "new" \/ \E c \in DS!Closers : closer'[c] = "lock"),
         Works({"waiting"})' /\ ChunksDone' # 0 => Works({"waiting"}) /\ ChunksDone # 0
  PROVE  TrailerPlaced'
BY DEF TrailerPlaced

LEMMA TrailerHolds ==
  ASSUME StreamTyped, TasksPlaced, WorkerPlaced, FuseHeld, TrailerPlaced, StreamStep
  PROVE  TrailerPlaced'
<1>1. CASE LockStep
  <2>1. /\ Sent' = Sent /\ ChunksDone' = 0 /\ UNCHANGED <<streamOnce, closer>> BY <1>1, LockBegins
  <2> QED BY <2>1, TrailerSteady
<1>2. CASE ChunkStep
  <2> PICK m : m = DS!Chunk(streamWorker.task, ChunksDone + 1) OBVIOUS
  <2>1. /\ m \in StreamChunks /\ m.chunk = ChunksDone + 1 /\ Sent \in Seq(OnStream) /\ Sent' = Append(Sent, m)
        /\ UNCHANGED <<streamOnce, closer>> /\ Works({"waiting"})
    BY <1>2, ChunkSent
  <2>2. m # DS!Trailer /\ m \in OnStream BY <2>1, StreamMessages DEF OnStream
  <2> PICK s, t, n : s = Sent /\ t = Sent' /\ n = Len(Sent) OBVIOUS
  <2>3. /\ t # <<>> /\ n \in Nat /\ Len(t) = n + 1 /\ DOMAIN s = 1 .. n /\ DOMAIN t = 1 .. n + 1
        /\ (\A i \in DOMAIN s : t[i] = s[i]) /\ t[n + 1] = m
    BY <2>1, <2>2, AppendedTo
  <2>4. \A i \in DOMAIN t : t[i] = DS!Trailer => i \in DOMAIN s /\ s[i] = DS!Trailer BY <2>2, <2>3
  <2>5. ChunksDone # 0 => s # <<>> /\ s[n] # DS!Trailer BY <2>1 DEF TrailerPlaced
  <2>6. \A i, j \in DOMAIN s : s[i] = DS!Trailer /\ s[j] = DS!Trailer => i = j BY DEF TrailerPlaced
  <2>7. \A i \in DOMAIN s : s[i] = DS!Trailer /\ i + 1 \in DOMAIN s => s[i + 1].chunk = 1
    BY DEF TrailerPlaced
  <2>8. ChunksDone \in Nat BY DoneIs
  <2>9. \A i \in DOMAIN t : t[i] = DS!Trailer /\ i + 1 \in DOMAIN t => t[i + 1].chunk = 1
    <3> TAKE i \in DOMAIN t
    <3> HAVE t[i] = DS!Trailer /\ i + 1 \in DOMAIN t
    <3>1. i \in DOMAIN s /\ s[i] = DS!Trailer BY <2>4
    <3>2. CASE i + 1 \in DOMAIN s BY <2>3, <2>7, <3>1, <3>2
    <3>3. CASE i = n
      <4>1. ChunksDone = 0 BY <2>5, <3>1, <3>3
      <4> QED BY <2>1, <2>3, <2>8, <3>3, <4>1
    <3> QED BY <2>3, <3>1, <3>2, <3>3
  <2>10. \A i, j \in DOMAIN t : t[i] = DS!Trailer /\ t[j] = DS!Trailer => i = j BY <2>4, <2>6
  <2>11. (streamOnce = "new" \/ \E c \in DS!Closers : closer[c] = "lock") =>
           \A i \in DOMAIN t : t[i] # DS!Trailer
    BY <2>4 DEF TrailerPlaced
  <2> QED BY <2>1, <2>2, <2>3, <2>9, <2>10, <2>11 DEF TrailerPlaced
<1>3. CASE DoneStep
  <2>1. /\ Sent' = Sent /\ UNCHANGED streamOnce /\ ~(Works({"waiting", "onDone"})')
        /\ \A c \in DS!Closers : closer'[c] = "lock" => closer[c] = "lock"
    BY <1>3, DoneMoves
  <2> QED BY <2>1, TrailerSteady DEF Works
<1>4. CASE Quiet
  <2>1. (\E c \in DS!Closers : closer'[c] = "lock") => \E c \in DS!Closers : closer[c] = "lock"
    BY <1>4 DEF Quiet
  <2>2. Works({"waiting"})' /\ ChunksDone' # 0 => Works({"waiting"}) /\ ChunksDone # 0
    BY <1>4 DEF Quiet, Works, WorkerSame, ChunksDone
  <2> QED BY <1>4, <2>1, <2>2, TrailerSteady DEF Quiet
<1>5. ASSUME NEW c \in DS!Closers, FuseStep(c) PROVE TrailerPlaced'
  <2>1. Sent' = Sent /\ UNCHANGED streamWorker /\ streamOnce' # "new" BY <1>5, FuseMoves
  <2>2. (\E d \in DS!Closers : closer'[d] = "lock") =>
          streamOnce = "new" \/ \E d \in DS!Closers : closer[d] = "lock"
    BY <1>5, FuseMoves
  <2>3. Works({"waiting"})' /\ ChunksDone' # 0 => Works({"waiting"}) /\ ChunksDone # 0 BY <2>1 DEF Works, ChunksDone
  <2> QED BY <2>1, <2>2, <2>3, TrailerSteady
<1>6. ASSUME NEW c \in DS!Closers, TrailerStep(c) PROVE TrailerPlaced'
  <2>1. /\ Sent \in Seq(OnStream) /\ Sent' = Append(Sent, DS!Trailer) /\ DS!Trailer \in OnStream
        /\ closer[c] = "lock" /\ closer'[c] = "break" /\ streamOnce # "new" /\ UNCHANGED streamOnce
        /\ \A d \in DS!Closers : d # c => closer'[d] # "lock"
        /\ UNCHANGED streamWorker /\ ~Works({"waiting"})
    BY <1>6, TrailerSent
  <2> PICK s, t, n : s = Sent /\ t = Sent' /\ n = Len(Sent) OBVIOUS
  <2>2. /\ n \in Nat /\ DOMAIN s = 1 .. n /\ DOMAIN t = 1 .. n + 1
        /\ (\A i \in DOMAIN s : t[i] = s[i]) /\ t[n + 1] = DS!Trailer
    BY <2>1, AppendedTo
  <2>3. \A i \in DOMAIN s : s[i] # DS!Trailer BY <2>1 DEF TrailerPlaced
  <2>4. \A i \in DOMAIN t : t[i] = DS!Trailer => i = n + 1 BY <2>2, <2>3
  <2>5. \A i \in DOMAIN t : ~(t[i] = DS!Trailer /\ i + 1 \in DOMAIN t) BY <2>2, <2>4
  <2>6. ~(streamOnce' = "new" \/ \E d \in DS!Closers : closer'[d] = "lock") BY <2>1
  <2>7. ~(Works({"waiting"})') BY <2>1 DEF Works
  <2> QED BY <2>4, <2>5, <2>6, <2>7 DEF TrailerPlaced
<1> QED BY <1>1, <1>2, <1>3, <1>4, <1>5, <1>6, QuietSteps

-----------------------------------------------------------------------------
(* The chunks.                                                             *)

LEMMA PiecesSteady ==
  ASSUME PiecesPlaced, Sent' = Sent, finished \subseteq finished',
         \A i \in DOMAIN Sent : Sent[i] # DS!Trailer =>
           \/ Sent[i].task \in finished'
           \/ Works({"waiting", "onDone"})' /\ Sent[i].task = streamWorker'.task,
         Works({"waiting"})' => \A i \in DOMAIN Sent :
           Sent[i] # DS!Trailer /\ Sent[i].task = streamWorker'.task => Sent[i].chunk <= ChunksDone'
  PROVE  PiecesPlaced'
<1> USE DEF Sent
<1>1. \A i \in DOMAIN Sent' : Sent'[i] # DS!Trailer =>
        \/ Sent'[i].task \in finished'
        \/ Works({"waiting", "onDone"})' /\ Sent'[i].task = streamWorker'.task
  OBVIOUS
<1>2. Works({"waiting"})' => \A i \in DOMAIN Sent' :
        Sent'[i] # DS!Trailer /\ Sent'[i].task = streamWorker'.task => Sent'[i].chunk <= ChunksDone'
  OBVIOUS
<1>3. \A i, j \in DOMAIN Sent' : Sent'[i] = Sent'[j] => i = j BY DEF PiecesPlaced
<1> QED BY <1>1, <1>2, <1>3 DEF PiecesPlaced

LEMMA PiecesHold ==
  ASSUME StreamTyped, TasksPlaced, WorkerPlaced, FuseHeld, TrailerPlaced, PiecesPlaced, StreamStep
  PROVE  PiecesPlaced'
<1>1. CASE LockStep
  <2>1. /\ Sent' = Sent /\ ChunksDone' = 0 /\ UNCHANGED finished /\ Works({"taken"})
        /\ streamWorker'.task = streamWorker.task
    BY <1>1, LockBegins
  <2>2. \A i \in DOMAIN Sent : Sent[i] # DS!Trailer => Sent[i].task \in finished
    BY <2>1 DEF PiecesPlaced, Works
  <2>3. streamWorker.task \notin finished BY <2>1 DEF TasksPlaced, Works, Busy
  <2> QED BY <2>1, <2>2, <2>3, PiecesSteady
<1>2. CASE ChunkStep
  <2> PICK m : m = DS!Chunk(streamWorker.task, ChunksDone + 1) OBVIOUS
  <2>1. /\ m \in StreamChunks /\ m.task = streamWorker.task /\ m.chunk = ChunksDone + 1
        /\ Sent \in Seq(OnStream) /\ Sent' = Append(Sent, m) /\ ChunksDone' = ChunksDone + 1
        /\ UNCHANGED finished /\ streamWorker'.task = streamWorker.task /\ Works({"waiting"})
        /\ (Works({"waiting"})' \/ Works({"onDone"})')
    BY <1>2, ChunkSent
  <2>2. m # DS!Trailer /\ m \in OnStream BY <2>1, StreamMessages DEF OnStream
  <2> PICK s, t, n : s = Sent /\ t = Sent' /\ n = Len(Sent) OBVIOUS
  <2>3. /\ n \in Nat /\ DOMAIN s = 1 .. n /\ DOMAIN t = 1 .. n + 1
        /\ (\A i \in DOMAIN s : t[i] = s[i]) /\ t[n + 1] = m
    BY <2>1, <2>2, AppendedTo
  <2>4. Works({"waiting", "onDone"})' BY <2>1 DEF Works
  <2>5. \A i \in DOMAIN s : s[i] # DS!Trailer => s[i].task \in finished \/ s[i].task = streamWorker.task
    BY DEF PiecesPlaced
  <2>6. \A i \in DOMAIN s : s[i] # DS!Trailer /\ s[i].task = streamWorker.task => s[i].chunk <= ChunksDone
    BY <2>1 DEF PiecesPlaced
  <2>7. \A i, j \in DOMAIN s : s[i] = s[j] => i = j BY DEF PiecesPlaced
  <2>8. \A i \in DOMAIN s : s[i] # DS!Trailer => s[i].chunk \in Nat
    <3> TAKE i \in DOMAIN s
    <3>1. s[i] \in OnStream BY <2>1, <2>3, ElementOfSeq
    <3> QED BY <3>1, StreamMessages DEF StreamChunks
  <2>9. ChunksDone \in Nat BY DoneIs
  <2>10. \A i \in DOMAIN s : s[i] # m BY <2>1, <2>2, <2>6, <2>8, <2>9
  <2>11. \A i, j \in DOMAIN t : t[i] = t[j] => i = j BY <2>3, <2>7, <2>10
  <2>12. \A i \in DOMAIN t : t[i] # DS!Trailer => t[i].task \in finished \/ t[i].task = streamWorker.task
    BY <2>1, <2>3, <2>5
  <2>13. \A i \in DOMAIN t : t[i] # DS!Trailer /\ t[i].task = streamWorker.task => t[i].chunk <= ChunksDone + 1
    <3> TAKE i \in DOMAIN t
    <3> HAVE t[i] # DS!Trailer /\ t[i].task = streamWorker.task
    <3>1. CASE i \in DOMAIN s
      <4>1. s[i].chunk \in Nat /\ s[i].chunk <= ChunksDone /\ t[i] = s[i] BY <2>3, <2>6, <2>8, <3>1
      <4> QED BY <2>9, <4>1
    <3>2. CASE i = n + 1 BY <2>1, <2>3, <2>9, <3>2
    <3> QED BY <2>3, <3>1, <3>2
  <2> QED BY <2>1, <2>4, <2>11, <2>12, <2>13 DEF PiecesPlaced
<1>3. CASE DoneStep
  <2>1. /\ Sent' = Sent /\ finished' = finished \cup {streamWorker.task} /\ Works({"onDone"})
        /\ ~(Works({"waiting", "onDone"})')
    BY <1>3, DoneMoves
  <2>2. \A i \in DOMAIN Sent : Sent[i] # DS!Trailer => Sent[i].task \in finished'
    BY <2>1 DEF PiecesPlaced
  <2>3. ~(Works({"waiting"})') BY <2>1 DEF Works
  <2> QED BY <2>1, <2>2, <2>3, PiecesSteady
<1>4. CASE Quiet
  <2>1. Sent' = Sent /\ UNCHANGED finished BY <1>4 DEF Quiet
  <2>2. CASE WorkerSame
    <3>1. UNCHANGED streamWorker BY <2>2 DEF WorkerSame
    <3> QED BY <2>1, <3>1, PiecesSteady DEF Works, ChunksDone, PiecesPlaced
  <2>3. CASE ~WorkerSame
    <3>1. ~(Works({"waiting", "onDone"})') BY <1>4, <2>3 DEF Quiet
    <3>2. ~(Works({"waiting"})') BY <3>1 DEF Works
    <3>3. \A i \in DOMAIN Sent : Sent[i] # DS!Trailer => Sent[i].task \in finished
      BY <1>4, <2>3 DEF Quiet, PiecesPlaced
    <3> QED BY <2>1, <3>2, <3>3, PiecesSteady
  <2> QED BY <2>2, <2>3
<1>5. ASSUME NEW c \in DS!Closers, FuseStep(c) PROVE PiecesPlaced'
  <2>1. Sent' = Sent /\ UNCHANGED <<finished, streamWorker>> BY <1>5, FuseMoves
  <2> QED BY <2>1, PiecesSteady DEF Works, ChunksDone, PiecesPlaced
<1>6. ASSUME NEW c \in DS!Closers, TrailerStep(c) PROVE PiecesPlaced'
  <2>1. /\ Sent \in Seq(OnStream) /\ Sent' = Append(Sent, DS!Trailer) /\ DS!Trailer \in OnStream
        /\ closer[c] = "lock" /\ UNCHANGED <<finished, streamWorker>>
    BY <1>6, TrailerSent
  <2> PICK s, t, n : s = Sent /\ t = Sent' /\ n = Len(Sent) OBVIOUS
  <2>2. /\ n \in Nat /\ DOMAIN s = 1 .. n /\ DOMAIN t = 1 .. n + 1
        /\ (\A i \in DOMAIN s : t[i] = s[i]) /\ t[n + 1] = DS!Trailer
    BY <2>1, AppendedTo
  <2>3. \A i \in DOMAIN s : s[i] # DS!Trailer BY <2>1 DEF TrailerPlaced
  <2>4. \A i \in DOMAIN t : t[i] # DS!Trailer => i \in DOMAIN s /\ t[i] = s[i] BY <2>2
  <2>5. \A i, j \in DOMAIN t : t[i] = t[j] => i = j
    <3>1. \A i, j \in DOMAIN s : s[i] = s[j] => i = j BY DEF PiecesPlaced
    <3> QED BY <2>2, <2>3, <3>1
  <2>6. \A i \in DOMAIN t : t[i] # DS!Trailer =>
          \/ t[i].task \in finished
          \/ Works({"waiting", "onDone"})' /\ t[i].task = streamWorker'.task
    BY <2>1, <2>4 DEF PiecesPlaced, Works
  <2>7. Works({"waiting"})' => \A i \in DOMAIN t :
          t[i] # DS!Trailer /\ t[i].task = streamWorker'.task => t[i].chunk <= ChunksDone'
    BY <2>1, <2>4 DEF PiecesPlaced, Works, ChunksDone
  <2> QED BY <2>1, <2>5, <2>6, <2>7 DEF PiecesPlaced
<1> QED BY <1>1, <1>2, <1>3, <1>4, <1>5, <1>6, QuietSteps

-----------------------------------------------------------------------------
(* What was written.                                                       *)

LEMMA WrittenSteady ==
  ASSUME NEW t, NEW n, Written(t, n), Sent' = Sent
  PROVE  Written(t, n)'
BY DEF Written

LEMMA WrittenAppend ==
  ASSUME NEW m \in OnStream, Sent \in Seq(OnStream), Sent' = Append(Sent, m), NEW t, NEW n, Written(t, n)
  PROVE  Written(t, n)'
<1> PICK s, u : s = Sent /\ u = Sent' OBVIOUS
<1>1. DOMAIN s \subseteq DOMAIN u /\ \A i \in DOMAIN s : u[i] = s[i]
  <2>1. /\ Len(s) \in Nat /\ DOMAIN s = 1 .. Len(s) /\ DOMAIN u = 1 .. Len(s) + 1
        /\ \A i \in DOMAIN s : u[i] = s[i]
    BY AppendedTo
  <2> QED BY <2>1
<1>2. \A k \in 1 .. n : \E i \in DOMAIN s : s[i] = DS!Chunk(t, k) BY DEF Written
<1>3. \A k \in 1 .. n : \E i \in DOMAIN u : u[i] = DS!Chunk(t, k) BY <1>1, <1>2
<1> QED BY <1>3 DEF Written

LEMMA WrittenHolds ==
  ASSUME StreamTyped, TasksPlaced, WorkerPlaced, FuseHeld, WrittenUnbroken, StreamStep
  PROVE  WrittenUnbroken'
<1>0. StreamTyped' BY TypedStep
<1> SUFFICES ASSUME ~broken' PROVE WrittenUnbroken' BY DEF WrittenUnbroken
<1>1. CASE LockStep
  <2>1. /\ Sent' = Sent /\ ChunksDone' = 0 /\ UNCHANGED <<finished, broken>> /\ ~(Works({"onDone"})')
        /\ streamWorker'.left = TaskChunks
    BY <1>1, LockBegins
  <2>2. \A t \in finished' : Written(t, TaskChunks)'
    BY <2>1, WrittenSteady DEF WrittenUnbroken
  <2>3. Written(streamWorker.task, ChunksDone)'
    <3>1. \A k \in 1 .. ChunksDone' : FALSE BY <2>1
    <3> QED BY <3>1 DEF Written
  <2> QED BY <2>1, <2>2, <2>3 DEF WrittenUnbroken
<1>2. CASE ChunkStep
  <2> PICK m : m = DS!Chunk(streamWorker.task, ChunksDone + 1) OBVIOUS
  <2>1. /\ m \in StreamChunks /\ m.task = streamWorker.task /\ m.chunk = ChunksDone + 1
        /\ Sent \in Seq(OnStream) /\ Sent' = Append(Sent, m) /\ ChunksDone' = ChunksDone + 1
        /\ UNCHANGED <<finished, broken>> /\ streamWorker'.task = streamWorker.task
        /\ Works({"waiting"}) /\ (Works({"onDone"})' => broken \/ ChunksDone + 1 = TaskChunks)
    BY <1>2, ChunkSent
  <2>2. m \in OnStream BY <2>1 DEF OnStream
  <2>3. \A t \in finished' : Written(t, TaskChunks)'
    BY <2>1, <2>2, WrittenAppend DEF WrittenUnbroken
  <2>4. Written(streamWorker.task, ChunksDone)'
    <3> PICK s, u, n, d, w : s = Sent /\ u = Sent' /\ n = Len(Sent) /\ d = ChunksDone /\ w = streamWorker.task
      OBVIOUS
    <3>1. /\ n \in Nat /\ DOMAIN s = 1 .. n /\ DOMAIN u = 1 .. n + 1
          /\ (\A i \in DOMAIN s : u[i] = s[i]) /\ u[n + 1] = m
      BY <2>1, <2>2, AppendedTo
    <3>2. \A k \in 1 .. d : \E i \in DOMAIN s : s[i] = DS!Chunk(w, k)
      BY <2>1 DEF WrittenUnbroken, Written, Works
    <3>3. d \in Nat BY DoneIs
    <3>4. \A k \in 1 .. d + 1 : \E i \in DOMAIN u : u[i] = DS!Chunk(w, k)
      <4> TAKE k \in 1 .. d + 1
      <4>1. CASE k \in 1 .. d
        <5>1. PICK i \in DOMAIN s : s[i] = DS!Chunk(w, k) BY <3>2, <4>1
        <5> QED BY <3>1, <5>1
      <4>2. CASE k = d + 1
        <5>1. n + 1 \in DOMAIN u /\ u[n + 1] = DS!Chunk(w, k) BY <3>1, <4>2
        <5> QED BY <5>1
      <4> QED BY <3>3, <4>1, <4>2
    <3>5. \A k \in 1 .. ChunksDone' : \E i \in DOMAIN u : u[i] = DS!Chunk(w, k) BY <2>1, <3>4
    <3> QED BY <2>1, <3>5 DEF Written
  <2>5. Works({"onDone"})' => streamWorker'.left = 0
    <3>1. Works({"onDone"})' => ChunksDone' = TaskChunks BY <2>1
    <3>2. streamWorker'.left \in 0 .. TaskChunks /\ TaskChunks \in Nat
      <4>1. (StreamTyped => streamWorker \in WorkerKind)' BY StreamKinds, PTL
      <4>2. streamWorker'.left \in 0 .. TaskChunks BY <1>0, <4>1 DEF WorkerKind
      <4> QED BY <4>2, StreamKinds
    <3>3. ChunksDone' = TaskChunks - streamWorker'.left BY DEF ChunksDone
    <3> QED BY <3>1, <3>2, <3>3
  <2> QED BY <2>1, <2>3, <2>4, <2>5 DEF WrittenUnbroken
<1>3. CASE DoneStep
  <2>1. /\ Sent' = Sent /\ finished' = finished \cup {streamWorker.task} /\ Works({"onDone"})
        /\ ~(Works({"waiting", "onDone"})') /\ UNCHANGED broken
    BY <1>3, DoneMoves
  <2>2. ChunksDone = TaskChunks BY <2>1, DoneIs DEF WrittenUnbroken
  <2>3. Written(streamWorker.task, TaskChunks) BY <2>1, <2>2 DEF WrittenUnbroken, Works
  <2>4. \A t \in finished' : Written(t, TaskChunks) BY <2>1, <2>3 DEF WrittenUnbroken
  <2>5. \A t \in finished' : Written(t, TaskChunks)' BY <2>1, <2>4, WrittenSteady
  <2> QED BY <2>1, <2>5 DEF WrittenUnbroken, Works
<1>4. CASE Quiet
  <2>1. Sent' = Sent /\ UNCHANGED <<finished, broken>> BY <1>4 DEF Quiet
  <2>2. \A t \in finished' : Written(t, TaskChunks)' BY <2>1, WrittenSteady DEF WrittenUnbroken
  <2>3. CASE WorkerSame
    <3>1. UNCHANGED streamWorker /\ ChunksDone' = ChunksDone BY <2>3 DEF WorkerSame, ChunksDone
    <3>2. Works({"waiting", "onDone"})' => Written(streamWorker.task, ChunksDone)'
      BY <2>1, <3>1 DEF WrittenUnbroken, Written, Works
    <3> QED BY <2>1, <2>2, <3>1, <3>2 DEF WrittenUnbroken, Works
  <2>4. CASE ~(Works({"waiting", "onDone"})') BY <2>2, <2>4 DEF WrittenUnbroken, Works
  <2> QED BY <1>4, <2>3, <2>4 DEF Quiet
<1>5. ASSUME NEW c \in DS!Closers, FuseStep(c) PROVE WrittenUnbroken'
  <2>1. /\ Sent' = Sent /\ UNCHANGED <<finished, streamWorker>>
        /\ (streamOnce = "new" /\ closer[c] = "once") \/ ~broken
    BY <1>5, FuseMoves
  <2>2. ~broken BY <2>1 DEF FuseHeld
  <2>3. \A t \in finished' : Written(t, TaskChunks)' BY <2>1, <2>2, WrittenSteady DEF WrittenUnbroken
  <2>4. ChunksDone' = ChunksDone BY <2>1 DEF ChunksDone
  <2>5. Works({"waiting", "onDone"})' => Written(streamWorker.task, ChunksDone)'
    BY <2>1, <2>2, <2>4 DEF WrittenUnbroken, Written, Works
  <2> QED BY <2>1, <2>2, <2>3, <2>5 DEF WrittenUnbroken, Works
<1>6. ASSUME NEW c \in DS!Closers, TrailerStep(c) PROVE WrittenUnbroken'
  <2>1. /\ Sent \in Seq(OnStream) /\ Sent' = Append(Sent, DS!Trailer) /\ DS!Trailer \in OnStream
        /\ UNCHANGED <<finished, broken, streamWorker>> /\ ~Works({"waiting"})
    BY <1>6, TrailerSent
  <2>2. \A t, n : Written(t, n) => Written(t, n)' BY <2>1, WrittenAppend
  <2>3. \A t \in finished' : Written(t, TaskChunks)' BY <2>1, <2>2 DEF WrittenUnbroken
  <2>4. ChunksDone' = ChunksDone BY <2>1 DEF ChunksDone
  <2>5. Works({"onDone"}) => Written(streamWorker.task, ChunksDone) BY <2>1 DEF WrittenUnbroken, Works
  <2>6. PICK w, d : w = streamWorker.task /\ d = ChunksDone OBVIOUS
  <2>7. Written(w, d) => Written(w, d)' BY <2>2
  <2>8. Written(w, d)' => Written(streamWorker.task, ChunksDone)' BY <2>1, <2>4, <2>6 DEF Written
  <2> QED BY <2>1, <2>3, <2>5, <2>6, <2>7, <2>8 DEF WrittenUnbroken, Works
<1> QED BY <1>1, <1>2, <1>3, <1>4, <1>5, <1>6, QuietSteps

-----------------------------------------------------------------------------
(* The order of what was sent.                                             *)

LEMMA OrderSteady ==
  ASSUME SentInOrder, Sent' = Sent, finished \subseteq finished',
         Works({"waiting"}) => Works({"waiting"})' /\ ChunksDone' = ChunksDone /\ streamWorker'.task = streamWorker.task,
         Works({"waiting"})' /\ ChunksDone' # 0 => Works({"waiting"}),
         streamOnce' # "new" => streamOnce # "new" /\ ~(Works({"waiting"})')
  PROVE  SentInOrder'
<1> PICK s, t : s = Sent /\ t = Sent' OBVIOUS
<1>1. t = s OBVIOUS
<1>2. \A i \in DOMAIN t :
       /\ t[i] = DS!Trailer => i = Len(t)
       /\ t[i] # DS!Trailer /\ t[i].chunk # TaskChunks =>
            \/ i + 1 \in DOMAIN t /\ t[i + 1] = DS!Chunk(t[i].task, t[i].chunk + 1)
            \/ i = Len(t) /\ Works({"waiting"}) /\ t[i] = DS!Chunk(streamWorker.task, ChunksDone)
       /\ t[i] # DS!Trailer /\ t[i].chunk = TaskChunks /\ i + 1 \in DOMAIN t =>
            t[i + 1] = DS!Trailer \/ t[i + 1].chunk = 1
  BY <1>1 DEF SentInOrder
<1>3. Works({"waiting"}) => DS!Chunk(streamWorker.task, ChunksDone) = DS!Chunk(streamWorker.task, ChunksDone)'
  BY DEF DS!Chunk
<1>4. \A i \in DOMAIN t : t[i] # DS!Trailer /\ t[i].chunk # TaskChunks =>
            \/ i + 1 \in DOMAIN t /\ t[i + 1] = DS!Chunk(t[i].task, t[i].chunk + 1)
            \/ i = Len(t) /\ Works({"waiting"})' /\ t[i] = DS!Chunk(streamWorker.task, ChunksDone)'
  BY <1>2, <1>3
<1>5. t # <<>> => t[1] # DS!Trailer /\ t[1].chunk = 1 BY <1>1 DEF SentInOrder
<1>6. Works({"waiting"})' /\ ChunksDone' # 0 => t # <<>> /\ t[Len(t)] = DS!Chunk(streamWorker.task, ChunksDone)'
  BY <1>1, <1>3 DEF SentInOrder
<1>7. streamOnce' # "new" =>
         /\ ~(Works({"waiting"})') /\ t # <<>>
         /\ \A i \in DOMAIN t : t[i] # DS!Trailer => t[i].task \in finished'
  BY <1>1 DEF SentInOrder
<1> QED BY <1>2, <1>4, <1>5, <1>6, <1>7 DEF SentInOrder

LEMMA OrderHolds ==
  ASSUME StreamTyped, TasksPlaced, WorkerPlaced, FuseHeld, TrailerPlaced, PiecesPlaced,
         WrittenUnbroken, InOrder, StreamStep
  PROVE  InOrder'
<1> SUFFICES ASSUME Undisturbed' PROVE SentInOrder' BY DEF InOrder
<1>0. "app" \in DS!Closers /\ "engine" \in DS!Closers /\ "worker" \in DS!Closers
      /\ \A c \in DS!Closers : c \in {"app", "engine", "worker"}
  BY DEF DS!Closers
<1>1. CASE LockStep
  <2>1. /\ Sent' = Sent /\ ChunksDone' = 0 /\ UNCHANGED <<finished, streamOnce, closer>> /\ Works({"taken"})
        /\ (Works({"waiting"})' <=> ~broken)
    BY <1>1, LockBegins
  <2>2. SentInOrder BY <2>1 DEF InOrder, Undisturbed
  <2>3. closer["app"] = "idle" /\ closer["engine"] = "idle" BY <2>1 DEF Undisturbed
  <2>4. closer["worker"] \notin WithinOnce BY <2>1 DEF WorkerPlaced, WithinOnce, Works
  <2>5. streamOnce # "running" BY <1>0, <2>3, <2>4 DEF FuseHeld, WithinOnce
  <2>6. streamOnce \in {"new", "running", "done"} BY TypedParts DEF FuseKinds
  <2>7. streamOnce # "new" => broken BY <2>5, <2>6 DEF FuseHeld
  <2>8. ~Works({"waiting"}) BY <2>1 DEF Works
  <2> QED BY <2>1, <2>2, <2>7, <2>8, OrderSteady
<1>2. CASE ChunkStep
  <2> PICK m, w, d : m = DS!Chunk(streamWorker.task, ChunksDone + 1) /\ w = streamWorker.task /\ d = ChunksDone
    OBVIOUS
  <2>1. /\ m \in StreamChunks /\ m.task = w /\ m.chunk = d + 1
        /\ Sent \in Seq(OnStream) /\ Sent' = Append(Sent, m) /\ ChunksDone' = d + 1
        /\ d + 1 \in 1 .. TaskChunks
        /\ UNCHANGED <<finished, broken, streamOnce, closer>> /\ streamWorker'.task = w
        /\ Works({"waiting"}) /\ (Works({"waiting"})' <=> ~broken /\ d + 1 # TaskChunks)
    BY <1>2, ChunkSent
  <2>2. SentInOrder BY <2>1 DEF InOrder, Undisturbed
  <2>3. streamOnce = "new" /\ ~broken BY <2>1, <2>2 DEF SentInOrder, FuseHeld
  <2>4. m # DS!Trailer /\ m \in OnStream BY <2>1, StreamMessages DEF OnStream
  <2> PICK s, t, n : s = Sent /\ t = Sent' /\ n = Len(Sent) OBVIOUS
  <2>5. /\ t # <<>> /\ n \in Nat /\ Len(t) = n + 1 /\ DOMAIN s = 1 .. n /\ DOMAIN t = 1 .. n + 1
        /\ (\A i \in DOMAIN s : t[i] = s[i]) /\ t[n + 1] = m
    BY <2>1, <2>4, AppendedTo
  <2>6. \A i \in DOMAIN s : s[i] # DS!Trailer BY <2>3 DEF TrailerPlaced
  <2>7. \A i \in DOMAIN t : t[i] # DS!Trailer BY <2>4, <2>5, <2>6
  <2>8. \A i \in DOMAIN s :
          /\ s[i].chunk # TaskChunks =>
               \/ i + 1 \in DOMAIN s /\ s[i + 1] = DS!Chunk(s[i].task, s[i].chunk + 1)
               \/ i = n /\ s[i] = DS!Chunk(w, d)
          /\ s[i].chunk = TaskChunks /\ i + 1 \in DOMAIN s => s[i + 1].chunk = 1
    BY <2>2, <2>5, <2>6 DEF SentInOrder
  <2>9. d # 0 => n # 0 /\ s[n] = DS!Chunk(w, d) BY <2>1, <2>2, <2>5, EmptySeq DEF SentInOrder
  <2>10. m = DS!Chunk(w, d + 1) BY <2>1
  <2>11. DS!Chunk(w, d).task = w /\ DS!Chunk(w, d).chunk = d BY ChunkFacts
  <2>12. \A i \in DOMAIN t : t[i].chunk # TaskChunks =>
            \/ i + 1 \in DOMAIN t /\ t[i + 1] = DS!Chunk(t[i].task, t[i].chunk + 1)
            \/ i = Len(t) /\ Works({"waiting"})' /\ t[i] = DS!Chunk(w, d + 1)
    <3> TAKE i \in DOMAIN t
    <3> HAVE t[i].chunk # TaskChunks
    <3>1. CASE i = n + 1 BY <2>1, <2>3, <2>5, <2>10, <3>1
    <3>2. CASE i \in DOMAIN s /\ i + 1 \in DOMAIN s
      <4>1. s[i + 1] = DS!Chunk(s[i].task, s[i].chunk + 1) \/ i = n BY <2>5, <2>8, <3>2
      <4> QED BY <2>5, <3>2, <4>1
    <3>3. CASE i = n /\ i \in DOMAIN s
      <4>1. t[i] = DS!Chunk(w, d) BY <2>5, <2>8, <3>3
      <4>2. t[i].task = w /\ t[i].chunk = d BY <2>11, <4>1
      <4> QED BY <2>5, <2>10, <3>3, <4>2
    <3> QED BY <2>5, <3>1, <3>2, <3>3
  <2>13. \A i \in DOMAIN t : t[i].chunk = TaskChunks /\ i + 1 \in DOMAIN t => t[i + 1].chunk = 1
    <3> TAKE i \in DOMAIN t
    <3> HAVE t[i].chunk = TaskChunks /\ i + 1 \in DOMAIN t
    <3>1. CASE i + 1 \in DOMAIN s BY <2>5, <2>8, <3>1
    <3>2. CASE i = n
      <4>1. i \in DOMAIN s /\ s[n].chunk = TaskChunks BY <2>5, <3>2
      <4>2. s[n] = DS!Chunk(w, d) => d = TaskChunks BY <2>11, <4>1
      <4>3. TaskChunks \in Nat /\ d \in Nat BY DoneIs
      <4>4. d # TaskChunks BY <2>1, <4>3
      <4>5. d = 0 BY <2>9, <4>2, <4>4
      <4> QED BY <2>1, <2>5, <3>2, <4>5
    <3> QED BY <2>5, <3>1, <3>2
  <2>14. t[1].chunk = 1
    <3>1. CASE n = 0 BY <2>1, <2>5, <2>9, <3>1
    <3>2. CASE n # 0
      <4>1. s # <<>> /\ 1 \in DOMAIN s BY <2>5, <3>2
      <4> QED BY <2>2, <2>5, <4>1 DEF SentInOrder
    <3> QED BY <3>1, <3>2
  <2>15. DS!Chunk(streamWorker.task, ChunksDone)' = DS!Chunk(w, d + 1) BY <2>1 DEF DS!Chunk
  <2>16. 1 \in DOMAIN t BY <2>5
  <2> QED BY <2>1, <2>3, <2>5, <2>7, <2>10, <2>12, <2>13, <2>14, <2>15, <2>16 DEF SentInOrder
<1>3. CASE DoneStep
  <2>1. /\ Sent' = Sent /\ finished' = finished \cup {streamWorker.task} /\ Works({"onDone"})
        /\ ~(Works({"waiting", "onDone"})') /\ UNCHANGED streamOnce
        /\ closer'["app"] = closer["app"] /\ closer'["engine"] = closer["engine"]
    BY <1>3, DoneMoves
  <2>2. SentInOrder BY <2>1 DEF InOrder, Undisturbed
  <2> QED BY <2>1, <2>2, OrderSteady DEF Works
<1>4. CASE Quiet
  <2>1. Sent' = Sent /\ UNCHANGED <<finished, streamOnce>> BY <1>4 DEF Quiet
  <2>2. SentInOrder BY <1>0, <1>4 DEF InOrder, Undisturbed, Quiet
  <2>3. CASE WorkerSame
    <3>1. UNCHANGED streamWorker /\ ChunksDone' = ChunksDone BY <2>3 DEF WorkerSame, ChunksDone
    <3>2. streamOnce' # "new" => streamOnce # "new" /\ ~(Works({"waiting"})')
      BY <2>1, <2>2, <3>1 DEF SentInOrder, Works
    <3> QED BY <2>1, <2>2, <3>1, <3>2, OrderSteady DEF Works
  <2>4. CASE ~Works({"waiting", "onDone"}) /\ ~(Works({"waiting", "onDone"})')
    BY <2>1, <2>2, <2>4, OrderSteady DEF Works
  <2> QED BY <1>4, <2>3, <2>4 DEF Quiet
<1>5. ASSUME NEW c \in DS!Closers, FuseStep(c) PROVE SentInOrder'
  <2>1. /\ Sent' = Sent /\ UNCHANGED <<finished, streamWorker>>
        /\ closer[c] # "idle" /\ closer'[c] # "idle"
        /\ \A d \in DS!Closers : d # c => closer'[d] = closer[d]
        /\ streamOnce' # "new"
        /\ (streamOnce' # streamOnce =>
              (closer[c] = "once" /\ streamOnce = "new") \/ closer[c] = "break")
    BY <1>5, FuseMoves
  <2>2. c = "worker" BY <1>0, <2>1 DEF Undisturbed
  <2>3. SentInOrder BY <1>0, <2>1, <2>2 DEF InOrder, Undisturbed
  <2>4. ChunksDone' = ChunksDone BY <2>1 DEF ChunksDone
  <2>5. CASE streamOnce # "new"
    <3>1. ~Works({"waiting"}) BY <2>3, <2>5 DEF SentInOrder
    <3> QED BY <2>1, <2>3, <2>4, <2>5, <3>1, OrderSteady DEF Works
  <2>6. CASE streamOnce = "new"
    <3>1. closer[c] = "once"
      BY <2>1, <2>6 DEF FuseHeld
    <3>2. Works({"closing"}) /\ streamWorker.task \in finished
      BY <2>2, <3>1 DEF WorkerPlaced, TasksPlaced
    <3>3. ~Works({"waiting"}) /\ \A i \in DOMAIN Sent : Sent[i] # DS!Trailer => Sent[i].task \in finished
      BY <3>2 DEF PiecesPlaced, Works
    <3>4. Sent # <<>>
      <4>1. ~broken BY <2>6 DEF FuseHeld
      <4>2. Written(streamWorker.task, TaskChunks) BY <3>2, <4>1 DEF WrittenUnbroken
      <4>3. 1 \in 1 .. TaskChunks BY StreamKinds
      <4>4. DOMAIN Sent # {} BY <4>2, <4>3 DEF Written
      <4>5. Sent \in Seq(OnStream) BY StreamKinds
      <4>6. Len(Sent) \in Nat /\ DOMAIN Sent = 1 .. Len(Sent) /\ (Sent = <<>> => Len(Sent) = 0)
        BY <4>5, LenProperties, EmptySeq
      <4> QED BY <4>4, <4>6
    <3> PICK s, t : s = Sent /\ t = Sent' OBVIOUS
    <3>5. \A i \in DOMAIN t :
         /\ t[i] = DS!Trailer => i = Len(t)
         /\ t[i] # DS!Trailer /\ t[i].chunk # TaskChunks =>
            i + 1 \in DOMAIN t /\ t[i + 1] = DS!Chunk(t[i].task, t[i].chunk + 1)
         /\ t[i] # DS!Trailer /\ t[i].chunk = TaskChunks /\ i + 1 \in DOMAIN t =>
            t[i + 1] = DS!Trailer \/ t[i + 1].chunk = 1
      BY <2>1, <2>3, <3>3 DEF SentInOrder
    <3>6. t[1] # DS!Trailer /\ t[1].chunk = 1 BY <2>1, <2>3, <3>4 DEF SentInOrder
    <3>7. ~(Works({"waiting"})') BY <2>1, <3>3 DEF Works
    <3>8. t # <<>> /\ \A i \in DOMAIN t : t[i] # DS!Trailer => t[i].task \in finished'
      BY <2>1, <3>3, <3>4
    <3> QED BY <3>5, <3>6, <3>7, <3>8 DEF SentInOrder
  <2> QED BY <2>5, <2>6
<1>6. ASSUME NEW c \in DS!Closers, TrailerStep(c) PROVE SentInOrder'
  <2>1. /\ Sent \in Seq(OnStream) /\ Sent' = Append(Sent, DS!Trailer) /\ DS!Trailer \in OnStream
        /\ closer[c] = "lock" /\ closer'[c] = "break" /\ streamOnce # "new"
        /\ \A d \in DS!Closers : d # c => closer'[d] = closer[d]
        /\ UNCHANGED <<finished, broken, streamOnce, streamWorker>> /\ ~Works({"waiting"})
    BY <1>6, TrailerSent
  <2>2. c = "worker" BY <1>0, <2>1 DEF Undisturbed
  <2>3. SentInOrder BY <1>0, <2>1, <2>2 DEF InOrder, Undisturbed
  <2> PICK s, t, n : s = Sent /\ t = Sent' /\ n = Len(Sent) OBVIOUS
  <2>4. /\ t # <<>> /\ n \in Nat /\ Len(t) = n + 1 /\ DOMAIN s = 1 .. n /\ DOMAIN t = 1 .. n + 1
        /\ (\A i \in DOMAIN s : t[i] = s[i]) /\ t[n + 1] = DS!Trailer
    BY <2>1, AppendedTo
  <2>5. \A i \in DOMAIN s : s[i] # DS!Trailer BY <2>1 DEF TrailerPlaced
  <2>6. n # 0 /\ 1 \in DOMAIN s
    <3>1. s # <<>> BY <2>1, <2>3 DEF SentInOrder
    <3>2. n # 0 BY <2>1, <3>1, EmptySeq
    <3> QED BY <2>4, <3>2
  <2>7. \A i \in DOMAIN s :
          /\ s[i].chunk # TaskChunks =>
               i + 1 \in DOMAIN s /\ s[i + 1] = DS!Chunk(s[i].task, s[i].chunk + 1)
          /\ s[i].chunk = TaskChunks /\ i + 1 \in DOMAIN s => s[i + 1].chunk = 1
          /\ s[i].task \in finished
    BY <2>1, <2>3, <2>5 DEF SentInOrder
  <2>8. s[1].chunk = 1 BY <2>3, <2>6 DEF SentInOrder
  <2>9. \A i \in DOMAIN t : t[i] # DS!Trailer => i \in DOMAIN s /\ t[i] = s[i] BY <2>4
  <2>10. \A i \in DOMAIN t : t[i] = DS!Trailer => i = Len(t) BY <2>4, <2>5
  <2>11. \A i \in DOMAIN t : t[i] # DS!Trailer /\ t[i].chunk # TaskChunks =>
            i + 1 \in DOMAIN t /\ t[i + 1] = DS!Chunk(t[i].task, t[i].chunk + 1)
    <3> TAKE i \in DOMAIN t
    <3> HAVE t[i] # DS!Trailer /\ t[i].chunk # TaskChunks
    <3>1. i \in DOMAIN s /\ t[i] = s[i] BY <2>9
    <3>2. i + 1 \in DOMAIN s /\ s[i + 1] = DS!Chunk(s[i].task, s[i].chunk + 1) BY <2>7, <3>1
    <3>3. i + 1 \in DOMAIN t /\ t[i + 1] = s[i + 1] BY <2>4, <3>2
    <3> QED BY <3>1, <3>2, <3>3
  <2>12. \A i \in DOMAIN t : t[i] # DS!Trailer /\ t[i].chunk = TaskChunks /\ i + 1 \in DOMAIN t =>
            t[i + 1] = DS!Trailer \/ t[i + 1].chunk = 1
    <3> TAKE i \in DOMAIN t
    <3> HAVE t[i] # DS!Trailer /\ t[i].chunk = TaskChunks /\ i + 1 \in DOMAIN t
    <3>1. i \in DOMAIN s /\ t[i] = s[i] BY <2>9
    <3>2. CASE i + 1 \in DOMAIN s BY <2>4, <2>7, <3>1, <3>2
    <3>3. CASE i + 1 = n + 1 BY <2>4, <3>3
    <3> QED BY <2>4, <3>1, <3>2, <3>3
  <2>13. t[1] # DS!Trailer /\ t[1].chunk = 1 BY <2>4, <2>5, <2>6, <2>8
  <2>14. \A i \in DOMAIN t : t[i] # DS!Trailer => t[i].task \in finished' BY <2>1, <2>7, <2>9
  <2>15. ~(Works({"waiting"})') BY <2>1 DEF Works
  <2> QED BY <2>4, <2>10, <2>11, <2>12, <2>13, <2>14, <2>15 DEF SentInOrder
<1> QED BY <1>1, <1>2, <1>3, <1>4, <1>5, <1>6, QuietSteps

-----------------------------------------------------------------------------
(* The reader.                                                             *)

Sends ==
  \/ Sent' = Sent /\ WaySame
  \/ \E m \in OnStream : Publishes(m)

LEMMA ReaderSteps ==
  ASSUME StreamTyped, WorkerPlaced, TasksPlaced, StreamStep
  PROVE  \/ ReadSame /\ Sends
         \/ StreamReceives
         \/ ReadStep /\ UNCHANGED streamChannel
<1>1. ASSUME NEW c \in Callers, OfferStep(c) \/ TakeStep(c) PROVE ReadSame /\ Sends
  BY <1>1 DEF OfferStep, TakeStep, Sends, WaySame, Sent, ToRoom, AllArrived
<1>2. CASE LockStep \/ DoneStep \/ RestStep \/ CloseStep
  BY <1>2 DEF LockStep, DoneStep, RestStep, CloseStep, Sends, WaySame, Sent, ToRoom, AllArrived
<1>3. CASE ChunkStep
  <2> PICK m : m = DS!Chunk(streamWorker.task, ChunksDone + 1) OBVIOUS
  <2>1. m \in OnStream BY <1>3, ChunkSent DEF OnStream
  <2> QED BY <1>3, <2>1 DEF ChunkStep, Sends
<1>4. CASE DeadStep BY <1>4 DEF DeadStep, Sends
<1>5. ASSUME NEW c \in DS!Closers, FuseStep(c) PROVE ReadSame /\ Sends
  BY <1>5 DEF FuseStep, Sends, WaySame, Sent, ToRoom, AllArrived
<1>6. ASSUME NEW c \in DS!Closers, TrailerStep(c) PROVE ReadSame /\ Sends
  <2>1. DS!Trailer \in OnStream BY DEF OnStream
  <2> QED BY <1>6, <2>1 DEF TrailerStep, Sends
<1> QED BY <1>1, <1>2, <1>3, <1>4, <1>5, <1>6 DEF StreamStep

LEMMA Published ==
  ASSUME StreamTyped, NEW m \in OnStream, Publishes(m)
  PROVE  /\ m # Header
         /\ Len(Sent) \in Nat /\ Len(Sent') = Len(Sent) + 1
         /\ DOMAIN Sent = 1 .. Len(Sent) /\ DOMAIN Sent' = 1 .. Len(Sent) + 1
         /\ (\A i \in DOMAIN Sent : Sent'[i] = Sent[i]) /\ Sent'[Len(Sent) + 1] = m
         /\ AllArrived' => AllArrived
         /\ (ToRoom' = ToRoom /\ ~AllArrived') \/
              /\ ToRoom' # <<>> /\ Len(ToRoom) \in Nat /\ Len(ToRoom') = Len(ToRoom) + 1
              /\ DOMAIN ToRoom = 1 .. Len(ToRoom) /\ DOMAIN ToRoom' = 1 .. Len(ToRoom) + 1
              /\ (\A k \in DOMAIN ToRoom : ToRoom'[k] = ToRoom[k]) /\ ToRoom'[Len(ToRoom) + 1] = m
<1>1. Sent \in Seq(OnStream) /\ ToRoom \in Seq(OnStream \cup {Header}) BY StreamKinds
<1>2. m # Header BY StreamMessages DEF OnStream
<1>3. streamChannel'.dead = streamChannel.dead /\ Sent' = Append(Sent, m)
      /\ \/ ToRoom' = ToRoom /\ ~AllArrived'
         \/ ToRoom' = Append(ToRoom, m) /\ (AllArrived' <=> AllArrived)
  BY DEF Publishes
<1>4. /\ Len(Sent) \in Nat /\ Len(Append(Sent, m)) = Len(Sent) + 1
      /\ DOMAIN Sent = 1 .. Len(Sent) /\ DOMAIN Append(Sent, m) = 1 .. Len(Sent) + 1
      /\ (\A i \in DOMAIN Sent : Append(Sent, m)[i] = Sent[i]) /\ Append(Sent, m)[Len(Sent) + 1] = m
  BY <1>1, AppendedTo
<1>5. m \in OnStream \cup {Header} OBVIOUS
<1>6. /\ Append(ToRoom, m) # <<>> /\ Len(ToRoom) \in Nat /\ Len(Append(ToRoom, m)) = Len(ToRoom) + 1
      /\ DOMAIN ToRoom = 1 .. Len(ToRoom) /\ DOMAIN Append(ToRoom, m) = 1 .. Len(ToRoom) + 1
      /\ (\A k \in DOMAIN ToRoom : Append(ToRoom, m)[k] = ToRoom[k])
      /\ Append(ToRoom, m)[Len(ToRoom) + 1] = m
  BY <1>1, <1>5, AppendedTo
<1> QED BY <1>2, <1>3, <1>4, <1>6

LEMMA MessageRead ==
  ASSUME StreamTyped, ReaderPlaced, NEW type, Reads(type)
  PROVE  /\ room.reading = "idle" /\ Sent' = Sent /\ (AllArrived' <=> AllArrived)
         /\ Len(ToRoom) \in Nat /\ Len(ToRoom') = Len(ToRoom) - 1 /\ 1 \in DOMAIN ToRoom
         /\ \A k \in DOMAIN ToRoom' : /\ k \in Nat /\ k # 0 /\ k + 1 \in DOMAIN ToRoom
                                      /\ ToRoom'[k] = ToRoom[k + 1] /\ ToRoom'[k] # Header
         /\ type = "header" => ToRoom[1] = Header /\ reader.app = "none"
         /\ type \in {"chunk", "trailer"} => ToRoom[1] # Header
         /\ type = "trailer" => ToRoom[1] = DS!Trailer
         /\ type = "chunk" => ToRoom[1] \in StreamChunks
<1>1. ToRoom \in Seq(OnStream \cup {Header}) /\ ToRoom # <<>> /\ ToRoom' = Tail(ToRoom)
      /\ ToRoom[1].type = type /\ room.reading = "idle"
      /\ Sent' = Sent /\ (AllArrived' <=> AllArrived)
  BY StreamKinds DEF Reads, SentSame
<1> PICK q, u, n : q = ToRoom /\ u = ToRoom' /\ n = Len(ToRoom) OBVIOUS
<1>2. /\ q[1] \in OnStream \cup {Header} /\ n \in Nat /\ n # 0 /\ Len(u) = n - 1
      /\ DOMAIN q = 1 .. n /\ DOMAIN u = 1 .. n - 1
      /\ \A k \in DOMAIN u : k + 1 \in DOMAIN q /\ u[k] = q[k + 1]
  BY <1>1, TailOf
<1>3. q[1] = Header \/ q[1] = DS!Trailer \/ q[1] \in StreamChunks BY <1>2 DEF OnStream
<1>4. \A k \in DOMAIN q : q[k] = Header => k = 1 /\ reader.app = "none" BY DEF ReaderPlaced
<1>5. 1 \in DOMAIN q /\ \A k \in DOMAIN u : k \in Nat /\ k # 0 /\ k + 1 # 1 BY <1>2
<1>6. type = "header" => q[1] = Header BY <1>1, <1>3, StreamMessages
<1>7. type = "trailer" => q[1] = DS!Trailer BY <1>1, <1>3, StreamMessages
<1>8. type = "chunk" => q[1] \in StreamChunks BY <1>1, <1>3, StreamMessages
<1>9. type \in {"chunk", "trailer"} => q[1] # Header BY <1>1, StreamMessages
<1>10. \A k \in DOMAIN u : u[k] # Header BY <1>2, <1>4, <1>5
<1> QED BY <1>1, <1>2, <1>4, <1>5, <1>6, <1>7, <1>8, <1>9, <1>10

\* What ReaderPlaced says but of the messages under way.
ReaderOK ==
  /\ reader.app = "none" =>
       /\ ~reader.listed /\ ~reader.closed /\ ~reader.broadcast /\ reader.buf = <<>>
  /\ room.reading = "header" => reader.app = "none"
  /\ room.reading = "header" /\ room.at # "up" => room.raced
  /\ reader.app # "none" /\ ~reader.closed /\ room.at # "cleared" => reader.listed
  /\ room.at \in {"closing", "cleared"} /\ ~room.raced /\ reader.app # "none" => reader.closed
  /\ reader.closed => reader.app # "waiting" \/ reader.broadcast
  /\ reader.app = "ended" => reader.closed
HeaderFirst ==
  \A k \in DOMAIN ToRoom :
    ToRoom[k] = Header => k = 1 /\ room.reading = "idle" /\ reader.app = "none"

LEMMA ReaderParts == ReaderPlaced <=> ReaderOK /\ HeaderFirst
BY DEF ReaderPlaced, ReaderOK, HeaderFirst

LEMMA ReaderHolds ==
  ASSUME StreamTyped, WorkerPlaced, TasksPlaced, ReaderPlaced, StreamStep
  PROVE  ReaderPlaced'
<1>1. ReaderOK /\ HeaderFirst BY ReaderParts
<1>2. (ReaderOK /\ HeaderFirst)' => ReaderPlaced' BY ReaderParts, PTL
<1>3. CASE ReadSame /\ Sends
  <2>1. UNCHANGED <<room, reader>> BY <1>3 DEF ReadSame
  <2>2. ReaderOK' BY <1>1, <2>1 DEF ReaderOK
  <2>3. CASE WaySame BY <1>1, <1>2, <2>1, <2>2, <2>3 DEF HeaderFirst, WaySame
  <2>4. ASSUME NEW m \in OnStream, Publishes(m) PROVE HeaderFirst'
    <3>1. CASE ToRoom' = ToRoom BY <1>1, <2>1, <3>1 DEF HeaderFirst
    <3>2. CASE ToRoom' # ToRoom
      <4> PICK q, u, n : q = ToRoom /\ u = ToRoom' /\ n = Len(ToRoom) OBVIOUS
      <4>1. /\ m # Header /\ n \in Nat /\ DOMAIN q = 1 .. n /\ DOMAIN u = 1 .. n + 1
            /\ (\A k \in DOMAIN q : u[k] = q[k]) /\ u[n + 1] = m
        BY <2>4, <3>2, Published
      <4>2. \A k \in DOMAIN u : u[k] = Header => k \in DOMAIN q /\ q[k] = Header BY <4>1
      <4>3. \A k \in DOMAIN u : u[k] = Header => k = 1 /\ room.reading = "idle" /\ reader.app = "none"
        BY <1>1, <4>2 DEF HeaderFirst
      <4> QED BY <2>1, <4>3 DEF HeaderFirst
    <3> QED BY <3>1, <3>2
  <2> QED BY <1>2, <1>3, <2>2, <2>3, <2>4 DEF Sends
<1>4. CASE StreamReceives
  <2>1. PICK type : Reads(type) BY <1>4 DEF StreamReceives
  <2>2. HeaderFirst' BY <2>1, MessageRead DEF HeaderFirst
  <2>3. CASE Reads("header") /\ room.at = "up" /\ RoomTo("up", "header", room.raced) /\ UNCHANGED reader
    <3>1. reader.app = "none" BY <2>3, MessageRead
    <3> QED BY <1>1, <1>2, <2>2, <2>3, <3>1 DEF ReaderOK, RoomTo
  <2>4. CASE ReadSame BY <1>1, <1>2, <2>2, <2>4 DEF ReaderOK, ReadSame
  <2>5. CASE UNCHANGED room /\ UNCHANGED reader BY <1>1, <1>2, <2>2, <2>5 DEF ReaderOK
  <2>6. CASE /\ UNCHANGED room /\ reader.listed /\ ~reader.closed
             /\ ReaderIs(TRUE, Append(reader.buf, ToRoom[1]), FALSE, reader.broadcast, Woken)
    <3>1. reader.app # "none" /\ reader.app # "ended" /\ reader'.app # "none" /\ reader'.app # "ended"
      BY <1>1, <2>6 DEF ReaderOK, ReaderIs, Woken
    <3>2. reader'.listed = TRUE /\ reader'.closed = FALSE BY <2>6 DEF ReaderIs
    <3> QED BY <1>1, <1>2, <2>2, <2>6, <3>1, <3>2 DEF ReaderOK
  <2>7. CASE /\ UNCHANGED room /\ reader.listed
             /\ ReaderIs(FALSE, reader.buf, TRUE, reader.broadcast \/ ~reader.closed, reader.app)
    <3>1. /\ reader'.listed = FALSE /\ reader'.closed = TRUE /\ reader'.app = reader.app
          /\ reader'.broadcast = (reader.broadcast \/ ~reader.closed) /\ reader.app # "none"
      BY <1>1, <2>7 DEF ReaderIs, ReaderOK
    <3> QED BY <1>1, <1>2, <2>2, <2>7, <3>1 DEF ReaderOK
  <2> QED BY <1>4, <2>3, <2>4, <2>5, <2>6, <2>7 DEF StreamReceives
<1>5. CASE ReadStep /\ UNCHANGED streamChannel
  <2>0. ToRoom' = ToRoom BY <1>5 DEF ToRoom
  <2>1. CASE /\ room.reading = "header" /\ RoomTo(room.at, "idle", room.at # "up")
             /\ ReaderIs(TRUE, reader.buf, reader.closed, reader.broadcast, "reading")
    <3>1. HeaderFirst' BY <1>1, <2>0, <2>1 DEF HeaderFirst
    <3> QED BY <1>1, <1>2, <2>1, <3>1 DEF ReaderOK, RoomTo, ReaderIs
  <2>2. CASE /\ reader.broadcast /\ UNCHANGED room
             /\ ReaderIs(reader.listed, reader.buf, reader.closed, FALSE, Woken)
    <3>1. /\ reader.app # "none" /\ reader'.app # "none" /\ reader'.app # "waiting"
          /\ (reader'.app = "ended" => reader.app = "ended")
          /\ reader'.closed = reader.closed /\ reader'.listed = reader.listed
      BY <1>1, <2>2 DEF ReaderOK, ReaderIs, Woken
    <3>2. HeaderFirst' BY <1>1, <2>0, <2>2, <3>1 DEF HeaderFirst
    <3> QED BY <1>1, <1>2, <2>2, <3>1, <3>2 DEF ReaderOK
  <2>3. CASE /\ reader.app = "reading" /\ UNCHANGED room
             /\ ReaderIs(reader.listed, reader.buf, reader.closed, reader.broadcast,
                         IF reader.closed THEN "ended" ELSE "waiting")
    <3>1. /\ reader'.app = (IF reader.closed THEN "ended" ELSE "waiting")
          /\ reader'.closed = reader.closed /\ reader'.listed = reader.listed
      BY <2>3 DEF ReaderIs
    <3>2. HeaderFirst' BY <1>1, <2>0, <2>3 DEF HeaderFirst
    <3> QED BY <1>1, <1>2, <2>3, <3>1, <3>2 DEF ReaderOK
  <2>4. CASE room.at = "up" /\ RoomTo("handlers", room.reading, room.reading = "header") /\ UNCHANGED reader
    <3>1. HeaderFirst' BY <1>1, <2>0, <2>4 DEF HeaderFirst, RoomTo
    <3> QED BY <1>1, <1>2, <2>4, <3>1 DEF ReaderOK, RoomTo
  <2>5. CASE /\ room.at = "handlers" /\ RoomTo("closing", room.reading, room.raced) /\ reader.listed
             /\ ReaderIs(TRUE, reader.buf, TRUE, reader.broadcast \/ ~reader.closed, reader.app)
    <3>1. HeaderFirst' BY <1>1, <2>0, <2>5 DEF HeaderFirst, RoomTo, ReaderIs
    <3> QED BY <1>1, <1>2, <2>5, <3>1 DEF ReaderOK, RoomTo, ReaderIs
  <2>6. CASE /\ room.at = "handlers" /\ RoomTo("closing", room.reading, room.raced) /\ ~reader.listed
             /\ UNCHANGED reader
    <3>1. HeaderFirst' BY <1>1, <2>0, <2>6 DEF HeaderFirst, RoomTo
    <3> QED BY <1>1, <1>2, <2>6, <3>1 DEF ReaderOK, RoomTo
  <2>7. CASE /\ room.at = "closing" /\ RoomTo("cleared", room.reading, room.raced)
             /\ ReaderIs(FALSE, reader.buf, reader.closed, reader.broadcast, reader.app)
    <3>1. HeaderFirst' BY <1>1, <2>0, <2>7 DEF HeaderFirst, RoomTo, ReaderIs
    <3> QED BY <1>1, <1>2, <2>7, <3>1 DEF ReaderOK, RoomTo, ReaderIs
  <2> QED BY <1>5, <2>1, <2>2, <2>3, <2>4, <2>5, <2>6, <2>7 DEF ReadStep
<1> QED BY <1>3, <1>4, <1>5, ReaderSteps

-----------------------------------------------------------------------------
(* What was delivered.                                                     *)

\* Messages q are on their way, and r of those sent are not.
OnWay(s, q, r) ==
  \A k \in DOMAIN q : q[k] # Header => k + r # 1 /\ k + r - 1 \in DOMAIN s /\ s[k + r - 1] = q[k]
ReadOf(s, b) == \A k \in DOMAIN b : k \in DOMAIN s /\ s[k] = b[k]
DeliveredOf(s, q, r, b, shut) ==
  /\ r = 0 => q # <<>> /\ q[1] = Header
  /\ ReadOf(s, b)
  /\ shut => r \in DOMAIN s /\ s[r] = DS!Trailer
  /\ ~shut => OnWay(s, q, r) /\ Len(q) + r = Len(s) + 1

LEMMA DeliveredIs ==
  Delivered <=> (room.at = "up" /\ AllArrived =>
    DeliveredOf(Sent, ToRoom, ReceivedCount, reader.buf, reader.closed))
BY DEF Delivered, DeliveredOf, ReadOf, OnWay

LEMMA DeliveredIsNext ==
  Delivered' <=> (room'.at = "up" /\ AllArrived' =>
    DeliveredOf(Sent', ToRoom', ReceivedCount', reader'.buf, reader'.closed))
BY DEF Delivered, DeliveredOf, ReadOf, OnWay

LEMMA ReceivedIs ==
  ASSUME StreamTyped, ReaderPlaced
  PROVE  /\ ReceivedCount \in Nat
         /\ ReceivedCount = 0 <=> reader.app = "none" /\ room.reading = "idle"
         /\ ReceivedCount # 0 => ReceivedCount = Len(reader.buf) + 1
         /\ Len(reader.buf) \in Nat /\ DOMAIN reader.buf = 1 .. Len(reader.buf)
         /\ reader.app = "none" => Len(reader.buf) = 0
<1>1. reader.buf \in Seq(StreamChunks) BY StreamKinds DEF ReaderKind
<1>2. Len(reader.buf) \in Nat /\ DOMAIN reader.buf = 1 .. Len(reader.buf) BY <1>1, LenProperties
<1>3. reader.app = "none" => reader.buf = <<>> BY DEF ReaderPlaced
<1>4. Len(reader.buf) + 1 # 0 BY <1>2
<1>5. Len(<<>>) = 0 BY EmptySeq
<1> QED BY <1>2, <1>3, <1>4, <1>5 DEF ReceivedCount

\* A message is sent.
LEMMA OnWayLost ==
  ASSUME NEW s, NEW t, NEW q, NEW r, OnWay(s, q, r), \A i \in DOMAIN s : i \in DOMAIN t /\ t[i] = s[i]
  PROVE  OnWay(t, q, r)
BY DEF OnWay

\* A message is received.
LEMMA OnWayTail ==
  ASSUME NEW s, NEW q, NEW u, NEW r \in Nat, NEW x, x = r + 1, OnWay(s, q, r),
         \A k \in DOMAIN u : k \in Nat /\ k # 0 /\ k + 1 \in DOMAIN q /\ u[k] = q[k + 1] /\ u[k] # Header
  PROVE  OnWay(s, u, x)
<1> SUFFICES ASSUME NEW k \in DOMAIN u
             PROVE  k + x # 1 /\ k + x - 1 \in DOMAIN s /\ s[k + x - 1] = u[k]
  BY DEF OnWay
<1> PICK j : j = k + 1 OBVIOUS
<1>1. k \in Nat /\ k # 0 /\ j \in DOMAIN q /\ u[k] = q[j] /\ q[j] # Header OBVIOUS
<1>2. j + r - 1 \in DOMAIN s /\ s[j + r - 1] = q[j] BY <1>1 DEF OnWay
<1>3. j + r - 1 = k + x - 1 /\ k + x # 1 BY <1>1
<1> QED BY <1>1, <1>2, <1>3

LEMMA DeliveredHolds ==
  ASSUME StreamTyped, WorkerPlaced, TasksPlaced, ReaderPlaced, Delivered, StreamStep
  PROVE  Delivered'
<1> SUFFICES ASSUME room'.at = "up", AllArrived'
             PROVE  DeliveredOf(Sent', ToRoom', ReceivedCount', reader'.buf, reader'.closed)
  BY DeliveredIsNext
<1>1. CASE ReadSame /\ Sends
  <2>1. UNCHANGED <<room, reader>> BY <1>1 DEF ReadSame
  <2>2. AllArrived => DeliveredOf(Sent, ToRoom, ReceivedCount, reader.buf, reader.closed)
    BY <2>1, DeliveredIs
  <2>3. ReceivedCount' = ReceivedCount BY <2>1 DEF ReceivedCount
  <2>4. CASE Sent' = Sent /\ WaySame BY <2>1, <2>2, <2>3, <2>4 DEF WaySame
  <2>5. ASSUME NEW m \in OnStream, Publishes(m)
        PROVE  DeliveredOf(Sent', ToRoom', ReceivedCount', reader'.buf, reader'.closed)
    <3> PICK s, t, q, u, n, l, r, b, shut :
          /\ s = Sent /\ t = Sent' /\ q = ToRoom /\ u = ToRoom' /\ n = Len(Sent) /\ l = Len(ToRoom)
          /\ r = ReceivedCount /\ b = reader.buf /\ shut = reader.closed
      OBVIOUS
    <3>1. /\ AllArrived /\ n \in Nat /\ Len(t) = n + 1 /\ DOMAIN s = 1 .. n
          /\ DOMAIN t = 1 .. n + 1 /\ (\A i \in DOMAIN s : t[i] = s[i]) /\ t[n + 1] = m
          /\ u # <<>> /\ Len(u) = l + 1 /\ DOMAIN q = 1 .. l /\ DOMAIN u = 1 .. l + 1
          /\ (\A k \in DOMAIN q : u[k] = q[k]) /\ u[l + 1] = m
      BY <2>5, Published
    <3>2. s \in Seq(OnStream) /\ q \in Seq(OnStream \cup {Header})
          /\ shut \in BOOLEAN
      BY StreamKinds DEF ReaderKind
    <3>3. l \in Nat /\ (q # <<>> => 1 \in DOMAIN q)
      <4>1. l \in Nat /\ DOMAIN q = 1 .. l BY <3>2, LenProperties
      <4>2. q # <<>> => l # 0 BY <3>2, EmptySeq
      <4> QED BY <4>1, <4>2
    <3>4. t \in Seq(OnStream)
      <4>1. Sent' = Append(Sent, m) BY <2>5 DEF Publishes
      <4> QED BY <3>2, <4>1, AppendedTo
    <3>5. r \in Nat BY ReceivedIs
    <3>6. DeliveredOf(s, q, r, b, shut) BY <2>2, <3>1
    <3>8. \A i \in DOMAIN s : i \in DOMAIN t /\ t[i] = s[i] BY <3>1
    <3>9. r = 0 => u # <<>> /\ u[1] = Header BY <3>1, <3>2, <3>3, <3>6 DEF DeliveredOf
    <3>10. ReadOf(t, b) BY <3>6, <3>8 DEF DeliveredOf, ReadOf
    <3>11. shut => r \in DOMAIN t /\ t[r] = DS!Trailer BY <3>6, <3>8 DEF DeliveredOf
    <3>13. ASSUME ~shut PROVE OnWay(t, u, r) /\ Len(u) + r = Len(t) + 1
      <4>1. OnWay(s, q, r) /\ l + r = n + 1 BY <3>6, <3>13 DEF DeliveredOf
      <4>2. Len(u) = l + 1 /\ DOMAIN q = 1 .. l /\ DOMAIN u = 1 .. l + 1
            /\ (\A k \in DOMAIN q : u[k] = q[k]) /\ u[l + 1] = m
        BY <3>1
      <4>3. n + 1 \in DOMAIN t /\ t[n + 1] = m /\ n \in Nat BY <3>1
      <4>5. l \in Nat BY <3>3
      <4>4. OnWay(t, u, r)
        <5> SUFFICES ASSUME NEW k \in DOMAIN u, u[k] # Header
                     PROVE  k + r # 1 /\ k + r - 1 \in DOMAIN t /\ t[k + r - 1] = u[k]
          BY DEF OnWay
        <5>1. CASE k \in DOMAIN q BY <3>8, <4>1, <4>2, <5>1 DEF OnWay
        <5>2. CASE k = l + 1
          <6>1. k + r - 1 = n + 1 /\ k + r # 1 BY <3>5, <4>1, <4>3, <4>5, <5>2
          <6> QED BY <4>2, <4>3, <5>2, <6>1
        <5>3. k \in 1 .. l \/ k = l + 1 BY <4>2, <4>5
        <5> QED BY <4>2, <5>1, <5>2, <5>3
      <4> QED BY <3>1, <3>3, <3>5, <4>1, <4>2, <4>4
    <3>7. DeliveredOf(t, u, r, b, shut)
      BY <3>2, <3>9, <3>10, <3>11, <3>13 DEF DeliveredOf
    <3> QED BY <2>1, <2>3, <3>1, <3>7
  <2> QED BY <1>1, <2>4, <2>5 DEF Sends
<1>2. CASE StreamReceives
  <2> PICK s, q, u, n, r, b :
        /\ s = Sent /\ q = ToRoom /\ u = ToRoom' /\ n = Len(ToRoom)
        /\ r = ReceivedCount /\ b = reader.buf
    OBVIOUS
  <2>1. PICK type : Reads(type) BY <1>2 DEF StreamReceives
  <2>2. /\ room.reading = "idle" /\ Sent' = s /\ AllArrived
        /\ n \in Nat /\ Len(u) = n - 1 /\ 1 \in DOMAIN q
        /\ \A k \in DOMAIN u : k \in Nat /\ k # 0 /\ k + 1 \in DOMAIN q /\ u[k] = q[k + 1] /\ u[k] # Header
    BY <2>1, MessageRead
  <2>3. /\ r \in Nat /\ (r = 0 <=> reader.app = "none") /\ (r # 0 => r = Len(b) + 1)
        /\ Len(b) \in Nat /\ DOMAIN b = 1 .. Len(b) /\ (reader.app = "none" => Len(b) = 0)
    BY <2>2, ReceivedIs
  <2>4. /\ s \in Seq(OnStream) /\ Len(s) \in Nat /\ b \in Seq(StreamChunks)
        /\ reader.closed \in BOOLEAN
    BY StreamKinds, LenProperties DEF ReaderKind
  <2>5. room.at = "up" => DeliveredOf(s, q, r, b, reader.closed) BY <2>2, DeliveredIs
  <2>6. CASE Reads("header") /\ room.at = "up" /\ RoomTo("up", "header", room.raced) /\ UNCHANGED reader
    <3>1. reader.app = "none" BY <2>6, MessageRead
    <3>2. reader.closed = FALSE /\ r = 0 /\ Len(b) = 0 BY <2>3, <2>4, <3>1 DEF ReaderPlaced
    <3>3. ReceivedCount' = r + 1 BY <2>6, <3>2 DEF ReceivedCount, RoomTo
    <3>4. DeliveredOf(s, q, r, b, FALSE) BY <2>5, <2>6, <3>2
    <3>5. \A k \in DOMAIN b : k \in DOMAIN s /\ s[k] = b[k] BY <3>4 DEF DeliveredOf, ReadOf
    <3> PICK x : x = r + 1 OBVIOUS
    <3>6. OnWay(s, u, x)
      <4>1. OnWay(s, q, r) BY <3>4 DEF DeliveredOf
      <4> QED BY <2>2, <2>3, <4>1, OnWayTail
    <3>8. Len(u) + x = Len(s) + 1
      <4>1. n + r = Len(s) + 1 BY <3>4 DEF DeliveredOf
      <4>2. Len(u) = n - 1 /\ n \in Nat /\ r \in Nat /\ Len(s) \in Nat BY <2>2, <2>3, <2>4
      <4> QED BY <4>1, <4>2
    <3>7. DeliveredOf(s, u, x, b, FALSE) BY <2>3, <3>5, <3>6, <3>8 DEF DeliveredOf, ReadOf
    <3> QED BY <2>2, <2>6, <3>2, <3>3, <3>7
  <2>7. CASE ReadSame /\ room.at # "up" BY <2>7 DEF ReadSame
  <2>8. CASE /\ Reads("chunk") \/ Reads("trailer")
             /\ UNCHANGED room /\ (~reader.listed \/ reader.closed) /\ UNCHANGED reader
    <3>1. q[1] # Header BY <2>8, MessageRead
    <3>2. r # 0 BY <2>5, <2>8, <3>1 DEF DeliveredOf
    <3>3. reader.closed = TRUE BY <2>3, <2>4, <2>8, <3>2 DEF ReaderPlaced
    <3>4. ReceivedCount' = r BY <2>8 DEF ReceivedCount
    <3>5. DeliveredOf(s, q, r, b, TRUE) BY <2>5, <2>8, <3>3
    <3>6. DeliveredOf(s, u, r, b, TRUE) BY <3>2, <3>5 DEF DeliveredOf
    <3> QED BY <2>2, <2>8, <3>3, <3>4, <3>6
  <2>9. CASE /\ Reads("chunk") /\ UNCHANGED room /\ reader.listed /\ ~reader.closed
             /\ ReaderIs(TRUE, Append(reader.buf, ToRoom[1]), FALSE, reader.broadcast, Woken)
    <3>1. q[1] \in StreamChunks /\ q[1] # Header BY <2>9, MessageRead
    <3>2. reader.app # "none" /\ r = Len(b) + 1 BY <2>3, <2>9 DEF ReaderPlaced
    <3>3. DeliveredOf(s, q, r, b, FALSE) BY <2>4, <2>5, <2>9
    <3>4. r \in DOMAIN s /\ s[r] = q[1]
      <4>1. 1 + r - 1 \in DOMAIN s /\ s[1 + r - 1] = q[1] BY <2>2, <3>1, <3>3 DEF DeliveredOf, OnWay
      <4>2. 1 + r - 1 = r BY <2>3
      <4> QED BY <4>1, <4>2
    <3> PICK c : c = Append(b, q[1]) OBVIOUS
    <3>5. /\ Len(c) = Len(b) + 1 /\ DOMAIN c = 1 .. Len(b) + 1 /\ (\A i \in DOMAIN b : c[i] = b[i])
          /\ c[Len(b) + 1] = q[1]
      BY <2>4, <3>1, AppendedTo
    <3>6. \A k \in DOMAIN b : k \in DOMAIN s /\ s[k] = b[k] BY <3>3 DEF DeliveredOf, ReadOf
    <3>7. \A k \in DOMAIN c : k \in DOMAIN s /\ s[k] = c[k]
      <4> TAKE k \in DOMAIN c
      <4>1. CASE k \in DOMAIN b BY <3>5, <3>6, <4>1
      <4>2. CASE k = r BY <3>2, <3>4, <3>5, <4>2
      <4> QED BY <2>3, <3>2, <3>5, <4>1, <4>2
    <3> PICK x : x = r + 1 OBVIOUS
    <3>12. OnWay(s, u, x)
      <4>1. OnWay(s, q, r) BY <3>3 DEF DeliveredOf
      <4> QED BY <2>2, <2>3, <4>1, OnWayTail
    <3>13. Len(u) + x = Len(s) + 1
      <4>1. n + r = Len(s) + 1 BY <3>3 DEF DeliveredOf
      <4>2. Len(u) = n - 1 /\ n \in Nat /\ r \in Nat /\ Len(s) \in Nat BY <2>2, <2>3, <2>4
      <4> QED BY <4>1, <4>2
    <3>8. DeliveredOf(s, u, x, c, FALSE) BY <2>3, <3>7, <3>12, <3>13 DEF DeliveredOf, ReadOf
    <3>9. reader'.app # "none" /\ reader'.buf = c /\ reader'.closed = FALSE
      BY <2>9, <3>2 DEF ReaderIs, Woken
    <3>10. ReceivedCount' = Len(c) + 1 BY <3>9 DEF ReceivedCount
    <3>11. ReceivedCount' = r + 1 BY <3>2, <3>5, <3>10
    <3> QED BY <2>2, <3>8, <3>9, <3>11
  <2>10. CASE /\ Reads("trailer") /\ UNCHANGED room /\ reader.listed
              /\ ReaderIs(FALSE, reader.buf, TRUE, reader.broadcast \/ ~reader.closed, reader.app)
    <3>1. q[1] = DS!Trailer /\ q[1] # Header BY <2>10, MessageRead
    <3>2. reader.app # "none" /\ r # 0 BY <2>3, <2>10 DEF ReaderPlaced
    <3>3. reader'.app = reader.app /\ reader'.buf = b /\ reader'.closed = TRUE BY <2>10 DEF ReaderIs
    <3>4. ReceivedCount' = r BY <2>10, <3>3 DEF ReceivedCount
    <3>5. r \in DOMAIN s /\ s[r] = DS!Trailer
      <4>1. CASE reader.closed BY <2>5, <2>10, <4>1 DEF DeliveredOf
      <4>2. CASE ~reader.closed
        <5>1. 1 + r - 1 \in DOMAIN s /\ s[1 + r - 1] = q[1]
          BY <2>2, <2>5, <2>10, <3>1, <4>2 DEF DeliveredOf, OnWay
        <5>2. 1 + r - 1 = r BY <2>3
        <5> QED BY <3>1, <5>1, <5>2
      <4> QED BY <4>1, <4>2
    <3>6. \A k \in DOMAIN b : k \in DOMAIN s /\ s[k] = b[k] BY <2>5, <2>10 DEF DeliveredOf, ReadOf
    <3>7. DeliveredOf(s, u, r, b, TRUE) BY <3>2, <3>5, <3>6 DEF DeliveredOf, ReadOf
    <3> QED BY <2>2, <3>3, <3>4, <3>7
  <2> QED BY <1>2, <2>6, <2>7, <2>8, <2>9, <2>10 DEF StreamReceives
<1>3. CASE ReadStep /\ UNCHANGED streamChannel
  <2>1. Sent' = Sent /\ ToRoom' = ToRoom /\ AllArrived
    BY <1>3 DEF Sent, ToRoom, AllArrived
  <2>2. room.at = "up" /\ ReceivedCount' = ReceivedCount /\ reader'.buf = reader.buf /\ reader'.closed = reader.closed
    <3>1. CASE /\ room.reading = "header" /\ RoomTo(room.at, "idle", room.at # "up")
               /\ ReaderIs(TRUE, reader.buf, reader.closed, reader.broadcast, "reading")
      BY <3>1 DEF RoomTo, ReaderIs, ReceivedCount
    <3>2. CASE /\ reader.broadcast /\ UNCHANGED room
               /\ ReaderIs(reader.listed, reader.buf, reader.closed, FALSE, Woken)
      <4>1. reader'.app = "none" <=> reader.app = "none" BY <3>2 DEF ReaderIs, Woken
      <4> QED BY <3>2, <4>1 DEF ReaderIs, ReceivedCount
    <3>3. CASE /\ reader.app = "reading" /\ UNCHANGED room
               /\ ReaderIs(reader.listed, reader.buf, reader.closed, reader.broadcast,
                           IF reader.closed THEN "ended" ELSE "waiting")
      <4>1. reader'.app # "none" /\ reader.app # "none" BY <3>3 DEF ReaderIs
      <4> QED BY <3>3, <4>1 DEF ReaderIs, ReceivedCount
    <3> QED BY <1>3, <3>1, <3>2, <3>3 DEF ReadStep, RoomTo
  <2>3. DeliveredOf(Sent, ToRoom, ReceivedCount, reader.buf, reader.closed)
    BY <2>1, <2>2, DeliveredIs
  <2> QED BY <2>1, <2>2, <2>3
<1> QED BY <1>1, <1>2, <1>3, ReaderSteps

\* t is s and one message more.
Longer(s, t, m) ==
  \E n \in Nat : /\ DOMAIN s = 1 .. n /\ DOMAIN t = 1 .. n + 1
                 /\ (\A i \in DOMAIN s : t[i] = s[i]) /\ t[n + 1] = m

\* What was sent is still before what is sent now.
LEMMA OrderSends ==
  ASSUME NEW s, NEW t, NEW q, NEW b, NEW m, OrderedOf(s, q, b), Longer(s, t, m)
  PROVE  /\ OrderedOf(t, q, b) /\ IsIn(t, m)
         /\ \A i \in DOMAIN b : Before(t, b[i], m)
         /\ \A k \in DOMAIN q : q[k] # Header => Before(t, q[k], m)
<1> PICK n \in Nat : /\ DOMAIN s = 1 .. n /\ DOMAIN t = 1 .. n + 1
                     /\ (\A i \in DOMAIN s : t[i] = s[i]) /\ t[n + 1] = m
  BY DEF Longer
<1>1. DOMAIN s \subseteq DOMAIN t /\ n + 1 \in DOMAIN t /\ \A i \in DOMAIN s : i < n + 1 OBVIOUS
<1>2. ASSUME NEW x, IsIn(s, x) PROVE IsIn(t, x) /\ Before(t, x, m)
  <2>1. PICK i \in DOMAIN s : s[i] = x BY <1>2 DEF IsIn
  <2>2. i \in DOMAIN t /\ t[i] = x /\ i < n + 1 BY <1>1, <2>1
  <2> QED BY <1>1, <2>2 DEF IsIn, Before
<1>3. ASSUME NEW x, NEW y, Before(s, x, y) PROVE Before(t, x, y)
  BY <1>1, <1>3 DEF Before
<1>4. IsIn(t, m) BY <1>1 DEF IsIn
<1>5. OrderedOf(t, q, b) BY <1>2, <1>3 DEF OrderedOf
<1> QED BY <1>2, <1>4, <1>5 DEF OrderedOf

\* u is q without its first message.
RestOf(q, u) ==
  /\ 1 \in DOMAIN q
  /\ \A k \in DOMAIN u : /\ k \in Nat /\ k # 0 /\ k + 1 \in DOMAIN q
                         /\ u[k] = q[k + 1] /\ u[k] # Header

\* The reader takes the message that comes first, or leaves it.
LEMMA OrderReads ==
  ASSUME NEW s, NEW q, NEW u, NEW b, NEW c, OrderedOf(s, q, b), RestOf(q, u),
         c = b \/ (q[1] # Header /\ Longer(b, c, q[1]))
  PROVE  OrderedOf(s, u, c)
<1> USE DEF RestOf
<1>1. \A k \in DOMAIN u : IsIn(s, u[k]) BY DEF OrderedOf
<1>2. ASSUME NEW k \in DOMAIN u, NEW l \in DOMAIN u, k < l PROVE Before(s, u[k], u[l])
  <2>1. k + 1 \in DOMAIN q /\ l + 1 \in DOMAIN q /\ k + 1 < l + 1
        /\ q[k + 1] = u[k] /\ q[l + 1] = u[l] /\ q[k + 1] # Header /\ q[l + 1] # Header
    BY <1>2
  <2>2. Before(s, q[k + 1], q[l + 1]) BY <2>1 DEF OrderedOf
  <2> QED BY <2>1, <2>2
<1>3. \A i \in DOMAIN b, k \in DOMAIN u : Before(s, b[i], u[k])
  <2> TAKE i \in DOMAIN b, k \in DOMAIN u
  <2>1. k + 1 \in DOMAIN q /\ q[k + 1] = u[k] /\ q[k + 1] # Header OBVIOUS
  <2>2. Before(s, b[i], q[k + 1]) BY <2>1 DEF OrderedOf
  <2> QED BY <2>1, <2>2
<1>4. CASE c = b BY <1>1, <1>2, <1>3, <1>4 DEF OrderedOf
<1>5. CASE q[1] # Header /\ Longer(b, c, q[1])
  <2> PICK n \in Nat : /\ DOMAIN b = 1 .. n /\ DOMAIN c = 1 .. n + 1
                       /\ (\A i \in DOMAIN b : c[i] = b[i]) /\ c[n + 1] = q[1]
    BY <1>5 DEF Longer
  <2>1. \A i \in DOMAIN c : i \in DOMAIN b \/ i = n + 1 BY <1>5
  <2>2. IsIn(s, q[1]) /\ \A i \in DOMAIN b : Before(s, b[i], q[1]) BY <1>5 DEF OrderedOf
  <2>3. \A k \in DOMAIN u : Before(s, q[1], u[k])
    <3> TAKE k \in DOMAIN u
    <3>1. k + 1 \in DOMAIN q /\ q[k + 1] = u[k] /\ q[k + 1] # Header /\ 1 < k + 1 OBVIOUS
    <3>2. Before(s, q[1], q[k + 1]) BY <1>5, <3>1 DEF OrderedOf
    <3> QED BY <3>1, <3>2
  <2>4. \A i \in DOMAIN c : IsIn(s, c[i]) BY <1>5, <2>1, <2>2 DEF OrderedOf
  <2>5. \A i, j \in DOMAIN c : i < j => Before(s, c[i], c[j])
    <3> TAKE i, j \in DOMAIN c
    <3> HAVE i < j
    <3>1. i \in DOMAIN b BY <1>5, <2>1
    <3>2. CASE j \in DOMAIN b BY <1>5, <3>1, <3>2 DEF OrderedOf
    <3>3. CASE j = n + 1 BY <1>5, <2>2, <3>1, <3>3
    <3> QED BY <2>1, <3>2, <3>3
  <2>6. \A i \in DOMAIN c, k \in DOMAIN u : Before(s, c[i], u[k]) BY <1>3, <1>5, <2>1, <2>3
  <2> QED BY <1>1, <1>2, <2>4, <2>5, <2>6 DEF OrderedOf
<1> QED BY <1>4, <1>5

LEMMA OrderedHolds ==
  ASSUME StreamTyped, WorkerPlaced, TasksPlaced, ReaderPlaced, Ordered, StreamStep
  PROVE  Ordered'
<1> PICK s, t, q, u, b, c, n : /\ s = Sent /\ t = Sent' /\ q = ToRoom /\ u = ToRoom'
                               /\ b = reader.buf /\ c = reader'.buf /\ n = Len(reader.buf)
  OBVIOUS
<1> SUFFICES OrderedOf(t, u, c) BY DEF Ordered
<1>1. OrderedOf(s, q, b) BY DEF Ordered
<1>2. n \in Nat /\ DOMAIN b = 1 .. n /\ b \in Seq(StreamChunks)
  BY ReceivedIs, StreamKinds DEF ReaderKind
<1>3. CASE ReadSame /\ Sends
  <2>1. c = b BY <1>3 DEF ReadSame
  <2>2. CASE Sent' = Sent /\ WaySame
    <3>1. CASE u = q BY <1>1, <2>1, <2>2, <3>1
    <3>2. CASE u = <<>>
      <4>1. DOMAIN u = {} BY <3>2
      <4> QED BY <1>1, <2>1, <2>2, <4>1 DEF OrderedOf
    <3> QED BY <2>2, <3>1, <3>2 DEF WaySame
  <2>3. ASSUME NEW m \in OnStream, Publishes(m) PROVE OrderedOf(t, u, c)
    <3> PICK l, k : l = Len(Sent) /\ k = Len(ToRoom) OBVIOUS
    <3>1. /\ l \in Nat /\ DOMAIN s = 1 .. l /\ DOMAIN t = 1 .. l + 1
          /\ (\A i \in DOMAIN s : t[i] = s[i]) /\ t[l + 1] = m /\ m # Header
          /\ u = q \/ (/\ k \in Nat /\ DOMAIN q = 1 .. k /\ DOMAIN u = 1 .. k + 1
                       /\ (\A i \in DOMAIN q : u[i] = q[i]) /\ u[k + 1] = m)
      BY <2>3, Published
    <3>2. /\ OrderedOf(t, q, b) /\ IsIn(t, m)
          /\ \A i \in DOMAIN b : Before(t, b[i], m)
          /\ \A i \in DOMAIN q : q[i] # Header => Before(t, q[i], m)
      <4>1. Longer(s, t, m) BY <3>1 DEF Longer
      <4> QED BY <1>1, <4>1, OrderSends
    <3>3. CASE u = q BY <2>1, <3>2, <3>3
    <3>4. CASE /\ k \in Nat /\ DOMAIN q = 1 .. k /\ DOMAIN u = 1 .. k + 1
               /\ (\A i \in DOMAIN q : u[i] = q[i]) /\ u[k + 1] = m
      <4>1. \A i \in DOMAIN u : (i \in DOMAIN q /\ u[i] = q[i]) \/ (i = k + 1 /\ u[i] = m) BY <3>4
      <4>2. \A i \in DOMAIN u : u[i] # Header => IsIn(t, u[i]) BY <3>2, <4>1 DEF OrderedOf
      <4>3. \A i \in DOMAIN b, j \in DOMAIN u : u[j] # Header => Before(t, b[i], u[j])
        BY <3>2, <4>1 DEF OrderedOf
      <4>4. \A i, j \in DOMAIN u : i < j /\ u[i] # Header /\ u[j] # Header => Before(t, u[i], u[j])
        <5> TAKE i, j \in DOMAIN u
        <5> HAVE i < j /\ u[i] # Header /\ u[j] # Header
        <5>1. i \in DOMAIN q /\ u[i] = q[i] BY <3>4, <4>1
        <5>2. CASE j \in DOMAIN q /\ u[j] = q[j] BY <3>2, <5>1, <5>2 DEF OrderedOf
        <5>3. CASE u[j] = m BY <3>2, <5>1, <5>3
        <5> QED BY <4>1, <5>2, <5>3
      <4> QED BY <2>1, <3>2, <4>2, <4>3, <4>4 DEF OrderedOf
    <3> QED BY <3>1, <3>3, <3>4
  <2> QED BY <1>3, <2>2, <2>3 DEF Sends
<1>4. CASE StreamReceives
  <2>1. PICK type : Reads(type) BY <1>4 DEF StreamReceives
  <2>2. t = s /\ RestOf(q, u) BY <2>1, MessageRead DEF RestOf
  <2>3. c = b \/ (Reads("chunk") /\ c = Append(b, q[1]))
    BY <1>4 DEF StreamReceives, ReadSame, ReaderIs
  <2>4. CASE c = b BY <1>1, <2>2, <2>4, OrderReads
  <2>5. CASE Reads("chunk") /\ c = Append(b, q[1])
    <3>1. q[1] \in StreamChunks /\ q[1] # Header BY <2>5, MessageRead
    <3>2. Longer(b, c, q[1])
      <4> PICK x \in StreamChunks : x = q[1] BY <3>1
      <4>1. c = Append(b, x) /\ Len(b) = n BY <2>5
      <4>2. b \in Seq(StreamChunks) BY <1>2
      <4>3. /\ DOMAIN b = 1 .. Len(b) /\ DOMAIN Append(b, x) = 1 .. Len(b) + 1
            /\ Append(b, x)[Len(b) + 1] = x /\ \A i \in DOMAIN b : Append(b, x)[i] = b[i]
        BY <4>2, AppendedTo
      <4> QED BY <1>2, <4>1, <4>3 DEF Longer
    <3> QED BY <1>1, <2>2, <3>1, <3>2, OrderReads
  <2> QED BY <2>3, <2>4, <2>5
<1>5. CASE ReadStep /\ UNCHANGED streamChannel
  <2>1. t = s /\ u = q BY <1>5 DEF Sent, ToRoom
  <2>2. c = b BY <1>5 DEF ReadStep, ReaderIs
  <2> QED BY <1>1, <2>1, <2>2
<1> QED BY <1>3, <1>4, <1>5, ReaderSteps

-----------------------------------------------------------------------------
(* The stream as a whole.                                                  *)

LEMMA StreamBegins == DS!Init => StreamInv
<1> SUFFICES ASSUME DS!Init PROVE StreamInv OBVIOUS
<1>1. TaskChunks \in Nat /\ TaskChunks # 0 /\ MaxWrites \in Nat BY Bounds DEF DS!StreamsAssumption
<1>2. /\ broken = FALSE /\ streamOnce = "new"
      /\ writes = 0 /\ offer = [c \in Callers |-> 0]
      /\ streamWorker = [at |-> "select", task |-> 0, left |-> 0]
      /\ streamLock = "free" /\ closer = [c \in DS!Closers |-> "idle"] /\ finished = {} /\ engine = "up"
      /\ streamChannel = [sent |-> <<>>, toRoom |-> <<Header>>, dead |-> FALSE, lost |-> 0]
      /\ room = [at |-> "up", reading |-> "idle", raced |-> FALSE]
      /\ reader = [listed |-> FALSE, buf |-> <<>>, closed |-> FALSE, broadcast |-> FALSE, app |-> "none"]
  BY DEF DS!Init, DS!Free, Header
<1>3. Sent = <<>> /\ ToRoom = <<Header>> /\ ~streamChannel.dead BY <1>2 DEF Sent, ToRoom
<1>4. /\ <<Header>> \in Seq(OnStream \cup {Header}) /\ <<Header>> # <<>> /\ <<Header>>[1] = Header
      /\ Len(<<Header>>) = 1 /\ DOMAIN <<Header>> = 1 .. 1
  OBVIOUS
<1>5. <<>> \in Seq(OnStream) /\ <<>> \in Seq(StreamChunks) /\ Len(<<>>) = 0 /\ DOMAIN <<>> = {}
  BY EmptySeq, LenProperties
<1>6. StreamTyped
  <2>1. FuseKinds BY <1>2 DEF FuseKinds
  <2>2. TaskKinds BY <1>1, <1>2 DEF TaskKinds
  <2>3. WorkerKinds BY <1>1, <1>2 DEF WorkerKinds, WorkerKind
  <2>4. ReadKinds BY <1>2, <1>4, <1>5 DEF ReadKinds, ChannelKind, RoomKind, ReaderKind
  <2> QED BY <2>1, <2>2, <2>3, <2>4, TypedParts
<1>7. TasksPlaced BY <1>2 DEF TasksPlaced, Works, Busy
<1>8. "worker" \in DS!Closers /\ "app" \in DS!Closers /\ "engine" \in DS!Closers BY DEF DS!Closers
<1>9. WorkerPlaced BY <1>2, <1>8 DEF WorkerPlaced, Works
<1>10. FuseHeld BY <1>2, <1>8 DEF FuseHeld, WithinOnce
<1>11. TrailerPlaced BY <1>2, <1>3, <1>5 DEF TrailerPlaced, Works
<1>12. PiecesPlaced BY <1>2, <1>3, <1>5 DEF PiecesPlaced, Works
<1>13. WrittenUnbroken BY <1>2 DEF WrittenUnbroken, Works
<1>14. InOrder BY <1>2, <1>3, <1>5 DEF InOrder, SentInOrder, Works
<1>15. ReaderPlaced BY <1>2, <1>3, <1>4 DEF ReaderPlaced
<1>16. Delivered
  <2>1. ReceivedCount = 0 BY <1>2 DEF ReceivedCount
  <2>2. reader.buf = <<>> /\ reader.closed = FALSE BY <1>2
  <2> QED BY <1>3, <1>4, <1>5, <2>1, <2>2 DEF Delivered
<1>17. Ordered
  <2>1. reader.buf = <<>> /\ DOMAIN reader.buf = {} BY <1>2, <1>5
  <2>2. DOMAIN ToRoom = 1 .. 1 /\ ToRoom[1] = Header BY <1>3, <1>4
  <2> QED BY <2>1, <2>2 DEF Ordered, OrderedOf
<1> QED BY <1>6, <1>7, <1>9, <1>10, <1>11, <1>12, <1>13, <1>14, <1>15, <1>16, <1>17 DEF StreamInv

LEMMA StreamKeeps ==
  ASSUME StreamInv, DS!Next
  PROVE  StreamInv'
<1>1. StreamStep BY StreamSteps DEF StreamInv
<1>2. StreamTyped' BY <1>1, TypedStep DEF StreamInv
<1>3. TasksPlaced' BY <1>1, TasksStep DEF StreamInv
<1>4. WorkerPlaced' BY <1>1, WorkerHolds DEF StreamInv
<1>5. FuseHeld' BY <1>1, FuseHolds DEF StreamInv
<1>6. TrailerPlaced' BY <1>1, TrailerHolds DEF StreamInv
<1>7. PiecesPlaced' BY <1>1, PiecesHold DEF StreamInv
<1>8. WrittenUnbroken' BY <1>1, WrittenHolds DEF StreamInv
<1>9. InOrder' BY <1>1, OrderHolds DEF StreamInv
<1>10. ReaderPlaced' BY <1>1, ReaderHolds DEF StreamInv
<1>11. Delivered' BY <1>1, DeliveredHolds DEF StreamInv
<1>12. Ordered' BY <1>1, OrderedHolds DEF StreamInv
<1> QED BY <1>2, <1>3, <1>4, <1>5, <1>6, <1>7, <1>8, <1>9, <1>10, <1>11, <1>12 DEF StreamInv

LEMMA IndexIsNat ==
  ASSUME NEW S, NEW s \in Seq(S)
  PROVE  \A i \in DOMAIN s : i \in Nat
<1>1. Len(s) \in Nat /\ DOMAIN s = 1 .. Len(s) BY LenProperties
<1> QED BY <1>1

\* What is read is in the order it was sent, none of it twice.
LEMMA StreamOrdered == StreamInv => DS!ReadInOrder
<1> SUFFICES ASSUME StreamInv, NEW i \in DOMAIN reader.buf, NEW j \in DOMAIN reader.buf, i <= j
             PROVE  \E p, r \in DOMAIN Sent :
                      /\ Sent[p] = reader.buf[i] /\ Sent[r] = reader.buf[j]
                      /\ i < j => p < r /\ reader.buf[i] # reader.buf[j]
  BY DEF DS!ReadInOrder, Sent
<1>1. Ordered BY DEF StreamInv
<1>2. CASE i < j
  <2>1. Before(Sent, reader.buf[i], reader.buf[j]) BY <1>1, <1>2 DEF Ordered, OrderedOf
  <2>2. PICK p \in DOMAIN Sent, r \in DOMAIN Sent :
          p < r /\ Sent[p] = reader.buf[i] /\ Sent[r] = reader.buf[j]
    BY <2>1 DEF Before
  <2>3. p # r
    <3>1. Sent \in Seq(OnStream) BY StreamKinds DEF StreamInv
    <3>2. Len(Sent) \in Nat /\ DOMAIN Sent = 1 .. Len(Sent) BY <3>1, LenProperties
    <3> QED BY <2>2, <3>2
  <2>4. Sent[p] # Sent[r] BY <2>3 DEF StreamInv, PiecesPlaced
  <2> QED BY <2>2, <2>4
<1>3. CASE ~(i < j)
  <2>1. IsIn(Sent, reader.buf[i]) BY <1>1 DEF Ordered, OrderedOf
  <2>2. reader.buf \in Seq(StreamChunks) BY StreamKinds DEF StreamInv, ReaderKind
  <2>4. i = j BY <1>3, <2>2, IndexIsNat
  <2> QED BY <1>3, <2>1, <2>4 DEF IsIn
<1> QED BY <1>2, <1>3

LEMMA StreamWhole == StreamInv => DS!SentWhole
<1> SUFFICES ASSUME StreamInv PROVE DS!SentWhole OBVIOUS
<1>1. ASSUME AllArrived, reader.app = "ended", room.at = "up",
             {closer["app"], closer["engine"]} = {"idle"}
      PROVE  /\ Sent = Append(reader.buf, DS!Trailer)
             /\ DS!WholeTasks(reader.buf) /\ reader.buf # <<>> /\ DS!TasksOf(reader.buf) \subseteq finished
  <2> PICK s, b, n, m : s = Sent /\ b = reader.buf /\ n = Len(Sent) /\ m = Len(reader.buf) OBVIOUS
  <2>1. SentInOrder BY <1>1 DEF StreamInv, InOrder, Undisturbed
  <2>2. reader.closed /\ reader.app # "none" BY <1>1 DEF StreamInv, ReaderPlaced
  <2>3. m + 1 \in DOMAIN s /\ s[m + 1] = DS!Trailer /\ \A k \in DOMAIN b : k \in DOMAIN s /\ s[k] = b[k]
    BY <1>1, <2>2 DEF StreamInv, Delivered, ReceivedCount
  <2>4. s \in Seq(OnStream) /\ b \in Seq(StreamChunks) BY StreamKinds DEF StreamInv, ReaderKind
  <2>5. n \in Nat /\ DOMAIN s = 1 .. n /\ m \in Nat /\ DOMAIN b = 1 .. m BY <2>4, LenProperties
  <2>6. n = m + 1 BY <2>1, <2>3 DEF SentInOrder
  <2>7. \A k \in DOMAIN b : b[k] # DS!Trailer /\ b[k] = s[k] /\ k \in DOMAIN s
    BY <2>3, <2>4, <2>5, ElementOfSeq, StreamMessages
  <2>8. Sent = Append(reader.buf, DS!Trailer)
    <3>1. b \in Seq(OnStream)
      <4>1. \A k \in 1 .. m : b[k] \in OnStream BY <2>4, <2>5, ElementOfSeq DEF OnStream
      <4>2. b = [k \in 1 .. m |-> b[k]] BY <2>4, SeqDef, LenProperties
      <4>3. b \in [1 .. m -> OnStream] BY <4>1, <4>2
      <4> QED BY <2>5, <4>3, SeqDef
    <3> PICK t : t = Append(b, DS!Trailer) OBVIOUS
    <3>2. DS!Trailer \in OnStream BY DEF OnStream
    <3>3. /\ t \in Seq(OnStream) /\ Len(t) = m + 1 /\ (\A i \in DOMAIN b : t[i] = b[i])
          /\ t[m + 1] = DS!Trailer /\ DOMAIN t = 1 .. m + 1
      BY <3>1, <3>2, AppendedTo
    <3>4. \A i \in 1 .. n : t[i] = s[i] BY <2>3, <2>5, <2>6, <2>7, <3>3
    <3>5. s = t BY <2>4, <2>5, <2>6, <3>3, <3>4, SeqEqual
    <3> QED BY <3>5
  <2>9. b # <<>>
    <3>1. s # <<>> /\ s[1] # DS!Trailer
      <4>1. s # <<>> BY <2>3, <2>5, EmptySeq
      <4> QED BY <2>1, <4>1 DEF SentInOrder
    <3>2. m # 0 BY <2>3, <3>1
    <3>3. 1 \in DOMAIN b BY <2>5, <3>2
    <3> QED BY <3>3, EmptySeq
  <2>10. \A i \in DOMAIN b :
       IF b[i].chunk # TaskChunks
       THEN i + 1 \in DOMAIN b /\ b[i + 1] = DS!Chunk(b[i].task, b[i].chunk + 1)
       ELSE i + 1 \in DOMAIN b => b[i + 1].chunk = 1
    <3> TAKE i \in DOMAIN b
    <3>1. s[i] # DS!Trailer /\ s[i] = b[i] /\ i \in DOMAIN s BY <2>7
    <3>2. i # n /\ i + 1 \in DOMAIN s BY <2>5, <2>6
    <3>3. CASE b[i].chunk # TaskChunks
      <4>1. s[i + 1] = DS!Chunk(s[i].task, s[i].chunk + 1) BY <2>1, <3>1, <3>2, <3>3 DEF SentInOrder
      <4>2. s[i + 1].type = "chunk" BY <4>1 DEF DS!Chunk
      <4>3. s[i + 1] # DS!Trailer BY <4>2, StreamMessages
      <4>4. i + 1 \in DOMAIN b BY <2>3, <2>5, <2>6, <3>2, <4>3
      <4> QED BY <2>7, <3>1, <3>3, <4>1, <4>4
    <3>4. CASE b[i].chunk = TaskChunks
      <4>1. i + 1 \in DOMAIN b => s[i + 1] # DS!Trailer /\ s[i + 1] = b[i + 1] BY <2>7
      <4>2. s[i + 1] = DS!Trailer \/ s[i + 1].chunk = 1 BY <2>1, <3>1, <3>2, <3>4 DEF SentInOrder
      <4> QED BY <3>4, <4>1, <4>2
    <3> QED BY <3>3, <3>4
  <2>11. b[1].chunk = 1
    <3>1. 1 \in DOMAIN b
      <4>1. m # 0 BY <2>4, <2>9, EmptySeq
      <4> QED BY <2>5, <4>1
    <3>2. s # <<>> BY <2>3, <2>5, EmptySeq
    <3> QED BY <2>1, <2>7, <3>1, <3>2 DEF SentInOrder
  <2>12. \A i, j \in DOMAIN b : b[i] = b[j] => i = j
    <3>1. \A i, j \in DOMAIN s : s[i] = s[j] => i = j BY DEF StreamInv, PiecesPlaced
    <3> QED BY <2>7, <3>1
  <2>13. DS!TasksOf(b) \subseteq finished
    <3>1. streamOnce # "new" BY <2>3 DEF StreamInv, TrailerPlaced
    <3>2. \A i \in DOMAIN s : s[i] # DS!Trailer => s[i].task \in finished
      BY <2>1, <3>1 DEF SentInOrder
    <3> QED BY <2>7, <3>2 DEF DS!TasksOf
  <2> QED BY <2>8, <2>9, <2>10, <2>11, <2>12, <2>13 DEF DS!WholeTasks
<1>2. ~broken => \A t \in finished : \A i \in 1 .. TaskChunks : \E j \in DOMAIN Sent : Sent[j] = DS!Chunk(t, i)
  BY DEF StreamInv, WrittenUnbroken, Written
<1>3. DS!ReadWhole BY <1>1 DEF DS!ReadWhole, Sent, AllArrived
<1> QED BY <1>2, <1>3, StreamOrdered DEF DS!SentWhole, Sent

LEMMA TrailersBetween == StreamInv => DS!TrailerBetweenTasks
<1> SUFFICES ASSUME StreamInv, NEW i \in 2 .. Len(Sent) - 1, Sent[i].type = "trailer"
             PROVE  Sent[i + 1].chunk = 1
  BY DEF DS!TrailerBetweenTasks, Sent
<1>1. Sent \in Seq(OnStream) BY StreamKinds DEF StreamInv
<1>2. Len(Sent) \in Nat /\ DOMAIN Sent = 1 .. Len(Sent) BY <1>1, LenProperties
<1>3. i \in DOMAIN Sent /\ i + 1 \in DOMAIN Sent BY <1>2
<1>4. Sent[i] \in OnStream BY <1>1, <1>2, <1>3, ElementOfSeq
<1>5. Sent[i] = DS!Trailer BY <1>4, StreamMessages
<1> QED BY <1>3, <1>5 DEF StreamInv, TrailerPlaced

LEMMA ReadersReleasedHolds == StreamInv => DS!ReadersReleased
BY DEF StreamInv, ReaderPlaced, DS!ReadersReleased

LEMMA EngineGoesOn == StreamInv => DS!EngineCloseGoesOn
<1> SUFFICES ASSUME StreamInv, engine = "closing", ~streamChannel.dead, closer["engine"] # "returned"
             PROVE  DS!WorkerGoesOn \/ \E c \in DS!Closers : DS!CloserGoesOn(c)
  BY DEF DS!EngineCloseGoesOn
<1>1. FuseKinds /\ WorkerKinds BY TypedParts DEF StreamInv
<1>2. "engine" \in DS!Closers BY DEF DS!Closers
<1>3. closer["engine"] \in {"once", "lock", "break"} BY <1>1, <1>2 DEF StreamInv, FuseHeld, FuseKinds
<1>4. ASSUME NEW c \in DS!Closers, closer[c] \in {"lock", "break"}
      PROVE  DS!WorkerGoesOn \/ DS!CloserGoesOn(c)
  <2>1. CASE closer[c] = "break" BY <2>1 DEF DS!CloserGoesOn
  <2>2. CASE closer[c] = "lock" /\ streamLock = "free" BY <2>2 DEF DS!CloserGoesOn, DS!Free
  <2>3. CASE closer[c] = "lock" /\ streamLock = "worker"
    BY <2>3 DEF DS!WorkerGoesOn, StreamInv, WorkerPlaced, Works
  <2> QED BY <1>1, <1>4, <2>1, <2>2, <2>3 DEF WorkerKinds
<1>5. CASE closer["engine"] \in {"lock", "break"} BY <1>2, <1>4, <1>5
<1>6. CASE closer["engine"] = "once" /\ streamOnce # "running" BY <1>2, <1>6 DEF DS!CloserGoesOn
<1>7. CASE streamOnce = "running"
  <2>1. PICK c \in DS!Closers : closer[c] \in {"lock", "break"}
    BY <1>7 DEF StreamInv, FuseHeld, WithinOnce
  <2> QED BY <1>4, <2>1
<1> QED BY <1>3, <1>5, <1>6, <1>7

LEMMA StreamTypeOK == StreamInv => DS!TypeOK
BY DEF StreamInv, StreamTyped

LEMMA StreamStands ==
  ASSUME StreamInv, UNCHANGED streamVars
  PROVE  StreamInv'
<1> USE DEF streamVars
<1>1. StreamTyped' BY DEF StreamInv, StreamTyped, DS!TypeOK
<1>2. TasksPlaced' /\ WorkerPlaced' /\ FuseHeld'
  BY DEF StreamInv, TasksPlaced, WorkerPlaced, FuseHeld, Works, WithinOnce
<1>3. UNCHANGED <<Sent, ToRoom, ChunksDone, ReceivedCount, AllArrived>>
  BY DEF Sent, ToRoom, ChunksDone, ReceivedCount, AllArrived
<1>4. TrailerPlaced' /\ PiecesPlaced' BY <1>3 DEF StreamInv, TrailerPlaced, PiecesPlaced, Works
<1>5. WrittenUnbroken' BY <1>3 DEF StreamInv, WrittenUnbroken, Written, Works
<1>6. InOrder' BY <1>3 DEF StreamInv, InOrder, Undisturbed, SentInOrder, Works
<1>7. ReaderPlaced' /\ Delivered' /\ Ordered'
  BY <1>3 DEF StreamInv, ReaderPlaced, Delivered, Ordered, OrderedOf, Before, IsIn
<1> QED BY <1>1, <1>2, <1>4, <1>5, <1>6, <1>7 DEF StreamInv

LEMMA StreamRuns ==
  ASSUME StreamInv, [Next]_vars
  PROVE  StreamInv'
<1>1. DS!Next \/ UNCHANGED streamVars BY DEF Next, vars
<1> QED BY <1>1, StreamKeeps, StreamStands

\* What is read of a data stream is in the order it was sent, each chunk once; it is all of it, task by
\* task, when no message was lost and only a task's onDone closes the stream; until it is closed
\* nothing handed over is left unpublished; the trailer comes between two tasks; whoever reads is
\* released by the trailer or the room's cleanup; and closing the engine is not stuck while the
\* channel drains.
THEOREM StreamsAlwaysWhole == Spec => []StreamsWhole
<1>1. Init => StreamInv BY StreamBegins DEF Init
<1>2. StreamInv /\ [Next]_vars => StreamInv' BY StreamRuns
<1>3. StreamInv => StreamsWhole
  BY StreamTypeOK, StreamWhole, TrailersBetween, ReadersReleasedHolds, EngineGoesOn DEF StreamsWhole
<1> QED BY <1>1, <1>2, <1>3, PTL DEF Spec

=============================================================================
