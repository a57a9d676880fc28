----------------------------- MODULE FrameKeys -----------------------------
(***************************************************************************)
(* Keys of end-to-end encryption: the provider the application sets them   *)
(* in (e2ee/keyprovider.go), the block caches of DataCryptor               *)
(* (e2ee/datacryptor.go) and GCMFrameDecryptor and the cached block of     *)
(* GCMFrameEncryptor (e2ee/frameencryptor.go).                             *)
(*                                                                         *)
(* A key is <<its index, how often the index was set>>; the cipher block   *)
(* of a key is the key.  DataCryptor and GCMFrameDecryptor find a block in *)
(* the same steps and are one operation here, "cipher"; `cache` is that of *)
(* one of them.                                                            *)
(***************************************************************************)
EXTENDS Integers

CONSTANTS
  Calls,                   \* goroutines that encrypt and decrypt
  Indexes,
  MaxKeys,                 \* bound: keys set
  NONE

\* Every provider is made with a key.
KeysAssumption == MaxKeys \in Nat \ {0}

VARIABLES
  keys, currentIndex,      \* ExternalKeyProvider
  state,                   \* the encryptor: keyIndex and block
  cache,                   \* cipherCache of a DataCryptor, cache of a GCMFrameDecryptor
  rotateMu,                \* the call that holds it
  calls,                   \* each goroutine's call: where it is, its index and the key it read
  since,                   \* how often each index had been set when the call began
  out                      \* the label and the key of the call that returned last

vars == <<keys, currentIndex, state, cache, rotateMu, calls, since, out>>

Idle == [at |-> "idle", index |-> NONE, key |-> NONE]
Key(i) == <<i, keys[i]>>
Result(c, label, key) == out' = [label |-> label, key |-> key, began |-> since[c][label]]

TypeOK ==
  /\ keys \in [Indexes -> 0 .. MaxKeys] /\ currentIndex \in Indexes
  /\ state.index \in Indexes /\ state.key \in Indexes \X (0 .. MaxKeys)
  /\ \A i \in Indexes : cache[i] = NONE \/ cache[i] \in {i} \X (0 .. MaxKeys)
  /\ rotateMu \in Calls \cup {NONE}
  /\ \A c \in Calls : calls[c].at \in {"idle", "frame", "rotate", "store", "cipher", "cached"}

\* NewGCMFrameEncryptor takes the key that is set then.
Init ==
  /\ \E i \in Indexes : /\ keys = [j \in Indexes |-> IF j = i THEN 1 ELSE 0]
                        /\ currentIndex = i /\ state = [index |-> i, key |-> <<i, 1>>]
  /\ cache = [i \in Indexes |-> NONE] /\ rotateMu = NONE
  /\ calls = [c \in Calls |-> Idle] /\ since = [c \in Calls |-> keys]
  /\ out = NONE

-----------------------------------------------------------------------------
\* SetKeyFromPassphrase, SetRawKey: at a new index, or anew at an old one.
SetKey(i) ==
  /\ keys[i] < MaxKeys
  /\ keys' = [keys EXCEPT ![i] = @ + 1] /\ currentIndex' = i
  /\ UNCHANGED <<state, cache, rotateMu, calls, since, out>>

EncryptFrame(c) ==
  /\ calls[c].at = "idle"
  /\ calls' = [calls EXCEPT ![c] = [at |-> "frame", index |-> currentIndex, key |-> NONE]]
  /\ since' = [since EXCEPT ![c] = keys]
  /\ UNCHANGED <<keys, currentIndex, state, cache, rotateMu, out>>

\* Mutant: whatever block is there.
Matches_Any(i) == TRUE
Matches(i) == state.index = i

FrameFast(c) ==
  /\ calls[c].at = "frame"
  /\ IF Matches(calls[c].index)
     THEN /\ Result(c, calls[c].index, state.key)
          /\ calls' = [calls EXCEPT ![c] = Idle]
     ELSE /\ calls' = [calls EXCEPT ![c].at = "rotate"] /\ UNCHANGED out
  /\ UNCHANGED <<keys, currentIndex, state, cache, rotateMu, since>>

\* rotateAndEncrypt: another call may have rotated while this one waited for the lock.
Rotate(c) ==
  /\ calls[c].at = "rotate" /\ rotateMu = NONE
  /\ IF Matches(calls[c].index)
     THEN /\ Result(c, calls[c].index, state.key)
          /\ calls' = [calls EXCEPT ![c] = Idle] /\ UNCHANGED rotateMu
     ELSE /\ calls' = [calls EXCEPT ![c].at = "store", ![c].key = Key(calls[c].index)]
          /\ rotateMu' = c /\ UNCHANGED out
  /\ UNCHANGED <<keys, currentIndex, state, cache, since>>

RotateStore(c) ==
  /\ calls[c].at = "store"
  /\ state' = [index |-> calls[c].index, key |-> calls[c].key]
  /\ Result(c, calls[c].index, calls[c].key)
  /\ calls' = [calls EXCEPT ![c] = Idle] /\ rotateMu' = NONE
  /\ UNCHANGED <<keys, currentIndex, cache, since>>

-----------------------------------------------------------------------------
\* getCipherBlock, getCachedBlock: EncryptPayload asks for the current index, the decryptions for
\* that of what they decrypt.
GetCipher(c, i) ==
  /\ calls[c].at = "idle" /\ keys[i] > 0
  /\ calls' = [calls EXCEPT ![c] = [at |-> "cipher", index |-> i, key |-> Key(i)]]
  /\ since' = [since EXCEPT ![c] = keys]
  /\ UNCHANGED <<keys, currentIndex, state, cache, rotateMu, out>>

\* Mutant: the cache is asked for the index only.
Hit_Index(c) == cache[calls[c].index] # NONE
Hit(c) == cache[calls[c].index] = calls[c].key

CipherCached(c) ==
  /\ calls[c].at = "cipher"
  /\ IF Hit(c)
     THEN /\ Result(c, calls[c].index, cache[calls[c].index])
          /\ calls' = [calls EXCEPT ![c] = Idle]
     ELSE /\ calls' = [calls EXCEPT ![c].at = "cached"] /\ UNCHANGED out
  /\ UNCHANGED <<keys, currentIndex, state, cache, rotateMu, since>>

CipherStore(c) ==
  /\ calls[c].at = "cached"
  /\ cache' = [cache EXCEPT ![calls[c].index] = calls[c].key]
  /\ Result(c, calls[c].index, calls[c].key)
  /\ calls' = [calls EXCEPT ![c] = Idle]
  /\ UNCHANGED <<keys, currentIndex, state, rotateMu, since>>

Next ==
  \/ \E i \in Indexes : SetKey(i)
  \/ \E c \in Calls : EncryptFrame(c) \/ FrameFast(c) \/ Rotate(c) \/ RotateStore(c)
  \/ \E c \in Calls, i \in Indexes : GetCipher(c, i)
  \/ \E c \in Calls : CipherCached(c) \/ CipherStore(c)

Spec == Init /\ [][Next]_vars

-----------------------------------------------------------------------------
\* What is sent with a key index was sealed with a key of that index, whoever rotated the block
\* between the look at the index and the encryption (EncryptFrame, rotateAndEncrypt).
LabelMatches == out # NONE => out.label = out.key[1]

\* A block taken from a cache is of a key the provider held during the call, although two calls
\* may store blocks in the other order than they read the keys (getCipherBlock, getCachedBlock).
CipherFresh == [][(out' # out /\ \E c \in Calls : calls[c].at \in {"cipher", "cached"} /\ calls'[c] = Idle)
                    => out'.key[2] >= out'.began]_vars

\* What types/interface.go says of GetKey ("It is called on every encrypt and decrypt"): a frame is
\* sealed with a key the provider held during the call.  The encryptor compares the index only: a
\* key set anew at the current index is never used, and whoever decrypts with it gets errors.
EncryptorFresh == [][(out' # out /\ \E c \in Calls : calls[c].at \in {"frame", "rotate", "store"} /\ calls'[c] = Idle)
                       => out'.key[2] >= out'.began]_vars
=============================================================================
