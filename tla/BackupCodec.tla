----------------------------- MODULE BackupCodec -----------------------------
(***************************************************************************)
(* Publishing a track's backup codec on demand (localparticipant.go,       *)
(* publication.go, engine.go).  The SFU's updates switch the layers that   *)
(* nobody needs off; one that asks for the backup codec has it published   *)
(* by a goroutine of its own.  The flag that says so is set after the      *)
(* request was sent.  Until then an update that asks for the codec starts  *)
(* another goroutine, and one that switches layers off is dropped.  The    *)
(* SFU's answer goes to the one-slot channel that is registered for the    *)
(* track: the signal reader looks the channel up, and sends once it left   *)
(* the lock.                                                               *)
(***************************************************************************)
EXTENDS Naturals, FiniteSets

CONSTANTS
  Layers,     \* layers of the backup track
  MaxUpdates, \* bound: updates
  MayFail     \* whether adding the track and sending the request may fail

BackupAssumption == MaxUpdates \in Nat /\ MayFail \in BOOLEAN

Attempts == 1 .. MaxUpdates

VARIABLES
  kind,      \* of the backup track: "simulcast", "video" or "audio"
  updates,   \* updates so far
  wanted,    \* layers the last update enables
  late,      \* it came after the flag was set (a ghost)
  disabled,  \* layers that are switched off
  published, \* backupCodecPublished
  attempt,   \* publishing goroutines
  listener,  \* the attempt whose channel is registered for the track
  full,      \* attempts whose channel holds an answer
  carries,   \* the channel the signal reader is to send an answer to
  senders,   \* attempts that added the track to the peer connection
  asked,     \* requests the SFU has not answered
  failed     \* an attempt ended with an error

updateVars == <<kind, updates, wanted, late, disabled>>
answerVars == <<full, carries, asked>>
vars == <<updateVars, answerVars, published, attempt, listener, senders, failed>>

None == 0
At == {"none", "register", "add", "send", "mark", "wait", "leave", "done"}

TypeOK ==
  /\ kind \in {"simulcast", "video", "audio"} /\ updates \in 0 .. MaxUpdates
  /\ wanted \subseteq Layers /\ disabled \subseteq Layers
  /\ {late, published, failed} \subseteq BOOLEAN
  /\ attempt \in [Attempts -> At] /\ {listener, carries} \subseteq Attempts \cup {None}
  /\ senders \subseteq Attempts /\ asked \subseteq Attempts /\ full \subseteq Attempts

Init ==
  /\ kind \in {"simulcast", "video", "audio"} /\ updates = 0
  /\ wanted = {} /\ late = FALSE /\ disabled = {} /\ published = FALSE
  /\ attempt = [a \in Attempts |-> "none"] /\ listener = None
  /\ full = {} /\ carries = None
  /\ senders = {} /\ asked = {} /\ failed = FALSE

-----------------------------------------------------------------------------
(* The signal reader.                                                      *)

dynacast(enabled) == disabled' = Layers \ enabled

\* A goroutine publishes the codec; the layers keep their state.
Spawn ==
  /\ attempt' = [attempt EXCEPT ![updates + 1] = "register"]
  /\ UNCHANGED disabled

setPublishingCodecsQuality(enabled) ==
  CASE published /\ kind = "simulcast" -> dynacast(enabled) /\ UNCHANGED attempt
    [] ~published /\ enabled # {} -> Spawn
    [] OTHER -> UNCHANGED <<attempt, disabled>>

setAudioCodecSubscribed(enabled) ==
  IF ~published /\ enabled # {} THEN Spawn ELSE UNCHANGED <<attempt, disabled>>

\* The reader handles an update when it is through with the message before.
Update(enabled) ==
  /\ carries = None
  /\ updates < MaxUpdates
  /\ updates' = updates + 1
  /\ wanted' = enabled /\ late' = published
  /\ UNCHANGED <<kind, answerVars, published, listener, senders, failed>>

handleSubscribedQualityUpdate(enabled) ==
  /\ kind # "audio"
  /\ Update(enabled)
  /\ setPublishingCodecsQuality(enabled)

handleSubscribedAudioCodecUpdate(enabled) ==
  /\ kind = "audio" /\ enabled \in {{}, Layers}
  /\ Update(enabled)
  /\ setAudioCodecSubscribed(enabled)

\* OnLocalTrackPublished: the SFU answers a request, the reader looks up who is
\* registered for the track.
SFUAnswers(a) ==
  /\ carries = None
  /\ a \in asked /\ asked' = asked \ {a}
  /\ carries' = listener
  /\ UNCHANGED <<updateVars, full, published, attempt, listener, senders, failed>>

\* Mutant: the answer is dropped unless the goroutine is receiving.
SendsAnswer_Drops ==
  /\ carries # None
  /\ full' = IF attempt[carries] = "wait" THEN full \cup {carries} ELSE full
  /\ carries' = None
  /\ UNCHANGED <<updateVars, asked, published, attempt, listener, senders, failed>>

\* It sends, with the lock released: it blocks while the channel is full.
SendsAnswer ==
  /\ carries # None /\ carries \notin full
  /\ full' = full \cup {carries}
  /\ carries' = None
  /\ UNCHANGED <<updateVars, asked, published, attempt, listener, senders, failed>>

-----------------------------------------------------------------------------
(* publishAdditionalCodecForTrack                                          *)

Step(a, from, to) == attempt[a] = from /\ attempt' = [attempt EXCEPT ![a] = to]
Fails(a, from) == MayFail /\ Step(a, from, "leave") /\ failed' = TRUE

Register(a) ==
  /\ Step(a, "register", "add")
  /\ listener' = a
  /\ UNCHANGED <<updateVars, answerVars, published, senders, failed>>

\* AddTrack fails, or AddEncoding of a layer after it.
AddTrack(a) ==
  /\ \/ Step(a, "add", "send") /\ senders' = senders \cup {a} /\ UNCHANGED failed
     \/ Fails(a, "add") /\ senders' \in {senders, senders \cup {a}}
  /\ UNCHANGED <<updateVars, answerVars, published, listener>>

SendAddTrack(a) ==
  /\ \/ Step(a, "send", "mark") /\ asked' = asked \cup {a} /\ UNCHANGED failed
     \/ Fails(a, "send") /\ UNCHANGED asked
  /\ UNCHANGED <<updateVars, full, carries, published, listener, senders>>

setBackupCodecPublished(a) ==
  /\ Step(a, "mark", "wait")
  /\ published' = TRUE
  /\ UNCHANGED <<updateVars, answerVars, listener, senders, failed>>

Receives(a) ==
  /\ a \in full /\ Step(a, "wait", "leave")
  /\ full' = full \ {a}
  /\ UNCHANGED <<updateVars, carries, asked, published, listener, senders, failed>>

TimesOut(a) ==
  /\ Step(a, "wait", "leave")
  /\ failed' = TRUE
  /\ UNCHANGED <<updateVars, answerVars, published, listener, senders>>

\* It takes out what is registered for the track, whose ever it is.
Unregister(a) ==
  /\ Step(a, "leave", "done")
  /\ listener' = None
  /\ UNCHANGED <<updateVars, answerVars, published, senders, failed>>

-----------------------------------------------------------------------------
Next ==
  \/ \E enabled \in SUBSET Layers :
       handleSubscribedQualityUpdate(enabled) \/ handleSubscribedAudioCodecUpdate(enabled)
  \/ SendsAnswer
  \/ \E a \in Attempts :
       \/ SFUAnswers(a)
       \/ Register(a) \/ AddTrack(a) \/ SendAddTrack(a) \/ setBackupCodecPublished(a)
       \/ Receives(a) \/ TimesOut(a) \/ Unregister(a)

Spec == Init /\ [][Next]_vars

-----------------------------------------------------------------------------
Quiet == asked = {} /\ \A a \in Attempts : attempt[a] \in {"none", "done"}

\* When nothing is under way and no attempt failed, a codec the last update asks
\* for has been published.
Served == Quiet /\ ~failed /\ wanted # {} => published /\ senders # {}

\* The layers are those of the last update if it came after the flag was set.  Until
\* the first such update every layer is sent, whatever was switched off before.
LayersFollow == disabled = IF late /\ kind = "simulcast" THEN Layers \ wanted ELSE {}

\* An attempt that nobody else joined misses no answer: what the SFU answered is in
\* its channel or on its way there, and the signal reader can send it.
AnswerKept ==
  \A a \in Attempts :
    (\A b \in Attempts \ {a} : attempt[b] = "none") =>
      /\ attempt[a] = "wait" /\ a \notin asked => a \in full \/ carries = a
      /\ ~(carries = a /\ a \in full)

BackupServed == Served /\ LayersFollow /\ AnswerKept

\* The backup codec is published when "required by subscriber but not published
\* yet" (publication.go 478): once.
PublishedOnce == Cardinality(senders) <= 1

\* An update "sets the publishing codecs based on the subscribed codecs quality"
\* (publication.go 477), also one that comes before the codec is published.
SwitchedOff == Quiet /\ ~failed /\ published /\ kind = "simulcast" => disabled = Layers \ wanted

\* The signal reader is never left with an answer for an attempt that is gone.
ReaderFree == carries # None /\ attempt[carries] = "done" => carries \notin full
=============================================================================
