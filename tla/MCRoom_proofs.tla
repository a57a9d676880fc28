----------------------------- MODULE MCRoom_proofs -----------------------------
(***************************************************************************)
(* The components beside the engine, for every value of their constants.   *)
(* A step of the composition is a step of the component that runs, or it   *)
(* leaves that component's variables alone: an invariant of the component  *)
(* is one of the composition.                                              *)
(***************************************************************************)
EXTENDS MCRoom, SequenceTheorems, WellFoundedInduction, TLAPS

-----------------------------------------------------------------------------
(* The backup codec.                                                       *)

Publishing == {"register", "add", "send", "mark"}
Attempts == 1 .. MaxUpdates
Alone(a) == \A b \in Attempts \ {a} : attempt[b] = "none"

\* Where the answers to the attempts are: only those that asked have a request, a channel
\* that is registered for the track is one of an attempt under way, and an attempt nobody
\* joined has at most one answer, which is in one place.
AnswersPlaced ==
  /\ \A a \in backupAsked : attempt[a] \in {"mark", "wait", "leave", "done"}
  /\ \A a \in Attempts : attempt[a] \in {"none", "register"} =>
       a # listener /\ a # carries /\ a \notin full
  /\ \A a \in Attempts : Alone(a) =>
       /\ attempt[a] \in {"add", "send", "mark", "wait"} => listener = a
       /\ a \in backupAsked \/ attempt[a] \in {"register", "add", "send"} => carries = 0 /\ full = {}
       /\ attempt[a] \in {"mark", "wait"} /\ a \notin backupAsked => a \in full \/ carries = a
       /\ ~(carries = a /\ a \in full)

BackupInv ==
  /\ BC!TypeOK
  /\ \A a \in Attempts : a > backupUpdates => attempt[a] = "none"
  /\ published => backupSenders # {}
  \* Layers are switched off only once the codec is published, by the updates that come then.
  /\ ~published => ~late
  /\ BC!LayersFollow
  \* An attempt that has sent its request has added the track.
  /\ \A a \in Attempts : attempt[a] \in {"send", "mark", "wait"} => a \in backupSenders
  /\ \A a \in Attempts : attempt[a] \in {"wait", "leave", "done"} => published \/ failed
  \* A codec that is wanted is being published.
  /\ backupWanted # {} /\ ~published /\ ~failed => \E a \in Attempts : attempt[a] \in Publishing
  /\ AnswersPlaced

LEMMA BackupInit == Init => BackupInv
<1> SUFFICES ASSUME Init PROVE BackupInv OBVIOUS
<1>1. MaxUpdates \in Nat BY Bounds DEF BC!BackupAssumption
<1>2. BC!Init BY DEF Init
<1>3. BC!TypeOK
  <2>1. 0 \in 0 .. MaxUpdates BY <1>1
  <2>2. attempt \in [BC!Attempts -> BC!At] BY <1>2 DEF BC!Init, BC!At
  <2> QED BY <1>2, <2>1, <2>2, Zenon DEF BC!Init, BC!TypeOK, BC!None
<1>4. AnswersPlaced BY <1>2 DEF BC!Init, AnswersPlaced, BC!Attempts, Attempts, BC!None, Alone
<1> QED BY <1>2, <1>3, <1>4 DEF BC!Init, BackupInv, BC!Attempts, Attempts, BC!LayersFollow

LEMMA BackupNext == BackupInv /\ BC!Next => BackupInv'
<1> SUFFICES ASSUME BackupInv, BC!Next PROVE BackupInv' OBVIOUS
<1>0. MaxUpdates \in Nat BY Bounds DEF BC!BackupAssumption
<1>1. /\ backupUpdates \in 0 .. MaxUpdates /\ attempt \in [Attempts -> BC!At]
      /\ listener \in Attempts \cup {0} /\ backupSenders \subseteq Attempts
      /\ carries \in Attempts \cup {0} /\ full \subseteq Attempts /\ backupAsked \subseteq Attempts
      /\ 0 \notin Attempts
  BY DEF BackupInv, BC!TypeOK, BC!Attempts, Attempts, BC!None
<1> USE DEF BC!At, BC!None
<1>2. ASSUME NEW enabled \in SUBSET Layers,
             \/ BC!handleSubscribedQualityUpdate(enabled)
             \/ BC!handleSubscribedAudioCodecUpdate(enabled)
      PROVE  BackupInv'
  <2>1. /\ backupUpdates < MaxUpdates /\ backupUpdates' = backupUpdates + 1 /\ carries = 0
        /\ backupWanted' = enabled /\ late' = published
        /\ UNCHANGED <<kind, full, carries, backupAsked, published, listener, backupSenders, failed>>
    BY <1>2 DEF BC!handleSubscribedQualityUpdate, BC!handleSubscribedAudioCodecUpdate, BC!Update,
                BC!answerVars
  <2>2. \/ /\ published /\ kind = "simulcast"
           /\ disabled' = Layers \ enabled /\ UNCHANGED attempt
        \/ /\ ~published /\ enabled # {} /\ UNCHANGED disabled
           /\ attempt' = [attempt EXCEPT ![backupUpdates + 1] = "register"]
        \/ /\ (kind # "simulcast" /\ published) \/ (~published /\ enabled = {})
           /\ UNCHANGED <<attempt, disabled>>
    BY <1>2 DEF BC!handleSubscribedQualityUpdate, BC!handleSubscribedAudioCodecUpdate,
                BC!setPublishingCodecsQuality, BC!setAudioCodecSubscribed, BC!dynacast, BC!Spawn
  <2>3. backupUpdates + 1 \in Attempts /\ attempt[backupUpdates + 1] = "none"
    BY <1>0, <1>1, <2>1 DEF Attempts, BackupInv
  <2>4. AnswersPlaced'
    <3>1. CASE UNCHANGED attempt BY <2>1, <3>1 DEF BackupInv, AnswersPlaced, Alone
    <3>2. CASE attempt' = [attempt EXCEPT ![backupUpdates + 1] = "register"]
      <4>1. ASSUME NEW a \in Attempts, Alone(a)'
            PROVE  a = backupUpdates + 1 /\ \A b \in Attempts : attempt[b] = "none"
        BY <1>1, <2>3, <3>2, <4>1 DEF Alone
      <4>3. (\A a \in Attempts : attempt[a] = "none") => full = {} /\ carries = 0 /\ backupAsked = {}
        BY <1>1 DEF BackupInv, AnswersPlaced
      <4>5. /\ \A a \in Attempts : a # backupUpdates + 1 => attempt'[a] = attempt[a]
            /\ attempt'[backupUpdates + 1] = "register"
        BY <1>1, <2>3, <3>2
      <4>6. \A a \in backupAsked : attempt'[a] \in {"mark", "wait", "leave", "done"}
        BY <1>1, <2>3, <4>5 DEF BackupInv, AnswersPlaced
      <4>7. /\ \A a \in Attempts : attempt[a] \in {"none", "register"} => a # listener /\ a \notin full
            /\ backupUpdates + 1 # listener /\ backupUpdates + 1 \notin full
        BY <2>3 DEF BackupInv, AnswersPlaced
      <4>8. \A a \in Attempts : attempt'[a] \in {"none", "register"} => a # listener' /\ a # carries' /\ a \notin full'
        BY <1>1, <2>1, <4>5, <4>7
      <4>9. ASSUME NEW a \in Attempts, Alone(a)'
            PROVE  attempt'[a] = "register" /\ full' = {} /\ carries' = 0 /\ backupAsked' = {}
        BY <2>1, <4>1, <4>3, <4>5, <4>9
      <4> QED BY <1>1, <2>1, <4>6, <4>8, <4>9 DEF AnswersPlaced
    <3> QED BY <2>2, <3>1, <3>2
  <2>5. BC!LayersFollow' BY <2>1, <2>2 DEF BackupInv, BC!LayersFollow
  <2> QED
    BY <1>0, <1>1, <2>1, <2>2, <2>3, <2>4, <2>5 DEF BackupInv, BC!TypeOK, BC!Attempts, Attempts, Publishing
<1>3. ASSUME NEW a \in Attempts, NEW from, NEW to \in {"add", "send", "mark", "wait", "leave", "done"},
             BC!Step(a, from, to), from \in {"register", "add", "send", "mark", "wait", "leave"}
      PROVE  /\ attempt[a] = from /\ attempt' \in [Attempts -> BC!At] /\ attempt'[a] = to
             /\ \A b \in Attempts \ {a} : attempt'[b] = attempt[b]
             /\ \A b \in Attempts : Alone(b)' <=> Alone(b)
             /\ \A b \in Attempts : Alone(b) => b = a
  BY <1>1, <1>3 DEF BC!Step, Alone
<1>4. ASSUME NEW a \in Attempts, BC!Register(a) PROVE BackupInv'
  <2>1. AnswersPlaced'
    BY <1>1, <1>3, <1>4 DEF BC!Register, BC!updateVars, BC!answerVars, BackupInv, AnswersPlaced
  <2>2. BC!LayersFollow' BY <1>4 DEF BC!Register, BC!updateVars, BackupInv, BC!LayersFollow
  <2> QED
    BY <1>1, <1>3, <1>4, <2>1, <2>2
       DEF BC!Register, BC!updateVars, BC!answerVars, BackupInv, BC!TypeOK, BC!Attempts, Attempts, Publishing
<1>5. ASSUME NEW a \in Attempts, BC!AddTrack(a) PROVE BackupInv'
  <2>3. PICK to \in {"send", "leave"} :
          /\ BC!Step(a, "add", to)
          /\ UNCHANGED <<listener, full, carries, backupAsked>>
    BY <1>5 DEF BC!AddTrack, BC!Fails, BC!updateVars, BC!answerVars
  <2>4. /\ attempt[a] = "add" /\ attempt'[a] = to
        /\ \A b \in Attempts \ {a} : attempt'[b] = attempt[b]
        /\ \A b \in Attempts : Alone(b)' => Alone(b) /\ b = a
    BY <1>3, <2>3
  <2>1. AnswersPlaced' BY <1>1, <2>3, <2>4 DEF BackupInv, AnswersPlaced
  <2>2. BC!LayersFollow' BY <1>5 DEF BC!AddTrack, BC!Fails, BC!updateVars, BackupInv, BC!LayersFollow
  <2>5. /\ UNCHANGED <<kind, backupUpdates, backupWanted, late, disabled, full, carries, backupAsked, published, listener>>
        /\ backupSenders \subseteq backupSenders' /\ backupSenders' \subseteq backupSenders \cup {a}
        /\ ~failed' => a \in backupSenders' /\ to = "send" /\ ~failed
        /\ to = "send" => a \in backupSenders'
        /\ failed' \in BOOLEAN /\ (failed => failed') /\ (to = "leave" => failed')
    <3> failed \in BOOLEAN BY DEF BackupInv, BC!TypeOK
    <3>1. CASE BC!Step(a, "add", "send") /\ backupSenders' = backupSenders \cup {a} /\ UNCHANGED failed
      <4>1. to = "send" BY <1>1, <2>4, <3>1 DEF BC!Step
      <4> QED BY <1>5, <3>1, <4>1 DEF BC!AddTrack, BC!updateVars, BC!answerVars
    <3>2. CASE BC!Fails(a, "add") /\ backupSenders' \in {backupSenders, backupSenders \cup {a}}
      <4>1. to = "leave" BY <1>1, <2>4, <3>2 DEF BC!Fails, BC!Step
      <4>2. failed' = TRUE BY <3>2 DEF BC!Fails
      <4> QED BY <1>5, <3>2, <4>1, <4>2 DEF BC!AddTrack, BC!updateVars, BC!answerVars
    <3> QED BY <1>5, <3>1, <3>2 DEF BC!AddTrack
  <2>6. attempt' \in [Attempts -> BC!At] BY <1>3, <2>3
  <2>7. BC!TypeOK'
    BY <1>1, <2>5, <2>6 DEF BackupInv, BC!TypeOK, BC!Attempts, Attempts
  <2>8. backupWanted # {} /\ ~published /\ ~failed' => \E b \in Attempts : attempt'[b] \in Publishing
    BY <2>4, <2>5 DEF Publishing
  <2> QED BY <1>1, <2>1, <2>2, <2>3, <2>4, <2>5, <2>7, <2>8 DEF BackupInv, Attempts
<1>6. ASSUME NEW a \in Attempts, BC!SendAddTrack(a) PROVE BackupInv'
  <2>3. PICK to \in {"mark", "leave"} :
          /\ BC!Step(a, "send", to)
          /\ UNCHANGED <<listener, full, carries>>
          /\ to = "mark" => backupAsked' = backupAsked \cup {a}
          /\ to = "leave" => UNCHANGED backupAsked
    BY <1>6 DEF BC!SendAddTrack, BC!Fails, BC!updateVars, BC!answerVars
  <2>4. /\ attempt[a] = "send" /\ attempt'[a] = to
        /\ \A b \in Attempts \ {a} : attempt'[b] = attempt[b]
        /\ \A b \in Attempts : Alone(b)' => Alone(b) /\ b = a
    BY <1>3, <2>3
  <2>1. AnswersPlaced' BY <1>1, <2>3, <2>4 DEF BackupInv, AnswersPlaced
  <2>2. BC!LayersFollow' BY <1>6 DEF BC!SendAddTrack, BC!Fails, BC!updateVars, BackupInv, BC!LayersFollow
  <2>5. /\ UNCHANGED <<kind, backupUpdates, backupWanted, late, disabled, full, carries, published, listener, backupSenders>>
        /\ backupAsked' \subseteq backupAsked \cup {a}
        /\ ~failed' => to = "mark" /\ ~failed
        /\ failed' \in BOOLEAN /\ (failed => failed') /\ (to = "leave" => failed')
    <3> failed \in BOOLEAN BY DEF BackupInv, BC!TypeOK
    <3>1. CASE BC!Step(a, "send", "mark") /\ backupAsked' = backupAsked \cup {a} /\ UNCHANGED failed
      <4>1. to = "mark" BY <1>1, <2>4, <3>1 DEF BC!Step
      <4> QED BY <1>6, <3>1, <4>1 DEF BC!SendAddTrack, BC!updateVars, BC!answerVars
    <3>2. CASE BC!Fails(a, "send") /\ UNCHANGED backupAsked
      <4>1. to = "leave" BY <1>1, <2>4, <3>2 DEF BC!Fails, BC!Step
      <4>2. failed' = TRUE BY <3>2 DEF BC!Fails
      <4> QED BY <1>6, <3>2, <4>1, <4>2 DEF BC!SendAddTrack, BC!updateVars, BC!answerVars
    <3> QED BY <1>6, <3>1, <3>2 DEF BC!SendAddTrack
  <2>6. attempt' \in [Attempts -> BC!At] BY <1>3, <2>3
  <2>7. BC!TypeOK'
    BY <1>1, <2>5, <2>6 DEF BackupInv, BC!TypeOK, BC!Attempts, Attempts
  <2>8. backupWanted # {} /\ ~published /\ ~failed' => \E b \in Attempts : attempt'[b] \in Publishing
    BY <2>4, <2>5 DEF Publishing
  <2> QED BY <1>1, <2>1, <2>2, <2>3, <2>4, <2>5, <2>7, <2>8 DEF BackupInv, Attempts
<1>7. ASSUME NEW a \in Attempts, BC!setBackupCodecPublished(a) PROVE BackupInv'
  <2>1. AnswersPlaced'
    BY <1>1, <1>3, <1>7 DEF BC!setBackupCodecPublished, BC!updateVars, BC!answerVars, BackupInv, AnswersPlaced
  <2>2. BC!LayersFollow' BY <1>7 DEF BC!setBackupCodecPublished, BC!updateVars, BackupInv, BC!LayersFollow
  <2> QED
    BY <1>1, <1>3, <1>7, <2>1, <2>2
       DEF BC!setBackupCodecPublished, BC!updateVars, BC!answerVars, BackupInv, BC!TypeOK, BC!Attempts, Attempts, Publishing
<1>8. ASSUME NEW a \in Attempts, BC!Receives(a) PROVE BackupInv'
  <2>1. AnswersPlaced'
    BY <1>1, <1>3, <1>8 DEF BC!Receives, BC!updateVars, BC!answerVars, BackupInv, AnswersPlaced
  <2>2. BC!LayersFollow' BY <1>8 DEF BC!Receives, BC!updateVars, BackupInv, BC!LayersFollow
  <2> QED
    BY <1>1, <1>3, <1>8, <2>1, <2>2
       DEF BC!Receives, BC!updateVars, BC!answerVars, BackupInv, BC!TypeOK, BC!Attempts, Attempts, Publishing
<1>9. ASSUME NEW a \in Attempts, BC!TimesOut(a) PROVE BackupInv'
  <2>1. AnswersPlaced'
    BY <1>1, <1>3, <1>9 DEF BC!TimesOut, BC!updateVars, BC!answerVars, BackupInv, AnswersPlaced
  <2>2. BC!LayersFollow' BY <1>9 DEF BC!TimesOut, BC!updateVars, BackupInv, BC!LayersFollow
  <2> QED
    BY <1>1, <1>3, <1>9, <2>1, <2>2
       DEF BC!TimesOut, BC!updateVars, BC!answerVars, BackupInv, BC!TypeOK, BC!Attempts, Attempts, Publishing
<1>10. ASSUME NEW a \in Attempts, BC!Unregister(a) PROVE BackupInv'
  <2>1. AnswersPlaced'
    BY <1>1, <1>3, <1>10 DEF BC!Unregister, BC!updateVars, BC!answerVars, BackupInv, AnswersPlaced
  <2>2. BC!LayersFollow' BY <1>10 DEF BC!Unregister, BC!updateVars, BackupInv, BC!LayersFollow
  <2> QED
    BY <1>1, <1>3, <1>10, <2>1, <2>2
       DEF BC!Unregister, BC!updateVars, BC!answerVars, BackupInv, BC!TypeOK, BC!Attempts, Attempts, Publishing
<1>11. ASSUME NEW a \in Attempts, BC!SFUAnswers(a) PROVE BackupInv'
  <2>1. AnswersPlaced'
    BY <1>1, <1>11 DEF BC!SFUAnswers, BC!updateVars, BackupInv, AnswersPlaced, Alone
  <2>2. BC!LayersFollow' BY <1>11 DEF BC!SFUAnswers, BC!updateVars, BackupInv, BC!LayersFollow
  <2> QED
    BY <1>1, <1>11, <2>1, <2>2
       DEF BC!SFUAnswers, BC!updateVars, BackupInv, BC!TypeOK, BC!Attempts, Attempts, Publishing
<1>12. ASSUME BC!SendsAnswer PROVE BackupInv'
  <2>1. AnswersPlaced'
    BY <1>1, <1>12 DEF BC!SendsAnswer, BC!updateVars, BackupInv, AnswersPlaced, Alone
  <2>2. BC!LayersFollow' BY <1>12 DEF BC!SendsAnswer, BC!updateVars, BackupInv, BC!LayersFollow
  <2> QED
    BY <1>1, <1>12, <2>1, <2>2
       DEF BC!SendsAnswer, BC!updateVars, BackupInv, BC!TypeOK, BC!Attempts, Attempts, Publishing
<1> QED
  BY <1>2, <1>4, <1>5, <1>6, <1>7, <1>8, <1>9, <1>10, <1>11, <1>12 DEF BC!Next, BC!Attempts, Attempts

LEMMA BackupStep == BackupInv /\ [Next]_vars => BackupInv'
<1> SUFFICES ASSUME BackupInv, UNCHANGED backupVars PROVE BackupInv'
  BY BackupNext DEF Next, vars, BC!vars, backupVars
<1> QED BY DEF backupVars, BackupInv, BC!TypeOK, BC!LayersFollow, AnswersPlaced, Alone

\* However updates, publishing goroutines, their failures and the SFU's answers interleave:
\* a codec that is wanted is published unless an attempt failed, its layers follow the updates
\* that came after the flag, and an attempt nobody joined misses no answer and never blocks
\* the signal reader; for any number of layers and updates (publication.go, localparticipant.go).
THEOREM BackupAlwaysServed == Spec => []BackupServed
<1>1. BackupInv => BackupServed
  <2> SUFFICES ASSUME BackupInv PROVE BC!BackupServed BY DEF BackupServed, BackupInv
  <2>1. BC!Served BY DEF BackupInv, BC!Served, BC!Quiet, Publishing, BC!Attempts, Attempts
  <2>2. BC!AnswerKept
    BY DEF BackupInv, AnswersPlaced, Alone, BC!AnswerKept, BC!Attempts, Attempts
  <2> QED BY <2>1, <2>2 DEF BackupInv, BC!BackupServed
<1> QED BY <1>1, BackupInit, BackupStep, PTL DEF Spec

-----------------------------------------------------------------------------
(* The subscription of a track, and its settings.                          *)

Kinds == {"settings", "subscription"}
ToldSFU == [type : {"settings"}, settings : TS!Settings]
           \cup [type : {"subscription"}, subscribed : BOOLEAN]
           \cup [type : {"sync"}, listed : BOOLEAN, subscribed : BOOLEAN, disabled : BOOLEAN]
SetterKind == [at : {"idle", "read", "send"}, settings : TS!Settings]

SubscriptionTyped ==
  /\ TS!TypeOK /\ subscribeToSFU \in Seq(ToldSFU)
  /\ subscribeLink = "down" => subscribeToSFU = <<>> /\ subscribeResumes < MaxSyncs

\* No message of a kind is under way behind the i-th.
NoneAfter(k, i) ==
  \A j \in 1 .. Len(subscribeToSFU) : j > i => subscribeToSFU[j].type # k
\* What a message says of the subscription or of the settings is as it should be.
TellsRight(k, m) ==
  IF k = "subscription"
  THEN m.type = "subscription" \/ (m.type = "sync" /\ m.listed) => m.subscribed = subscribeWant
  ELSE /\ m.type = "settings" => m.settings = settings
       /\ m.type = "sync" /\ m.disabled => settings.disabled
\* The SFU has it as it should be.
Has(k) ==
  IF k = "subscription" THEN subscribeSfu.subscribed = subscribeWant
                        ELSE subscribeSfu.settings = settings
\* The last request and the sync states behind it tell what they should; so does the
\* SFU, and every sync state, if no request is under way.
QueueTells(k) ==
  /\ NoneAfter(k, 0) => Has(k)
  /\ \A i \in 1 .. Len(subscribeToSFU) : NoneAfter(k, i) => TellsRight(k, subscribeToSFU[i])

Follows ==
  ~misled /\ "subscription" \notin subscribeLost \cup outdated => QueueTells("subscription")

\* One setter at a time sends what it read, and nothing was set since.
AllIdle == \A p \in Subscribers : subscribeProc[p] = TS!Idle
OneSetter ==
  ~subscribeCrossed =>
    /\ \A p, r \in Subscribers :
         subscribeProc[p] # TS!Idle /\ subscribeProc[r] # TS!Idle => p = r
    /\ \A p \in Subscribers : subscribeProc[p].at = "send" =>
         subscribeProc[p].settings = settings

SettingsFollow ==
  ~subscribeCrossed /\ "settings" \notin subscribeLost \cup outdated /\ AllIdle =>
    QueueTells("settings")

SubscriptionInv == SubscriptionTyped /\ Follows /\ OneSetter /\ SettingsFollow

\* What the queue tells depends on the queue, on what is wanted and on the SFU.
QueueSame ==
  UNCHANGED <<settings, subscribeSfu, subscribeToSFU, subscribeWant>>

LEMMA QueueKept == ASSUME QueueSame PROVE \A k \in Kinds : QueueTells(k)' <=> QueueTells(k)
  BY DEF QueueSame, QueueTells, NoneAfter, Has, TellsRight

LEMMA SubscriptionInit == Init => SubscriptionInv
<1> SUFFICES ASSUME TS!Init PROVE SubscriptionInv BY DEF Init
<1> USE DEF TS!Init
<1>0. MaxCalls \in Nat /\ MaxSyncs \in Nat BY Bounds DEF TS!SubscriptionAssumption
<1>1. 0 \in 0 .. MaxCalls /\ 0 \in 0 .. MaxSyncs BY <1>0
<1>2. TS!Default \in TS!Settings BY <1>1 DEF TS!Default, TS!Settings
<1>3. TS!TypeOK
  <2>1. TS!Idle \in SetterKind BY <1>2 DEF TS!Idle, SetterKind
  <2>2. subscribeProc \in [Subscribers -> SetterKind] BY <2>1
  <2>3. subscribeSfu \in [subscribed : BOOLEAN, settings : TS!Settings] BY <1>2
  <2> QED BY <1>1, <1>2, <2>2, <2>3, Zenon DEF TS!TypeOK, SetterKind
<1>4. SubscriptionTyped BY <1>3, EmptySeq DEF SubscriptionTyped
<1>5. \A k \in Kinds : Has(k) BY DEF Has
<1>6. \A k \in Kinds : QueueTells(k)
  <2>1. 1 .. Len(subscribeToSFU) = {} OBVIOUS
  <2> QED BY <1>5, <2>1 DEF QueueTells
<1>7. Follows BY <1>6 DEF Follows, Kinds
<1>8. OneSetter BY DEF OneSetter, TS!Idle
<1>9. SettingsFollow BY <1>6 DEF SettingsFollow, Kinds
<1> QED BY <1>4, <1>7, <1>8, <1>9 DEF SubscriptionInv

LEMMA SubscriptionTold ==
  ASSUME SubscriptionTyped, NEW m \in ToldSFU, subscribeToSFU' = Append(subscribeToSFU, m),
         UNCHANGED subscribeSfu
  PROVE  /\ subscribeToSFU' \in Seq(ToldSFU)
         /\ \A k \in Kinds : m.type = k /\ TellsRight(k, m)' => QueueTells(k)'
         /\ UNCHANGED <<settings, subscribeWant>> =>
              \A k \in Kinds : m.type # k /\ TellsRight(k, m) /\ QueueTells(k) => QueueTells(k)'
         /\ UNCHANGED settings /\ m.type # "sync" /\ m.type # "settings" /\ QueueTells("settings")
              => QueueTells("settings")'
<1>1. PICK n \in Nat : n = Len(subscribeToSFU) BY LenProperties DEF SubscriptionTyped
<1>2. /\ Len(subscribeToSFU') = n + 1 /\ subscribeToSFU'[n + 1] = m
      /\ \A i \in 1 .. n : subscribeToSFU'[i] = subscribeToSFU[i]
      /\ subscribeToSFU' \in Seq(ToldSFU)
  BY <1>1, AppendProperties DEF SubscriptionTyped
<1>3. ASSUME NEW k \in Kinds, NEW i \in 0 .. n, NoneAfter(k, i)' PROVE m.type # k /\ NoneAfter(k, i)
  <2>1. n + 1 \in 1 .. Len(subscribeToSFU') /\ n + 1 > i BY <1>2
  <2>2. m.type # k BY <1>2, <1>3, <2>1 DEF NoneAfter
  <2>3. ASSUME NEW j \in 1 .. n, j > i PROVE subscribeToSFU[j].type # k
    <3>1. j \in 1 .. Len(subscribeToSFU') BY <1>2
    <3> QED BY <1>2, <1>3, <2>3, <3>1 DEF NoneAfter
  <2> QED BY <1>1, <2>2, <2>3 DEF NoneAfter
<1>4. ASSUME NEW k \in Kinds, m.type = k, TellsRight(k, m)' PROVE QueueTells(k)'
  <2>1. ~NoneAfter(k, 0)' BY <1>3, <1>4
  <2>2. \A i \in 1 .. n + 1 : NoneAfter(k, i)' => i = n + 1 BY <1>3, <1>4
  <2> QED BY <1>2, <1>4, <2>1, <2>2 DEF QueueTells, TellsRight
<1>5. ASSUME NEW k \in Kinds, QueueTells(k), Has(k) => Has(k)',
             \A i \in 1 .. n : TellsRight(k, subscribeToSFU[i]) => TellsRight(k, subscribeToSFU[i])',
             TellsRight(k, m)'
      PROVE  QueueTells(k)'
  <2>1. NoneAfter(k, 0)' => Has(k)' BY <1>3, <1>5 DEF QueueTells
  <2>2. ASSUME NEW i \in 1 .. n + 1, NoneAfter(k, i)' PROVE TellsRight(k, subscribeToSFU[i])'
    <3>1. CASE i = n + 1 BY <1>2, <1>5, <3>1 DEF TellsRight
    <3>2. CASE i \in 1 .. n
      <4>1. NoneAfter(k, i) BY <1>3, <2>2, <3>2
      <4>2. TellsRight(k, subscribeToSFU[i]) BY <1>1, <1>5, <3>2, <4>1 DEF QueueTells
      <4> QED BY <1>5, <3>2, <4>2
    <3>3. i = n + 1 \/ i \in 1 .. n BY <1>1, <2>2
    <3> QED BY <3>1, <3>2, <3>3, Zenon
  <2> QED BY <1>2, <2>1, <2>2 DEF QueueTells
<1>6. ASSUME UNCHANGED <<settings, subscribeWant>>, NEW k \in Kinds, m.type # k, TellsRight(k, m), QueueTells(k)
      PROVE  QueueTells(k)'
  <2>1. \A i \in 1 .. n : TellsRight(k, subscribeToSFU[i]) => TellsRight(k, subscribeToSFU[i])' BY <1>2, <1>6 DEF TellsRight
  <2> QED BY <1>5, <1>6, <2>1 DEF Has, TellsRight
<1>7. ASSUME UNCHANGED settings, m.type # "sync", m.type # "settings", QueueTells("settings")
      PROVE  QueueTells("settings")'
  <2>1. \A i \in 1 .. n : TellsRight("settings", subscribeToSFU[i]) => TellsRight("settings", subscribeToSFU[i])'
    BY <1>2, <1>7 DEF TellsRight
  <2> QED BY <1>5, <1>7, <2>1 DEF Has, TellsRight, Kinds
<1> QED BY <1>2, <1>4, <1>6, <1>7

LEMMA SubscriptionTaken ==
  ASSUME SubscriptionTyped, subscribeToSFU # <<>>, subscribeToSFU' = Tail(subscribeToSFU),
         UNCHANGED <<settings, subscribeWant>>
  PROVE  /\ Head(subscribeToSFU) = subscribeToSFU[1]
         /\ Head(subscribeToSFU) \in ToldSFU /\ subscribeToSFU' \in Seq(ToldSFU)
         /\ \A k \in Kinds :
              /\ QueueTells(k)
              /\ TellsRight(k, subscribeToSFU[1]) => IF subscribeToSFU[1].type = k THEN Has(k)' ELSE Has(k) => Has(k)'
              => QueueTells(k)'
<1>1. PICK n \in Nat : n = Len(subscribeToSFU) BY LenProperties DEF SubscriptionTyped
<1>2. /\ Len(subscribeToSFU') = n - 1 /\ n > 0
      /\ \A i \in 1 .. n - 1 : subscribeToSFU'[i] = subscribeToSFU[i + 1]
      /\ Head(subscribeToSFU) = subscribeToSFU[1]
      /\ Head(subscribeToSFU) \in ToldSFU /\ subscribeToSFU' \in Seq(ToldSFU)
  BY <1>1, HeadTailProperties, EmptySeq DEF SubscriptionTyped
<1>3. ASSUME NEW k \in Kinds, NEW i \in 0 .. n - 1, NoneAfter(k, i)' PROVE NoneAfter(k, i + 1)
  <2> SUFFICES ASSUME NEW j \in 1 .. n, j > i + 1 PROVE subscribeToSFU[j].type # k BY <1>1 DEF NoneAfter
  <2>1. j - 1 \in 1 .. n - 1 /\ j - 1 > i /\ (j - 1) + 1 = j OBVIOUS
  <2>2. subscribeToSFU'[j - 1] = subscribeToSFU[j] BY <1>2, <2>1
  <2> QED BY <1>2, <1>3, <2>1, <2>2 DEF NoneAfter
<1>4. ASSUME NEW k \in Kinds, QueueTells(k),
             TellsRight(k, subscribeToSFU[1]) => IF subscribeToSFU[1].type = k THEN Has(k)' ELSE Has(k) => Has(k)'
      PROVE  QueueTells(k)'
  <2>1. ASSUME NoneAfter(k, 0)' PROVE Has(k)'
    <3>1. NoneAfter(k, 1) BY <1>2, <1>3, <2>1
    <3>2. TellsRight(k, subscribeToSFU[1]) BY <1>1, <1>2, <1>4, <3>1 DEF QueueTells
    <3>3. CASE subscribeToSFU[1].type = k BY <1>4, <3>2, <3>3
    <3>4. CASE subscribeToSFU[1].type # k
      <4>1. NoneAfter(k, 0) BY <3>1, <3>4 DEF NoneAfter
      <4> QED BY <1>4, <3>2, <3>4, <4>1 DEF QueueTells
    <3> QED BY <3>3, <3>4
  <2>2. ASSUME NEW i \in 1 .. n - 1, NoneAfter(k, i)' PROVE TellsRight(k, subscribeToSFU[i])'
    <3>1. i + 1 \in 1 .. n /\ NoneAfter(k, i + 1) BY <1>3, <2>2
    <3>2. TellsRight(k, subscribeToSFU[i + 1]) BY <1>1, <1>4, <3>1 DEF QueueTells
    <3> QED BY <1>2, <3>2 DEF TellsRight
  <2> QED BY <1>2, <2>1, <2>2 DEF QueueTells
<1> QED BY <1>2, <1>4

LEMMA SubscriptionNext == SubscriptionInv /\ TS!Next => SubscriptionInv'
<1> SUFFICES ASSUME SubscriptionInv, TS!Next PROVE SubscriptionInv' OBVIOUS
<1>0. /\ MaxCalls \in Nat /\ MaxSyncs \in Nat
      /\ TS!TypeOK /\ subscribeToSFU \in Seq(ToldSFU)
      /\ SubscriptionTyped /\ Follows /\ OneSetter /\ SettingsFollow
      /\ "settings" \in Kinds /\ "subscription" \in Kinds
  BY Bounds DEF TS!SubscriptionAssumption, SubscriptionInv, SubscriptionTyped, Kinds
<1>1. /\ settings \in TS!Settings /\ {subscribeWant, attached, autoSubscribe} \subseteq BOOLEAN
      /\ subscribeProc \in [Subscribers -> SetterKind]
      /\ subscribeSfu \in [subscribed : BOOLEAN, settings : TS!Settings]
      /\ subscribeWorker \in [at : {"idle", "wait", "track", "enabled", "send"}, attached : BOOLEAN,
                              disabled : BOOLEAN]
      /\ settings.disabled \in BOOLEAN
  BY <1>0 DEF TS!TypeOK, SetterKind, TS!Settings
\* Nothing that the messages and the setters look at changes.
<1>2. ASSUME QueueSame, UNCHANGED <<subscribeProc, subscribeCrossed, subscribeLost, outdated>>,
             ~misled' => ~misled, TS!TypeOK',
             subscribeLink' = "down" => subscribeLink = "down" /\ UNCHANGED subscribeResumes
      PROVE  SubscriptionInv'
  <2>1. SubscriptionTyped' BY <1>0, <1>2 DEF SubscriptionTyped, QueueSame
  <2>2. Follows' BY <1>0, <1>2, QueueKept DEF Follows
  <2>3. OneSetter' BY <1>0, <1>2 DEF OneSetter, QueueSame
  <2>4. SettingsFollow' BY <1>0, <1>2, QueueKept DEF SettingsFollow, AllIdle
  <2> QED BY <2>1, <2>2, <2>3, <2>4 DEF SubscriptionInv
<1>3. ASSUME NEW p \in Subscribers, NEW s \in TS!Settings, TS!Set(p, s) PROVE SubscriptionInv'
  <2>1. /\ UNCHANGED <<autoSubscribe, attached, subscribeMedia, subscribeSfu, subscribeToSFU,
                       subscribeLink, subscribeResumes, subscribeWorker, subscribeWant,
                       subscribeLost, misled, outdated>>
        /\ subscribeProc[p] = TS!Idle /\ calls < MaxCalls /\ calls' = calls + 1 /\ settings' = s
        /\ subscribeProc' = [subscribeProc EXCEPT ![p].at = "read"]
        /\ subscribeCrossed' = (subscribeCrossed \/ \E q \in Subscribers : subscribeProc[q] # TS!Idle)
    BY <1>3 DEF TS!Set, TS!sfuVars
  <2>2. SubscriptionTyped'
    <3>1. calls' \in 0 .. MaxCalls BY <1>0, <2>1 DEF TS!TypeOK
    <3>2. subscribeProc' \in [Subscribers -> SetterKind] BY <1>1, <2>1 DEF SetterKind
    <3>3. TS!TypeOK'
      <4>1. subscribeCrossed' \in BOOLEAN BY <2>1
      <4> QED BY <1>0, <2>1, <3>1, <3>2, <4>1, Zenon DEF TS!TypeOK, SetterKind
    <3> QED BY <1>0, <2>1, <3>3 DEF SubscriptionTyped
  <2>3. Follows' BY <1>0, <2>1 DEF Follows, QueueTells, NoneAfter, Has, TellsRight
  <2>4. /\ subscribeProc'[p].at = "read"
        /\ \A r \in Subscribers \ {p} : subscribeProc'[r] = subscribeProc[r]
    BY <1>1, <2>1 DEF SetterKind
  <2>5. subscribeProc'[p] # TS!Idle BY <2>4 DEF TS!Idle
  <2>6. ~subscribeCrossed' => ~subscribeCrossed /\ AllIdle BY <2>1 DEF AllIdle
  <2>7. OneSetter' BY <2>4, <2>6 DEF OneSetter, AllIdle, TS!Idle
  <2>8. SettingsFollow' BY <2>5 DEF SettingsFollow, AllIdle
  <2> QED BY <2>2, <2>3, <2>7, <2>8 DEF SubscriptionInv
<1>4. ASSUME NEW p \in Subscribers, NEW b \in BOOLEAN,
             TS!SetEnabled(p, b) PROVE SubscriptionInv'
  <2>1. [settings EXCEPT !.disabled = ~b] \in TS!Settings BY <1>1 DEF TS!Settings
  <2> QED BY <1>3, <1>4, <2>1 DEF TS!SetEnabled
<1>5. ASSUME NEW p \in Subscribers, TS!SetVideoQuality(p) PROVE SubscriptionInv'
  <2>1. calls < MaxCalls BY <1>5 DEF TS!SetVideoQuality, TS!Set
  <2>2. calls \in 0 .. MaxCalls BY <1>0 DEF TS!TypeOK
  <2>3. calls + 1 \in 0 .. MaxCalls BY <1>0, <2>1, <2>2
  <2>4. [settings EXCEPT !.quality = calls + 1] \in TS!Settings BY <1>1, <2>3 DEF TS!Settings
  <2> QED BY <1>3, <1>5, <2>4 DEF TS!SetVideoQuality
<1>6. ASSUME NEW p \in Subscribers, TS!ReadSettings(p) PROVE SubscriptionInv'
  <2>1. /\ UNCHANGED <<autoSubscribe, settings, attached, subscribeMedia, subscribeSfu,
                       subscribeToSFU, subscribeLink, calls, subscribeResumes, subscribeWorker,
                       subscribeWant, subscribeCrossed, subscribeLost, misled, outdated>>
        /\ subscribeProc[p].at = "read"
        /\ subscribeProc' = [subscribeProc EXCEPT ![p] = [at |-> "send", settings |-> settings]]
    BY <1>6 DEF TS!ReadSettings, TS!sfuVars, TS!ghosts
  <2>2. SubscriptionTyped'
    <3>1. subscribeProc' \in [Subscribers -> SetterKind] BY <1>1, <2>1 DEF SetterKind
    <3>2. TS!TypeOK' BY <1>0, <2>1, <3>1, Zenon DEF TS!TypeOK, SetterKind
    <3> QED BY <1>0, <2>1, <3>2 DEF SubscriptionTyped
  <2>3. Follows' BY <1>0, <2>1, QueueKept DEF Follows, QueueSame
  <2>4. /\ subscribeProc'[p] = [at |-> "send", settings |-> settings]
        /\ \A r \in Subscribers \ {p} : subscribeProc'[r] = subscribeProc[r]
        /\ subscribeProc[p] # TS!Idle /\ subscribeProc'[p] # TS!Idle
    BY <1>1, <2>1 DEF TS!Idle
  <2>5. OneSetter' BY <1>0, <2>1, <2>4 DEF OneSetter
  <2>6. SettingsFollow' BY <2>4 DEF SettingsFollow, AllIdle
  <2> QED BY <2>2, <2>3, <2>5, <2>6 DEF SubscriptionInv
<1>7. ASSUME NEW p \in Subscribers, TS!SendSettings(p) PROVE SubscriptionInv'
  <2>1. /\ UNCHANGED <<autoSubscribe, settings, attached, subscribeMedia, subscribeSfu,
                       subscribeLink, calls, subscribeResumes, subscribeWorker, subscribeWant,
                       subscribeCrossed, misled, outdated>>
        /\ subscribeProc[p].at = "send"
        /\ subscribeLost' = IF subscribeLink = "down" THEN subscribeLost \cup {"settings"}
                                                      ELSE subscribeLost
        /\ subscribeProc' = [subscribeProc EXCEPT ![p] = TS!Idle]
    BY <1>7 DEF TS!SendSettings
  <2>2. PICK m : m = [type |-> "settings", settings |-> subscribeProc[p].settings] OBVIOUS
  <2>3. subscribeToSFU' = IF subscribeLink = "up" THEN Append(subscribeToSFU, m) ELSE subscribeToSFU
    BY <1>7, <2>2 DEF TS!SendSettings, TS!Send
  <2>4. m \in ToldSFU /\ m.type = "settings" /\ m.settings = subscribeProc[p].settings
    BY <1>1, <2>2 DEF ToldSFU, SetterKind
  <2>5. subscribeLink \in {"up", "down"} BY <1>0 DEF TS!TypeOK
  <2>6. TS!TypeOK'
    <3>1. TS!Idle \in SetterKind
      BY <1>0 DEF TS!Idle, TS!Settings, TS!Default, SetterKind
    <3>2. subscribeProc' \in [Subscribers -> SetterKind] BY <1>1, <2>1, <3>1
    <3>3. subscribeLost' \subseteq {"settings", "subscription", "sync"}
      BY <1>0, <2>1 DEF TS!TypeOK
    <3> QED BY <1>0, <2>1, <3>2, <3>3, Zenon DEF TS!TypeOK, SetterKind
  <2>7. \A r \in Subscribers \ {p} : subscribeProc'[r] = subscribeProc[r] BY <1>1, <2>1
  <2>8. subscribeProc'[p] = TS!Idle /\ subscribeProc[p] # TS!Idle BY <1>1, <2>1 DEF TS!Idle
  <2>9. OneSetter' BY <1>0, <2>1, <2>7, <2>8 DEF OneSetter, TS!Idle
  <2>10. CASE subscribeLink = "down"
    <3>1. "settings" \in subscribeLost' BY <2>1, <2>10
    <3>2. SettingsFollow' BY <3>1 DEF SettingsFollow
    <3>3. UNCHANGED subscribeToSFU BY <2>3, <2>10
    <3>4. SubscriptionTyped' BY <1>0, <2>1, <2>6, <3>3 DEF SubscriptionTyped
    <3>5. Follows' BY <1>0, <2>1, <3>3, QueueKept DEF Follows, QueueSame
    <3> QED BY <2>9, <3>2, <3>4, <3>5 DEF SubscriptionInv
  <2>11. CASE subscribeLink = "up"
    <3>1. subscribeToSFU' = Append(subscribeToSFU, m) /\ UNCHANGED subscribeLost
      BY <2>1, <2>3, <2>11
    <3>2. SubscriptionTyped'
      <4>1. subscribeToSFU' \in Seq(ToldSFU) BY <1>0, <2>1, <2>4, <3>1, SubscriptionTold
      <4> QED BY <1>0, <2>1, <2>6, <2>11, <4>1 DEF SubscriptionTyped
    <3>3. Follows'
      <4>1. TellsRight("subscription", m) BY <2>4 DEF TellsRight
      <4>2. QueueTells("subscription") => QueueTells("subscription")'
        BY <1>0, <2>1, <2>4, <3>1, <4>1, SubscriptionTold
      <4> QED BY <1>0, <2>1, <3>1, <4>2 DEF Follows
    <3>4. SettingsFollow'
      <4>1. ~subscribeCrossed => m.settings = settings BY <1>0, <2>1, <2>4 DEF OneSetter
      <4>2. ~subscribeCrossed => TellsRight("settings", m)' BY <2>1, <2>4, <4>1 DEF TellsRight
      <4>3. ~subscribeCrossed => QueueTells("settings")'
        BY <1>0, <2>1, <2>4, <3>1, <4>2, SubscriptionTold
      <4> QED BY <2>1, <4>3 DEF SettingsFollow
    <3> QED BY <2>9, <3>2, <3>3, <3>4 DEF SubscriptionInv
  <2> QED BY <2>5, <2>10, <2>11
<1>8. ASSUME NEW p \in Subscribers, NEW b \in BOOLEAN, TS!SetSubscribed(p, b)
      PROVE  SubscriptionInv'
  <2>1. /\ UNCHANGED <<autoSubscribe, settings, subscribeProc, attached, subscribeMedia,
                       subscribeSfu, subscribeLink, subscribeResumes, subscribeWorker,
                       subscribeCrossed, subscribeLost, misled, outdated>>
        /\ calls < MaxCalls /\ calls' = calls + 1 /\ subscribeWant' = b /\ subscribeLink = "up"
    BY <1>8 DEF TS!SetSubscribed
  <2>2. PICK m : m = [type |-> "subscription", subscribed |-> b] OBVIOUS
  <2>3. subscribeToSFU' = Append(subscribeToSFU, m)
    BY <1>8, <2>1, <2>2 DEF TS!SetSubscribed, TS!Send
  <2>4. m \in ToldSFU /\ m.type = "subscription" /\ m.subscribed = b BY <2>2 DEF ToldSFU
  <2>5. TS!TypeOK'
    <3>1. calls' \in 0 .. MaxCalls BY <1>0, <2>1 DEF TS!TypeOK
    <3> QED BY <1>0, <2>1, <3>1, Zenon DEF TS!TypeOK
  <2>6. subscribeToSFU' \in Seq(ToldSFU) BY <1>0, <2>1, <2>3, <2>4, SubscriptionTold
  <2>7. SubscriptionTyped' BY <1>0, <2>1, <2>5, <2>6 DEF SubscriptionTyped
  <2>8. Follows'
    <3>1. TellsRight("subscription", m)' BY <2>1, <2>4 DEF TellsRight
    <3> QED BY <1>0, <2>1, <2>3, <2>4, <3>1, SubscriptionTold DEF Follows
  <2>9. OneSetter' BY <1>0, <2>1 DEF OneSetter
  <2>10. SettingsFollow'
    <3>1. QueueTells("settings") => QueueTells("settings")'
      BY <1>0, <2>1, <2>3, <2>4, SubscriptionTold
    <3> QED BY <1>0, <2>1, <3>1 DEF SettingsFollow, AllIdle
  <2> QED BY <2>7, <2>8, <2>9, <2>10 DEF SubscriptionInv
<1>9. CASE TS!OnMediaTrack
  <2>1. /\ UNCHANGED <<autoSubscribe, settings, subscribeProc, subscribeSfu, subscribeToSFU,
                       subscribeLink, calls, subscribeResumes, subscribeWorker, subscribeWant,
                       subscribeCrossed, subscribeLost, misled, outdated>>
        /\ attached' = TRUE
    BY <1>9 DEF TS!OnMediaTrack, TS!sfuVars, TS!ghosts
  <2>2. {autoSubscribe, attached, subscribeMedia, subscribeWant, subscribeCrossed, misled}'
          \subseteq BOOLEAN
    BY <1>0, <1>9, <2>1, Zenon DEF TS!TypeOK, TS!OnMediaTrack
  <2>3. TS!TypeOK' BY <1>0, <2>1, <2>2, Zenon DEF TS!TypeOK
  <2> QED BY <1>2, <2>1, <2>3 DEF QueueSame
\* What is lost with the connection is told to nobody.
<1>10. CASE TS!LinkFails
  <2>1. /\ UNCHANGED <<autoSubscribe, settings, subscribeProc, attached, subscribeMedia,
                       subscribeSfu, calls, subscribeResumes, subscribeWorker, subscribeWant,
                       subscribeCrossed, misled, outdated>>
        /\ subscribeLink' = "down" /\ subscribeToSFU' = <<>> /\ subscribeResumes < MaxSyncs
        /\ subscribeLost' = subscribeLost
             \cup {subscribeToSFU[i].type : i \in 1 .. Len(subscribeToSFU)}
    BY <1>10 DEF TS!LinkFails
  <2>2. \A k \in Kinds : k \notin subscribeLost' => k \notin subscribeLost /\ NoneAfter(k, 0)
    BY <2>1 DEF NoneAfter
  <2>3. \A i \in 1 .. Len(subscribeToSFU) : subscribeToSFU[i].type \in {"settings", "subscription", "sync"}
    <3>1. ASSUME NEW i \in 1 .. Len(subscribeToSFU) PROVE subscribeToSFU[i] \in ToldSFU
      BY <1>0, ElementOfSeq
    <3> QED BY <3>1 DEF ToldSFU
  <2>4. TS!TypeOK'
    <3>1. subscribeLost' \subseteq {"settings", "subscription", "sync"}
      BY <1>0, <2>1, <2>3 DEF TS!TypeOK
    <3> QED BY <1>0, <2>1, <3>1, Zenon DEF TS!TypeOK
  <2>5. SubscriptionTyped' BY <2>1, <2>4, EmptySeq DEF SubscriptionTyped
  <2>6. ASSUME NEW k \in Kinds, QueueTells(k), k \notin subscribeLost' PROVE QueueTells(k)'
    <3>1. Has(k) BY <2>2, <2>6 DEF QueueTells
    <3>2. Has(k)' BY <2>1, <3>1 DEF Has
    <3>3. 1 .. Len(subscribeToSFU') = {} BY <2>1
    <3> QED BY <3>2, <3>3 DEF QueueTells
  <2>7. Follows' BY <1>0, <2>1, <2>2, <2>6 DEF Follows
  <2>8. OneSetter' BY <1>0, <2>1 DEF OneSetter
  <2>9. SettingsFollow' BY <1>0, <2>1, <2>2, <2>6 DEF SettingsFollow, AllIdle
  <2> QED BY <2>5, <2>7, <2>8, <2>9 DEF SubscriptionInv
<1>11. CASE TS!LinkUp
  <2>1. /\ QueueSame /\ UNCHANGED <<autoSubscribe, subscribeProc, attached, subscribeMedia, calls,
                                    subscribeCrossed, subscribeLost, misled, outdated>>
        /\ subscribeLink = "down" /\ subscribeLink' = "up" /\ subscribeResumes' = subscribeResumes + 1
        /\ subscribeWorker' = [subscribeWorker EXCEPT !.at = "wait"]
    BY <1>11 DEF TS!LinkUp, TS!ghosts, QueueSame
  <2>2. subscribeResumes' \in 0 .. MaxSyncs
    <3>1. subscribeResumes \in 0 .. MaxSyncs /\ subscribeResumes < MaxSyncs
      BY <1>0, <2>1 DEF TS!TypeOK, SubscriptionTyped
    <3> QED BY <1>0, <2>1, <3>1
  <2>3. TS!TypeOK' BY <1>0, <1>1, <2>1, <2>2 DEF TS!TypeOK, QueueSame
  <2> QED BY <1>2, <2>1, <2>3
<1>12. CASE TS!OnResumed \/ TS!ReadTrack \/ TS!ReadEnabled
  <2>1. /\ QueueSame /\ UNCHANGED <<autoSubscribe, subscribeProc, attached, subscribeMedia, calls,
                                    subscribeLink, subscribeResumes, subscribeCrossed, subscribeLost,
                                    outdated>>
        /\ misled' = misled \/ misled' = (misled \/ attached # subscribeWant)
    BY <1>12 DEF TS!OnResumed, TS!ReadTrack, TS!ReadEnabled, TS!sfuVars, TS!ghosts, QueueSame
  <2>2. misled \in BOOLEAN /\ misled' \in BOOLEAN /\ (~misled' => ~misled)
    BY <1>0, <2>1 DEF TS!TypeOK
  <2>3. subscribeWorker' \in [at : {"idle", "wait", "track", "enabled", "send"}, attached : BOOLEAN,
                              disabled : BOOLEAN]
    BY <1>1, <1>12 DEF TS!OnResumed, TS!ReadTrack, TS!ReadEnabled
  <2>4. TS!TypeOK' BY <1>0, <2>1, <2>2, <2>3, Zenon DEF TS!TypeOK, QueueSame
  <2> QED BY <1>2, <2>1, <2>2, <2>4
\* The sync state tells what the SFU is to have, unless that changed since it was read.
<1>13. CASE TS!SendSyncState
  <2>1. /\ UNCHANGED <<autoSubscribe, settings, subscribeProc, attached, subscribeMedia,
                       subscribeSfu, subscribeLink, calls, subscribeResumes, subscribeWant,
                       subscribeCrossed, misled>>
        /\ subscribeLost' = IF subscribeLink = "down" THEN subscribeLost \cup {"sync"} ELSE subscribeLost
        /\ subscribeWorker' = [subscribeWorker EXCEPT !.at = "idle"]
        /\ outdated' = outdated \cup {k \in {"subscription"} : subscribeWorker.attached # subscribeWant}
             \cup {k \in {"settings"} : subscribeWorker.disabled /\ ~settings.disabled}
    BY <1>13 DEF TS!SendSyncState
  <2>2. PICK m : m = [type |-> "sync", listed |-> TS!Listed, subscribed |-> ~autoSubscribe,
                      disabled |-> subscribeWorker.disabled]
    OBVIOUS
  <2>3. subscribeToSFU' = IF subscribeLink = "up" THEN Append(subscribeToSFU, m) ELSE subscribeToSFU
    BY <1>13, <2>2 DEF TS!SendSyncState, TS!Send
  <2>4. /\ m.type = "sync" /\ (m.listed <=> subscribeWorker.attached # autoSubscribe)
        /\ (m.subscribed <=> ~autoSubscribe) /\ (m.disabled <=> subscribeWorker.disabled)
        /\ {m.listed, m.subscribed, m.disabled} \subseteq BOOLEAN
    BY <1>1, <2>2 DEF TS!Listed
  <2>5. m \in ToldSFU BY <2>2, <2>4 DEF ToldSFU
  <2>6. TS!TypeOK'
    <3>1. subscribeLost' \subseteq {"settings", "subscription", "sync"} BY <1>0, <2>1 DEF TS!TypeOK
    <3>2. outdated' \subseteq {"settings", "subscription"} BY <1>0, <2>1 DEF TS!TypeOK
    <3>3. subscribeWorker' \in [at : {"idle", "wait", "track", "enabled", "send"}, attached : BOOLEAN,
                                disabled : BOOLEAN]
      BY <1>1, <2>1
    <3> QED BY <1>0, <2>1, <3>1, <3>2, <3>3, Zenon DEF TS!TypeOK
  <2>7. subscribeLink \in {"up", "down"} BY <1>0 DEF TS!TypeOK
  <2>8. \A k \in Kinds : k \notin subscribeLost' \cup outdated' => k \notin subscribeLost \cup outdated
    BY <2>1
  <2>9. OneSetter' BY <1>0, <2>1 DEF OneSetter
  <2>10. ASSUME NEW k \in Kinds, k \notin outdated' PROVE TellsRight(k, m)
    <3>1. CASE k = "subscription"
      <4>1. subscribeWorker.attached = subscribeWant BY <2>1, <2>10, <3>1
      <4>2. m.listed => m.subscribed = subscribeWant
        <5>1. /\ autoSubscribe = TRUE \/ autoSubscribe = FALSE
              /\ subscribeWant = TRUE \/ subscribeWant = FALSE
              /\ m.subscribed = TRUE \/ m.subscribed = FALSE
          BY <1>1, <2>4
        <5>2. CASE autoSubscribe = TRUE BY <2>4, <4>1, <5>1, <5>2
        <5>3. CASE autoSubscribe = FALSE BY <2>4, <4>1, <5>1, <5>3
        <5> QED BY <5>1, <5>2, <5>3
      <4> QED BY <2>4, <3>1, <4>2 DEF TellsRight
    <3>2. CASE k = "settings"
      <4>1. subscribeWorker.disabled => settings.disabled BY <2>1, <2>10, <3>2
      <4> QED BY <2>4, <3>2, <4>1 DEF TellsRight
    <3> QED BY <3>1, <3>2 DEF Kinds
  <2>11. ASSUME NEW k \in Kinds, k \notin outdated', QueueTells(k) PROVE QueueTells(k)'
    <3>1. CASE subscribeLink = "up"
      BY <1>0, <2>1, <2>3, <2>4, <2>5, <2>10, <2>11, <3>1, SubscriptionTold DEF Kinds
    <3>2. CASE subscribeLink = "down"
      <4>1. QueueSame BY <2>1, <2>3, <3>2 DEF QueueSame
      <4> QED BY <2>11, <4>1, QueueKept
    <3> QED BY <2>7, <3>1, <3>2
  <2>12. subscribeToSFU' \in Seq(ToldSFU)
    BY <1>0, <2>1, <2>3, <2>5, <2>7, SubscriptionTold
  <2>13. SubscriptionTyped' BY <1>0, <2>1, <2>3, <2>6, <2>12 DEF SubscriptionTyped
  <2>14. Follows' BY <1>0, <2>1, <2>8, <2>11 DEF Follows
  <2>15. SettingsFollow' BY <1>0, <2>1, <2>8, <2>11 DEF SettingsFollow, AllIdle
  <2> QED BY <2>9, <2>13, <2>14, <2>15 DEF SubscriptionInv
\* The SFU takes a message.
<1>14. ASSUME TS!TakeSettings \/ TS!TakeSubscription \/ TS!TakeSync PROVE SubscriptionInv'
  <2>1. /\ UNCHANGED <<autoSubscribe, settings, subscribeProc, attached, subscribeLink,
                       calls, subscribeResumes, subscribeWorker, subscribeWant, subscribeCrossed,
                       subscribeLost, misled, outdated>>
        /\ subscribeLink = "up" /\ subscribeToSFU # <<>>
        /\ subscribeToSFU' = Tail(subscribeToSFU)
    BY <1>14 DEF TS!TakeSettings, TS!TakeSubscription, TS!TakeSync, TS!ghosts
  <2>2. PICK m \in ToldSFU : m = Head(subscribeToSFU) /\ m = subscribeToSFU[1]
    BY <1>0, <2>1, SubscriptionTaken
  <2>3. subscribeToSFU' \in Seq(ToldSFU) BY <1>0, <2>1, SubscriptionTaken
  <2>4. /\ subscribeSfu' \in [subscribed : BOOLEAN, settings : TS!Settings]
        /\ subscribeMedia' \in BOOLEAN
        /\ \A k \in Kinds : TellsRight(k, m) => IF m.type = k THEN Has(k)' ELSE Has(k) => Has(k)'
    <3> subscribeMedia \in BOOLEAN BY <1>0 DEF TS!TypeOK
    <3>1. CASE TS!TakeSettings
      <4>1. /\ m.type = "settings" /\ m.settings \in TS!Settings
            /\ subscribeSfu' = [subscribeSfu EXCEPT !.settings = m.settings]
            /\ UNCHANGED subscribeMedia
        BY <2>2, <3>1 DEF TS!TakeSettings, ToldSFU
      <4> QED BY <1>1, <2>1, <4>1 DEF Has, TellsRight, Kinds
    <3>2. CASE TS!TakeSubscription
      <4>1. /\ m.type = "subscription" /\ m.subscribed \in BOOLEAN
            /\ subscribeSfu' = [subscribeSfu EXCEPT !.subscribed = m.subscribed]
            /\ subscribeMedia' = (subscribeMedia \/ (m.subscribed /\ ~subscribeSfu.subscribed))
        BY <2>2, <3>2 DEF TS!TakeSubscription, TS!Subscribe, ToldSFU
      <4>2. subscribeMedia' \in BOOLEAN BY <4>1
      <4> QED BY <1>1, <2>1, <4>1, <4>2 DEF Has, TellsRight, Kinds
    <3>3. CASE TS!TakeSync
      <4>1. PICK b : b = IF m.listed THEN m.subscribed ELSE subscribeSfu.subscribed OBVIOUS
      <4>2. /\ m.type = "sync" /\ {m.listed, m.subscribed, m.disabled} \subseteq BOOLEAN
            /\ subscribeSfu' = [subscribeSfu EXCEPT !.subscribed = b, !.settings.disabled = @ \/ m.disabled]
            /\ subscribeMedia' = (subscribeMedia \/ (b /\ ~subscribeSfu.subscribed))
        BY <2>2, <3>3, <4>1 DEF TS!TakeSync, TS!Subscribe, ToldSFU
      <4>3. b \in BOOLEAN BY <1>1, <4>1, <4>2
      <4>4. subscribeMedia' \in BOOLEAN BY <4>2
      <4>5. /\ subscribeSfu.settings \in TS!Settings /\ subscribeSfu.settings.disabled \in BOOLEAN
            /\ [subscribeSfu.settings EXCEPT !.disabled = @ \/ m.disabled] \in TS!Settings
        BY <1>1 DEF TS!Settings
      <4>6. /\ subscribeSfu' \in [subscribed : BOOLEAN, settings : TS!Settings]
            /\ subscribeSfu'.subscribed = b
            /\ subscribeSfu'.settings = [subscribeSfu.settings EXCEPT !.disabled = @ \/ m.disabled]
        BY <1>1, <4>2, <4>3, <4>5
      <4>7. TellsRight("subscription", m) /\ Has("subscription") => Has("subscription")'
        BY <2>1, <4>1, <4>2, <4>6 DEF TellsRight, Has
      <4>8. TellsRight("settings", m) /\ Has("settings") => Has("settings")'
        <5> SUFFICES ASSUME m.disabled => settings.disabled, subscribeSfu.settings = settings
                     PROVE  [subscribeSfu.settings EXCEPT !.disabled = @ \/ m.disabled] = settings
          BY <2>1, <4>2, <4>6 DEF TellsRight, Has
        <5>1. (subscribeSfu.settings.disabled \/ m.disabled) = subscribeSfu.settings.disabled
          BY <4>2, <4>5
        <5> QED BY <4>5, <5>1 DEF TS!Settings
      <4> QED BY <4>2, <4>4, <4>6, <4>7, <4>8 DEF Kinds
    <3> QED BY <1>14, <3>1, <3>2, <3>3
  <2>5. TS!TypeOK' BY <1>0, <2>1, <2>4, Zenon DEF TS!TypeOK
  <2>6. SubscriptionTyped' BY <1>0, <2>1, <2>3, <2>5 DEF SubscriptionTyped
  <2>7. \A k \in Kinds : QueueTells(k) => QueueTells(k)' BY <1>0, <2>1, <2>2, <2>4, SubscriptionTaken
  <2>8. Follows' BY <1>0, <2>1, <2>7 DEF Follows
  <2>9. OneSetter' BY <1>0, <2>1 DEF OneSetter
  <2>10. SettingsFollow' BY <1>0, <2>1, <2>7 DEF SettingsFollow, AllIdle
  <2> QED BY <2>6, <2>8, <2>9, <2>10 DEF SubscriptionInv
<1> QED
  BY <1>4, <1>5, <1>6, <1>7, <1>8, <1>9, <1>10, <1>11, <1>12, <1>13, <1>14 DEF TS!Next

LEMMA SubscriptionStep == SubscriptionInv /\ [Next]_vars => SubscriptionInv'
<1> SUFFICES ASSUME SubscriptionInv, UNCHANGED subscribeVars PROVE SubscriptionInv'
  BY SubscriptionNext DEF Next, vars
<1>1. QueueSame BY DEF subscribeVars, QueueSame
<1>2. SubscriptionTyped' BY DEF subscribeVars, SubscriptionInv, SubscriptionTyped, TS!TypeOK
<1>3. \A k \in Kinds : QueueTells(k)' <=> QueueTells(k) BY <1>1, QueueKept
<1>4. Follows' BY <1>3 DEF subscribeVars, SubscriptionInv, Follows, Kinds
<1>5. OneSetter' BY DEF subscribeVars, SubscriptionInv, OneSetter
<1>6. SettingsFollow' BY <1>3 DEF subscribeVars, SubscriptionInv, SettingsFollow, AllIdle, Kinds
<1> QED BY <1>2, <1>4, <1>5, <1>6 DEF SubscriptionInv

\* However setters, the worker that resumes and the SFU interleave, the SFU keeps what the
\* application asked for, but for what was lost, overlapped or was outdated when it was
\* sent; for any number of goroutines, calls and resumes (publication.go, room.go).
THEOREM SubscriptionAlwaysKept == Spec => []SubscriptionKept
<1>1. SubscriptionInv => SubscriptionKept
  <2> SUFFICES ASSUME SubscriptionInv, TS!Quiet PROVE SubscriptionKept
    BY DEF SubscriptionKept, SubscriptionInv, SubscriptionTyped, TS!SubscriptionKept
  <2>1. \A k : NoneAfter(k, 0) BY DEF TS!Quiet, NoneAfter
  <2>2. AllIdle BY DEF TS!Quiet, AllIdle
  <2>3. QueueTells("subscription") => subscribeSfu.subscribed = subscribeWant
    BY <2>1 DEF QueueTells, Has
  <2>4. QueueTells("settings") => subscribeSfu.settings = settings
    BY <2>1 DEF QueueTells, Has
  <2> QED
    BY <2>2, <2>3, <2>4
       DEF SubscriptionInv, SubscriptionTyped, Follows, SettingsFollow, SubscriptionKept,
           TS!SubscriptionKept
<1> QED BY <1>1, SubscriptionInit, SubscriptionStep, PTL DEF Spec

-----------------------------------------------------------------------------
(* API requests and the regions they fail over to.                         *)

\* The hosts that were tried by the end of a path of attempts.
Reached(path) == {path[i].host : i \in 1 .. Len(path)}
Known(regions) == IF regions = NONE THEN {} ELSE FO!ToSet(regions)
Tries == [host : FO!Hosts, heard : BOOLEAN, known : SUBSET FO!Hosts, cached : BOOLEAN]
RequestLocals ==
  [at : FO!Places, host : FO!Hosts, tried : SUBSET FO!Hosts, regions : Lists \cup {NONE},
   path : Seq(Tries), live : {0, 1}, body : BOOLEAN, cause : {"none", "cancelled", "lapsed"},
   gaveUp : BOOLEAN, forwarded : BOOLEAN, watched : BOOLEAN]

\* FreshRegions, of one path.
FreshPath(path) ==
  \A j \in 2 .. Len(path) :
    /\ path[j - 1].cached => path[j].heard
    /\ (\E i \in 1 .. j - 1 : path[i].host = path[j].host) =>
         path[j].known \subseteq {path[i].host : i \in 1 .. j - 1}

\* The attempt to come: of a host not tried yet if there is one, and with the
\* regions that were cached when the last one began.
NextTry(q) ==
  /\ q.host \in Reached(q.path) => Known(q.regions) \subseteq Reached(q.path)
  /\ q.path # <<>> /\ q.path[Len(q.path)].cached => q.regions # NONE

\* One request, in terms of whether the cache holds a list.
RequestOK(q, listed) ==
  /\ q \in RequestLocals /\ FreshPath(q.path)
  /\ q.at \in {"idle", "send", "failed", "fetching", "backoff"} =>
       Len(q.path) < failoverMaxAttempts
  /\ Len(q.path) <= failoverMaxAttempts
  /\ q.at = "idle" => q.path = <<>>
  /\ q.at \in {"sending", "failed", "fetching"} =>
       q.path # <<>> /\ q.live = 1 /\ ~q.body /\ (q.path[Len(q.path)].cached => listed)
  /\ q.at \in {"idle", "send", "backoff"} => q.live = 0 /\ ~q.body
  /\ q.at = "returned" => (q.live = IF q.body THEN 1 ELSE 0)
  /\ q.at \in {"idle", "send"} => q.tried = Reached(q.path) \cup {q.host}
  /\ q.at \in {"sending", "failed", "fetching", "backoff"} => q.tried = Reached(q.path)
  /\ q.at \in {"idle", "send", "backoff"} => NextTry(q)
  /\ (q.cause = "cancelled" \/ q.forwarded) => q.gaveUp

ApiInv ==
  /\ cache \in [list : Lists \cup {NONE}, fresh : BOOLEAN]
  /\ cache.fresh => cache.list # NONE
  /\ CloudAPI => cache.list = NONE
  /\ \A r \in Requests : RequestOK(req[r], cache.list # NONE)
  /\ CloudAPI => \A r \in Requests : req[r].at # "fetching"
  /\ req = [r \in Requests |-> req[r]]

LEMMA LeastIndex ==
  ASSUME NEW S \in SUBSET Nat, S # {}
  PROVE  FO!Min(S) \in S
<1>1. \E x \in S : \A y \in S : ~(<<y, x>> \in OpToRel(<, Nat))
  BY WFMin, NatLessThanWellFounded
<1>2. \A x, y \in S : <<y, x>> \in OpToRel(<, Nat) <=> y < x
  <2> SUFFICES ASSUME NEW x \in S, NEW y \in S PROVE <<y, x>> \in OpToRel(<, Nat) <=> y < x
    OBVIOUS
  <2>1. x \in Nat /\ y \in Nat /\ <<y, x>> \in Nat \X Nat OBVIOUS
  <2> QED BY <2>1 DEF OpToRel
<1>3. \A x, y \in S : ~(y < x) => x <= y OBVIOUS
<1>4. \E x \in S : \A y \in S : x <= y BY <1>1, <1>2, <1>3
<1> QED BY <1>4 DEF FO!Min

LEMMA RegionChosen ==
  ASSUME NEW regions \in Lists \cup {NONE}, NEW tried \in SUBSET FO!Hosts
  PROVE  LET next == FO!nextRegion(regions, tried) IN
         \/ next = NONE /\ Known(regions) \subseteq tried
         \/ next \in FO!Hosts \ tried /\ next # NONE
<1>1. Lists \subseteq Seq(FO!Hosts) /\ NONE \notin Lists \cup FO!Hosts
  BY Bounds DEF FO!FailoverAssumption
<1>2. CASE regions = NONE BY <1>2 DEF FO!nextRegion, Known
<1>3. CASE regions # NONE
  <2>1. regions \in Seq(FO!Hosts) BY <1>1, <1>3
  <2>2. DOMAIN regions \subseteq Nat /\ \A i \in DOMAIN regions : regions[i] \in FO!Hosts
    BY <2>1
  <2> DEFINE fresh == {i \in DOMAIN regions : regions[i] \notin tried}
  <2>3. CASE fresh = {}
    <3>1. FO!nextRegion(regions, tried) = NONE BY <1>3, <2>3 DEF FO!nextRegion
    <3>2. Known(regions) \subseteq tried BY <1>3, <2>3 DEF Known, FO!ToSet
    <3> QED BY <3>1, <3>2
  <2>4. CASE fresh # {}
    <3>1. FO!Min(fresh) \in fresh BY <2>2, <2>4, LeastIndex
    <3>2. FO!nextRegion(regions, tried) = regions[FO!Min(fresh)] BY <1>3, <2>4 DEF FO!nextRegion
    <3> QED BY <1>1, <2>2, <3>1, <3>2
  <2> QED BY <2>3, <2>4
<1> QED BY <1>2, <1>3

LEMMA PathExtended ==
  ASSUME NEW path \in Seq(Tries), NEW e \in Tries, FreshPath(path),
         e.host \in Reached(path) => e.known \subseteq Reached(path),
         path # <<>> /\ path[Len(path)].cached => e.heard
  PROVE  /\ Append(path, e) \in Seq(Tries) /\ FreshPath(Append(path, e))
         /\ Reached(Append(path, e)) = Reached(path) \cup {e.host}
         /\ Len(Append(path, e)) = Len(path) + 1 /\ Append(path, e)[Len(path) + 1] = e
<1>1. PICK n \in Nat : n = Len(path) BY LenProperties
<1>2. PICK p : p = Append(path, e) OBVIOUS
<1>3. p \in Seq(Tries) /\ Len(p) = n + 1 /\ p[n + 1] = e /\ \A i \in 1 .. n : p[i] = path[i]
  BY <1>1, <1>2, AppendProperties
<1>4. Reached(p) = Reached(path) \cup {e.host}
  <2>1. \A i \in 1 .. n + 1 : i \in 1 .. n \/ i = n + 1 BY <1>1
  <2>2. 1 .. n \subseteq 1 .. n + 1 /\ n + 1 \in 1 .. n + 1 BY <1>1
  <2> QED BY <1>1, <1>3, <2>1, <2>2 DEF Reached
<1>5. FreshPath(p)
  <2> SUFFICES ASSUME NEW j \in 2 .. n + 1
               PROVE  /\ p[j - 1].cached => p[j].heard
                      /\ (\E i \in 1 .. j - 1 : p[i].host = p[j].host) =>
                           p[j].known \subseteq {p[i].host : i \in 1 .. j - 1}
    BY <1>3 DEF FreshPath
  <2>1. \A i \in 1 .. j - 1 : i \in 1 .. n /\ p[i] = path[i] BY <1>1, <1>3
  <2>2. {p[i].host : i \in 1 .. j - 1} = {path[i].host : i \in 1 .. j - 1} BY <2>1
  <2>3. CASE j = n + 1
    <3>1. n \in 1 .. n /\ j - 1 = n /\ path # <<>> BY <1>1, <2>3
    <3>2. Reached(path) = {path[i].host : i \in 1 .. j - 1} BY <1>1, <3>1 DEF Reached
    <3> QED BY <1>1, <1>3, <2>1, <2>2, <2>3, <3>1, <3>2
  <2>4. CASE j # n + 1
    <3>1. j \in 2 .. n /\ j \in 1 .. n BY <1>1, <2>4
    <3>2. /\ path[j - 1].cached => path[j].heard
          /\ (\E i \in 1 .. j - 1 : path[i].host = path[j].host) =>
               path[j].known \subseteq {path[i].host : i \in 1 .. j - 1}
      BY <1>1, <3>1 DEF FreshPath
    <3> QED BY SMTT(30), <1>3, <2>1, <2>2, <3>1, <3>2
  <2> QED BY <2>3, <2>4
<1> QED BY <1>1, <1>2, <1>3, <1>4, <1>5

\* The step of one request, with the cache as it is or with a list in it.
LEMMA RequestSteps ==
  ASSUME ApiInv, NEW r \in Requests, NEW q,
         req' = [req EXCEPT ![r] = q], RequestOK(q, (cache.list # NONE)'),
         CloudAPI => q.at # "fetching",
         \/ UNCHANGED cache
         \/ ~CloudAPI /\ \E l \in Lists : cache' = [list |-> l, fresh |-> TRUE]
  PROVE  ApiInv'
<1>1. NONE \notin Lists BY Bounds DEF FO!FailoverAssumption
<1>2. /\ cache' \in [list : Lists \cup {NONE}, fresh : BOOLEAN]
      /\ cache'.fresh => cache'.list # NONE
      /\ CloudAPI => cache'.list = NONE
      /\ cache.list # NONE => cache'.list # NONE
  <2>1. CASE UNCHANGED cache BY <2>1 DEF ApiInv
  <2>2. CASE ~CloudAPI /\ \E l \in Lists : cache' = [list |-> l, fresh |-> TRUE]
    <3>1. PICK l \in Lists : cache' = [list |-> l, fresh |-> TRUE] BY <2>2
    <3>2. cache'.list = l /\ cache'.fresh = TRUE /\ l # NONE BY <1>1, <3>1
    <3> QED BY <2>2, <3>2
  <2> QED BY <2>1, <2>2
<1>3. \A s \in Requests : req'[s] = IF s = r THEN q ELSE req[s] BY DEF ApiInv
<1>4. ASSUME NEW s \in Requests PROVE RequestOK(req'[s], cache'.list # NONE)
  <2>1. CASE s = r BY <1>3, <2>1
  <2>2. CASE s # r
    <3>1. RequestOK(req[s], cache.list # NONE) /\ req'[s] = req[s] BY <1>3, <2>2 DEF ApiInv
    <3> QED BY <1>2, <3>1 DEF RequestOK
  <2> QED BY <2>1, <2>2
<1>5. req' = [s \in Requests |-> req'[s]] BY DEF ApiInv
<1> QED BY <1>2, <1>3, <1>4, <1>5 DEF ApiInv

LEMMA ApiInit == Init => ApiInv
<1> SUFFICES ASSUME FO!Init PROVE ApiInv BY DEF Init
<1>1. /\ failoverMaxAttempts \in Nat /\ failoverMaxAttempts > 0 /\ Project \in FO!Hosts
      /\ {Project} \in SUBSET FO!Hosts
  BY Bounds DEF FO!FailoverAssumption, FO!Hosts
<1>2. PICK q : q = FO!Fresh OBVIOUS
<1>3. /\ q.at = "idle" /\ q.host = Project /\ q.tried = {Project} /\ q.regions = NONE
      /\ q.path = <<>> /\ q.live = 0 /\ q.body = FALSE /\ q.cause = "none"
      /\ q.gaveUp = FALSE /\ q.forwarded = FALSE /\ q.watched = FALSE
  BY <1>2 DEF FO!Fresh
<1>4. Len(q.path) = 0 /\ Reached(q.path) = {} BY <1>3 DEF Reached
<1>5. q \in RequestLocals
  <2>1. <<>> \in Seq(Tries) BY EmptySeq
  <2> QED BY <1>1, <1>2, <2>1 DEF FO!Fresh, RequestLocals, FO!Places
<1>6. FreshPath(q.path) BY <1>3 DEF FreshPath
<1>7. NextTry(q) BY <1>3, <1>4 DEF NextTry
<1>8. RequestOK(q, FALSE) BY <1>1, <1>3, <1>4, <1>5, <1>6, <1>7 DEF RequestOK
<1>9. cache = [list |-> NONE, fresh |-> FALSE] /\ req = [r \in Requests |-> q]
  BY <1>2 DEF FO!Init
<1>10. (cache.list # NONE) = FALSE BY <1>9
<1> QED BY <1>3, <1>8, <1>9, <1>10 DEF ApiInv

\* What the next host and the known regions are once a failed attempt is done.
LEMMA RequestRetried ==
  ASSUME NEW q, NEW listed \in BOOLEAN, RequestOK(q, listed), q.at \in {"failed", "fetching"},
         NEW regions \in Lists \cup {NONE}, listed => regions # NONE
  PROVE  RequestOK(FO!Chosen(q, regions), listed) /\ FO!Chosen(q, regions).at = "backoff"
<1>1. /\ q \in RequestLocals /\ q.tried = Reached(q.path) /\ q.live = 1 /\ ~q.body
      /\ q.path # <<>>
      /\ q.path[Len(q.path)].cached => listed
      /\ FreshPath(q.path) /\ Len(q.path) < failoverMaxAttempts
  BY DEF RequestOK
<1>2. PICK next : next = FO!nextRegion(regions, q.tried) OBVIOUS
<1>3. \/ next = NONE /\ Known(regions) \subseteq Reached(q.path)
      \/ next \in FO!Hosts \ Reached(q.path) /\ next # NONE
  BY <1>1, <1>2, RegionChosen DEF RequestLocals
<1>4. PICK p : p = FO!Chosen(q, regions) OBVIOUS
<1>5. p = [q EXCEPT !.live = @ - 1, !.at = "backoff", !.regions = regions,
                    !.host = IF next = NONE THEN @ ELSE next]
  BY <1>1, <1>2, <1>4 DEF FO!Chosen, FO!Retire, RequestLocals
<1>6. /\ p.at = "backoff" /\ p.live = 0 /\ ~p.body /\ p.path = q.path /\ p.tried = q.tried
      /\ p.regions = regions /\ p.host = (IF next = NONE THEN q.host ELSE next)
      /\ p.cause = q.cause /\ p.gaveUp = q.gaveUp /\ p.forwarded = q.forwarded
  BY <1>1, <1>5 DEF RequestLocals
<1>7. p \in RequestLocals
  <2>1. PICK h : h = IF next = NONE THEN q.host ELSE next OBVIOUS
  <2>2. h \in FO!Hosts BY <1>1, <1>3, <2>1 DEF RequestLocals
  <2>3. p = [q EXCEPT !.live = 0, !.at = "backoff", !.regions = regions, !.host = h]
    BY <1>1, <1>5, <2>1 DEF RequestLocals
  <2> QED BY <1>1, <2>2, <2>3 DEF RequestLocals, FO!Places
<1>8. NextTry(p) BY <1>1, <1>3, <1>6 DEF NextTry
<1>9. (p.cause = "cancelled" \/ p.forwarded) => p.gaveUp BY <1>6 DEF RequestOK
<1> QED BY <1>1, <1>4, <1>6, <1>7, <1>8, <1>9 DEF RequestOK

LEMMA ApiNext == ApiInv /\ FO!Next => ApiInv'
<1> SUFFICES ASSUME ApiInv, FO!Next PROVE ApiInv' OBVIOUS
<1>0. /\ failoverMaxAttempts \in Nat /\ failoverMaxAttempts > 0 /\ NONE \notin Lists
      /\ CloudAPI \in BOOLEAN
  BY Bounds DEF FO!FailoverAssumption
<1>1. \A r \in Requests : RequestOK(req[r], cache.list # NONE) /\ req[r] \in RequestLocals
  BY DEF ApiInv, RequestOK
<1>2. req = [r \in Requests |-> req[r]] BY DEF ApiInv
<1>3. CASE FO!Expires
  <2>1. /\ cache' = [cache EXCEPT !.fresh = FALSE] /\ req' = req BY <1>3 DEF FO!Expires
  <2>2. /\ cache' \in [list : Lists \cup {NONE}, fresh : BOOLEAN]
        /\ cache'.list = cache.list /\ cache'.fresh = FALSE
    BY <2>1 DEF ApiInv
  <2> QED BY <2>1, <2>2 DEF ApiInv
\* The caller.
<1>4. ASSUME NEW r \in Requests, FO!Call(r) PROVE ApiInv'
  <2>1. PICK q : q = [req[r] EXCEPT !.at = "send", !.watched = r \in Deadlines] OBVIOUS
  <2>2. req' = [req EXCEPT ![r] = q] /\ UNCHANGED cache /\ req[r].at = "idle"
    BY <1>2, <1>4, <2>1 DEF FO!Call
  <2>3. /\ q.at = "send" /\ q.host = req[r].host /\ q.tried = req[r].tried
        /\ q.regions = req[r].regions /\ q.path = req[r].path /\ q.live = req[r].live
        /\ q.body = req[r].body /\ q.cause = req[r].cause /\ q.gaveUp = req[r].gaveUp
        /\ q.forwarded = req[r].forwarded
    BY <1>1, <2>1 DEF RequestLocals
  <2>4. q \in RequestLocals
    <3>1. PICK watched : watched = (r \in Deadlines) OBVIOUS
    <3>2. watched \in BOOLEAN /\ q = [req[r] EXCEPT !.at = "send", !.watched = watched]
      BY <2>1, <3>1
    <3> QED BY <1>1, <3>2 DEF RequestLocals, FO!Places
  <2>5. RequestOK(q, cache.list # NONE) BY <1>1, <2>2, <2>3, <2>4 DEF RequestOK, NextTry
  <2> QED BY <2>2, <2>3, <2>5, RequestSteps
<1>5. ASSUME NEW r \in Requests, NEW cause \in {"none", "cancelled", "lapsed"},
             NEW gaveUp \in BOOLEAN, NEW forwarded \in BOOLEAN, NEW watched \in BOOLEAN,
             cause = "cancelled" \/ forwarded => gaveUp, UNCHANGED cache,
             req' = [req EXCEPT ![r] = [req[r] EXCEPT !.cause = cause, !.gaveUp = gaveUp,
                                                      !.forwarded = forwarded, !.watched = watched]]
      PROVE  ApiInv'
  <2>1. PICK q : q = [req[r] EXCEPT !.cause = cause, !.gaveUp = gaveUp, !.forwarded = forwarded,
                                    !.watched = watched]
    OBVIOUS
  <2>2. req' = [req EXCEPT ![r] = q] BY <1>5, <2>1
  <2>3. /\ q.at = req[r].at /\ q.host = req[r].host /\ q.tried = req[r].tried
        /\ q.regions = req[r].regions /\ q.path = req[r].path /\ q.live = req[r].live
        /\ q.body = req[r].body /\ q.cause = cause /\ q.gaveUp = gaveUp
        /\ q.forwarded = forwarded /\ q \in RequestLocals
    BY <1>1, <2>1 DEF RequestLocals
  <2>4. RequestOK(q, cache.list # NONE) BY <1>1, <1>5, <2>3 DEF RequestOK, NextTry
  <2>5. CloudAPI => q.at # "fetching" BY <2>3 DEF ApiInv
  <2> QED BY <1>5, <2>2, <2>4, <2>5, RequestSteps
<1>6. ASSUME NEW r \in Requests, FO!Cancel(r) PROVE ApiInv'
  <2>1. PICK cause : cause = FO!Ended(req[r], "cancelled") OBVIOUS
  <2>2. PICK forwarded : forwarded = (req[r].forwarded \/ r \notin Deadlines) OBVIOUS
  <2>3. /\ cause \in {"none", "cancelled", "lapsed"} /\ forwarded \in BOOLEAN
        /\ req[r].watched \in BOOLEAN
    BY <1>1, <2>1, <2>2 DEF FO!Ended, RequestLocals
  <2>4. UNCHANGED cache BY <1>6 DEF FO!Cancel
  <2>5. req' = [req EXCEPT ![r] = [req[r] EXCEPT !.cause = cause, !.gaveUp = TRUE,
                                      !.forwarded = forwarded, !.watched = req[r].watched]]
    BY <1>1, <1>2, <1>6, <2>1, <2>2 DEF FO!Cancel, RequestLocals
  <2> QED BY <1>5, <2>3, <2>4, <2>5
<1>7. ASSUME NEW r \in Requests, FO!Lapse(r) PROVE ApiInv'
  <2>1. UNCHANGED cache /\ {req[r].watched, req[r].forwarded, req[r].gaveUp} \subseteq BOOLEAN
    BY <1>1, <1>7 DEF FO!Lapse, RequestLocals
  <2>2. req' = [req EXCEPT ![r] = [req[r] EXCEPT !.cause = "lapsed", !.gaveUp = req[r].gaveUp,
                                      !.forwarded = req[r].forwarded, !.watched = req[r].watched]]
    BY <1>1, <1>2, <1>7 DEF FO!Lapse, RequestLocals
  <2>3. req[r].forwarded => req[r].gaveUp BY <1>1 DEF RequestOK
  <2> QED BY <1>5, <2>1, <2>2, <2>3
<1>8. ASSUME NEW r \in Requests, FO!Watch(r) PROVE ApiInv'
  <2>1. PICK forwarded : forwarded = (req[r].forwarded \/ FO!Forwards(req[r])) OBVIOUS
  <2>2. PICK cause, gaveUp : cause = req[r].cause /\ gaveUp = req[r].gaveUp OBVIOUS
  <2>3. /\ forwarded \in BOOLEAN /\ gaveUp \in BOOLEAN /\ UNCHANGED cache
        /\ cause \in {"none", "cancelled", "lapsed"}
    BY <1>1, <1>8, <2>1, <2>2 DEF FO!Watch, RequestLocals
  <2>4. req' = [req EXCEPT ![r] = [req[r] EXCEPT !.cause = cause, !.gaveUp = gaveUp,
                                      !.forwarded = forwarded, !.watched = FALSE]]
    BY <1>1, <1>2, <1>8, <2>1, <2>2 DEF FO!Watch, RequestLocals
  <2>5. cause = "cancelled" \/ forwarded => gaveUp
    BY <1>1, <2>1, <2>2 DEF RequestOK, FO!Forwards
  <2> QED BY <1>5, <2>3, <2>4, <2>5
\* failover.
<1>9. ASSUME NEW r \in Requests, FO!Attempt(r) PROVE ApiInv'
  <2>1. PICK e : e = [host |-> req[r].host, heard |-> req[r].regions # NONE,
                      known |-> Known(req[r].regions), cached |-> cache.list # NONE]
    OBVIOUS
  <2>2. PICK path, n : path = req[r].path /\ n = Len(path) OBVIOUS
  <2>3. PICK q : q = [req[r] EXCEPT !.at = "sending", !.live = @ + 1, !.path = Append(path, e)]
    OBVIOUS
  <2>4. req' = [req EXCEPT ![r] = q] /\ UNCHANGED cache /\ req[r].at = "send"
    BY <1>1, <1>2, <1>9, <2>1, <2>2, <2>3 DEF FO!Attempt, Known, RequestLocals
  <2>5. /\ path \in Seq(Tries) /\ n \in Nat /\ n < failoverMaxAttempts /\ FreshPath(path)
        /\ NextTry(req[r]) /\ req[r].live = 0 /\ ~req[r].body
        /\ req[r].tried = Reached(path) \cup {req[r].host}
    BY <1>1, <2>2, <2>4 DEF RequestOK, RequestLocals
  <2>6. e \in Tries
    <3>1. Known(req[r].regions) \subseteq FO!Hosts
      <4>1. CASE req[r].regions = NONE BY <4>1 DEF Known
      <4>2. CASE req[r].regions # NONE
        <5>1. req[r].regions \in Seq(FO!Hosts)
          BY <1>1, <4>2, Bounds DEF RequestLocals, FO!FailoverAssumption
        <5> QED BY <4>2, <5>1 DEF Known, FO!ToSet
      <4> QED BY <4>1, <4>2
    <3> QED BY <1>1, <2>1, <3>1 DEF Tries, RequestLocals
  <2>7. /\ e.host \in Reached(path) => e.known \subseteq Reached(path)
        /\ path # <<>> /\ path[Len(path)].cached => e.heard
    BY <2>1, <2>2, <2>5 DEF NextTry
  <2>8. PICK p : p = Append(path, e) OBVIOUS
  <2>9. /\ p \in Seq(Tries) /\ FreshPath(p) /\ Reached(p) = Reached(path) \cup {e.host}
        /\ Len(p) = n + 1 /\ p[n + 1] = e
    BY <2>2, <2>5, <2>6, <2>7, <2>8, PathExtended
  <2>10. /\ q.at = "sending" /\ q.tried = req[r].tried /\ q.path = p /\ q.live = 1 /\ ~q.body
         /\ q.cause = req[r].cause /\ q.gaveUp = req[r].gaveUp /\ q.forwarded = req[r].forwarded
         /\ q \in RequestLocals
    <3>1. q = [req[r] EXCEPT !.at = "sending", !.live = 1, !.path = p]
      BY <1>1, <2>3, <2>5, <2>8 DEF RequestLocals
    <3>2. q \in RequestLocals BY ZenonT(40), <1>1, <2>9, <3>1 DEF RequestLocals, FO!Places
    <3> QED BY <1>1, <2>5, <3>1, <3>2 DEF RequestLocals
  <2>11. p # <<>> /\ p[Len(p)].cached = (cache.list # NONE) BY <2>1, <2>5, <2>9
  <2>12. q.tried = Reached(q.path) BY <2>1, <2>5, <2>9, <2>10
  <2>13. (q.cause = "cancelled" \/ q.forwarded) => q.gaveUp BY <1>1, <2>10 DEF RequestOK
  <2>14. Len(q.path) <= failoverMaxAttempts BY <1>0, <2>5, <2>9, <2>10
  <2>15. RequestOK(q, cache.list # NONE)
    BY <2>9, <2>10, <2>11, <2>12, <2>13, <2>14 DEF RequestOK
  <2> QED BY <2>4, <2>10, <2>15, RequestSteps
\* An attempt ends, or what it left is released.
<1>10. ASSUME NEW r \in Requests, NEW body \in BOOLEAN, req[r].at = "sending", UNCHANGED cache,
              req' = [req EXCEPT ![r] = FO!Return(req[r], body)]
       PROVE  ApiInv'
  <2>1. PICK q : q = FO!Return(req[r], body) OBVIOUS
  <2>2. req[r].live = 1 /\ ~req[r].body BY <1>1, <1>10 DEF RequestOK
  <2>3. /\ q.at = "returned" /\ q.body = body /\ q.live = (IF body THEN 1 ELSE 0)
        /\ q.path = req[r].path /\ q.cause = req[r].cause /\ q.gaveUp = req[r].gaveUp
        /\ q.forwarded = req[r].forwarded /\ q \in RequestLocals
    <3>1. PICK live : live = IF body THEN 1 ELSE 0 OBVIOUS
    <3>2. q = [req[r] EXCEPT !.at = "returned", !.body = body, !.live = live]
      BY <1>1, <2>1, <2>2, <3>1 DEF FO!Return, RequestLocals
    <3>3. q \in RequestLocals BY ZenonT(40), <1>1, <3>1, <3>2 DEF RequestLocals, FO!Places
    <3> QED BY <1>1, <3>1, <3>2, <3>3 DEF RequestLocals
  <2>4. RequestOK(q, cache.list # NONE) BY <1>1, <2>3 DEF RequestOK
  <2> QED BY <1>10, <2>1, <2>3, <2>4, RequestSteps
<1>11. ASSUME NEW r \in Requests, FO!Ends(r) PROVE ApiInv'
  <2>1. req[r].at = "sending" /\ UNCHANGED cache BY <1>11 DEF FO!Ends
  <2>2. CASE \E body \in BOOLEAN : req' = [req EXCEPT ![r] = FO!Return(req[r], body)]
    BY <1>10, <2>1, <2>2
  <2>3. CASE ~FO!LastAttempt(req[r]) /\ req' = [req EXCEPT ![r].at = "failed"]
    <3>1. PICK q : q = [req[r] EXCEPT !.at = "failed"] OBVIOUS
    <3>2. req' = [req EXCEPT ![r] = q] BY <1>2, <2>3, <3>1
    <3>3. /\ q.at = "failed" /\ q.host = req[r].host /\ q.tried = req[r].tried
          /\ q.regions = req[r].regions /\ q.path = req[r].path /\ q.live = req[r].live
          /\ q.body = req[r].body /\ q.cause = req[r].cause /\ q.gaveUp = req[r].gaveUp
          /\ q.forwarded = req[r].forwarded /\ q \in RequestLocals
      BY <1>1, <3>1 DEF RequestLocals, FO!Places
    <3>4. /\ Len(q.path) \in Nat /\ Len(q.path) <= failoverMaxAttempts
          /\ Len(q.path) # failoverMaxAttempts
      BY <1>1, <2>3, <3>3 DEF FO!LastAttempt, RequestOK, RequestLocals
    <3>5. Len(q.path) < failoverMaxAttempts BY <1>0, <3>4
    <3>6. RequestOK(q, cache.list # NONE) BY <1>1, <2>1, <3>3, <3>5 DEF RequestOK
    <3> QED BY <2>1, <3>2, <3>3, <3>6, RequestSteps
  <2> QED BY <1>11, <2>2, <2>3 DEF FO!Ends
<1>12. ASSUME NEW r \in Requests, FO!Stopped(r) PROVE ApiInv'
  BY <1>10, <1>12 DEF FO!Stopped
<1>13. ASSUME NEW r \in Requests, FO!Close(r) PROVE ApiInv'
  <2>1. PICK q : q = [req[r] EXCEPT !.body = FALSE, !.live = @ - 1] OBVIOUS
  <2>2. /\ req[r].at = "returned" /\ req[r].body /\ UNCHANGED cache
        /\ req' = [req EXCEPT ![r] = q]
    BY <1>2, <1>13, <2>1 DEF FO!Close
  <2>3. req[r].live = 1 BY <1>1, <2>2 DEF RequestOK
  <2>4. /\ q.at = "returned" /\ q.body = FALSE /\ q.live = 0
        /\ q.path = req[r].path /\ q.cause = req[r].cause /\ q.gaveUp = req[r].gaveUp
        /\ q.forwarded = req[r].forwarded /\ q \in RequestLocals
    <3>1. q = [req[r] EXCEPT !.body = FALSE, !.live = 0]
      BY <1>1, <2>1, <2>3 DEF RequestLocals
    <3>2. q \in RequestLocals BY <1>1, <3>1 DEF RequestLocals
    <3> QED BY <1>1, <2>2, <3>1, <3>2 DEF RequestLocals
  <2>5. RequestOK(q, cache.list # NONE) BY <1>1, <2>4 DEF RequestOK
  <2> QED BY <2>2, <2>4, <2>5, RequestSteps
\* The region list, and the next attempt.
<1>14. ASSUME NEW r \in Requests, req[r].at \in {"failed", "fetching"},
              NEW regions \in Lists \cup {NONE}, UNCHANGED cache,
              cache.list # NONE => regions # NONE,
              req' = [req EXCEPT ![r] = FO!Chosen(req[r], regions)]
       PROVE  ApiInv'
  <2>1. PICK q : q = FO!Chosen(req[r], regions) OBVIOUS
  <2>2. RequestOK(q, cache.list # NONE) /\ q.at = "backoff" BY <1>1, <1>14, <2>1, RequestRetried
  <2> QED BY <1>14, <2>1, <2>2, RequestSteps
<1>15. ASSUME NEW r \in Requests, FO!Discover(r) PROVE ApiInv'
  <2>1. req[r].at = "failed" /\ UNCHANGED cache BY <1>15 DEF FO!Discover
  <2>2. cache.list \in Lists \cup {NONE} BY DEF ApiInv
  <2>3. CASE req[r].regions # NONE \/ CloudAPI
    <3>1. req' = [req EXCEPT ![r] = FO!Chosen(req[r], req[r].regions)]
      BY <1>15, <2>3 DEF FO!Discover
    <3>2. req[r].regions \in Lists \cup {NONE} BY <1>1 DEF RequestLocals
    <3>3. cache.list # NONE => req[r].regions # NONE BY <2>3 DEF ApiInv
    <3> QED BY <1>14, <2>1, <3>1, <3>2, <3>3
  <2>4. CASE ~(req[r].regions # NONE \/ CloudAPI) /\ cache.fresh
    <3>1. req' = [req EXCEPT ![r] = FO!Chosen(req[r], cache.list)]
      BY <1>15, <2>4 DEF FO!Discover
    <3> QED BY <1>14, <2>1, <2>2, <3>1
  <2>5. CASE ~(req[r].regions # NONE \/ CloudAPI) /\ ~cache.fresh
    <3>1. PICK q : q = [req[r] EXCEPT !.at = "fetching"] OBVIOUS
    <3>2. req' = [req EXCEPT ![r] = q] BY <1>15, <2>5, <3>1 DEF FO!Discover
    <3>3. /\ q.at = "fetching" /\ q.tried = req[r].tried /\ q.path = req[r].path
          /\ q.live = req[r].live /\ q.body = req[r].body /\ q.cause = req[r].cause
          /\ q.gaveUp = req[r].gaveUp /\ q.forwarded = req[r].forwarded /\ q \in RequestLocals
      BY <1>1, <3>1 DEF RequestLocals, FO!Places
    <3>4. RequestOK(q, cache.list # NONE) BY <1>1, <2>1, <3>3 DEF RequestOK
    <3> QED BY <2>1, <2>5, <3>2, <3>4, RequestSteps
  <2> QED BY <2>3, <2>4, <2>5
<1>16. ASSUME NEW r \in Requests, FO!FetchFails(r) PROVE ApiInv'
  <2>1. cache.list \in Lists \cup {NONE} BY DEF ApiInv
  <2> QED BY <1>14, <1>16, <2>1 DEF FO!FetchFails, FO!Stale
<1>17. ASSUME NEW r \in Requests, FO!FetchOk(r) PROVE ApiInv'
  <2>1. PICK l \in Lists, maxAge \in BOOLEAN :
          /\ req' = [req EXCEPT ![r] = FO!Chosen(req[r], l)]
          /\ cache' = IF maxAge \/ DefaultTTL THEN [list |-> l, fresh |-> TRUE] ELSE cache
    BY <1>2, <1>17 DEF FO!FetchOk
  <2>2. req[r].at = "fetching" /\ l # NONE /\ l \in Lists \cup {NONE}
    BY <1>0, <1>17 DEF FO!FetchOk
  <2>3. PICK q : q = FO!Chosen(req[r], l) OBVIOUS
  <2>4. RequestOK(req[r], TRUE) /\ TRUE \in BOOLEAN BY <1>1 DEF RequestOK
  <2>5. RequestOK(req[r], cache.list # NONE) /\ (cache.list # NONE) \in BOOLEAN BY <1>1
  <2>6. RequestOK(q, TRUE) /\ RequestOK(q, cache.list # NONE) /\ q.at = "backoff"
    BY <2>2, <2>3, <2>4, <2>5, RequestRetried
  <2>7. ~CloudAPI BY <2>2 DEF ApiInv
  <2>8. \/ UNCHANGED cache
        \/ cache' = [list |-> l, fresh |-> TRUE]
    BY <2>1
  <2>9. RequestOK(q, cache'.list # NONE)
    <3>1. CASE UNCHANGED cache BY <2>6, <3>1
    <3>2. CASE cache' = [list |-> l, fresh |-> TRUE]
      <4>1. (cache'.list # NONE) = TRUE BY <2>2, <3>2
      <4> QED BY <2>6, <4>1
    <3> QED BY <2>8, <3>1, <3>2
  <2> QED BY <2>1, <2>3, <2>6, <2>7, <2>8, <2>9, RequestSteps
<1>18. ASSUME NEW r \in Requests, FO!Backoff(r) PROVE ApiInv'
  <2>1. req[r].at = "backoff" /\ UNCHANGED cache BY <1>18 DEF FO!Backoff
  <2>2. CASE req' = [req EXCEPT ![r].at = "send", ![r].tried = FO!Mark(req[r])]
    <3>1. PICK q : q = [req[r] EXCEPT !.at = "send", !.tried = FO!Mark(req[r])] OBVIOUS
    <3>2. req' = [req EXCEPT ![r] = q] BY <1>2, <2>2, <3>1
    <3>3. FO!Mark(req[r]) = req[r].tried \cup {req[r].host} BY DEF FO!Mark
    <3>4. /\ q.at = "send" /\ q.host = req[r].host /\ q.tried = req[r].tried \cup {req[r].host}
          /\ q.regions = req[r].regions /\ q.path = req[r].path /\ q.live = req[r].live
          /\ q.body = req[r].body /\ q.cause = req[r].cause /\ q.gaveUp = req[r].gaveUp
          /\ q.forwarded = req[r].forwarded /\ q \in RequestLocals
      BY ZenonT(40), <1>1, <3>1, <3>3 DEF RequestLocals, FO!Places
    <3>5. RequestOK(q, cache.list # NONE) BY <1>1, <2>1, <3>4 DEF RequestOK, NextTry
    <3> QED BY <2>1, <3>2, <3>4, <3>5, RequestSteps
  <2>3. CASE req' = [req EXCEPT ![r].at = "returned"]
    <3>1. PICK q : q = [req[r] EXCEPT !.at = "returned"] OBVIOUS
    <3>2. req' = [req EXCEPT ![r] = q] BY <1>2, <2>3, <3>1
    <3>3. /\ q.at = "returned" /\ q.path = req[r].path /\ q.live = req[r].live
          /\ q.body = req[r].body /\ q.cause = req[r].cause /\ q.gaveUp = req[r].gaveUp
          /\ q.forwarded = req[r].forwarded /\ q \in RequestLocals
      BY <1>1, <3>1 DEF RequestLocals, FO!Places
    <3>4. RequestOK(q, cache.list # NONE) BY <1>1, <2>1, <3>3 DEF RequestOK
    <3> QED BY <2>1, <3>2, <3>3, <3>4, RequestSteps
  <2> QED BY <1>18, <2>2, <2>3 DEF FO!Backoff
<1> QED
  BY <1>3, <1>4, <1>6, <1>7, <1>8, <1>9, <1>11, <1>12, <1>13, <1>15, <1>16, <1>17, <1>18
     DEF FO!Next

LEMMA ApiStep == ApiInv /\ [Next]_vars => ApiInv'
<1> SUFFICES ASSUME ApiInv, UNCHANGED apiVars PROVE ApiInv' BY ApiNext DEF Next, vars
<1> QED BY DEF apiVars, ApiInv

\* However requests, their callers and the shared region cache interleave, and
\* whatever lists the project serves: no host is tried again while another is
\* known, no context outlives its attempt, no deadline ends a failover.
THEOREM FailoverAlwaysBounded == Spec => []FailoverBounded
<1>1. ApiInv => FailoverBounded
  <2> SUFFICES ASSUME ApiInv PROVE FO!TypeOK /\ FO!FreshRegions /\ FO!ContextsReleased /\ FO!DeadlineDetached
    BY DEF FailoverBounded
  <2>1. \A r \in Requests : RequestOK(req[r], cache.list # NONE) /\ req[r] \in RequestLocals
    BY DEF ApiInv, RequestOK
  <2>2. FO!TypeOK
    <3> SUFFICES ASSUME NEW r \in Requests
                 PROVE  /\ req[r].at \in FO!Places /\ req[r].host \in FO!Hosts
                        /\ req[r].tried \subseteq FO!Hosts
                        /\ req[r].regions \in Lists \cup {NONE}
                        /\ req[r].live \in Nat /\ Len(req[r].path) <= failoverMaxAttempts
      BY DEF FO!TypeOK, ApiInv
    <3>1. RequestOK(req[r], cache.list # NONE) BY <2>1
    <3> QED BY <3>1 DEF RequestOK, RequestLocals
  <2>3. FO!FreshRegions BY <2>1 DEF FO!FreshRegions, RequestOK, FreshPath
  <2>4. FO!ContextsReleased
    <3> SUFFICES ASSUME NEW r \in Requests
                 PROVE  req[r].live = IF req[r].at \in {"sending", "failed", "fetching"} \/ req[r].body
                                        THEN 1 ELSE 0
      BY DEF FO!ContextsReleased
    <3>1. RequestOK(req[r], cache.list # NONE) /\ req[r].at \in FO!Places
      BY <2>1 DEF RequestLocals
    <3> QED BY <3>1 DEF RequestOK, FO!Places
  <2>5. FO!DeadlineDetached BY <2>1 DEF FO!DeadlineDetached, RequestOK
  <2> QED BY <2>2, <2>3, <2>4, <2>5
<1> QED BY <1>1, ApiInit, ApiStep, PTL DEF Spec

-----------------------------------------------------------------------------
(* Local data tracks.                                                      *)

DataHandles == 1 .. MaxHandle
\* A request, or an answer, about handle h is on its way.
Asked(publish, h) == \E i \in 1 .. Len(dataToSFU) : dataToSFU[i] = [publish |-> publish, handle |-> h]
Told(type, h) == \E i \in 1 .. Len(dataFromSFU) : dataFromSFU[i] = [type |-> type, handle |-> h]

\* A track that is done with: its handle is never used again.
Over(h) == h <= value /\ h \notin active /\ pending[h] = NONE

\* A handle the SFU has not heard of yet.
Untouched(h) ==
  /\ ~Asked(TRUE, h) /\ ~Asked(FALSE, h)
  /\ ~Told("accept", h) /\ ~Told("reject", h) /\ ~Told("unpublish", h)
  /\ h \notin dataPubs /\ h \notin active /\ h \notin requests
  /\ (dataReader # LDT!Rest => dataReader.handle # h)

DataTyped ==
  /\ LDT!TypeOK
  /\ dataLink = "down" => dataToSFU = <<>> /\ dataFromSFU = <<>>
  /\ dataLink = "down" /\ ~closed => dataSession < MaxRestarts
  /\ restorer # "sending" => requests = {}
  /\ requests \subseteq 1 .. value /\ unmarked \subseteq 1 .. value
  /\ dataReader # LDT!Rest => dataReader.handle <= value

\* Each handle is one caller's, who gets one answer.
DataOwned ==
  /\ LDT!PublicationsAnswered
  /\ \A c \in DataPublishers : handle[c] <= value /\ (dataPc[c] # "idle" => handle[c] > 0)
  /\ \A c, d \in DataPublishers : handle[c] = handle[d] /\ handle[c] > 0 => c = d
  /\ \A h \in DataHandles : h > value => pending[h] = NONE

\* What is marked, withdrawn or refused is done with.
DataStates ==
  /\ \A h \in DataHandles :
       h > value \/ pending[h] # NONE => trackState[h] = "none" /\ h \notin active
  /\ \A h \in active : trackState[h] \in {"published", "republishing"}
  /\ \A h \in active :
       trackState[h] = "published" /\ restorer # "due" => sidSession[h] = dataSession
  /\ \A c \in DataPublishers, h \in DataHandles : dataPc[c] = "removed" /\ handle[c] = h =>
       Over(h)
  /\ \A h \in DataHandles :
       dataReader # LDT!Rest /\ dataReader.at # "complete" /\ dataReader.handle = h => Over(h)
  /\ \A h \in unmarked : Over(h)
  /\ \A h \in DataHandles : Asked(FALSE, h) => Over(h)

DataUntouched ==
  /\ \A c \in DataPublishers, h \in DataHandles :
       dataPc[c] = "sending" /\ handle[c] = h => Untouched(h)
  /\ \A h \in DataHandles : h > value => Untouched(h)

\* Each track is one some caller was given, or is about to take.
Holds(c) ==
  dataPc[c] = "holding" \/ (dataPc[c] \in {"waiting", "withdrawing"} /\ result[c] = "track")

DataHeld == \A h \in active : \E c \in DataPublishers : handle[c] = h /\ Holds(c)

\* The last answer about a handle tells whether the SFU has it.
DataTold ==
  /\ \A i \in 1 .. Len(dataFromSFU) : dataFromSFU[i].type = "accept" =>
       \/ dataFromSFU[i].handle \in dataPubs
       \/ \E j \in 1 .. Len(dataFromSFU) :
            j > i /\ dataFromSFU[j] = [type |-> "unpublish", handle |-> dataFromSFU[i].handle]
  /\ \A i \in 1 .. Len(dataFromSFU) : dataFromSFU[i].type # "accept" =>
       \/ dataFromSFU[i].handle \notin dataPubs \ doubled
       \/ \E j \in 1 .. Len(dataFromSFU) :
            j > i /\ dataFromSFU[j] = [type |-> "accept", handle |-> dataFromSFU[i].handle]

\* A track the client has is published again, or about to be, or to end.
DataActive ==
  dataLink = "up" /\ restorer # "due" =>
    \A h \in active \ (requests \cup unsent) :
      \/ Asked(TRUE, h) \/ Told("reject", h) \/ Told("unpublish", h)
      \/ /\ h \in dataPubs
         /\ \/ Told("accept", h) \/ dataReader = [at |-> "complete", handle |-> h]
            \/ trackState[h] = "published"

\* A track the SFU has is the client's, or about to be, or to be taken back.
DataListed ==
  dataLink = "up" => \A h \in dataPubs \ (doubled \cup active) :
    \/ Told("accept", h)
    \/ /\ pending[h] = NONE
       /\ \/ dataReader = [at |-> "refuse", handle |-> h] \/ Asked(FALSE, h)
          \/ \E c \in DataPublishers : dataPc[c] = "removed" /\ handle[c] = h

DataInv ==
  DataTyped /\ DataOwned /\ DataStates /\ DataUntouched /\ DataHeld /\ DataTold /\ DataActive
  /\ DataListed

Requested == [publish : BOOLEAN, handle : DataHandles]

LEMMA DataBounds ==
  /\ NONE \notin DataPublishers /\ NONE \notin LDT!Errors \cup {"track"} /\ MaxHandle \in Nat
  /\ MaxHandle > 0 /\ MaxRestarts \in Nat
  /\ MaxInFlight \in Nat /\ MaxInFlight > 0
  /\ DataHandles = LDT!Handles
BY Bounds DEF LDT!LocalTracksAssumption, LDT!Handles, DataHandles

\* What a request under way adds to those asked, and one taken leaves.
LEMMA DataAsks ==
  ASSUME DataTyped, NEW m \in Requested, dataToSFU' = Append(dataToSFU, m)
  PROVE  /\ dataToSFU' \in Seq(Requested) /\ Len(dataToSFU') = Len(dataToSFU) + 1
         /\ \A p \in BOOLEAN, h \in DataHandles :
              Asked(p, h)' <=> Asked(p, h) \/ m = [publish |-> p, handle |-> h]
<1>1. dataToSFU \in Seq(Requested) BY DataBounds DEF DataTyped, LDT!TypeOK, Requested
<1>2. PICK n \in Nat : n = Len(dataToSFU) BY <1>1, LenProperties
<1>3. /\ dataToSFU' \in Seq(Requested) /\ Len(dataToSFU') = n + 1 /\ dataToSFU'[n + 1] = m
      /\ \A i \in 1 .. n : dataToSFU'[i] = dataToSFU[i]
  BY <1>1, <1>2, AppendProperties
<1>4. ASSUME NEW p \in BOOLEAN, NEW h \in DataHandles
      PROVE  Asked(p, h)' <=> Asked(p, h) \/ m = [publish |-> p, handle |-> h]
  <2>1. PICK r : r = [publish |-> p, handle |-> h] OBVIOUS
  <2>2. Asked(p, h) <=> \E i \in 1 .. n : dataToSFU[i] = r BY <1>2, <2>1 DEF Asked
  <2>3. Asked(p, h)' <=> \E i \in 1 .. n + 1 : dataToSFU'[i] = r BY <1>3, <2>1 DEF Asked
  <2> QED BY <1>3, <2>1, <2>2, <2>3
<1> QED BY <1>2, <1>3, <1>4

LEMMA DataServed ==
  ASSUME DataTyped, dataToSFU # <<>>, dataToSFU' = Tail(dataToSFU)
  PROVE  /\ Head(dataToSFU) \in Requested /\ dataToSFU' \in Seq(Requested)
         /\ Len(dataToSFU') = Len(dataToSFU) - 1
         /\ \A p \in BOOLEAN, h \in DataHandles :
              /\ Asked(p, h)' => Asked(p, h)
              /\ Asked(p, h) => Asked(p, h)' \/ Head(dataToSFU) = [publish |-> p, handle |-> h]
              /\ Head(dataToSFU) = [publish |-> p, handle |-> h] => Asked(p, h)
<1>1. dataToSFU \in Seq(Requested) BY DataBounds DEF DataTyped, LDT!TypeOK, Requested
<1>2. PICK n \in Nat : n = Len(dataToSFU) BY <1>1, LenProperties
<1>3. /\ dataToSFU' \in Seq(Requested) /\ Len(dataToSFU') = n - 1 /\ n > 0
      /\ Head(dataToSFU) = dataToSFU[1]
      /\ Head(dataToSFU) \in Requested
      /\ \A i \in 1 .. n - 1 : dataToSFU'[i] = dataToSFU[i + 1]
  BY <1>1, <1>2, HeadTailProperties, EmptySeq
<1>4. ASSUME NEW p \in BOOLEAN, NEW h \in DataHandles
      PROVE  /\ Asked(p, h)' => Asked(p, h)
             /\ Asked(p, h) => Asked(p, h)' \/ Head(dataToSFU) = [publish |-> p, handle |-> h]
             /\ Head(dataToSFU) = [publish |-> p, handle |-> h] => Asked(p, h)
  <2>1. PICK r : r = [publish |-> p, handle |-> h] OBVIOUS
  <2>2. Asked(p, h) <=> \E i \in 1 .. n : dataToSFU[i] = r BY <1>2, <2>1 DEF Asked
  <2>3. Asked(p, h)' <=> \E i \in 1 .. n - 1 : dataToSFU'[i] = r BY <1>3, <2>1 DEF Asked
  <2>4. \A i \in 1 .. n : i = 1 \/ (i - 1 \in 1 .. n - 1 /\ dataToSFU'[i - 1] = dataToSFU[i])
    BY <1>3
  <2>5. \A i \in 1 .. n - 1 : i + 1 \in 1 .. n /\ dataToSFU'[i] = dataToSFU[i + 1] BY <1>3
  <2>6. 1 \in 1 .. n BY <1>3
  <2>7. Asked(p, h)' => Asked(p, h) BY <2>2, <2>3, <2>5
  <2>8. Asked(p, h) => Asked(p, h)' \/ Head(dataToSFU) = r BY <1>3, <2>2, <2>3, <2>4
  <2>9. Head(dataToSFU) = r => Asked(p, h) BY <1>3, <2>2, <2>6
  <2> QED BY <2>1, <2>7, <2>8, <2>9
<1> QED BY <1>2, <1>3, <1>4

\* The same of the answers.
LEMMA DataTells ==
  ASSUME DataTyped, NEW m \in LDT!Message, dataFromSFU' = Append(dataFromSFU, m)
  PROVE  /\ dataFromSFU' \in Seq(LDT!Message) /\ Len(dataFromSFU') = Len(dataFromSFU) + 1
         /\ dataFromSFU'[Len(dataFromSFU) + 1] = m
         /\ \A i \in 1 .. Len(dataFromSFU) : dataFromSFU'[i] = dataFromSFU[i]
         /\ \A t \in {"accept", "reject", "unpublish"}, h \in DataHandles :
              Told(t, h)' <=> Told(t, h) \/ m = [type |-> t, handle |-> h]
<1>1. dataFromSFU \in Seq(LDT!Message) BY DEF DataTyped, LDT!TypeOK
<1>2. PICK n \in Nat : n = Len(dataFromSFU) BY <1>1, LenProperties
<1>3. /\ dataFromSFU' \in Seq(LDT!Message) /\ Len(dataFromSFU') = n + 1
      /\ dataFromSFU'[n + 1] = m
      /\ \A i \in 1 .. n : dataFromSFU'[i] = dataFromSFU[i]
  BY <1>1, <1>2, AppendProperties
<1>4. ASSUME NEW t \in {"accept", "reject", "unpublish"}, NEW h \in DataHandles
      PROVE  Told(t, h)' <=> Told(t, h) \/ m = [type |-> t, handle |-> h]
  <2>1. PICK r : r = [type |-> t, handle |-> h] OBVIOUS
  <2>2. Told(t, h) <=> \E i \in 1 .. n : dataFromSFU[i] = r BY <1>2, <2>1 DEF Told
  <2>3. Told(t, h)' <=> \E i \in 1 .. n + 1 : dataFromSFU'[i] = r BY <1>3, <2>1 DEF Told
  <2> QED BY <1>3, <2>1, <2>2, <2>3
<1> QED BY <1>2, <1>3, <1>4

LEMMA DataHeard ==
  ASSUME DataTyped, dataFromSFU # <<>>, dataFromSFU' = Tail(dataFromSFU)
  PROVE  /\ Head(dataFromSFU) \in LDT!Message /\ Head(dataFromSFU) = dataFromSFU[1]
         /\ 1 \in 1 .. Len(dataFromSFU)
         /\ dataFromSFU' \in Seq(LDT!Message) /\ Len(dataFromSFU') = Len(dataFromSFU) - 1
         /\ \A i \in 1 .. Len(dataFromSFU') :
              i + 1 \in 1 .. Len(dataFromSFU) /\ dataFromSFU'[i] = dataFromSFU[i + 1]
         /\ \A i \in 1 .. Len(dataFromSFU) : i > 1 =>
              i - 1 \in 1 .. Len(dataFromSFU') /\ dataFromSFU'[i - 1] = dataFromSFU[i]
         /\ \A t \in {"accept", "reject", "unpublish"}, h \in DataHandles :
              /\ Told(t, h)' => Told(t, h)
              /\ Told(t, h) => Told(t, h)' \/ Head(dataFromSFU) = [type |-> t, handle |-> h]
              /\ Head(dataFromSFU) = [type |-> t, handle |-> h] => Told(t, h)
<1>1. dataFromSFU \in Seq(LDT!Message) BY DEF DataTyped, LDT!TypeOK
<1>2. PICK n \in Nat : n = Len(dataFromSFU) BY <1>1, LenProperties
<1>3. /\ dataFromSFU' \in Seq(LDT!Message) /\ Len(dataFromSFU') = n - 1 /\ n > 0
      /\ Head(dataFromSFU) = dataFromSFU[1]
      /\ Head(dataFromSFU) \in LDT!Message
      /\ \A i \in 1 .. n - 1 : dataFromSFU'[i] = dataFromSFU[i + 1]
  BY <1>1, <1>2, HeadTailProperties, EmptySeq
<1>4. \A i \in 1 .. n : i = 1 \/ (i - 1 \in 1 .. n - 1 /\ dataFromSFU'[i - 1] = dataFromSFU[i])
  BY <1>3
<1>5. \A i \in 1 .. n - 1 : i + 1 \in 1 .. n /\ dataFromSFU'[i] = dataFromSFU[i + 1] BY <1>3
<1>6. 1 \in 1 .. n BY <1>3
<1>7. ASSUME NEW t \in {"accept", "reject", "unpublish"}, NEW h \in DataHandles
      PROVE  /\ Told(t, h)' => Told(t, h)
             /\ Told(t, h) => Told(t, h)' \/ Head(dataFromSFU) = [type |-> t, handle |-> h]
             /\ Head(dataFromSFU) = [type |-> t, handle |-> h] => Told(t, h)
  <2>1. PICK r : r = [type |-> t, handle |-> h] OBVIOUS
  <2>2. Told(t, h) <=> \E i \in 1 .. n : dataFromSFU[i] = r BY <1>2, <2>1 DEF Told
  <2>3. Told(t, h)' <=> \E i \in 1 .. n - 1 : dataFromSFU'[i] = r BY <1>3, <2>1 DEF Told
  <2>4. Told(t, h)' => Told(t, h) BY <1>5, <2>2, <2>3
  <2>5. Told(t, h) => Told(t, h)' \/ Head(dataFromSFU) = r BY <1>3, <1>4, <2>2, <2>3
  <2>6. Head(dataFromSFU) = r => Told(t, h) BY <1>3, <1>6, <2>2
  <2> QED BY <2>1, <2>4, <2>5, <2>6
<1>8. ASSUME NEW i \in 1 .. n,
             i > 1 PROVE i - 1 \in 1 .. n - 1 /\ dataFromSFU'[i - 1] = dataFromSFU[i]
  <2>1. i # 1 BY <1>8
  <2> QED BY <1>4, <2>1
<1> QED BY <1>2, <1>3, <1>5, <1>6, <1>7, <1>8

LEMMA DataInit == Init => DataInv
<1> SUFFICES ASSUME LDT!Init PROVE DataInv BY DEF Init
<1> USE DEF LDT!Init
<1>1. \A p, h : ~Asked(p, h) BY DEF Asked
<1>2. \A t, h : ~Told(t, h) BY DEF Told
<1>3. LDT!TypeOK
  <2>1. /\ dataToSFU \in Seq([publish : BOOLEAN, handle : LDT!Handles])
        /\ dataFromSFU \in Seq(LDT!Message)
        /\ Len(dataToSFU) = 0 /\ Len(dataFromSFU) = 0
    BY EmptySeq
  <2>2. 0 \in 0 .. MaxHandle /\ 0 \in 0 .. MaxRestarts BY DataBounds
  <2>3. /\ trackState \in [LDT!Handles -> {"none", "published", "republishing", "unpublished"}]
        /\ sidSession \in [LDT!Handles -> 0 .. MaxRestarts]
        /\ result \in [DataPublishers -> LDT!Errors \cup {"track", NONE}]
        /\ dataPc \in [DataPublishers ->
                      {"idle", "sending", "waiting", "withdrawing", "holding", "removed"}]
        /\ handle \in [DataPublishers -> 0 .. MaxHandle]
        /\ pending \in [LDT!Handles -> DataPublishers \cup {NONE}]
    BY <2>2
  <2>4. /\ active \subseteq 1 .. value /\ requests \subseteq LDT!Handles
        /\ unmarked \subseteq LDT!Handles
    OBVIOUS
  <2> HIDE DEF LDT!Init
  <2>5. /\ value = 0 /\ dataReader = LDT!Rest /\ restorer = "idle" /\ closed = FALSE
        /\ dataLink = "up"
        /\ dataSession = 0 /\ dataPubs = {} /\ unsent = {} /\ doubled = {}
    BY DEF LDT!Init
  <2>6. Len(dataToSFU) <= MaxInFlight /\ Len(dataFromSFU) <= MaxInFlight BY <2>1, DataBounds
  <2>7. 0 \in 0 .. MaxHandle /\ 0 \in 0 .. MaxRestarts BY <2>2
  <2> QED BY <2>1, <2>3, <2>4, <2>5, <2>6, <2>7, Zenon DEF LDT!TypeOK
<1>4. DataTyped BY <1>3 DEF DataTyped
<1>5. DataOwned
  <2>1. \A h \in DataHandles : pending[h] = NONE BY DataBounds
  <2>2. LDT!PublicationsAnswered BY DataBounds, <2>1 DEF LDT!PublicationsAnswered
  <2> QED BY <2>1, <2>2, DataBounds DEF DataOwned
<1>6. DataStates BY <1>1, DataBounds DEF DataStates
<1>7. DataUntouched BY <1>1, <1>2 DEF DataUntouched, Untouched
<1>8. DataHeld /\ DataActive /\ DataListed BY DEF DataHeld, DataActive, DataListed
<1>9. DataTold BY DEF DataTold
<1> QED BY <1>4, <1>5, <1>6, <1>7, <1>8, <1>9 DEF DataInv

\* What holds of the answers as long as nothing is told, heard or published.
LEMMA DataToldSame ==
  ASSUME DataTold, UNCHANGED <<dataFromSFU, dataPubs, doubled>>
  PROVE  DataTold'
BY DEF DataTold

LEMMA DataSame ==
  ASSUME UNCHANGED dataToSFU \/ UNCHANGED dataFromSFU
  PROVE  /\ UNCHANGED dataToSFU => \A p, h : Asked(p, h)' <=> Asked(p, h)
         /\ UNCHANGED dataFromSFU => \A t, h : Told(t, h)' <=> Told(t, h)
BY DEF Asked, Told

\* Handles and callers, with their ranges.
LEMMA DataRanges ==
  ASSUME DataTyped
  PROVE  /\ value \in 0 .. MaxHandle /\ active \subseteq 1 .. value
         /\ active \subseteq DataHandles
         /\ pending \in [DataHandles -> DataPublishers \cup {NONE}]
         /\ trackState \in [DataHandles -> {"none", "published", "republishing", "unpublished"}]
         /\ sidSession \in [DataHandles -> 0 .. MaxRestarts]
         /\ result \in [DataPublishers -> LDT!Errors \cup {"track", NONE}]
         /\ dataPc \in [DataPublishers ->
                       {"idle", "sending", "waiting", "withdrawing", "holding", "removed"}]
         /\ handle \in [DataPublishers -> 0 .. MaxHandle]
         /\ dataReader = LDT!Rest \/ dataReader \in [at : {"mark", "complete", "refuse"}, handle : DataHandles]
         /\ requests \subseteq DataHandles /\ unmarked \subseteq DataHandles
         /\ dataPubs \subseteq DataHandles /\ dataLink \in {"up", "down"}
         /\ \A h \in DataHandles : h \in Nat /\ h > 0
<1>1. LDT!TypeOK /\ DataHandles = LDT!Handles /\ MaxHandle \in Nat
  BY DataBounds DEF DataTyped
<1>2. /\ value \in 0 .. MaxHandle /\ active \subseteq 1 .. value
      /\ dataReader = LDT!Rest \/ dataReader \in [at : {"mark", "complete", "refuse"}, handle : DataHandles]
      /\ requests \subseteq DataHandles /\ unmarked \subseteq DataHandles
      /\ dataPubs \subseteq DataHandles /\ dataLink \in {"up", "down"}
  BY <1>1 DEF LDT!TypeOK
<1>3. /\ pending \in [DataHandles -> DataPublishers \cup {NONE}]
      /\ trackState \in [DataHandles -> {"none", "published", "republishing", "unpublished"}]
      /\ sidSession \in [DataHandles -> 0 .. MaxRestarts]
      /\ result \in [DataPublishers -> LDT!Errors \cup {"track", NONE}]
      /\ dataPc \in [DataPublishers ->
                    {"idle", "sending", "waiting", "withdrawing", "holding", "removed"}]
      /\ handle \in [DataPublishers -> 0 .. MaxHandle]
  BY <1>1 DEF LDT!TypeOK
<1>4. active \subseteq DataHandles /\ \A h \in DataHandles : h \in Nat /\ h > 0
  BY <1>1, <1>2 DEF DataHandles
<1> QED BY <1>2, <1>3, <1>4

\* Publish takes the next handle, which nobody has heard of.
LEMMA DataPublished ==
  ASSUME DataInv, NEW c \in DataPublishers, LDT!Publish(c) PROVE DataInv'
<1>0. /\ DataTyped /\ DataOwned /\ DataStates /\ DataUntouched /\ DataHeld /\ DataTold
      /\ DataActive /\ DataListed
  BY DEF DataInv
<1>1. PICK n : n = value + 1 OBVIOUS
<1>2. /\ UNCHANGED <<active, trackState, sidSession, dataReader, restorer, requests, unmarked,
                     closed, dataPubs, dataToSFU, dataFromSFU, dataLink, dataSession, unsent,
                     doubled>>
      /\ dataPc[c] = "idle" /\ value < MaxHandle /\ value' = n
      /\ pending' = [pending EXCEPT ![n] = c] /\ handle' = [handle EXCEPT ![c] = n]
      /\ result' = [result EXCEPT ![c] = NONE] /\ dataPc' = [dataPc EXCEPT ![c] = "sending"]
  BY <1>1 DEF LDT!Publish, LDT!Goto, LDT!workerVars, LDT!linkVars, LDT!ghostVars
<1>3. n \in DataHandles /\ n \in Nat /\ value \in Nat /\ n > 0 /\ value < n
  BY <1>0, <1>1, <1>2, DataBounds, DataRanges DEF DataHandles
<1>4. /\ pending'[n] = c /\ \A h \in DataHandles \ {n} : pending'[h] = pending[h]
      /\ handle'[c] = n /\ \A d \in DataPublishers \ {c} : handle'[d] = handle[d]
      /\ result'[c] = NONE /\ \A d \in DataPublishers \ {c} : result'[d] = result[d]
      /\ dataPc'[c] = "sending" /\ \A d \in DataPublishers \ {c} : dataPc'[d] = dataPc[d]
  BY <1>0, <1>2, <1>3, DataRanges
<1>5. /\ \A p, h : Asked(p, h)' <=> Asked(p, h)
      /\ \A t, h : Told(t, h)' <=> Told(t, h)
  BY <1>2, DataSame
<1>6. c # NONE BY DataBounds
<1>7. DataTyped'
  <2>1. /\ pending' \in [DataHandles -> DataPublishers \cup {NONE}]
        /\ result' \in [DataPublishers -> LDT!Errors \cup {"track", NONE}]
        /\ dataPc' \in [DataPublishers ->
                       {"idle", "sending", "waiting", "withdrawing", "holding", "removed"}]
        /\ handle' \in [DataPublishers -> 0 .. MaxHandle]
        /\ value' \in 0 .. MaxHandle
    BY <1>0, <1>1, <1>2, <1>3, DataBounds, DataRanges DEF DataHandles
  <2>2. /\ active' \subseteq 1 .. value' /\ requests' \subseteq 1 .. value'
        /\ unmarked' \subseteq 1 .. value'
        /\ (dataReader # LDT!Rest => dataReader'.handle <= value')
    BY <1>0, <1>1, <1>2, <1>3, DataRanges DEF DataTyped, DataHandles
  <2>3. LDT!TypeOK' BY <1>0, <1>2, <2>1, <2>2, DataBounds DEF DataTyped, LDT!TypeOK
  <2> QED BY <1>0, <1>2, <2>2, <2>3 DEF DataTyped
<1>8. DataOwned'
  <2>1. LDT!PublicationsAnswered'
    <3>1. LDT!PublicationsAnswered BY <1>0 DEF DataOwned
    <3>2. \A d \in DataPublishers \ {c} : handle[d] \in 0 .. value
      BY <1>0, DataRanges DEF DataOwned
    <3>3. \A h \in DataHandles : pending[h] # c
      BY <1>2, <3>1, DataBounds DEF LDT!PublicationsAnswered
    <3>4. \A h \in DataHandles : pending'[h] # NONE =>
            /\ dataPc'[pending'[h]] \in {"sending", "waiting"}
            /\ handle'[pending'[h]] = h /\ result'[pending'[h]] = NONE
      <4> SUFFICES ASSUME NEW h \in DataHandles, pending'[h] # NONE
                   PROVE  /\ dataPc'[pending'[h]] \in {"sending", "waiting"}
                          /\ handle'[pending'[h]] = h /\ result'[pending'[h]] = NONE
        OBVIOUS
      <4>1. CASE h = n BY <1>4, <4>1
      <4>2. CASE h # n
        <5>1. pending'[h] = pending[h] /\ pending[h] \in DataPublishers \ {c}
          BY <1>0, <1>4, <3>3, <4>2, DataRanges
        <5> QED BY <1>4, <3>1, <5>1, DataBounds DEF LDT!PublicationsAnswered
      <4> QED BY <4>1, <4>2
    <3>5. \A d \in DataPublishers :
            dataPc'[d] \in {"sending", "waiting", "withdrawing"} /\ result'[d] = NONE =>
              pending'[handle'[d]] = d
      <4> SUFFICES ASSUME NEW d \in DataPublishers,
                          dataPc'[d] \in {"sending", "waiting", "withdrawing"}, result'[d] = NONE
                   PROVE  pending'[handle'[d]] = d
        OBVIOUS
      <4>1. CASE d = c BY <1>4, <4>1
      <4>2. CASE d # c
        <5>1. pending[handle[d]] = d BY <1>4, <3>1, <4>2 DEF LDT!PublicationsAnswered
        <5>2. handle'[d] = handle[d] /\ handle[d] > 0 BY <1>0, <1>4, <4>2 DEF DataOwned
        <5>3. handle[d] \in DataHandles /\ handle[d] # n
          BY <1>0, <1>3, <3>2, <4>2, <5>2, DataRanges DEF DataHandles
        <5> QED BY <1>4, <5>1, <5>2, <5>3
      <4> QED BY <4>1, <4>2
    <3> QED BY <3>4, <3>5, DataBounds DEF LDT!PublicationsAnswered
  <2>2. \A d \in DataPublishers :
          handle'[d] <= value' /\ (dataPc'[d] # "idle" => handle'[d] > 0)
    <3> SUFFICES ASSUME NEW d \in DataPublishers
                 PROVE  handle'[d] <= value' /\ (dataPc'[d] # "idle" => handle'[d] > 0)
      OBVIOUS
    <3>1. CASE d = c BY <1>2, <1>3, <1>4, <3>1
    <3>2. CASE d # c
      <4>1. handle[d] \in Nat /\ handle[d] <= value
        BY <1>0, DataBounds, DataRanges DEF DataOwned
      <4> QED BY <1>0, <1>1, <1>2, <1>3, <1>4, <3>2, <4>1 DEF DataOwned
    <3> QED BY <3>1, <3>2
  <2>3. \A d, e \in DataPublishers : handle'[d] = handle'[e] /\ handle'[d] > 0 => d = e
    <3>1. \A d \in DataPublishers : handle[d] # n BY <1>0, <1>3, DataRanges DEF DataOwned
    <3> QED BY <1>0, <1>4, <3>1 DEF DataOwned
  <2>4. \A h \in DataHandles : h > value' => pending'[h] = NONE
    BY <1>0, <1>1, <1>2, <1>3, <1>4, DataRanges DEF DataOwned
  <2> QED BY <2>1, <2>2, <2>3, <2>4 DEF DataOwned
<1>9. \A h \in DataHandles : Over(h) => Over(h)' /\ h # n
  BY <1>1, <1>2, <1>3, <1>4, DataRanges, <1>0 DEF Over
<1>10. DataStates'
  <2>1. trackState[n] = "none" /\ n \notin active BY <1>0, <1>3 DEF DataStates
  <2>2. \A h \in DataHandles : h > value' => h > value BY <1>1, <1>2, <1>3, DataRanges, <1>0
  <2>3. \A d \in DataPublishers, h \in DataHandles :
          dataPc'[d] = "removed" /\ handle'[d] = h => Over(h)'
    <3> SUFFICES ASSUME NEW d \in DataPublishers, NEW h \in DataHandles, dataPc'[d] = "removed",
                        handle'[d] = h
                 PROVE  Over(h)'
      OBVIOUS
    <3>1. d # c /\ handle[d] = h /\ dataPc[d] = "removed" BY <1>4
    <3> QED BY <1>0, <1>9, <3>1 DEF DataStates
  <2>4. \A h \in DataHandles : Asked(FALSE, h)' => Over(h)' BY <1>0, <1>5, <1>9 DEF DataStates
  <2>5. \A h \in DataHandles :
          dataReader' # LDT!Rest /\ dataReader'.at # "complete" /\ dataReader'.handle = h =>
            Over(h)'
    BY <1>0, <1>2, <1>9 DEF DataStates
  <2>6. \A h \in unmarked' : Over(h)' BY <1>0, <1>2, <1>9, DataRanges DEF DataStates
  <2>7. \A h \in DataHandles :
          h > value' \/ pending'[h] # NONE => trackState'[h] = "none" /\ h \notin active'
    BY <1>0, <1>2, <1>4, <2>1, <2>2 DEF DataStates
  <2>8. /\ \A h \in active' : trackState'[h] \in {"published", "republishing"}
        /\ \A h \in active' :
             trackState'[h] = "published" /\ restorer' # "due" => sidSession'[h] = dataSession'
    BY <1>0, <1>2 DEF DataStates
  <2> QED BY <2>3, <2>4, <2>5, <2>6, <2>7, <2>8 DEF DataStates
<1>11. DataUntouched'
  <2>1. \A h \in DataHandles : Untouched(h) => Untouched(h)' BY <1>2, <1>5 DEF Untouched
  <2>2. Untouched(n) BY <1>0, <1>3 DEF DataUntouched
  <2>3. \A d \in DataPublishers, h \in DataHandles :
          dataPc'[d] = "sending" /\ handle'[d] = h => Untouched(h)'
    <3> SUFFICES ASSUME NEW d \in DataPublishers, NEW h \in DataHandles, dataPc'[d] = "sending",
                        handle'[d] = h
                 PROVE  Untouched(h)'
      OBVIOUS
    <3>1. CASE d = c BY <1>4, <2>1, <2>2, <3>1
    <3>2. CASE d # c BY <1>0, <1>4, <2>1, <3>2 DEF DataUntouched
    <3> QED BY <3>1, <3>2
  <2>4. \A h \in DataHandles : h > value' => Untouched(h)'
    BY <1>0, <1>1, <1>2, <1>3, <2>1, DataRanges DEF DataUntouched
  <2> QED BY <2>3, <2>4 DEF DataUntouched
<1>12. DataHeld'
  <2> SUFFICES ASSUME NEW h \in active
               PROVE  \E d \in DataPublishers : handle'[d] = h /\ Holds(d)'
    BY <1>2 DEF DataHeld
  <2>1. PICK d \in DataPublishers : handle[d] = h /\ Holds(d) BY <1>0 DEF DataHeld
  <2>2. d # c BY <1>2, <2>1 DEF Holds
  <2> QED BY <1>4, <2>1, <2>2 DEF Holds
<1>13. DataTold' BY <1>0, <1>2, DataToldSame
<1>14. DataActive' BY <1>0, <1>2, <1>5 DEF DataActive
<1>15. DataListed'
  <2> SUFFICES ASSUME dataLink = "up", NEW h \in dataPubs \ (doubled \cup active),
                      ~Told("accept", h)
               PROVE  /\ pending'[h] = NONE
                      /\ \/ dataReader = [at |-> "refuse", handle |-> h] \/ Asked(FALSE, h)
                         \/ \E d \in DataPublishers : dataPc'[d] = "removed" /\ handle'[d] = h
    BY <1>2, <1>5 DEF DataListed
  <2>1. /\ pending[h] = NONE
        /\ \/ dataReader = [at |-> "refuse", handle |-> h] \/ Asked(FALSE, h)
           \/ \E d \in DataPublishers : dataPc[d] = "removed" /\ handle[d] = h
    BY <1>0 DEF DataListed
  <2>2. h # n /\ h \in DataHandles BY <1>0, <1>3, DataRanges DEF DataUntouched, Untouched
  <2> QED BY <1>2, <1>4, <2>1, <2>2
<1> QED BY <1>7, <1>8, <1>10, <1>11, <1>12, <1>13, <1>14, <1>15 DEF DataInv

-----------------------------------------------------------------------------
(* What each step leaves of the invariant, after the handles given out.    *)

\* Publications are answered, or given up by their callers.
LEMMA DataOwnedKept ==
  ASSUME DataTyped, DataOwned, UNCHANGED <<value, handle>>,
         \A h \in DataHandles : pending'[h] \in {pending[h], NONE},
         \A h \in DataHandles : pending'[h] # NONE =>
           dataPc'[pending[h]] \in {"sending", "waiting"} /\ result'[pending[h]] = NONE,
         \A d \in DataPublishers : dataPc'[d] # "idle" => dataPc[d] # "idle",
         \A d \in DataPublishers :
           dataPc'[d] \in {"sending", "waiting", "withdrawing"} /\ result'[d] = NONE =>
             /\ dataPc[d] \in {"sending", "waiting", "withdrawing"} /\ result[d] = NONE
             /\ pending'[handle[d]] = pending[handle[d]]
  PROVE  DataOwned'
<1>1. LDT!PublicationsAnswered BY DEF DataOwned
<1>2. ASSUME NEW h \in DataHandles, pending'[h] # NONE
      PROVE  /\ dataPc'[pending'[h]] \in {"sending", "waiting"}
             /\ handle'[pending'[h]] = h /\ result'[pending'[h]] = NONE
  <2>1. pending'[h] = pending[h] /\ pending[h] # NONE BY <1>2
  <2> QED BY <1>1, <1>2, <2>1, DataBounds DEF LDT!PublicationsAnswered
<1>3. ASSUME NEW d \in DataPublishers,
             dataPc'[d] \in {"sending", "waiting", "withdrawing"}, result'[d] = NONE
      PROVE  pending'[handle'[d]] = d
  <2>1. pending[handle[d]] = d BY <1>1, <1>3 DEF LDT!PublicationsAnswered
  <2> QED BY <1>3, <2>1
<1>4. LDT!PublicationsAnswered' BY <1>2, <1>3, DataBounds DEF LDT!PublicationsAnswered
<1>5. \A d \in DataPublishers : handle'[d] <= value' /\ (dataPc'[d] # "idle" => handle'[d] > 0)
  BY DEF DataOwned
<1>6. \A d, e \in DataPublishers : handle'[d] = handle'[e] /\ handle'[d] > 0 => d = e
  BY DEF DataOwned
<1>7. \A h \in DataHandles : h > value' => pending'[h] = NONE BY DEF DataOwned
<1> QED BY <1>4, <1>5, <1>6, <1>7 DEF DataOwned

\* Nobody sends a first request, or one for a handle the SFU has heard of.
LEMMA DataUntouchedKept ==
  ASSUME DataUntouched, UNCHANGED <<value, handle>>,
         \A d \in DataPublishers : dataPc'[d] = "sending" => dataPc[d] = "sending",
         \A h \in DataHandles : Untouched(h) => Untouched(h)'
  PROVE  DataUntouched'
BY DEF DataUntouched

LEMMA DataUntouchedSame ==
  ASSUME UNCHANGED <<dataPubs, active, requests, dataReader>>,
         \A p \in BOOLEAN, h \in DataHandles : Asked(p, h)' => Asked(p, h),
         \A t \in {"accept", "reject", "unpublish"}, h \in DataHandles : Told(t, h)' =>
           Told(t, h)
  PROVE  \A h \in DataHandles : Untouched(h) => Untouched(h)'
BY DEF Untouched

\* Callers keep the tracks that stay.
LEMMA DataHeldKept ==
  ASSUME DataHeld, active' \subseteq active, UNCHANGED handle,
         \A d \in DataPublishers : Holds(d) /\ handle[d] \in active' => Holds(d)'
  PROVE  DataHeld'
BY DEF DataHeld

\* A caller that answered, failed or was interrupted is one of its own.
LEMMA DataCaller ==
  ASSUME DataInv, NEW c \in DataPublishers, dataPc[c] # "idle"
  PROVE  /\ handle[c] \in DataHandles /\ handle[c] <= value
         /\ \A d \in DataPublishers : d # c => handle[d] # handle[c]
         /\ pending[handle[c]] \in {c, NONE}
<1>1. DataTyped /\ DataOwned BY DEF DataInv
<1>2. handle[c] > 0 /\ handle[c] <= value BY <1>1 DEF DataOwned
<1>3. handle[c] \in DataHandles BY <1>1, <1>2, DataBounds, DataRanges DEF DataHandles
<1>4. \A d \in DataPublishers : d # c => handle[d] # handle[c] BY <1>1, <1>2 DEF DataOwned
<1>5. pending[handle[c]] \in DataPublishers \cup {NONE} BY <1>1, <1>3, DataRanges
<1>6. pending[handle[c]] # NONE => handle[pending[handle[c]]] = handle[c]
  BY <1>1, <1>3, DataBounds DEF DataOwned, LDT!PublicationsAnswered
<1> QED BY <1>2, <1>3, <1>4, <1>5, <1>6

LEMMA DataParts ==
  DataInv <=> /\ DataTyped /\ DataOwned /\ DataStates /\ DataUntouched /\ DataHeld /\ DataTold
              /\ DataActive /\ DataListed
BY DEF DataInv

\* The states of tracks when no track is published, restored or marked.
LEMMA DataStatesKept ==
  ASSUME DataStates, UNCHANGED <<value, handle, trackState, sidSession, dataReader,
                                 dataSession>>,
         active' \subseteq active, unmarked' \subseteq unmarked,
         restorer' = restorer \/ (restorer' # "due" /\ restorer # "due"),
         DataTyped,
         \A h \in DataHandles : pending'[h] \in {pending[h], NONE},
         \A d \in DataPublishers, h \in DataHandles :
           dataPc'[d] = "removed" /\ handle[d] = h => dataPc[d] = "removed" \/ Over(h)',
         \A h \in DataHandles : Asked(FALSE, h)' => Asked(FALSE, h) \/ Over(h)'
  PROVE  DataStates' /\ \A h \in DataHandles : Over(h) => Over(h)'
<1>1. \A h \in DataHandles : Over(h) => Over(h)' BY DEF Over
<1>2. \A h \in DataHandles :
        h > value' \/ pending'[h] # NONE => trackState'[h] = "none" /\ h \notin active'
  BY DEF DataStates
<1>3. /\ \A h \in active' : trackState'[h] \in {"published", "republishing"}
      /\ \A h \in active' :
           trackState'[h] = "published" /\ restorer' # "due" => sidSession'[h] = dataSession'
  BY DEF DataStates
<1>4. \A d \in DataPublishers, h \in DataHandles :
        dataPc'[d] = "removed" /\ handle'[d] = h => Over(h)'
  BY <1>1 DEF DataStates
<1>5. \A h \in DataHandles :
        dataReader' # LDT!Rest /\ dataReader'.at # "complete" /\ dataReader'.handle = h =>
          Over(h)'
  BY <1>1 DEF DataStates
<1>6. \A h \in unmarked' : Over(h)' BY <1>1, DataRanges DEF DataStates
<1>7. \A h \in DataHandles : Asked(FALSE, h)' => Over(h)' BY <1>1 DEF DataStates
<1> QED BY <1>1, <1>2, <1>3, <1>4, <1>5, <1>6, <1>7 DEF DataStates

\* The caller's request goes out.
LEMMA DataSent ==
  ASSUME DataInv, NEW c \in DataPublishers, LDT!SendPublish(c) PROVE DataInv'
<1>0. /\ DataTyped /\ DataOwned /\ DataStates /\ DataUntouched /\ DataHeld /\ DataTold
      /\ DataActive /\ DataListed
  BY DataParts
<1>1. PICK h : h = handle[c] OBVIOUS
<1>2. PICK m : m = [publish |-> TRUE, handle |-> h] OBVIOUS
<1>3. /\ UNCHANGED <<value, pending, active, trackState, sidSession, result, handle,
                     dataReader, restorer, requests, unmarked, closed, dataPubs, dataFromSFU,
                     dataLink, dataSession, unsent, doubled>>
      /\ dataPc[c] = "sending" /\ dataLink = "up" /\ Len(dataToSFU) < MaxInFlight
      /\ dataToSFU' = Append(dataToSFU, m)
      /\ dataPc' = [dataPc EXCEPT ![c] = "waiting"]
  BY <1>1, <1>2 DEF LDT!SendPublish, LDT!SendRequest, LDT!Goto, LDT!managerVars, LDT!workerVars,
                   LDT!linkVars, LDT!ghostVars
<1>4. h \in DataHandles /\ \A d \in DataPublishers : d # c => handle[d] # h
  BY <1>1, <1>3, DataCaller
<1>5. dataPc'[c] = "waiting" /\ \A d \in DataPublishers \ {c} : dataPc'[d] = dataPc[d]
  BY <1>0, <1>3, DataRanges
<1>6. m \in Requested BY <1>2, <1>4 DEF Requested
<1>7. /\ dataToSFU' \in Seq(Requested) /\ Len(dataToSFU') = Len(dataToSFU) + 1
      /\ \A p \in BOOLEAN, g \in DataHandles :
           Asked(p, g)' <=> Asked(p, g) \/ m = [publish |-> p, handle |-> g]
  BY <1>0, <1>3, <1>6, DataAsks
<1>8. /\ \A g \in DataHandles : Asked(FALSE, g)' => Asked(FALSE, g)
      /\ \A p \in BOOLEAN, g \in DataHandles : Asked(p, g) => Asked(p, g)'
      /\ \A p \in BOOLEAN, g \in DataHandles : Asked(p, g)' => Asked(p, g) \/ g = h
      /\ \A t, g : Told(t, g)' <=> Told(t, g)
  BY <1>2, <1>3, <1>7, DataSame
<1>9. DataTyped'
  <2>1. dataPc' \in [DataPublishers ->
                    {"idle", "sending", "waiting", "withdrawing", "holding", "removed"}]
    BY <1>0, <1>3, DataRanges
  <2>2. /\ dataToSFU' \in Seq([publish : BOOLEAN, handle : LDT!Handles])
        /\ Len(dataToSFU') <= MaxInFlight
    <3>1. Len(dataToSFU) \in Nat BY <1>0, DataBounds, LenProperties DEF DataTyped, LDT!TypeOK
    <3> QED BY <1>3, <1>7, <3>1, DataBounds DEF Requested
  <2>3. LDT!TypeOK' BY <1>0, <1>3, <2>1, <2>2 DEF DataTyped, LDT!TypeOK
  <2> QED BY <1>0, <1>3, <2>3 DEF DataTyped
<1>10. DataOwned'
  <2>1. \A g \in DataHandles : pending'[g] # NONE =>
          dataPc'[pending[g]] \in {"sending", "waiting"} /\ result'[pending[g]] = NONE
    BY <1>0, <1>3, <1>5, DataBounds, DataRanges DEF DataOwned, LDT!PublicationsAnswered
  <2> QED BY <1>0, <1>3, <1>5, <2>1, DataOwnedKept
<1>11. DataStates'
  <2>1. \A g \in DataHandles : pending'[g] \in {pending[g], NONE} BY <1>3
  <2>2. \A d \in DataPublishers, g \in DataHandles :
          dataPc'[d] = "removed" /\ handle[d] = g => dataPc[d] = "removed" \/ Over(g)'
    BY <1>5
  <2>3. \A g \in DataHandles : Asked(FALSE, g)' => Asked(FALSE, g) \/ Over(g)' BY <1>8
  <2>4. active' \subseteq active /\ unmarked' \subseteq unmarked /\ restorer' = restorer BY <1>3
  <2> QED BY <1>0, <1>3, <2>1, <2>2, <2>3, <2>4, DataStatesKept
<1>12. DataUntouched'
  <2>1. \A g \in DataHandles : Untouched(g) /\ g # h => Untouched(g)'
    BY <1>3, <1>8 DEF Untouched
  <2>2. \A d \in DataPublishers, g \in DataHandles :
          dataPc'[d] = "sending" /\ handle'[d] = g => Untouched(g)'
    BY <1>0, <1>3, <1>4, <1>5, <2>1 DEF DataUntouched
  <2>3. \A g \in DataHandles : g > value' => Untouched(g)'
    <3>1. h <= value BY <1>1, <1>3, DataCaller
    <3> QED
      BY <1>0, <1>3, <1>4, <2>1, <3>1, DataBounds, DataRanges DEF DataUntouched, DataHandles
  <2> QED BY <2>2, <2>3 DEF DataUntouched
<1>13. DataHeld' BY <1>0, <1>3, <1>5, DataHeldKept DEF Holds
<1>14. DataTold' BY <1>0, <1>3, DataToldSame
<1>15. DataActive' BY <1>0, <1>3, <1>8, DataRanges DEF DataActive
<1>16. DataListed'
  <2>1. \A d \in DataPublishers : dataPc[d] = "removed" => dataPc'[d] = "removed" BY <1>3, <1>5
  <2> QED BY ZenonT(40), <1>0, <1>3, <1>8, <2>1, DataRanges DEF DataListed
<1> QED BY <1>9, <1>10, <1>11, <1>12, <1>13, <1>14, <1>15, <1>16 DEF DataInv

\* A caller that gives up, or takes what it was given.
LEMMA DataLeft ==
  ASSUME DataInv, NEW c \in DataPublishers,
         LDT!SendPublishFails(c) \/ LDT!Receive(c) \/ LDT!ContextDone(c)
           \/ (LDT!Withdraw(c) /\ result[c] # "track")
  PROVE  DataInv'
<1>0. /\ DataTyped /\ DataOwned /\ DataStates /\ DataUntouched /\ DataHeld /\ DataTold
      /\ DataActive /\ DataListed
  BY DataParts
<1>1. PICK h : h = handle[c] OBVIOUS
<1>2. PICK to \in {"idle", "holding", "withdrawing"} :
        /\ UNCHANGED <<value, active, trackState, sidSession, result, handle, dataReader,
                       restorer, requests, unmarked, closed, dataPubs, dataToSFU, dataFromSFU,
                       dataLink, dataSession, unsent, doubled>>
        /\ dataPc[c] \in {"sending", "waiting", "withdrawing"}
        /\ dataPc' = [dataPc EXCEPT ![c] = to]
        /\ pending' = [pending EXCEPT ![h] = NONE]
        /\ to = "withdrawing" => dataPc[c] = "waiting" /\ pending[h] = NONE
        /\ result[c] = "track" /\ dataPc[c] \in {"waiting", "withdrawing"} /\ pending[h] = NONE =>
             to \in {"holding", "withdrawing"}
  <2>1. dataPc[c] \in {"sending", "waiting", "withdrawing"}
    BY DEF LDT!SendPublishFails, LDT!Receive, LDT!ContextDone, LDT!Withdraw
  <2>2. h \in DataHandles /\ pending[h] \in {c, NONE} BY <1>1, <2>1, DataCaller
  <2>3. result[c] # NONE => pending = [pending EXCEPT ![h] = NONE]
    <3>1. pending[h] = c => result[c] = NONE
      BY <1>0, <2>2, DataBounds DEF DataOwned, LDT!PublicationsAnswered
    <3> QED BY <1>0, <2>2, <3>1, DataRanges
  <2>4. CASE LDT!SendPublishFails(c)
    BY <1>1, <2>4
       DEF LDT!SendPublishFails, LDT!Goto, LDT!workerVars, LDT!linkVars, LDT!ghostVars
  <2>5. CASE LDT!Receive(c)
    BY <1>1, <2>3, <2>5
       DEF LDT!Receive, LDT!Goto, LDT!managerVars, LDT!workerVars, LDT!linkVars, LDT!ghostVars
  <2>6. CASE LDT!ContextDone(c)
    BY <1>1, <2>6 DEF LDT!ContextDone, LDT!Goto, LDT!workerVars, LDT!linkVars, LDT!ghostVars
  <2>7. CASE LDT!Withdraw(c) /\ result[c] # "track"
    BY <1>1, <2>3, <2>7
       DEF LDT!Withdraw, LDT!Goto, LDT!managerVars, LDT!workerVars, LDT!linkVars, LDT!ghostVars
  <2> QED BY <2>4, <2>5, <2>6, <2>7
<1>3. /\ h \in DataHandles /\ pending[h] \in {c, NONE}
      /\ \A d \in DataPublishers : d # c => handle[d] # h
  BY <1>1, <1>2, DataCaller
<1>4. /\ dataPc'[c] = to /\ \A d \in DataPublishers \ {c} : dataPc'[d] = dataPc[d]
      /\ pending'[h] = NONE /\ \A g \in DataHandles \ {h} : pending'[g] = pending[g]
  BY <1>0, <1>2, <1>3, DataRanges
<1>5. /\ \A p, g : Asked(p, g)' <=> Asked(p, g)
      /\ \A t, g : Told(t, g)' <=> Told(t, g)
  BY <1>2, DataSame
<1>6. c # NONE BY DataBounds
<1>7. DataTyped'
  <2>1. /\ dataPc' \in [DataPublishers ->
                       {"idle", "sending", "waiting", "withdrawing", "holding", "removed"}]
        /\ pending' \in [LDT!Handles -> DataPublishers \cup {NONE}]
    BY <1>0, <1>2, DataBounds, DataRanges
  <2>2. LDT!TypeOK' BY <1>0, <1>2, <2>1 DEF DataTyped, LDT!TypeOK
  <2> QED BY <1>0, <1>2, <2>2 DEF DataTyped
<1>8. DataOwned'
  <2>1. ASSUME NEW g \in DataHandles, pending'[g] # NONE
        PROVE  dataPc'[pending[g]] \in {"sending", "waiting"} /\ result'[pending[g]] = NONE
    <3>1. g # h /\ pending[g] # NONE /\ pending[g] \in DataPublishers
      BY <1>0, <1>4, <2>1, DataRanges
    <3>2. handle[pending[g]] = g
      BY <1>0, <3>1, DataBounds DEF DataOwned, LDT!PublicationsAnswered
    <3>3. pending[g] # c BY <1>1, <3>1, <3>2
    <3> QED BY <1>0, <1>2, <1>4, <3>1, <3>3, DataBounds DEF DataOwned, LDT!PublicationsAnswered
  <2>2. ASSUME NEW d \in DataPublishers,
               dataPc'[d] \in {"sending", "waiting", "withdrawing"}, result'[d] = NONE
        PROVE  /\ dataPc[d] \in {"sending", "waiting", "withdrawing"} /\ result[d] = NONE
               /\ pending'[handle[d]] = pending[handle[d]]
    <3>1. CASE d = c
      <4>1. pending[h] = NONE BY <1>2, <1>4, <2>2, <3>1
      <4> QED BY <1>1, <1>2, <1>4, <2>2, <3>1, <4>1
    <3>2. CASE d # c
      <4>1. dataPc[d] = dataPc'[d] /\ result[d] = NONE BY <1>2, <1>4, <2>2, <3>2
      <4>2. handle[d] \in DataHandles /\ handle[d] # h
        BY <1>3, <2>2, <3>2, <4>1, DataCaller
      <4> QED BY <1>4, <2>2, <4>1, <4>2
    <3> QED BY <3>1, <3>2
  <2>3. \A d \in DataPublishers : dataPc'[d] # "idle" => dataPc[d] # "idle" BY <1>2, <1>4
  <2>4. \A g \in DataHandles : pending'[g] \in {pending[g], NONE} BY <1>4
  <2> QED BY <1>0, <1>2, <2>1, <2>2, <2>3, <2>4, DataOwnedKept
<1>9. DataStates'
  <2>1. \A g \in DataHandles : pending'[g] \in {pending[g], NONE} BY <1>4
  <2>2. \A d \in DataPublishers, g \in DataHandles :
          dataPc'[d] = "removed" /\ handle[d] = g => dataPc[d] = "removed" \/ Over(g)'
    BY <1>4
  <2>3. \A g \in DataHandles : Asked(FALSE, g)' => Asked(FALSE, g) \/ Over(g)' BY <1>5
  <2>4. active' \subseteq active /\ unmarked' \subseteq unmarked /\ restorer' = restorer BY <1>2
  <2> QED BY <1>0, <1>2, <2>1, <2>2, <2>3, <2>4, DataStatesKept
<1>10. DataUntouched'
  <2>1. \A g \in DataHandles : Untouched(g) => Untouched(g)'
    BY <1>2, <1>5, DataUntouchedSame
  <2>2. \A d \in DataPublishers : dataPc'[d] = "sending" => dataPc[d] = "sending" BY <1>4
  <2> QED BY <1>0, <1>2, <2>1, <2>2, DataUntouchedKept
<1>11. DataHeld'
  <2>1. \A d \in DataPublishers : Holds(d) /\ handle[d] \in active' => Holds(d)'
    <3> SUFFICES ASSUME NEW d \in DataPublishers, Holds(d), handle[d] \in active PROVE Holds(d)'
      BY <1>2
    <3>1. CASE d # c BY <1>2, <1>4, <3>1 DEF Holds
    <3>2. CASE d = c
      <4>1. result[c] = "track" /\ dataPc[c] \in {"waiting", "withdrawing"}
        BY <1>2, <3>2 DEF Holds
      <4>2. pending[h] = NONE BY <1>0, <1>1, <1>3, <3>2 DEF DataStates
      <4> QED BY <1>2, <1>4, <3>2, <4>1, <4>2 DEF Holds
    <3> QED BY <3>1, <3>2
  <2> QED BY <1>0, <1>2, <2>1, DataHeldKept
<1>12. DataTold' BY <1>0, <1>2, DataToldSame
<1>13. DataActive' BY <1>0, <1>2, <1>5 DEF DataActive
<1>14. DataListed'
  <2>1. \A d \in DataPublishers : dataPc[d] = "removed" => dataPc'[d] = "removed" BY <1>2, <1>4
  <2>2. \A g \in DataHandles : pending[g] = NONE => pending'[g] = NONE BY <1>4
  <2> SUFFICES ASSUME dataLink = "up", NEW g \in dataPubs \ (doubled \cup active),
                      ~Told("accept", g)
               PROVE  /\ pending'[g] = NONE
                      /\ \/ dataReader = [at |-> "refuse", handle |-> g] \/ Asked(FALSE, g)
                         \/ \E d \in DataPublishers : dataPc'[d] = "removed" /\ handle[d] = g
    BY <1>2, <1>5 DEF DataListed
  <2>3. g \in DataHandles BY <1>0, DataRanges
  <2> QED BY <1>0, <2>1, <2>2, <2>3 DEF DataListed
<1> QED BY <1>7, <1>8, <1>9, <1>10, <1>11, <1>12, <1>13, <1>14 DEF DataInv

\* The caller removes its track under the lock.
LEMMA DataRemoved ==
  ASSUME DataInv, NEW c \in DataPublishers,
         LDT!Unpublish(c) \/ (LDT!Withdraw(c) /\ result[c] = "track")
  PROVE  DataInv'
<1>0. /\ DataTyped /\ DataOwned /\ DataStates /\ DataUntouched /\ DataHeld /\ DataTold
      /\ DataActive /\ DataListed
  BY DataParts
<1>1. PICK h : h = handle[c] OBVIOUS
<1>2. PICK to : to = IF h \in active THEN "removed" ELSE "idle" OBVIOUS
<1>3. /\ UNCHANGED <<value, pending, trackState, sidSession, result, handle, dataReader,
                     restorer, requests, unmarked, closed, dataPubs, dataToSFU, dataFromSFU,
                     dataLink, dataSession, unsent, doubled>>
      /\ dataPc[c] \in {"withdrawing", "holding"} /\ dataPc' = [dataPc EXCEPT ![c] = to]
      /\ dataPc[c] = "withdrawing" => result[c] = "track"
      /\ active' = active \ {h}
  BY <1>1, <1>2 DEF LDT!Unpublish, LDT!Withdraw, LDT!Remove, LDT!Goto, LDT!workerVars,
                   LDT!linkVars, LDT!ghostVars
<1>4. /\ h \in DataHandles /\ h <= value /\ pending[h] \in {c, NONE}
      /\ \A d \in DataPublishers : d # c => handle[d] # h
  BY <1>1, <1>3, DataCaller
<1>5. dataPc'[c] = to /\ \A d \in DataPublishers \ {c} : dataPc'[d] = dataPc[d]
  BY <1>0, <1>3, DataRanges
<1>6. /\ \A p, g : Asked(p, g)' <=> Asked(p, g)
      /\ \A t, g : Told(t, g)' <=> Told(t, g)
  BY <1>3, DataSame
<1>7. to = "removed" => Over(h)'
  <2>1. h \in active => pending[h] = NONE BY <1>0, <1>4 DEF DataStates
  <2> QED BY <1>2, <1>3, <1>4, <2>1 DEF Over
<1>8. DataTyped'
  <2>1. dataPc' \in [DataPublishers ->
                    {"idle", "sending", "waiting", "withdrawing", "holding", "removed"}]
    BY <1>0, <1>2, <1>3, DataRanges
  <2>2. active' \subseteq 1 .. value' BY <1>0, <1>3, DataRanges
  <2>3. LDT!TypeOK' BY <1>0, <1>3, <2>1, <2>2 DEF DataTyped, LDT!TypeOK
  <2> QED BY <1>0, <1>3, <2>3 DEF DataTyped
<1>9. DataOwned'
  <2>1. ASSUME NEW g \in DataHandles, pending'[g] # NONE
        PROVE  dataPc'[pending[g]] \in {"sending", "waiting"} /\ result'[pending[g]] = NONE
    <3>1. /\ pending[g] \in DataPublishers /\ pending[g] # NONE
          /\ dataPc[pending[g]] \in {"sending", "waiting"} /\ result[pending[g]] = NONE
      BY <1>0, <1>3, <2>1, DataBounds, DataRanges DEF DataOwned, LDT!PublicationsAnswered
    <3>2. pending[g] # c BY <1>3, <3>1
    <3> QED BY <1>3, <1>5, <3>1, <3>2
  <2>2. \A d \in DataPublishers :
          dataPc'[d] \in {"sending", "waiting", "withdrawing"} /\ result'[d] = NONE =>
            /\ dataPc[d] \in {"sending", "waiting", "withdrawing"} /\ result[d] = NONE
            /\ pending'[handle[d]] = pending[handle[d]]
    BY <1>2, <1>3, <1>5
  <2>3. \A d \in DataPublishers : dataPc'[d] # "idle" => dataPc[d] # "idle" BY <1>3, <1>5
  <2>4. \A g \in DataHandles : pending'[g] \in {pending[g], NONE} BY <1>3
  <2> QED BY <1>0, <1>3, <2>1, <2>2, <2>3, <2>4, DataOwnedKept
<1>10. DataStates'
  <2>1. \A g \in DataHandles : pending'[g] \in {pending[g], NONE} BY <1>3
  <2>2. \A d \in DataPublishers, g \in DataHandles :
          dataPc'[d] = "removed" /\ handle[d] = g => dataPc[d] = "removed" \/ Over(g)'
    BY <1>1, <1>5, <1>7
  <2>3. \A g \in DataHandles : Asked(FALSE, g)' => Asked(FALSE, g) \/ Over(g)' BY <1>6
  <2>4. active' \subseteq active /\ unmarked' \subseteq unmarked /\ restorer' = restorer BY <1>3
  <2> QED BY <1>0, <1>3, <2>1, <2>2, <2>3, <2>4, DataStatesKept
<1>11. DataUntouched'
  <2>1. \A g \in DataHandles : Untouched(g) => Untouched(g)' BY <1>3, <1>6 DEF Untouched
  <2>2. \A d \in DataPublishers : dataPc'[d] = "sending" => dataPc[d] = "sending" BY <1>2, <1>5
  <2> QED BY <1>0, <1>3, <2>1, <2>2, DataUntouchedKept
<1>12. DataHeld'
  <2>1. \A d \in DataPublishers : Holds(d) /\ handle[d] \in active' => Holds(d)'
    BY <1>1, <1>3, <1>5 DEF Holds
  <2> QED BY <1>0, <1>3, <2>1, DataHeldKept
<1>13. DataTold' BY <1>0, <1>3, DataToldSame
<1>14. DataActive' BY <1>0, <1>3, <1>6 DEF DataActive
<1>15. DataListed'
  <2> SUFFICES ASSUME dataLink = "up", NEW g \in dataPubs \ (doubled \cup active'),
                      ~Told("accept", g)
               PROVE  /\ pending[g] = NONE
                      /\ \/ dataReader = [at |-> "refuse", handle |-> g] \/ Asked(FALSE, g)
                         \/ \E d \in DataPublishers : dataPc'[d] = "removed" /\ handle[d] = g
    BY <1>3, <1>6 DEF DataListed
  <2>1. CASE g \in active
    <3>1. g = h /\ to = "removed" BY <1>2, <1>3, <2>1
    <3>2. pending[h] = NONE BY <1>0, <1>4, <2>1, <3>1 DEF DataStates
    <3> QED BY <1>1, <1>5, <3>1, <3>2
  <2>2. CASE g \notin active
    <3>1. \A d \in DataPublishers : dataPc[d] = "removed" => dataPc'[d] = "removed"
      BY <1>3, <1>5
    <3> QED BY <1>0, <2>2, <3>1 DEF DataListed
  <2> QED BY <2>1, <2>2
<1> QED BY <1>8, <1>9, <1>10, <1>11, <1>12, <1>13, <1>14, <1>15 DEF DataInv

\* A request, if there is a connection: what it leaves of the types.
LEMMA DataRequested ==
  ASSUME DataTyped, NEW p \in BOOLEAN, NEW h \in DataHandles, LDT!SendRequest(p, h)
  PROVE  /\ dataToSFU' \in Seq(Requested) /\ Len(dataToSFU') <= MaxInFlight
         /\ dataLink = "down" => dataToSFU' = <<>>
         /\ dataLink = "up" => Asked(p, h)'
         /\ \A q \in BOOLEAN, g \in DataHandles : Asked(q, g) => Asked(q, g)'
         /\ \A q \in BOOLEAN, g \in DataHandles :
              Asked(q, g)' => Asked(q, g) \/ (q = p /\ g = h)
<1>1. PICK m : m = [publish |-> p, handle |-> h] OBVIOUS
<1>2. m \in Requested BY <1>1 DEF Requested
<1>3. dataToSFU \in Seq(Requested) /\ Len(dataToSFU) <= MaxInFlight /\ Len(dataToSFU) \in Nat
  BY DataBounds, LenProperties DEF DataTyped, LDT!TypeOK, Requested
<1>4. CASE dataLink = "up"
  <2>1. dataToSFU' = Append(dataToSFU, m) /\ Len(dataToSFU) < MaxInFlight
    BY <1>1, <1>4 DEF LDT!SendRequest
  <2>2. /\ dataToSFU' \in Seq(Requested) /\ Len(dataToSFU') = Len(dataToSFU) + 1
        /\ \A q \in BOOLEAN, g \in DataHandles :
             Asked(q, g)' <=> Asked(q, g) \/ m = [publish |-> q, handle |-> g]
    BY <1>2, <2>1, DataAsks
  <2>3. Len(dataToSFU') <= MaxInFlight BY <1>3, <2>1, <2>2, DataBounds
  <2> QED BY <1>1, <1>4, <2>2, <2>3
<1>5. CASE dataLink # "up"
  <2>1. UNCHANGED dataToSFU BY <1>5 DEF LDT!SendRequest
  <2>2. \A q, g : Asked(q, g)' <=> Asked(q, g) BY <2>1, DataSame
  <2>3. dataLink = "down" => dataToSFU' = <<>> BY <2>1 DEF DataTyped
  <2> QED BY <1>3, <1>5, <2>1, <2>2, <2>3
<1> QED BY <1>4, <1>5

\* ... and then it marks the track and tells the SFU.
LEMMA DataUnpublished ==
  ASSUME DataInv, NEW c \in DataPublishers, LDT!SendUnpublish(c) PROVE DataInv'
<1>0. /\ DataTyped /\ DataOwned /\ DataStates /\ DataUntouched /\ DataHeld /\ DataTold
      /\ DataActive /\ DataListed
  BY DataParts
<1>1. PICK h : h = handle[c] OBVIOUS
<1>2. /\ UNCHANGED <<value, pending, active, sidSession, result, handle, dataReader, restorer,
                     requests, unmarked, closed, dataPubs, dataFromSFU, dataLink, dataSession,
                     unsent, doubled>>
      /\ dataPc[c] = "removed" /\ dataPc' = [dataPc EXCEPT ![c] = "idle"]
      /\ trackState' = [trackState EXCEPT ![h] = "unpublished"]
      /\ LDT!SendRequest(FALSE, h)
  BY <1>1 DEF LDT!SendUnpublish, LDT!markUnpublished, LDT!Goto, LDT!workerVars, LDT!linkVars,
             LDT!ghostVars
<1>3. h \in DataHandles /\ h <= value BY <1>1, <1>2, DataCaller
<1>4. dataPc'[c] = "idle" /\ \A d \in DataPublishers \ {c} : dataPc'[d] = dataPc[d]
  BY <1>0, <1>2, DataRanges
<1>5. /\ dataToSFU' \in Seq(Requested) /\ Len(dataToSFU') <= MaxInFlight
      /\ dataLink = "down" => dataToSFU' = <<>>
      /\ dataLink = "up" => Asked(FALSE, h)'
      /\ \A q \in BOOLEAN, g \in DataHandles : Asked(q, g) => Asked(q, g)'
      /\ \A q \in BOOLEAN, g \in DataHandles : Asked(q, g)' =>
           Asked(q, g) \/ (q = FALSE /\ g = h)
      /\ \A t, g : Told(t, g)' <=> Told(t, g)
  BY <1>0, <1>2, <1>3, DataRequested, DataSame
<1>6. Over(h) /\ \A g \in DataHandles : Over(g) => Over(g)'
  BY <1>0, <1>1, <1>2, <1>3 DEF DataStates, Over
<1>7. DataTyped'
  <2>1. /\ dataPc' \in [DataPublishers ->
                       {"idle", "sending", "waiting", "withdrawing", "holding", "removed"}]
        /\ trackState' \in [DataHandles -> {"none", "published", "republishing", "unpublished"}]
    BY <1>0, <1>2, DataRanges
  <2>2. LDT!TypeOK' BY <1>0, <1>2, <1>5, <2>1, DataBounds DEF DataTyped, LDT!TypeOK, Requested
  <2> QED BY <1>0, <1>2, <1>5, <2>2 DEF DataTyped
<1>8. DataOwned'
  <2>1. ASSUME NEW g \in DataHandles, pending'[g] # NONE
        PROVE  dataPc'[pending[g]] \in {"sending", "waiting"} /\ result'[pending[g]] = NONE
    <3>1. /\ pending[g] \in DataPublishers /\ pending[g] # NONE
          /\ dataPc[pending[g]] \in {"sending", "waiting"} /\ result[pending[g]] = NONE
      BY <1>0, <1>2, <2>1, DataBounds, DataRanges DEF DataOwned, LDT!PublicationsAnswered
    <3>2. pending[g] # c BY <1>2, <3>1
    <3> QED BY <1>2, <1>4, <3>1, <3>2
  <2>2. \A d \in DataPublishers :
          dataPc'[d] \in {"sending", "waiting", "withdrawing"} /\ result'[d] = NONE =>
            /\ dataPc[d] \in {"sending", "waiting", "withdrawing"} /\ result[d] = NONE
            /\ pending'[handle[d]] = pending[handle[d]]
    BY <1>2, <1>4
  <2>3. \A d \in DataPublishers : dataPc'[d] # "idle" => dataPc[d] # "idle" BY <1>2, <1>4
  <2>4. \A g \in DataHandles : pending'[g] \in {pending[g], NONE} BY <1>2
  <2> QED BY <1>0, <1>2, <2>1, <2>2, <2>3, <2>4, DataOwnedKept
<1>9. DataStates'
  <2>1. /\ trackState'[h] = "unpublished"
        /\ \A g \in DataHandles \ {h} : trackState'[g] = trackState[g]
    BY <1>0, <1>2, <1>3, DataRanges
  <2>2. h \notin active /\ pending[h] = NONE /\ ~(h > value)
    BY <1>0, <1>3, <1>6, DataRanges, DataBounds DEF Over, DataHandles
  <2>3. \A g \in DataHandles :
          g > value' \/ pending'[g] # NONE => trackState'[g] = "none" /\ g \notin active'
    BY <1>0, <1>2, <2>1, <2>2 DEF DataStates
  <2>4. /\ \A g \in active' : trackState'[g] \in {"published", "republishing"}
        /\ \A g \in active' :
             trackState'[g] = "published" /\ restorer' # "due" => sidSession'[g] = dataSession'
    BY <1>0, <1>2, <2>1, <2>2, DataRanges DEF DataStates
  <2>5. \A d \in DataPublishers, g \in DataHandles :
          dataPc'[d] = "removed" /\ handle'[d] = g => Over(g)'
    BY <1>0, <1>2, <1>4, <1>6 DEF DataStates
  <2>6. \A g \in DataHandles :
          dataReader' # LDT!Rest /\ dataReader'.at # "complete" /\ dataReader'.handle = g =>
            Over(g)'
    BY <1>0, <1>2, <1>6 DEF DataStates
  <2>7. \A g \in unmarked' : Over(g)' BY <1>0, <1>2, <1>6, DataRanges DEF DataStates
  <2>8. \A g \in DataHandles : Asked(FALSE, g)' => Over(g)' BY <1>0, <1>5, <1>6 DEF DataStates
  <2> QED BY <2>3, <2>4, <2>5, <2>6, <2>7, <2>8 DEF DataStates
<1>10. DataUntouched'
  <2>1. \A g \in DataHandles : Untouched(g) /\ g # h => Untouched(g)'
    BY <1>2, <1>5 DEF Untouched
  <2>2. \A d \in DataPublishers, g \in DataHandles :
          dataPc'[d] = "sending" /\ handle'[d] = g => Untouched(g)'
    <3> SUFFICES ASSUME NEW d \in DataPublishers, NEW g \in DataHandles, dataPc'[d] = "sending",
                        handle'[d] = g
                 PROVE  Untouched(g)'
      OBVIOUS
    <3>1. d # c /\ dataPc[d] = "sending" /\ handle[d] = g BY <1>2, <1>4
    <3>2. g # h BY <1>1, <1>2, <3>1, DataCaller
    <3> QED BY <1>0, <2>1, <3>1, <3>2 DEF DataUntouched
  <2>3. \A g \in DataHandles : g > value' => Untouched(g)'
    BY <1>0, <1>2, <1>3, <2>1, DataRanges DEF DataUntouched
  <2> QED BY <2>2, <2>3 DEF DataUntouched
<1>11. DataHeld' BY <1>0, <1>2, <1>4, DataHeldKept DEF Holds
<1>12. DataTold' BY <1>0, <1>2, DataToldSame
<1>13. DataActive'
  <2> SUFFICES ASSUME dataLink = "up", restorer # "due",
                      NEW g \in active \ (requests \cup unsent)
               PROVE  \/ Asked(TRUE, g)' \/ Told("reject", g) \/ Told("unpublish", g)
                      \/ /\ g \in dataPubs
                         /\ \/ Told("accept", g) \/ dataReader = [at |-> "complete", handle |-> g]
                            \/ trackState'[g] = "published"
    BY <1>2, <1>5 DEF DataActive
  <2>1. g \in DataHandles /\ g # h BY <1>0, <1>6, DataRanges DEF Over
  <2>2. trackState'[g] = trackState[g] BY <1>0, <1>2, <2>1, DataRanges
  <2> QED BY <1>0, <1>5, <2>1, <2>2 DEF DataActive
<1>14. DataListed'
  <2> SUFFICES ASSUME dataLink = "up", NEW g \in dataPubs \ (doubled \cup active),
                      ~Told("accept", g)
               PROVE  /\ pending[g] = NONE
                      /\ \/ dataReader = [at |-> "refuse", handle |-> g] \/ Asked(FALSE, g)'
                         \/ \E d \in DataPublishers : dataPc'[d] = "removed" /\ handle[d] = g
    BY <1>2, <1>5 DEF DataListed
  <2>1. g \in DataHandles BY <1>0, DataRanges
  <2>2. CASE g = h BY <1>5, <1>6, <2>2 DEF Over
  <2>3. CASE g # h
    <3>1. \A d \in DataPublishers : dataPc[d] = "removed" /\ handle[d] = g =>
            dataPc'[d] = "removed"
      BY <1>1, <1>4, <2>3
    <3> QED BY <1>0, <1>5, <2>1, <3>1 DEF DataListed
  <2> QED BY <2>2, <2>3
<1> QED BY <1>7, <1>8, <1>9, <1>10, <1>11, <1>12, <1>13, <1>14 DEF DataInv

\* What leaves the callers alone.
LEMMA DataOwnedSame ==
  ASSUME DataOwned, UNCHANGED <<value, pending, dataPc, handle, result>>
  PROVE  DataOwned'
BY DEF DataOwned, LDT!PublicationsAnswered

\* Who removed a track marks it: the reader, or Shutdown.
LEMMA DataMarked ==
  ASSUME DataInv, LDT!ReaderMarks \/ \E h \in DataHandles : LDT!ShutdownMarks(h)
  PROVE  DataInv'
<1>0. /\ DataTyped /\ DataOwned /\ DataStates /\ DataUntouched /\ DataHeld /\ DataTold
      /\ DataActive /\ DataListed
  BY DataParts
<1>1. PICK h \in DataHandles :
        /\ UNCHANGED <<value, pending, active, sidSession, result, dataPc, handle, restorer,
                       requests, closed, dataPubs, dataToSFU, dataFromSFU, dataLink,
                       dataSession, unsent, doubled>>
        /\ Over(h) /\ trackState' = [trackState EXCEPT ![h] = "unpublished"]
        /\ dataReader' = dataReader \/ (dataReader' = LDT!Rest /\ dataReader.at = "mark")
        /\ unmarked' \subseteq unmarked
  <2>1. CASE LDT!ReaderMarks
    <3>1. dataReader.at = "mark" /\ dataReader # LDT!Rest BY <2>1 DEF LDT!ReaderMarks, LDT!Rest
    <3>2. dataReader.handle \in DataHandles BY <1>0, <3>1, DataRanges
    <3>3. Over(dataReader.handle) BY <1>0, <3>1, <3>2 DEF DataStates
    <3> QED BY <2>1, <3>1, <3>2, <3>3 DEF LDT!ReaderMarks, LDT!markUnpublished, LDT!callerVars,
                                         LDT!linkVars, LDT!ghostVars
  <2>2. ASSUME NEW h \in DataHandles, LDT!ShutdownMarks(h)
        PROVE  /\ UNCHANGED <<value, pending, active, sidSession, result, dataPc, handle,
                              restorer, requests, closed, dataPubs, dataToSFU, dataFromSFU,
                              dataLink, dataSession, unsent, doubled>>
               /\ Over(h) /\ trackState' = [trackState EXCEPT ![h] = "unpublished"]
               /\ dataReader' = dataReader /\ unmarked' \subseteq unmarked
    <3>1. Over(h) BY <1>0, <2>2 DEF DataStates, LDT!ShutdownMarks
    <3> QED BY <2>2, <3>1 DEF LDT!ShutdownMarks, LDT!markUnpublished, LDT!callerVars,
                             LDT!linkVars, LDT!ghostVars
  <2> QED BY <2>1, <2>2
<1>2. /\ \A p, g : Asked(p, g)' <=> Asked(p, g)
      /\ \A t, g : Told(t, g)' <=> Told(t, g)
  BY <1>1, DataSame
<1>3. /\ trackState'[h] = "unpublished"
      /\ \A g \in DataHandles \ {h} : trackState'[g] = trackState[g]
  BY <1>0, <1>1, DataRanges
<1>4. h \notin active /\ pending[h] = NONE /\ ~(h > value)
  BY <1>0, <1>1, DataRanges, DataBounds DEF Over
<1>5. \A g \in DataHandles : Over(g) => Over(g)' BY <1>1 DEF Over
<1>6. DataTyped'
  <2>1. trackState' \in [DataHandles -> {"none", "published", "republishing", "unpublished"}]
    BY <1>0, <1>1, DataRanges
  <2>2. dataReader' = LDT!Rest \/ dataReader' \in [at : {"mark", "complete", "refuse"}, handle : DataHandles]
    BY <1>0, <1>1, DataRanges
  <2>3. unmarked' \subseteq LDT!Handles BY <1>0, <1>1 DEF DataTyped, LDT!TypeOK
  <2>4. LDT!TypeOK' BY <1>0, <1>1, <2>1, <2>2, <2>3, DataBounds DEF DataTyped, LDT!TypeOK
  <2> QED BY <1>0, <1>1, <2>4 DEF DataTyped
<1>7. DataOwned' BY <1>0, <1>1, DataOwnedSame
<1>8. DataStates'
  <2>1. \A g \in DataHandles :
          g > value' \/ pending'[g] # NONE => trackState'[g] = "none" /\ g \notin active'
    BY <1>0, <1>1, <1>3, <1>4 DEF DataStates
  <2>2. /\ \A g \in active' : trackState'[g] \in {"published", "republishing"}
        /\ \A g \in active' :
             trackState'[g] = "published" /\ restorer' # "due" => sidSession'[g] = dataSession'
    BY <1>0, <1>1, <1>3, <1>4, DataRanges DEF DataStates
  <2>3. \A d \in DataPublishers, g \in DataHandles :
          dataPc'[d] = "removed" /\ handle'[d] = g => Over(g)'
    BY <1>0, <1>1, <1>5 DEF DataStates
  <2>4. \A g \in DataHandles :
          dataReader' # LDT!Rest /\ dataReader'.at # "complete" /\ dataReader'.handle = g =>
            Over(g)'
    BY <1>0, <1>1, <1>5 DEF DataStates
  <2>5. \A g \in unmarked' : Over(g)' BY <1>0, <1>1, <1>5, DataRanges DEF DataStates
  <2>6. \A g \in DataHandles : Asked(FALSE, g)' => Over(g)' BY <1>0, <1>2, <1>5 DEF DataStates
  <2> QED BY <2>1, <2>2, <2>3, <2>4, <2>5, <2>6 DEF DataStates
<1>9. DataUntouched'
  <2>1. \A g \in DataHandles : Untouched(g) => Untouched(g)' BY <1>1, <1>2 DEF Untouched
  <2> QED BY <1>0, <1>1, <2>1, DataUntouchedKept
<1>10. DataHeld' BY <1>0, <1>1 DEF DataHeld, Holds
<1>11. DataTold' BY <1>0, <1>1, DataToldSame
<1>12. DataActive'
  <2> SUFFICES ASSUME dataLink = "up", restorer # "due",
                      NEW g \in active \ (requests \cup unsent)
               PROVE  \/ Asked(TRUE, g) \/ Told("reject", g) \/ Told("unpublish", g)
                      \/ /\ g \in dataPubs
                         /\ \/ Told("accept", g) \/ dataReader' = [at |-> "complete", handle |-> g]
                            \/ trackState'[g] = "published"
    BY <1>1, <1>2 DEF DataActive
  <2>1. g \in DataHandles /\ g # h BY <1>0, <1>4, DataRanges
  <2>2. trackState'[g] = trackState[g] BY <1>3, <2>1
  <2>3. dataReader = [at |-> "complete", handle |-> g] => dataReader' = dataReader BY <1>1
  <2> QED BY <1>0, <2>2, <2>3 DEF DataActive
<1>13. DataListed'
  <2>1. \A g : dataReader = [at |-> "refuse", handle |-> g] => dataReader' = dataReader BY <1>1
  <2> QED BY <1>0, <1>1, <1>2, <2>1 DEF DataListed
<1> QED BY <1>6, <1>7, <1>8, <1>9, <1>10, <1>11, <1>12, <1>13 DEF DataInv

\* The confirmation of a track published again.
LEMMA DataCompleted ==
  ASSUME DataInv, LDT!completeRepublish PROVE DataInv'
<1>0. /\ DataTyped /\ DataOwned /\ DataStates /\ DataUntouched /\ DataHeld /\ DataTold
      /\ DataActive /\ DataListed
  BY DataParts
<1>1. dataReader.at = "complete" /\ dataReader # LDT!Rest BY DEF LDT!completeRepublish, LDT!Rest
<1>2. PICK h \in DataHandles : h = dataReader.handle BY <1>0, <1>1, DataRanges
<1>3. /\ UNCHANGED <<value, pending, active, result, dataPc, handle, restorer, requests,
                     unmarked, closed, dataPubs, dataToSFU, dataFromSFU, dataLink, dataSession,
                     unsent, doubled>>
      /\ dataReader' = LDT!Rest
      /\ IF trackState[h] = "republishing"
         THEN /\ trackState' = [trackState EXCEPT ![h] = "published"]
              /\ sidSession' = [sidSession EXCEPT ![h] = dataSession]
         ELSE UNCHANGED <<trackState, sidSession>>
  BY <1>2
     DEF LDT!completeRepublish, LDT!Republishing, LDT!callerVars, LDT!linkVars, LDT!ghostVars
<1>4. /\ \A p, g : Asked(p, g)' <=> Asked(p, g)
      /\ \A t, g : Told(t, g)' <=> Told(t, g)
  BY <1>3, DataSame
<1>5. /\ \A g \in DataHandles \ {h} :
           trackState'[g] = trackState[g] /\ sidSession'[g] = sidSession[g]
      /\ trackState[h] = "republishing" =>
           trackState'[h] = "published" /\ sidSession'[h] = dataSession
      /\ trackState[h] # "republishing" =>
           trackState'[h] = trackState[h] /\ sidSession'[h] = sidSession[h]
  BY <1>0, <1>3, DataRanges
<1>6. \A g \in DataHandles : Over(g) => Over(g)' BY <1>3 DEF Over
<1>7. DataTyped'
  <2>1. dataSession \in 0 .. MaxRestarts BY <1>0 DEF DataTyped, LDT!TypeOK
  <2>2. trackState' \in [DataHandles -> {"none", "published", "republishing", "unpublished"}]
    BY <1>0, <1>3, DataRanges
  <2>3. sidSession' \in [DataHandles -> 0 .. MaxRestarts] BY <1>0, <1>3, <2>1, DataRanges
  <2>4. LDT!TypeOK' BY <1>0, <1>3, <2>2, <2>3, DataBounds DEF DataTyped, LDT!TypeOK
  <2> QED BY <1>0, <1>3, <2>4 DEF DataTyped
<1>8. DataOwned' BY <1>0, <1>3, DataOwnedSame
<1>9. DataStates'
  <2>1. \A g \in DataHandles :
          g > value' \/ pending'[g] # NONE => trackState'[g] = "none" /\ g \notin active'
    BY <1>0, <1>3, <1>5 DEF DataStates
  <2>2. \A g \in active' : trackState'[g] \in {"published", "republishing"}
    BY <1>0, <1>3, <1>5, DataRanges DEF DataStates
  <2>3. \A g \in active' :
          trackState'[g] = "published" /\ restorer' # "due" => sidSession'[g] = dataSession'
    BY <1>0, <1>3, <1>5, DataRanges DEF DataStates
  <2>4. \A d \in DataPublishers, g \in DataHandles :
          dataPc'[d] = "removed" /\ handle'[d] = g => Over(g)'
    BY <1>0, <1>3, <1>6 DEF DataStates
  <2>5. \A g \in unmarked' : Over(g)' BY <1>0, <1>3, <1>6, DataRanges DEF DataStates
  <2>6. \A g \in DataHandles : Asked(FALSE, g)' => Over(g)' BY <1>0, <1>4, <1>6 DEF DataStates
  <2> QED BY <1>3, <2>1, <2>2, <2>3, <2>4, <2>5, <2>6 DEF DataStates
<1>10. DataUntouched'
  <2>1. \A g \in DataHandles : Untouched(g) => Untouched(g)' BY <1>3, <1>4 DEF Untouched
  <2> QED BY <1>0, <1>3, <2>1, DataUntouchedKept
<1>11. DataHeld' BY <1>0, <1>3 DEF DataHeld, Holds
<1>12. DataTold' BY <1>0, <1>3, DataToldSame
<1>13. DataActive'
  <2> SUFFICES ASSUME dataLink = "up", restorer # "due",
                      NEW g \in active \ (requests \cup unsent)
               PROVE  \/ Asked(TRUE, g) \/ Told("reject", g) \/ Told("unpublish", g)
                      \/ /\ g \in dataPubs
                         /\ \/ Told("accept", g) \/ dataReader' = [at |-> "complete", handle |-> g]
                            \/ trackState'[g] = "published"
    BY <1>3, <1>4 DEF DataActive
  <2>1. trackState[g] \in {"published", "republishing"} /\ g \in DataHandles
    BY <1>0, DataRanges DEF DataStates
  <2>2. dataReader = [at |-> "complete", handle |-> g] => trackState'[g] = "published"
    BY <1>2, <1>5, <2>1
  <2>3. trackState[g] = "published" => trackState'[g] = "published" BY <1>5, <2>1
  <2> QED BY <1>0, <2>2, <2>3 DEF DataActive
<1>14. DataListed'
  <2>1. \A g : dataReader # [at |-> "refuse", handle |-> g] BY <1>1
  <2> QED BY <1>0, <1>3, <1>4, <2>1 DEF DataListed
<1> QED BY <1>7, <1>8, <1>9, <1>10, <1>11, <1>12, <1>13, <1>14 DEF DataInv

\* A publication nobody waits for is taken back.
LEMMA DataRefused ==
  ASSUME DataInv, LDT!ReaderRefuses PROVE DataInv'
<1>0. /\ DataTyped /\ DataOwned /\ DataStates /\ DataUntouched /\ DataHeld /\ DataTold
      /\ DataActive /\ DataListed
  BY DataParts
<1>1. dataReader.at = "refuse" /\ dataReader # LDT!Rest BY DEF LDT!ReaderRefuses, LDT!Rest
<1>2. PICK h \in DataHandles : h = dataReader.handle BY <1>0, <1>1, DataRanges
<1>3. /\ UNCHANGED <<value, pending, active, trackState, sidSession, result, dataPc, handle,
                     restorer, requests, unmarked, closed, dataPubs, dataFromSFU, dataLink,
                     dataSession, unsent, doubled>>
      /\ dataReader' = LDT!Rest /\ LDT!SendRequest(FALSE, h)
  BY <1>2 DEF LDT!ReaderRefuses, LDT!managerVars, LDT!callerVars, LDT!linkVars, LDT!ghostVars
<1>4. Over(h) BY <1>0, <1>1, <1>2 DEF DataStates
<1>5. /\ dataToSFU' \in Seq(Requested) /\ Len(dataToSFU') <= MaxInFlight
      /\ dataLink = "down" => dataToSFU' = <<>>
      /\ dataLink = "up" => Asked(FALSE, h)'
      /\ \A q \in BOOLEAN, g \in DataHandles : Asked(q, g) => Asked(q, g)'
      /\ \A q \in BOOLEAN, g \in DataHandles : Asked(q, g)' =>
           Asked(q, g) \/ (q = FALSE /\ g = h)
      /\ \A t, g : Told(t, g)' <=> Told(t, g)
  BY <1>0, <1>3, DataRequested, DataSame
<1>6. \A g \in DataHandles : Over(g) => Over(g)' BY <1>3 DEF Over
<1>7. DataTyped'
  <2>1. LDT!TypeOK' BY <1>0, <1>3, <1>5, DataBounds DEF DataTyped, LDT!TypeOK, Requested
  <2> QED BY <1>0, <1>3, <1>5, <2>1 DEF DataTyped
<1>8. DataOwned' BY <1>0, <1>3, DataOwnedSame
<1>9. DataStates'
  <2>1. \A d \in DataPublishers, g \in DataHandles :
          dataPc'[d] = "removed" /\ handle'[d] = g => Over(g)'
    BY <1>0, <1>3, <1>6 DEF DataStates
  <2>2. \A g \in unmarked' : Over(g)' BY <1>0, <1>3, <1>6, DataRanges DEF DataStates
  <2>3. \A g \in DataHandles : Asked(FALSE, g)' => Over(g)'
    BY <1>0, <1>4, <1>5, <1>6 DEF DataStates
  <2>4. /\ \A g \in DataHandles :
             g > value' \/ pending'[g] # NONE => trackState'[g] = "none" /\ g \notin active'
        /\ \A g \in active' : trackState'[g] \in {"published", "republishing"}
        /\ \A g \in active' :
             trackState'[g] = "published" /\ restorer' # "due" => sidSession'[g] = dataSession'
    BY <1>0, <1>3 DEF DataStates
  <2> QED BY <1>3, <2>1, <2>2, <2>3, <2>4 DEF DataStates
<1>10. DataUntouched'
  <2>1. \A g \in DataHandles : Untouched(g) => Untouched(g)'
    BY <1>1, <1>2, <1>3, <1>5 DEF Untouched
  <2> QED BY <1>0, <1>3, <2>1, DataUntouchedKept
<1>11. DataHeld' BY <1>0, <1>3 DEF DataHeld, Holds
<1>12. DataTold' BY <1>0, <1>3, DataToldSame
<1>13. DataActive'
  <2>1. \A g : dataReader # [at |-> "complete", handle |-> g] BY <1>1
  <2> QED BY <1>0, <1>3, <1>5, <2>1, DataRanges DEF DataActive
<1>14. DataListed'
  <2> SUFFICES ASSUME dataLink = "up", NEW g \in dataPubs \ (doubled \cup active),
                      ~Told("accept", g)
               PROVE  /\ pending[g] = NONE
                      /\ \/ Asked(FALSE, g)'
                         \/ \E d \in DataPublishers : dataPc[d] = "removed" /\ handle[d] = g
    BY <1>3, <1>5 DEF DataListed
  <2>1. g \in DataHandles BY <1>0, DataRanges
  <2>2. dataReader = [at |-> "refuse", handle |-> g] => g = h BY <1>2
  <2> QED BY <1>0, <1>5, <2>1, <2>2 DEF DataListed
<1> QED BY <1>7, <1>8, <1>9, <1>10, <1>11, <1>12, <1>13, <1>14 DEF DataInv

\* Every publication under way fails.
LEMMA DataFailed ==
  ASSUME DataInv, LDT!FailPending, UNCHANGED <<value, dataPc, handle>>
  PROVE  /\ pending' \in [DataHandles -> DataPublishers \cup {NONE}]
         /\ result' \in [DataPublishers -> LDT!Errors \cup {"track", NONE}]
         /\ DataOwned' /\ \A h \in DataHandles : pending'[h] = NONE
         /\ \A d \in DataPublishers : Holds(d) => Holds(d)'
<1>0. DataTyped /\ DataOwned BY DataParts
<1>1. /\ pending' = [h \in DataHandles |-> NONE]
      /\ result' = [c \in DataPublishers |->
                      IF \E h \in DataHandles : pending[h] = c THEN "disconnected" ELSE result[c]]
  BY DataBounds DEF LDT!FailPending
<1>2. \A h \in DataHandles : pending'[h] = NONE BY <1>1
<1>3. pending' \in [DataHandles -> DataPublishers \cup {NONE}] BY <1>1
<1>4. \A c \in DataPublishers :
        /\ (\E h \in DataHandles : pending[h] = c) => result'[c] = "disconnected"
        /\ result'[c] \in {"disconnected", result[c]}
        /\ ~(\E h \in DataHandles : pending[h] = c) => result'[c] = result[c]
  BY <1>1
<1>5. result' \in [DataPublishers -> LDT!Errors \cup {"track", NONE}]
  <2>1. \A c \in DataPublishers : result[c] \in LDT!Errors \cup {"track", NONE}
    BY <1>0, DataRanges
  <2>2. \A c \in DataPublishers :
          (IF \E h \in DataHandles : pending[h] = c THEN "disconnected" ELSE result[c])
            \in LDT!Errors \cup {"track", NONE}
    BY <2>1 DEF LDT!Errors
  <2> QED BY <1>1, <2>2
<1>6. \A c \in DataPublishers, h \in DataHandles : pending[h] = c => result[c] = NONE
  BY <1>0, DataBounds DEF DataOwned, LDT!PublicationsAnswered
<1>7. \A d \in DataPublishers : Holds(d) => Holds(d)' BY <1>4, <1>6, DataBounds DEF Holds
<1>8. DataOwned'
  <2>1. ASSUME NEW d \in DataPublishers, dataPc'[d] \in {"sending", "waiting", "withdrawing"}
        PROVE  result'[d] # NONE
    <3>1. dataPc[d] \in {"sending", "waiting", "withdrawing"} BY <2>1
    <3>2. handle[d] \in DataHandles BY <3>1, DataCaller
    <3>3. result[d] = NONE => pending[handle[d]] = d
      BY <1>0, <3>1 DEF DataOwned, LDT!PublicationsAnswered
    <3>4. "disconnected" # NONE BY DataBounds DEF LDT!Errors
    <3>5. CASE result[d] = NONE BY <1>4, <3>2, <3>3, <3>4, <3>5
    <3>6. CASE result[d] # NONE BY <1>4, <3>4, <3>6
    <3> QED BY <3>5, <3>6
  <2>2. /\ \A h \in DataHandles : pending'[h] \in {pending[h], NONE}
        /\ \A h \in DataHandles : pending'[h] # NONE =>
             dataPc'[pending[h]] \in {"sending", "waiting"} /\ result'[pending[h]] = NONE
        /\ \A d \in DataPublishers : dataPc'[d] # "idle" => dataPc[d] # "idle"
    BY <1>2
  <2>3. \A d \in DataPublishers :
          dataPc'[d] \in {"sending", "waiting", "withdrawing"} /\ result'[d] = NONE =>
            /\ dataPc[d] \in {"sending", "waiting", "withdrawing"} /\ result[d] = NONE
            /\ pending'[handle[d]] = pending[handle[d]]
    BY <2>1
  <2> QED BY <1>0, <2>2, <2>3, DataOwnedKept
<1> QED BY <1>2, <1>3, <1>5, <1>7, <1>8

\* OnRestarted: every track is about to be published again.
LEMMA DataRestored ==
  ASSUME DataInv, LDT!RepublishTracks PROVE DataInv'
<1>0. /\ DataTyped /\ DataOwned /\ DataStates /\ DataUntouched /\ DataHeld /\ DataTold
      /\ DataActive /\ DataListed
  BY DataParts
<1>1. /\ UNCHANGED <<value, active, sidSession, dataPc, handle, dataReader, unmarked, closed,
                     dataPubs, dataToSFU, dataFromSFU, dataLink, dataSession, unsent, doubled>>
      /\ restorer = "due" /\ restorer' = "sending" /\ requests' = active /\ LDT!FailPending
      /\ trackState' = [h \in DataHandles |->
                          IF h \in active THEN "republishing" ELSE trackState[h]]
  BY DataBounds DEF LDT!RepublishTracks, LDT!linkVars, LDT!ghostVars
<1>2. /\ pending' \in [DataHandles -> DataPublishers \cup {NONE}]
      /\ result' \in [DataPublishers -> LDT!Errors \cup {"track", NONE}]
      /\ DataOwned' /\ \A h \in DataHandles : pending'[h] = NONE
      /\ \A d \in DataPublishers : Holds(d) => Holds(d)'
  BY <1>1, DataFailed
<1>3. /\ \A p, g : Asked(p, g)' <=> Asked(p, g)
      /\ \A t, g : Told(t, g)' <=> Told(t, g)
  BY <1>1, DataSame
<1>4. \A h \in DataHandles :
        trackState'[h] = IF h \in active THEN "republishing" ELSE trackState[h]
  BY <1>1
<1>5. \A h \in DataHandles : Over(h) => Over(h)' BY <1>1, <1>2 DEF Over
<1>6. DataTyped'
  <2>1. trackState' \in [DataHandles -> {"none", "published", "republishing", "unpublished"}]
    BY <1>0, <1>1, DataRanges
  <2>2. requests' \subseteq DataHandles /\ requests' \subseteq 1 .. value'
    BY <1>0, <1>1, DataRanges
  <2>3. LDT!TypeOK' BY <1>0, <1>1, <1>2, <2>1, <2>2, DataBounds DEF DataTyped, LDT!TypeOK
  <2> QED BY <1>0, <1>1, <2>2, <2>3 DEF DataTyped
<1>7. DataStates'
  <2>1. \A h \in DataHandles :
          h > value' \/ pending'[h] # NONE => trackState'[h] = "none" /\ h \notin active'
    BY <1>0, <1>1, <1>2, <1>4 DEF DataStates
  <2>2. /\ \A h \in active' : trackState'[h] \in {"published", "republishing"}
        /\ \A h \in active' :
             trackState'[h] = "published" /\ restorer' # "due" => sidSession'[h] = dataSession'
    BY <1>0, <1>1, <1>4, DataRanges DEF DataStates
  <2>3. \A d \in DataPublishers, h \in DataHandles :
          dataPc'[d] = "removed" /\ handle'[d] = h => Over(h)'
    BY <1>0, <1>1, <1>5 DEF DataStates
  <2>4. \A h \in DataHandles :
          dataReader' # LDT!Rest /\ dataReader'.at # "complete" /\ dataReader'.handle = h =>
            Over(h)'
    BY <1>0, <1>1, <1>5 DEF DataStates
  <2>5. \A h \in unmarked' : Over(h)' BY <1>0, <1>1, <1>5, DataRanges DEF DataStates
  <2>6. \A h \in DataHandles : Asked(FALSE, h)' => Over(h)' BY <1>0, <1>3, <1>5 DEF DataStates
  <2> QED BY <2>1, <2>2, <2>3, <2>4, <2>5, <2>6 DEF DataStates
<1>8. DataUntouched'
  <2>1. \A h \in DataHandles : Untouched(h) => Untouched(h)' BY <1>1, <1>3 DEF Untouched
  <2> QED BY <1>0, <1>1, <2>1, DataUntouchedKept
<1>9. DataHeld' BY <1>0, <1>1, <1>2, DataHeldKept
<1>10. DataTold' BY <1>0, <1>1, DataToldSame
<1>11. DataActive' BY <1>1 DEF DataActive
<1>12. DataListed' BY <1>0, <1>1, <1>2, <1>3, DataRanges DEF DataListed
<1> QED BY <1>2, <1>6, <1>7, <1>8, <1>9, <1>10, <1>11, <1>12 DEF DataInv

\* One track is published again, or cannot be; or all were tried.
LEMMA DataRepublished ==
  ASSUME DataInv, LDT!Republished \/ \E h \in DataHandles : LDT!Republish(h)
  PROVE  DataInv'
<1>0. /\ DataTyped /\ DataOwned /\ DataStates /\ DataUntouched /\ DataHeld /\ DataTold
      /\ DataActive /\ DataListed
  BY DataParts
<1>1. CASE LDT!Republished
  <2>1. /\ UNCHANGED <<value, pending, active, trackState, sidSession, result, dataPc, handle,
                       dataReader, requests, unmarked, closed, dataPubs, dataToSFU,
                       dataFromSFU, dataLink, dataSession, unsent, doubled>>
        /\ restorer = "sending" /\ requests = {} /\ restorer' = "idle"
    BY <1>1 DEF LDT!Republished, LDT!managerVars, LDT!callerVars, LDT!linkVars, LDT!ghostVars
  <2>2. /\ \A p, g : Asked(p, g)' <=> Asked(p, g)
        /\ \A t, g : Told(t, g)' <=> Told(t, g)
    BY <2>1, DataSame
  <2>3. DataTyped' BY <1>0, <2>1 DEF DataTyped, LDT!TypeOK
  <2>4. DataOwned' BY <1>0, <2>1, DataOwnedSame
  <2>5. DataStates'
    <3>1. \A g \in DataHandles : pending'[g] \in {pending[g], NONE} BY <2>1
    <3>2. \A d \in DataPublishers, g \in DataHandles :
            dataPc'[d] = "removed" /\ handle[d] = g => dataPc[d] = "removed" \/ Over(g)'
      BY <2>1
    <3>3. \A g \in DataHandles : Asked(FALSE, g)' => Asked(FALSE, g) \/ Over(g)' BY <2>2
    <3>4. /\ active' \subseteq active /\ unmarked' \subseteq unmarked
          /\ restorer # "due" /\ restorer' # "due"
      BY <2>1
    <3> QED BY <1>0, <2>1, <3>1, <3>2, <3>3, <3>4, DataStatesKept
  <2>6. DataUntouched'
    <3>1. \A g \in DataHandles : Untouched(g) => Untouched(g)' BY <2>1, <2>2 DEF Untouched
    <3> QED BY <1>0, <2>1, <3>1, DataUntouchedKept
  <2>7. DataHeld' BY <1>0, <2>1 DEF DataHeld, Holds
  <2>8. DataTold' BY <1>0, <2>1, DataToldSame
  <2>9. DataActive' BY <1>0, <2>1, <2>2 DEF DataActive
  <2>10. DataListed' BY <1>0, <2>1, <2>2 DEF DataListed
  <2> QED BY <2>3, <2>4, <2>5, <2>6, <2>7, <2>8, <2>9, <2>10 DEF DataInv
<1>2. ASSUME NEW h \in DataHandles, LDT!Republish(h) PROVE DataInv'
  <2>1. /\ UNCHANGED <<value, pending, active, trackState, sidSession, result, dataPc, handle,
                       dataReader, restorer, unmarked, closed, dataPubs, dataFromSFU, dataLink,
                       dataSession, doubled>>
        /\ restorer = "sending" /\ h \in requests /\ requests' = requests \ {h}
        /\ \/ dataLink = "up" /\ LDT!SendRequest(TRUE, h) /\ unsent' = unsent \ {h}
           \/ unsent' = unsent \cup {h} /\ UNCHANGED dataToSFU
    BY <1>2 DEF LDT!Republish, LDT!managerVars, LDT!callerVars, LDT!linkVars, LDT!ghostVars
  <2>2. /\ dataToSFU' \in Seq(Requested) /\ Len(dataToSFU') <= MaxInFlight
        /\ (dataLink = "down" => dataToSFU' = <<>>)
        /\ dataLink = "up" => Asked(TRUE, h)' \/ h \in unsent'
        /\ \A q \in BOOLEAN, g \in DataHandles : Asked(q, g) => Asked(q, g)'
        /\ \A q \in BOOLEAN, g \in DataHandles : Asked(q, g)' =>
             Asked(q, g) \/ (q = TRUE /\ g = h)
        /\ \A t, g : Told(t, g)' <=> Told(t, g)
    <3>1. \A t, g : Told(t, g)' <=> Told(t, g) BY <2>1, DataSame
    <3>2. CASE UNCHANGED dataToSFU /\ unsent' = unsent \cup {h}
      <4>1. /\ dataToSFU \in Seq(Requested) /\ Len(dataToSFU) <= MaxInFlight
            /\ (dataLink = "down" => dataToSFU = <<>>)
        BY <1>0, DataBounds DEF DataTyped, LDT!TypeOK, Requested
      <4>2. \A p, g : Asked(p, g)' <=> Asked(p, g) BY <3>2, DataSame
      <4> QED BY <3>1, <3>2, <4>1, <4>2
    <3>3. CASE LDT!SendRequest(TRUE, h) BY <1>0, <3>1, <3>3, DataRequested
    <3> QED BY <2>1, <3>2, <3>3
  <2>3. \A g : g # h /\ g \in unsent => g \in unsent' BY <2>1
  <2>4. DataTyped'
    <3>1. unsent' \subseteq DataHandles BY <1>0, <2>1, DataBounds DEF DataTyped, LDT!TypeOK
    <3>2. requests' \subseteq DataHandles /\ requests' \subseteq 1 .. value'
      BY <1>0, <2>1, DataRanges DEF DataTyped
    <3>3. LDT!TypeOK'
      BY <1>0, <2>1, <2>2, <3>1, <3>2, DataBounds DEF DataTyped, LDT!TypeOK, Requested
    <3> QED BY <1>0, <2>1, <2>2, <3>2, <3>3 DEF DataTyped
  <2>5. DataOwned' BY <1>0, <2>1, DataOwnedSame
  <2>6. DataStates'
    <3>1. \A g \in DataHandles : pending'[g] \in {pending[g], NONE} BY <2>1
    <3>2. \A d \in DataPublishers, g \in DataHandles :
            dataPc'[d] = "removed" /\ handle[d] = g => dataPc[d] = "removed" \/ Over(g)'
      BY <2>1
    <3>3. \A g \in DataHandles : Asked(FALSE, g)' => Asked(FALSE, g) \/ Over(g)' BY <2>2
    <3>4. active' \subseteq active /\ unmarked' \subseteq unmarked /\ restorer' = restorer
      BY <2>1
    <3> QED BY <1>0, <2>1, <3>1, <3>2, <3>3, <3>4, DataStatesKept
  <2>7. DataUntouched'
    <3>1. \A g \in DataHandles : Untouched(g) => Untouched(g)'
      BY <2>1, <2>2 DEF Untouched
    <3> QED BY <1>0, <2>1, <3>1, DataUntouchedKept
  <2>8. DataHeld' BY <1>0, <2>1 DEF DataHeld, Holds
  <2>9. DataTold' BY <1>0, <2>1, DataToldSame
  <2>10. DataActive'
    <3> SUFFICES ASSUME dataLink = "up", NEW g \in active \ (requests' \cup unsent')
                 PROVE  \/ Asked(TRUE, g)' \/ Told("reject", g) \/ Told("unpublish", g)
                        \/ /\ g \in dataPubs
                           /\ \/ Told("accept", g) \/ dataReader = [at |-> "complete", handle |-> g]
                              \/ trackState[g] = "published"
      BY <2>1, <2>2 DEF DataActive
    <3>1. CASE g = h BY <2>2, <3>1
    <3>2. CASE g # h
      <4>1. g \in active \ (requests \cup unsent) /\ g \in DataHandles
        BY <1>0, <2>1, <2>3, <3>2, DataRanges
      <4> QED BY <1>0, <2>1, <2>2, <4>1 DEF DataActive
    <3> QED BY <3>1, <3>2
  <2>11. DataListed' BY <1>0, <2>1, <2>2, DataRanges DEF DataListed
  <2> QED BY <2>4, <2>5, <2>6, <2>7, <2>8, <2>9, <2>10, <2>11 DEF DataInv
<1> QED BY <1>1, <1>2

\* The connection is lost, for good or not: what was on its way is gone.
LEMMA DataLost ==
  ASSUME DataInv, dataToSFU' = <<>>, dataFromSFU' = <<>>
  PROVE  /\ dataToSFU' \in Seq(Requested) /\ Len(dataToSFU') = 0
         /\ dataFromSFU' \in Seq(LDT!Message) /\ Len(dataFromSFU') = 0
         /\ \A p, g : ~Asked(p, g)'
         /\ \A t, g : ~Told(t, g)'
         /\ DataTold'
<1>1. /\ dataToSFU' \in Seq(Requested) /\ Len(dataToSFU') = 0
      /\ dataFromSFU' \in Seq(LDT!Message) /\ Len(dataFromSFU') = 0
  BY EmptySeq
<1>2. \A i : i \notin 1 .. 0 OBVIOUS
<1>3. \A p, g : ~Asked(p, g)' BY <1>1, <1>2 DEF Asked
<1>4. \A t, g : ~Told(t, g)' BY <1>1, <1>2 DEF Told
<1>5. DataTold' BY <1>1, <1>2 DEF DataTold
<1> QED BY <1>1, <1>3, <1>4, <1>5

\* The room is closed: every track is removed, and marked later.
LEMMA DataClosed ==
  ASSUME DataInv, LDT!Shutdown PROVE DataInv'
<1>0. /\ DataTyped /\ DataOwned /\ DataStates /\ DataUntouched /\ DataHeld /\ DataTold
      /\ DataActive /\ DataListed
  BY DataParts
<1>1. /\ UNCHANGED <<value, trackState, sidSession, dataPc, handle, dataReader, restorer,
                     requests, dataPubs, dataSession, unsent, doubled>>
      /\ closed' = TRUE /\ LDT!FailPending /\ unmarked' = active /\ active' = {}
      /\ dataLink' = "down" /\ dataToSFU' = <<>> /\ dataFromSFU' = <<>>
  BY DEF LDT!Shutdown, LDT!ghostVars
<1>2. /\ pending' \in [DataHandles -> DataPublishers \cup {NONE}]
      /\ result' \in [DataPublishers -> LDT!Errors \cup {"track", NONE}]
      /\ DataOwned' /\ \A h \in DataHandles : pending'[h] = NONE
      /\ \A d \in DataPublishers : Holds(d) => Holds(d)'
  BY <1>1, DataFailed
<1>3. /\ dataToSFU' \in Seq(Requested) /\ Len(dataToSFU') = 0
      /\ dataFromSFU' \in Seq(LDT!Message) /\ Len(dataFromSFU') = 0
      /\ \A p, g : ~Asked(p, g)'
      /\ \A t, g : ~Told(t, g)'
      /\ DataTold'
  BY <1>1, DataLost
<1>4. \A h \in DataHandles : Over(h) => Over(h)' BY <1>1, <1>2 DEF Over
<1>5. DataTyped'
  <2>1. unmarked' \subseteq DataHandles /\ unmarked' \subseteq 1 .. value'
    BY <1>0, <1>1, DataRanges
  <2>2. LDT!TypeOK'
    BY <1>0, <1>1, <1>2, <1>3, <2>1, DataBounds DEF DataTyped, LDT!TypeOK, Requested
  <2> QED BY <1>0, <1>1, <2>1, <2>2 DEF DataTyped
<1>6. DataStates'
  <2>1. \A h \in DataHandles :
          h > value' \/ pending'[h] # NONE => trackState'[h] = "none" /\ h \notin active'
    BY <1>0, <1>1, <1>2 DEF DataStates
  <2>2. \A d \in DataPublishers, h \in DataHandles :
          dataPc'[d] = "removed" /\ handle'[d] = h => Over(h)'
    BY <1>0, <1>1, <1>4 DEF DataStates
  <2>3. \A h \in DataHandles :
          dataReader' # LDT!Rest /\ dataReader'.at # "complete" /\ dataReader'.handle = h =>
            Over(h)'
    BY <1>0, <1>1, <1>4 DEF DataStates
  <2>4. \A h \in active : Over(h)'
    <3> SUFFICES ASSUME NEW h \in active PROVE Over(h)' OBVIOUS
    <3>1. h \in DataHandles /\ h <= value BY <1>0, DataRanges
    <3> QED BY <1>1, <1>2, <3>1 DEF Over
  <2> QED BY <1>1, <1>3, <2>1, <2>2, <2>3, <2>4 DEF DataStates
<1>7. DataUntouched'
  <2>1. \A h \in DataHandles : Untouched(h) => Untouched(h)' BY <1>1, <1>3 DEF Untouched
  <2> QED BY <1>0, <1>1, <2>1, DataUntouchedKept
<1>8. DataHeld' /\ DataActive' /\ DataListed' BY <1>1 DEF DataHeld, DataActive, DataListed
<1> QED BY <1>2, <1>3, <1>5, <1>6, <1>7, <1>8 DEF DataInv

LEMMA DataDropped ==
  ASSUME DataInv, LDT!LinkFails PROVE DataInv'
<1>0. /\ DataTyped /\ DataOwned /\ DataStates /\ DataUntouched /\ DataHeld /\ DataTold
      /\ DataActive /\ DataListed
  BY DataParts
<1>1. /\ UNCHANGED <<value, pending, active, trackState, sidSession, result, dataPc, handle,
                     dataReader, restorer, requests, unmarked, closed, dataPubs, dataSession,
                     unsent, doubled>>
      /\ dataSession < MaxRestarts /\ dataLink' = "down" /\ dataToSFU' = <<>>
      /\ dataFromSFU' = <<>>
  BY DEF LDT!LinkFails, LDT!managerVars, LDT!callerVars, LDT!workerVars, LDT!ghostVars
<1>2. /\ dataToSFU' \in Seq(Requested) /\ Len(dataToSFU') = 0
      /\ dataFromSFU' \in Seq(LDT!Message) /\ Len(dataFromSFU') = 0
      /\ \A p, g : ~Asked(p, g)'
      /\ \A t, g : ~Told(t, g)'
      /\ DataTold'
  BY <1>1, DataLost
<1>3. DataTyped'
  <2>1. LDT!TypeOK' BY <1>0, <1>1, <1>2, DataBounds DEF DataTyped, LDT!TypeOK, Requested
  <2> QED BY <1>0, <1>1, <2>1 DEF DataTyped
<1>4. DataOwned' BY <1>0, <1>1, DataOwnedSame
<1>5. DataStates'
  <2>1. \A g \in DataHandles : pending'[g] \in {pending[g], NONE} BY <1>1
  <2>2. \A d \in DataPublishers, g \in DataHandles :
          dataPc'[d] = "removed" /\ handle[d] = g => dataPc[d] = "removed" \/ Over(g)'
    BY <1>1
  <2>3. \A g \in DataHandles : Asked(FALSE, g)' => Asked(FALSE, g) \/ Over(g)' BY <1>2
  <2>4. active' \subseteq active /\ unmarked' \subseteq unmarked /\ restorer' = restorer BY <1>1
  <2> QED BY <1>0, <1>1, <2>1, <2>2, <2>3, <2>4, DataStatesKept
<1>6. DataUntouched'
  <2>1. \A h \in DataHandles : Untouched(h) => Untouched(h)' BY <1>1, <1>2 DEF Untouched
  <2> QED BY <1>0, <1>1, <2>1, DataUntouchedKept
<1>7. DataHeld' /\ DataActive' /\ DataListed'
  BY <1>0, <1>1 DEF DataHeld, DataActive, DataListed, Holds
<1> QED BY <1>2, <1>3, <1>4, <1>5, <1>6, <1>7 DEF DataInv

\* A new session: the SFU has no tracks, and all are to be published again.
LEMMA DataRestarted ==
  ASSUME DataInv, LDT!Restart PROVE DataInv'
<1>0. /\ DataTyped /\ DataOwned /\ DataStates /\ DataUntouched /\ DataHeld /\ DataTold
      /\ DataActive /\ DataListed
  BY DataParts
<1>1. /\ UNCHANGED <<value, pending, active, trackState, sidSession, result, dataPc, handle,
                     dataReader, requests, unmarked, closed, dataToSFU, dataFromSFU, unsent>>
      /\ dataLink = "down" /\ ~closed /\ dataLink' = "up" /\ dataSession' = dataSession + 1
      /\ dataPubs' = {} /\ doubled' = {}
      /\ restorer = "idle" /\ restorer' = "due"
  BY DEF LDT!Restart, LDT!managerVars, LDT!callerVars
<1>2. dataToSFU' = <<>> /\ dataFromSFU' = <<>> BY <1>0, <1>1 DEF DataTyped
<1>3. /\ dataToSFU' \in Seq(Requested) /\ Len(dataToSFU') = 0
      /\ dataFromSFU' \in Seq(LDT!Message) /\ Len(dataFromSFU') = 0
      /\ \A p, g : ~Asked(p, g)'
      /\ \A t, g : ~Told(t, g)'
      /\ DataTold'
  BY <1>2, DataLost
<1>4. DataTyped'
  <2>1. dataSession' \in 0 .. MaxRestarts BY <1>0, <1>1, DataBounds DEF DataTyped, LDT!TypeOK
  <2>2. LDT!TypeOK' BY <1>0, <1>1, <1>2, <2>1 DEF DataTyped, LDT!TypeOK
  <2>3. requests = {} BY <1>0, <1>1 DEF DataTyped
  <2> QED BY <1>0, <1>1, <1>2, <2>2, <2>3 DEF DataTyped
<1>5. DataOwned' BY <1>0, <1>1, DataOwnedSame
<1>6. \A h \in DataHandles : Over(h) => Over(h)' BY <1>1 DEF Over
<1>7. DataStates'
  <2>1. \A d \in DataPublishers, h \in DataHandles :
          dataPc'[d] = "removed" /\ handle'[d] = h => Over(h)'
    BY <1>0, <1>1, <1>6 DEF DataStates
  <2>2. \A h \in DataHandles :
          dataReader' # LDT!Rest /\ dataReader'.at # "complete" /\ dataReader'.handle = h =>
            Over(h)'
    BY <1>0, <1>1, <1>6 DEF DataStates
  <2>3. \A h \in unmarked' : Over(h)' BY <1>0, <1>1, <1>6, DataRanges DEF DataStates
  <2> QED BY <1>0, <1>1, <1>3, <2>1, <2>2, <2>3 DEF DataStates
<1>8. DataUntouched'
  <2>1. \A h \in DataHandles : Untouched(h) => Untouched(h)' BY <1>1, <1>3 DEF Untouched
  <2> QED BY <1>0, <1>1, <2>1, DataUntouchedKept
<1>9. DataHeld' /\ DataActive' /\ DataListed'
  BY <1>0, <1>1 DEF DataHeld, DataActive, DataListed, Holds
<1> QED BY <1>3, <1>4, <1>5, <1>7, <1>8, <1>9 DEF DataInv

\* The SFU says that a publication of handle h ended, or was refused.
LEMMA DataToldEnd ==
  ASSUME DataTyped, DataTold, NEW h \in DataHandles, NEW t \in {"reject", "unpublish"},
         dataFromSFU' = Append(dataFromSFU, [type |-> t, handle |-> h]),
         h \notin dataPubs' \ doubled',
         dataPubs' \ doubled' \subseteq dataPubs \ doubled,
         dataPubs \subseteq dataPubs' \/ (t = "unpublish" /\ dataPubs' = dataPubs \ {h})
  PROVE  DataTold'
<1>1. PICK m : m = [type |-> t, handle |-> h] OBVIOUS
<1>2. m \in LDT!Message BY <1>1, DataBounds DEF LDT!Message
<1>3. PICK n : n = Len(dataFromSFU) OBVIOUS
<1>4. n \in Nat BY <1>3, LenProperties DEF DataTyped, LDT!TypeOK
<1>5. /\ Len(dataFromSFU') = n + 1 /\ dataFromSFU'[n + 1] = m
      /\ \A i \in 1 .. n : dataFromSFU'[i] = dataFromSFU[i]
  BY <1>1, <1>2, <1>3, DataTells
<1>6. ASSUME NEW i \in 1 .. Len(dataFromSFU'), dataFromSFU'[i].type = "accept"
      PROVE  \/ dataFromSFU'[i].handle \in dataPubs'
             \/ \E j \in 1 .. Len(dataFromSFU') :
                  /\ j > i
                  /\ dataFromSFU'[j] = [type |-> "unpublish", handle |-> dataFromSFU'[i].handle]
  <2>1. i # n + 1 BY <1>1, <1>5, <1>6
  <2>2. i \in 1 .. n /\ dataFromSFU'[i] = dataFromSFU[i] BY <1>4, <1>5, <2>1
  <2>3. CASE dataFromSFU[i].handle \in dataPubs
    <3>1. CASE dataFromSFU[i].handle \in dataPubs' BY <2>2, <3>1
    <3>2. CASE dataFromSFU[i].handle \notin dataPubs'
      <4>1. dataFromSFU[i].handle = h /\ t = "unpublish" BY <2>3, <3>2
      <4>2. n + 1 \in 1 .. Len(dataFromSFU') /\ n + 1 > i BY <1>4, <1>5, <2>2
      <4> QED BY <1>1, <1>5, <2>2, <4>1, <4>2
    <3> QED BY <3>1, <3>2
  <2>4. CASE \E j \in 1 .. n : j > i /\ dataFromSFU[j] = [type |-> "unpublish", handle |-> dataFromSFU[i].handle]
    <3>1. PICK j \in 1 .. n : j > i /\ dataFromSFU[j] = [type |-> "unpublish", handle |-> dataFromSFU[i].handle]
      BY <2>4
    <3>2. j \in 1 .. Len(dataFromSFU') BY <1>4, <1>5
    <3> QED BY <1>5, <2>2, <3>1, <3>2
  <2> QED BY <1>3, <1>6, <2>2, <2>3, <2>4 DEF DataTold
<1>7. ASSUME NEW i \in 1 .. Len(dataFromSFU'), dataFromSFU'[i].type # "accept"
      PROVE  \/ dataFromSFU'[i].handle \notin dataPubs' \ doubled'
             \/ \E j \in 1 .. Len(dataFromSFU') :
                  /\ j > i
                  /\ dataFromSFU'[j] = [type |-> "accept", handle |-> dataFromSFU'[i].handle]
  <2>1. CASE i = n + 1 BY <1>1, <1>5, <2>1
  <2>2. CASE i # n + 1
    <3>1. i \in 1 .. n /\ dataFromSFU'[i] = dataFromSFU[i] BY <1>4, <1>5, <2>2
    <3>2. CASE dataFromSFU[i].handle \notin dataPubs \ doubled BY <3>1, <3>2
    <3>3. CASE \E j \in 1 .. n : j > i /\ dataFromSFU[j] = [type |-> "accept", handle |-> dataFromSFU[i].handle]
      <4>1. PICK j \in 1 .. n : j > i /\ dataFromSFU[j] = [type |-> "accept", handle |-> dataFromSFU[i].handle]
        BY <3>3
      <4>2. j \in 1 .. Len(dataFromSFU') BY <1>4, <1>5
      <4> QED BY <1>5, <3>1, <4>1, <4>2
    <3> QED BY <1>3, <1>7, <3>1, <3>2, <3>3 DEF DataTold
  <2> QED BY <2>1, <2>2
<1> QED BY <1>6, <1>7 DEF DataTold

\* The SFU says that a publication of handle h began.
LEMMA DataToldBegin ==
  ASSUME DataTyped, DataTold, NEW h \in DataHandles,
         dataFromSFU' = Append(dataFromSFU, [type |-> "accept", handle |-> h]),
         dataPubs' = dataPubs \cup {h}, UNCHANGED doubled
  PROVE  DataTold'
<1>1. PICK m : m = [type |-> "accept", handle |-> h] OBVIOUS
<1>2. m \in LDT!Message BY <1>1, DataBounds DEF LDT!Message
<1>3. PICK n : n = Len(dataFromSFU) OBVIOUS
<1>4. n \in Nat BY <1>3, LenProperties DEF DataTyped, LDT!TypeOK
<1>5. /\ Len(dataFromSFU') = n + 1 /\ dataFromSFU'[n + 1] = m
      /\ \A i \in 1 .. n : dataFromSFU'[i] = dataFromSFU[i]
  BY <1>1, <1>2, <1>3, DataTells
<1>6. ASSUME NEW i \in 1 .. Len(dataFromSFU'), dataFromSFU'[i].type = "accept"
      PROVE  \/ dataFromSFU'[i].handle \in dataPubs'
             \/ \E j \in 1 .. Len(dataFromSFU') :
                  /\ j > i
                  /\ dataFromSFU'[j] = [type |-> "unpublish", handle |-> dataFromSFU'[i].handle]
  <2>1. CASE i = n + 1 BY <1>1, <1>5, <2>1
  <2>2. CASE i # n + 1
    <3>1. i \in 1 .. n /\ dataFromSFU'[i] = dataFromSFU[i] BY <1>4, <1>5, <2>2
    <3>2. CASE dataFromSFU[i].handle \in dataPubs BY <3>1, <3>2
    <3>3. CASE \E j \in 1 .. n : j > i /\ dataFromSFU[j] = [type |-> "unpublish", handle |-> dataFromSFU[i].handle]
      <4>1. PICK j \in 1 .. n : j > i /\ dataFromSFU[j] = [type |-> "unpublish", handle |-> dataFromSFU[i].handle]
        BY <3>3
      <4>2. j \in 1 .. Len(dataFromSFU') BY <1>4, <1>5
      <4> QED BY <1>5, <3>1, <4>1, <4>2
    <3> QED BY <1>3, <1>6, <3>1, <3>2, <3>3 DEF DataTold
  <2> QED BY <2>1, <2>2
<1>7. ASSUME NEW i \in 1 .. Len(dataFromSFU'), dataFromSFU'[i].type # "accept"
      PROVE  \/ dataFromSFU'[i].handle \notin dataPubs' \ doubled'
             \/ \E j \in 1 .. Len(dataFromSFU') :
                  /\ j > i
                  /\ dataFromSFU'[j] = [type |-> "accept", handle |-> dataFromSFU'[i].handle]
  <2>1. i # n + 1 BY <1>1, <1>5, <1>7
  <2>2. i \in 1 .. n /\ dataFromSFU'[i] = dataFromSFU[i] BY <1>4, <1>5, <2>1
  <2>3. CASE dataFromSFU[i].handle = h
    <3>1. n + 1 \in 1 .. Len(dataFromSFU') /\ n + 1 > i BY <1>4, <1>5, <2>2
    <3> QED BY <1>1, <1>5, <2>2, <2>3, <3>1
  <2>4. CASE dataFromSFU[i].handle # h /\ dataFromSFU[i].handle \notin dataPubs \ doubled
    BY <2>2, <2>4
  <2>5. CASE \E j \in 1 .. n : j > i /\ dataFromSFU[j] = [type |-> "accept", handle |-> dataFromSFU[i].handle]
    <3>1. PICK j \in 1 .. n : j > i /\ dataFromSFU[j] = [type |-> "accept", handle |-> dataFromSFU[i].handle]
      BY <2>5
    <3>2. j \in 1 .. Len(dataFromSFU') BY <1>4, <1>5
    <3> QED BY <1>5, <2>2, <3>1, <3>2
  <2> QED BY <1>3, <1>7, <2>2, <2>3, <2>4, <2>5 DEF DataTold
<1> QED BY <1>6, <1>7 DEF DataTold

\* What an answer of the SFU leaves.
LEMMA DataSFU ==
  ASSUME DataInv,
         UNCHANGED <<value, pending, active, trackState, sidSession, result, dataPc, handle,
                     dataReader, restorer, requests, unmarked, closed, dataLink, dataSession,
                     unsent>>,
         dataToSFU' \in Seq(Requested), Len(dataToSFU') <= MaxInFlight,
         dataFromSFU' \in Seq(LDT!Message), Len(dataFromSFU') <= MaxInFlight,
         dataLink = "up", dataPubs' \subseteq DataHandles, doubled' \subseteq DataHandles,
         \A p \in BOOLEAN, g \in DataHandles : Asked(p, g)' => Asked(p, g),
         \A g \in DataHandles : Untouched(g) => Untouched(g)',
         DataTold', DataActive', DataListed'
  PROVE  DataInv'
<1>0. DataTyped /\ DataOwned /\ DataStates /\ DataUntouched /\ DataHeld BY DataParts
<1>1. DataTyped'
  <2>1. LDT!TypeOK' BY <1>0, DataBounds DEF DataTyped, LDT!TypeOK, Requested
  <2> QED BY <1>0, <2>1 DEF DataTyped
<1>2. DataOwned' BY <1>0, DataOwnedSame
<1>3. DataStates'
  <2>1. \A g \in DataHandles : pending'[g] \in {pending[g], NONE} OBVIOUS
  <2>2. \A d \in DataPublishers, g \in DataHandles :
          dataPc'[d] = "removed" /\ handle[d] = g => dataPc[d] = "removed" \/ Over(g)'
    OBVIOUS
  <2>3. \A g \in DataHandles : Asked(FALSE, g)' => Asked(FALSE, g) \/ Over(g)' OBVIOUS
  <2>4. active' \subseteq active /\ unmarked' \subseteq unmarked /\ restorer' = restorer OBVIOUS
  <2> QED BY <1>0, <2>1, <2>2, <2>3, <2>4, DataStatesKept
<1>4. DataUntouched' BY <1>0, DataUntouchedKept
<1>5. DataHeld' BY <1>0 DEF DataHeld, Holds
<1> QED BY <1>1, <1>2, <1>3, <1>4, <1>5 DEF DataInv

\* The SFU ends a publication on its own.
LEMMA DataEnded ==
  ASSUME DataInv, NEW h \in DataHandles, LDT!SFUUnpublish(h) PROVE DataInv'
<1>0. /\ DataTyped /\ DataOwned /\ DataStates /\ DataUntouched /\ DataHeld /\ DataTold
      /\ DataActive /\ DataListed
  BY DataParts
<1>1. PICK m : m = [type |-> "unpublish", handle |-> h] OBVIOUS
<1>2. /\ UNCHANGED <<value, pending, active, trackState, sidSession, result, dataPc, handle,
                     dataReader, restorer, requests, unmarked, closed, dataToSFU, dataLink,
                     dataSession, unsent, doubled>>
      /\ h \in dataPubs /\ dataLink = "up" /\ dataPubs' = dataPubs \ {h}
      /\ Len(dataFromSFU) < MaxInFlight /\ dataFromSFU' = Append(dataFromSFU, m)
  BY <1>1 DEF LDT!SFUUnpublish, LDT!Tell, LDT!managerVars, LDT!callerVars, LDT!workerVars,
             LDT!linkVars, LDT!ghostVars
<1>3. m \in LDT!Message BY <1>1, DataBounds DEF LDT!Message
<1>4. /\ dataFromSFU' \in Seq(LDT!Message) /\ Len(dataFromSFU') = Len(dataFromSFU) + 1
      /\ \A t \in {"accept", "reject", "unpublish"}, g \in DataHandles :
           Told(t, g)' <=> Told(t, g) \/ m = [type |-> t, handle |-> g]
  BY <1>0, <1>2, <1>3, DataTells
<1>5. Len(dataFromSFU') <= MaxInFlight
  <2>1. Len(dataFromSFU) \in Nat BY <1>0, LenProperties DEF DataTyped, LDT!TypeOK
  <2> QED BY <1>2, <1>4, <2>1, DataBounds
<1>6. /\ dataToSFU \in Seq(Requested) /\ Len(dataToSFU) <= MaxInFlight
      /\ doubled \subseteq DataHandles
  BY <1>0, DataBounds DEF DataTyped, LDT!TypeOK, Requested
<1>7. \A p, g : Asked(p, g)' <=> Asked(p, g) BY <1>2, DataSame
<1>8. \A g \in DataHandles : Untouched(g) => Untouched(g)'
  <2> SUFFICES ASSUME NEW g \in DataHandles, Untouched(g) PROVE Untouched(g)' OBVIOUS
  <2>1. g # h BY <1>2 DEF Untouched
  <2>2. \A t \in {"accept", "reject", "unpublish"} : Told(t, g)' => Told(t, g)
    BY <1>1, <1>4, <2>1
  <2> QED BY <1>2, <1>7, <2>2 DEF Untouched
<1>9. DataTold' BY <1>0, <1>1, <1>2, DataToldEnd
<1>10. DataActive'
  <2> SUFFICES ASSUME restorer # "due", NEW g \in active \ (requests \cup unsent)
               PROVE  \/ Asked(TRUE, g) \/ Told("reject", g)' \/ Told("unpublish", g)'
                      \/ /\ g \in dataPubs'
                         /\ \/ Told("accept", g)' \/ dataReader = [at |-> "complete", handle |-> g]
                            \/ trackState[g] = "published"
    BY <1>2, <1>7 DEF DataActive
  <2>1. g \in DataHandles BY <1>0, DataRanges
  <2>2. CASE g = h BY <1>1, <1>4, <2>1, <2>2
  <2>3. CASE g # h BY <1>0, <1>2, <1>4, <2>1, <2>3 DEF DataActive
  <2> QED BY <2>2, <2>3
<1>11. DataListed' BY <1>0, <1>2, <1>4, <1>7, DataRanges DEF DataListed
<1>12. dataPubs' \subseteq DataHandles BY <1>0, <1>2, DataRanges
<1> QED BY <1>2, <1>4, <1>5, <1>6, <1>7, <1>8, <1>9, <1>10, <1>11, <1>12, DataSFU

\* The SFU serves a request: each kind of answer.
LEMMA DataAnswered ==
  ASSUME DataInv, LDT!SFUServe PROVE DataInv'
<1>0. /\ DataTyped /\ DataOwned /\ DataStates /\ DataUntouched /\ DataHeld /\ DataTold
      /\ DataActive /\ DataListed
  BY DataParts
<1>1. PICK r : r = Head(dataToSFU) OBVIOUS
<1>2. /\ UNCHANGED <<value, pending, active, trackState, sidSession, result, dataPc, handle,
                     dataReader, restorer, requests, unmarked, closed, dataLink, dataSession,
                     unsent>>
      /\ dataToSFU # <<>> /\ dataLink = "up" /\ dataToSFU' = Tail(dataToSFU)
  BY DEF LDT!SFUServe, LDT!managerVars, LDT!callerVars, LDT!workerVars, LDT!linkVars
<1>3. /\ r \in Requested /\ dataToSFU' \in Seq(Requested)
      /\ Len(dataToSFU') = Len(dataToSFU) - 1
      /\ \A p \in BOOLEAN, g \in DataHandles :
           /\ Asked(p, g)' => Asked(p, g)
           /\ Asked(p, g) => Asked(p, g)' \/ r = [publish |-> p, handle |-> g]
           /\ r = [publish |-> p, handle |-> g] => Asked(p, g)
  BY <1>0, <1>1, <1>2, DataServed
<1>4. PICK h \in DataHandles : h = r.handle BY <1>3 DEF Requested
<1>5. r.publish \in BOOLEAN /\ r = [publish |-> r.publish, handle |-> h]
  BY <1>3, <1>4 DEF Requested
<1>6. Asked(r.publish, h) BY <1>3, <1>5
<1>7. \A p \in BOOLEAN, g \in DataHandles :
        Asked(p, g) => Asked(p, g)' \/ (p = r.publish /\ g = h)
  BY <1>3, <1>5
<1>8. Len(dataToSFU') <= MaxInFlight /\ doubled \subseteq DataHandles
      /\ dataFromSFU \in Seq(LDT!Message) /\ Len(dataFromSFU) <= MaxInFlight
      /\ Len(dataFromSFU) \in Nat
  <2>1. dataToSFU \in Seq(Requested) /\ Len(dataToSFU) <= MaxInFlight
    BY <1>0, DataBounds DEF DataTyped, LDT!TypeOK, Requested
  <2>2. Len(dataToSFU) \in Nat BY <2>1, LenProperties
  <2>3. /\ doubled \subseteq DataHandles /\ dataFromSFU \in Seq(LDT!Message)
        /\ Len(dataFromSFU) <= MaxInFlight
    BY <1>0, DataBounds DEF DataTyped, LDT!TypeOK
  <2> QED BY <1>3, <2>1, <2>2, <2>3, DataBounds, LenProperties
<1>9. ASSUME NEW t \in {"accept", "reject", "unpublish"}, LDT!Tell(t, h)
      PROVE  /\ dataFromSFU' = Append(dataFromSFU, [type |-> t, handle |-> h])
             /\ dataFromSFU' \in Seq(LDT!Message) /\ Len(dataFromSFU') <= MaxInFlight
             /\ Told(t, h)'
             /\ \A s \in {"accept", "reject", "unpublish"}, g \in DataHandles :
                  /\ Told(s, g) => Told(s, g)'
                  /\ Told(s, g)' => Told(s, g) \/ (s = t /\ g = h)
  <2>1. PICK m : m = [type |-> t, handle |-> h] OBVIOUS
  <2>2. m \in LDT!Message BY <2>1, DataBounds DEF LDT!Message
  <2>3. dataFromSFU' = Append(dataFromSFU, m) /\ Len(dataFromSFU) < MaxInFlight
    BY <1>9, <2>1 DEF LDT!Tell
  <2>4. /\ dataFromSFU' \in Seq(LDT!Message) /\ Len(dataFromSFU') = Len(dataFromSFU) + 1
        /\ \A s \in {"accept", "reject", "unpublish"}, g \in DataHandles :
             Told(s, g)' <=> Told(s, g) \/ m = [type |-> s, handle |-> g]
    BY <1>0, <2>2, <2>3, DataTells
  <2>5. Len(dataFromSFU') <= MaxInFlight BY <1>8, <2>3, <2>4, DataBounds
  <2> QED BY <2>1, <2>3, <2>4, <2>5
<1>10. ~Untouched(h) BY <1>5, <1>6 DEF Untouched
<1>11. CASE r.publish /\ h \notin dataPubs /\ dataPubs' = dataPubs \cup {h} /\ LDT!Tell("accept", h)
            /\ UNCHANGED doubled
  <2>1. /\ dataFromSFU' = Append(dataFromSFU, [type |-> "accept", handle |-> h])
        /\ dataFromSFU' \in Seq(LDT!Message) /\ Len(dataFromSFU') <= MaxInFlight
        /\ Told("accept", h)'
        /\ \A s \in {"accept", "reject", "unpublish"}, g \in DataHandles :
             /\ Told(s, g) => Told(s, g)'
             /\ Told(s, g)' => Told(s, g) \/ (s = "accept" /\ g = h)
    BY <1>9, <1>11
  <2>2. \A g \in DataHandles : Untouched(g) => Untouched(g)'
    <3> SUFFICES ASSUME NEW g \in DataHandles, Untouched(g) PROVE Untouched(g)' OBVIOUS
    <3>1. g # h BY <1>10
    <3> QED BY <1>2, <1>3, <1>11, <2>1, <3>1 DEF Untouched
  <2>3. DataTold' BY <1>0, <1>11, <2>1, DataToldBegin
  <2>4. DataActive'
    <3> SUFFICES ASSUME restorer # "due", NEW g \in active \ (requests \cup unsent)
                 PROVE  \/ Asked(TRUE, g)' \/ Told("reject", g)' \/ Told("unpublish", g)'
                        \/ /\ g \in dataPubs'
                           /\ \/ Told("accept", g)' \/ dataReader = [at |-> "complete", handle |-> g]
                              \/ trackState[g] = "published"
      BY <1>2 DEF DataActive
    <3>1. g \in DataHandles BY <1>0, DataRanges
    <3>2. CASE g = h BY <1>11, <2>1, <3>2
    <3>3. CASE g # h
      <4>1. Asked(TRUE, g) => Asked(TRUE, g)' BY <1>7, <3>1, <3>3
      <4> QED BY <1>0, <1>2, <1>11, <2>1, <3>1, <4>1 DEF DataActive
    <3> QED BY <3>2, <3>3
  <2>5. DataListed'
    <3> SUFFICES ASSUME NEW g \in dataPubs' \ (doubled \cup active), ~Told("accept", g)'
                 PROVE  /\ pending[g] = NONE
                        /\ \/ dataReader = [at |-> "refuse", handle |-> g] \/ Asked(FALSE, g)'
                           \/ \E d \in DataPublishers : dataPc[d] = "removed" /\ handle[d] = g
      BY <1>2, <1>11 DEF DataListed
    <3>1. g # h /\ g \in dataPubs /\ g \in DataHandles BY <1>0, <1>11, <2>1, DataRanges
    <3>2. Asked(FALSE, g) => Asked(FALSE, g)' BY <1>7, <3>1
    <3> QED BY <1>0, <1>2, <2>1, <3>1, <3>2 DEF DataListed
  <2>6. dataPubs' \subseteq DataHandles BY <1>0, <1>11, DataRanges
  <2> QED BY <1>2, <1>3, <1>8, <1>11, <2>1, <2>2, <2>3, <2>4, <2>5, <2>6, DataSFU
<1>12. CASE r.publish /\ LDT!Tell("reject", h) /\ UNCHANGED dataPubs
            /\ doubled' = IF h \in dataPubs THEN doubled \cup {h} ELSE doubled
  <2>1. /\ dataFromSFU' = Append(dataFromSFU, [type |-> "reject", handle |-> h])
        /\ dataFromSFU' \in Seq(LDT!Message) /\ Len(dataFromSFU') <= MaxInFlight
        /\ Told("reject", h)'
        /\ \A s \in {"accept", "reject", "unpublish"}, g \in DataHandles :
             /\ Told(s, g) => Told(s, g)'
             /\ Told(s, g)' => Told(s, g) \/ (s = "reject" /\ g = h)
    BY <1>9, <1>12
  <2>2. \A g \in DataHandles : Untouched(g) => Untouched(g)'
    <3> SUFFICES ASSUME NEW g \in DataHandles, Untouched(g) PROVE Untouched(g)' OBVIOUS
    <3>1. g # h BY <1>10
    <3> QED BY <1>2, <1>3, <1>12, <2>1, <3>1 DEF Untouched
  <2>3. DataTold' BY <1>0, <1>12, <2>1, DataToldEnd
  <2>4. DataActive'
    <3> SUFFICES ASSUME restorer # "due", NEW g \in active \ (requests \cup unsent)
                 PROVE  \/ Asked(TRUE, g)' \/ Told("reject", g)' \/ Told("unpublish", g)'
                        \/ /\ g \in dataPubs
                           /\ \/ Told("accept", g)' \/ dataReader = [at |-> "complete", handle |-> g]
                              \/ trackState[g] = "published"
      BY <1>2, <1>12 DEF DataActive
    <3>1. g \in DataHandles BY <1>0, DataRanges
    <3>2. CASE g = h BY <2>1, <3>2
    <3>3. CASE g # h
      <4>1. Asked(TRUE, g) => Asked(TRUE, g)' BY <1>7, <3>1, <3>3
      <4> QED BY <1>0, <1>2, <2>1, <3>1, <4>1 DEF DataActive
    <3> QED BY <3>2, <3>3
  <2>5. DataListed'
    <3> SUFFICES ASSUME NEW g \in dataPubs \ (doubled' \cup active), ~Told("accept", g)'
                 PROVE  /\ pending[g] = NONE
                        /\ \/ dataReader = [at |-> "refuse", handle |-> g] \/ Asked(FALSE, g)'
                           \/ \E d \in DataPublishers : dataPc[d] = "removed" /\ handle[d] = g
      BY <1>2, <1>12 DEF DataListed
    <3>1. g \notin doubled /\ g \in DataHandles BY <1>0, <1>12, DataRanges
    <3>2. Asked(FALSE, g) => Asked(FALSE, g)' BY <1>7, <1>12, <3>1
    <3> QED BY <1>0, <1>2, <2>1, <3>1, <3>2 DEF DataListed
  <2>6. dataPubs' \subseteq DataHandles /\ doubled' \subseteq DataHandles
    BY <1>0, <1>8, <1>12, DataRanges
  <2> QED BY <1>2, <1>3, <1>8, <1>12, <2>1, <2>2, <2>3, <2>4, <2>5, <2>6, DataSFU
<1>13. CASE ~r.publish /\ (IF h \in dataPubs THEN LDT!Tell("unpublish", h) ELSE UNCHANGED dataFromSFU)
            /\ dataPubs' = dataPubs \ {h} /\ UNCHANGED doubled
  <2>1. /\ dataFromSFU' \in Seq(LDT!Message) /\ Len(dataFromSFU') <= MaxInFlight
        /\ \A s \in {"accept", "reject", "unpublish"}, g \in DataHandles :
             /\ Told(s, g) => Told(s, g)'
             /\ Told(s, g)' => Told(s, g) \/ (s = "unpublish" /\ g = h)
        /\ DataTold'
    <3>1. CASE h \in dataPubs
      <4>1. /\ dataFromSFU' = Append(dataFromSFU, [type |-> "unpublish", handle |-> h])
            /\ dataFromSFU' \in Seq(LDT!Message) /\ Len(dataFromSFU') <= MaxInFlight
            /\ \A s \in {"accept", "reject", "unpublish"}, g \in DataHandles :
                 /\ Told(s, g) => Told(s, g)'
                 /\ Told(s, g)' => Told(s, g) \/ (s = "unpublish" /\ g = h)
        BY <1>9, <1>13, <3>1
      <4>2. DataTold' BY <1>0, <1>13, <4>1, DataToldEnd
      <4> QED BY <4>1, <4>2
    <3>2. CASE h \notin dataPubs
      <4>1. UNCHANGED <<dataFromSFU, dataPubs, doubled>> BY <1>13, <3>2
      <4>2. \A t, g : Told(t, g)' <=> Told(t, g) BY <4>1, DataSame
      <4> QED BY <1>0, <1>8, <4>1, <4>2, DataToldSame
    <3> QED BY <3>1, <3>2
  <2>2. \A g \in DataHandles : Untouched(g) => Untouched(g)'
    <3> SUFFICES ASSUME NEW g \in DataHandles, Untouched(g) PROVE Untouched(g)' OBVIOUS
    <3>1. g # h BY <1>10
    <3> QED BY <1>2, <1>3, <1>13, <2>1, <3>1 DEF Untouched
  <2>3. Over(h)
    <3>1. r.publish = FALSE BY <1>5, <1>13
    <3> QED BY <1>0, <1>6, <3>1 DEF DataStates
  <2>4. DataActive'
    <3> SUFFICES ASSUME restorer # "due", NEW g \in active \ (requests \cup unsent)
                 PROVE  \/ Asked(TRUE, g)' \/ Told("reject", g)' \/ Told("unpublish", g)'
                        \/ /\ g \in dataPubs'
                           /\ \/ Told("accept", g)' \/ dataReader = [at |-> "complete", handle |-> g]
                              \/ trackState[g] = "published"
      BY <1>2 DEF DataActive
    <3>1. g \in DataHandles /\ g # h BY <1>0, <2>3, DataRanges DEF Over
    <3>2. Asked(TRUE, g) => Asked(TRUE, g)' BY <1>7, <3>1
    <3> QED BY <1>0, <1>2, <1>13, <2>1, <3>1, <3>2 DEF DataActive
  <2>5. DataListed'
    <3> SUFFICES ASSUME NEW g \in dataPubs' \ (doubled \cup active), ~Told("accept", g)'
                 PROVE  /\ pending[g] = NONE
                        /\ \/ dataReader = [at |-> "refuse", handle |-> g] \/ Asked(FALSE, g)'
                           \/ \E d \in DataPublishers : dataPc[d] = "removed" /\ handle[d] = g
      BY <1>2, <1>13 DEF DataListed
    <3>1. g # h /\ g \in dataPubs /\ g \in DataHandles BY <1>0, <1>13, DataRanges
    <3>2. Asked(FALSE, g) => Asked(FALSE, g)' BY <1>7, <3>1
    <3> QED BY <1>0, <1>2, <2>1, <3>1, <3>2 DEF DataListed
  <2>6. dataPubs' \subseteq DataHandles BY <1>0, <1>13, DataRanges
  <2> QED BY <1>2, <1>3, <1>8, <1>13, <2>1, <2>2, <2>4, <2>5, <2>6, DataSFU
<1> QED BY <1>1, <1>4, <1>11, <1>12, <1>13 DEF LDT!SFUServe

\* The reader takes the next answer: what it says, and what is left to hear.
LEMMA DataNews ==
  ASSUME DataInv, dataFromSFU # <<>>, dataFromSFU' = Tail(dataFromSFU), UNCHANGED <<dataToSFU,
                                  dataPubs, doubled>>,
         NEW m, m = Head(dataFromSFU)
  PROVE  /\ m \in LDT!Message /\ m.handle \in DataHandles /\ m.handle <= value
         /\ dataFromSFU' \in Seq(LDT!Message) /\ Len(dataFromSFU') <= MaxInFlight
         /\ \A t \in {"accept", "reject", "unpublish"}, g \in DataHandles :
              /\ Told(t, g)' => Told(t, g)
              /\ Told(t, g) => Told(t, g)' \/ (t = m.type /\ g = m.handle)
         /\ \A p, g : Asked(p, g)' <=> Asked(p, g)
         /\ ~Untouched(m.handle)
         /\ \A d \in DataPublishers : dataPc[d] = "sending" => handle[d] # m.handle
         /\ m.type = "accept" => m.handle \in dataPubs \/ Told("unpublish", m.handle)'
         /\ m.type # "accept" => m.handle \notin dataPubs \ doubled \/ Told("accept", m.handle)'
         /\ DataTold'
<1>0. DataTyped /\ DataOwned /\ DataUntouched /\ DataTold BY DataParts
<1>1. /\ m \in LDT!Message /\ m = dataFromSFU[1] /\ 1 \in 1 .. Len(dataFromSFU)
      /\ dataFromSFU' \in Seq(LDT!Message) /\ Len(dataFromSFU') = Len(dataFromSFU) - 1
      /\ \A i \in 1 .. Len(dataFromSFU') :
           i + 1 \in 1 .. Len(dataFromSFU) /\ dataFromSFU'[i] = dataFromSFU[i + 1]
      /\ \A i \in 1 .. Len(dataFromSFU) : i > 1 =>
           i - 1 \in 1 .. Len(dataFromSFU') /\ dataFromSFU'[i - 1] = dataFromSFU[i]
      /\ \A t \in {"accept", "reject", "unpublish"}, g \in DataHandles :
           /\ Told(t, g)' => Told(t, g)
           /\ Told(t, g) => Told(t, g)' \/ m = [type |-> t, handle |-> g]
           /\ m = [type |-> t, handle |-> g] => Told(t, g)
  BY <1>0, DataHeard
<1>2. PICK h \in DataHandles : h = m.handle BY <1>1, DataBounds DEF LDT!Message
<1>3. PICK s \in {"accept", "reject", "unpublish"} : s = m.type /\ m = [type |-> s, handle |-> h]
  BY <1>1, <1>2 DEF LDT!Message
<1>4. Told(s, h) BY <1>1, <1>3
<1>5. ~Untouched(h) BY <1>4 DEF Untouched
<1>6. h <= value BY <1>0, <1>5, DataRanges, DataBounds DEF DataUntouched, DataHandles
<1>7. \A d \in DataPublishers : dataPc[d] = "sending" => handle[d] # h
  BY <1>0, <1>5 DEF DataUntouched
<1>8. Len(dataFromSFU') <= MaxInFlight
  <2>1. Len(dataFromSFU) \in Nat /\ Len(dataFromSFU) <= MaxInFlight
    BY <1>0, LenProperties DEF DataTyped, LDT!TypeOK
  <2> QED BY <1>1, <2>1, DataBounds
<1>9. \A p, g : Asked(p, g)' <=> Asked(p, g) BY DataSame
<1>10. PICK n \in Nat : n = Len(dataFromSFU) BY <1>0, LenProperties DEF DataTyped, LDT!TypeOK
<1>11. Len(dataFromSFU') = n - 1 BY <1>1, <1>10
<1>12. s = "accept" => h \in dataPubs \/ Told("unpublish", h)'
  <2> SUFFICES ASSUME s = "accept", h \notin dataPubs PROVE Told("unpublish", h)' OBVIOUS
  <2>1. PICK j \in 1 .. n : j > 1 /\ dataFromSFU[j] = [type |-> "unpublish", handle |-> h]
    BY <1>0, <1>1, <1>2, <1>3, <1>10 DEF DataTold
  <2>2. j - 1 \in 1 .. Len(dataFromSFU') /\ dataFromSFU'[j - 1] = dataFromSFU[j]
    BY <1>1, <1>10, <2>1
  <2> QED BY <2>1, <2>2 DEF Told
<1>13. s # "accept" => h \notin dataPubs \ doubled \/ Told("accept", h)'
  <2> SUFFICES ASSUME s # "accept", h \in dataPubs \ doubled PROVE Told("accept", h)' OBVIOUS
  <2>1. PICK j \in 1 .. n : j > 1 /\ dataFromSFU[j] = [type |-> "accept", handle |-> h]
    BY <1>0, <1>1, <1>2, <1>3, <1>10 DEF DataTold
  <2>2. j - 1 \in 1 .. Len(dataFromSFU') /\ dataFromSFU'[j - 1] = dataFromSFU[j]
    BY <1>1, <1>10, <2>1
  <2> QED BY <2>1, <2>2 DEF Told
<1>14. DataTold'
  <2>1. ASSUME NEW i \in 1 .. Len(dataFromSFU'), dataFromSFU'[i].type = "accept"
        PROVE  \/ dataFromSFU'[i].handle \in dataPubs
               \/ \E j \in 1 .. Len(dataFromSFU') :
                    /\ j > i
                    /\ dataFromSFU'[j] = [type |-> "unpublish", handle |-> dataFromSFU'[i].handle]
    <3>1. i + 1 \in 1 .. n /\ dataFromSFU'[i] = dataFromSFU[i + 1] /\ i \in Nat
      BY <1>1, <1>10, <1>11
    <3>2. PICK k : k = i + 1 OBVIOUS
    <3>3. CASE dataFromSFU[k].handle \notin dataPubs
      <4>1. PICK j \in 1 .. n : j > k /\ dataFromSFU[j] = [type |-> "unpublish", handle |-> dataFromSFU[k].handle]
        BY <1>0, <1>10, <2>1, <3>1, <3>2, <3>3 DEF DataTold
      <4>2. j > 1 /\ j - 1 > i BY <3>1, <3>2, <4>1
      <4>3. j - 1 \in 1 .. Len(dataFromSFU') /\ dataFromSFU'[j - 1] = dataFromSFU[j]
        BY <1>1, <1>10, <4>1, <4>2
      <4> QED BY <3>1, <3>2, <4>1, <4>2, <4>3
    <3> QED BY <3>1, <3>2, <3>3
  <2>2. ASSUME NEW i \in 1 .. Len(dataFromSFU'), dataFromSFU'[i].type # "accept"
        PROVE  \/ dataFromSFU'[i].handle \notin dataPubs \ doubled
               \/ \E j \in 1 .. Len(dataFromSFU') :
                    /\ j > i
                    /\ dataFromSFU'[j] = [type |-> "accept", handle |-> dataFromSFU'[i].handle]
    <3>1. i + 1 \in 1 .. n /\ dataFromSFU'[i] = dataFromSFU[i + 1] /\ i \in Nat
      BY <1>1, <1>10, <1>11
    <3>2. PICK k : k = i + 1 OBVIOUS
    <3>3. CASE dataFromSFU[k].handle \in dataPubs \ doubled
      <4>1. PICK j \in 1 .. n : j > k /\ dataFromSFU[j] = [type |-> "accept", handle |-> dataFromSFU[k].handle]
        BY <1>0, <1>10, <2>2, <3>1, <3>2, <3>3 DEF DataTold
      <4>2. j > 1 /\ j - 1 > i BY <3>1, <3>2, <4>1
      <4>3. j - 1 \in 1 .. Len(dataFromSFU') /\ dataFromSFU'[j - 1] = dataFromSFU[j]
        BY <1>1, <1>10, <4>1, <4>2
      <4> QED BY <3>1, <3>2, <4>1, <4>2, <4>3
    <3> QED BY <3>1, <3>2, <3>3
  <2> QED BY <2>1, <2>2 DEF DataTold
<1> QED BY <1>1, <1>2, <1>3, <1>5, <1>6, <1>7, <1>8, <1>9, <1>12, <1>13, <1>14

\* The answer goes to the one caller that waits for it.
LEMMA DataDelivered ==
  ASSUME DataInv, NEW h \in DataHandles, NEW res \in LDT!Errors \cup {"track"},
         pending[h] # NONE, LDT!Deliver(h, res), UNCHANGED <<value, dataPc, handle>>
  PROVE  /\ pending' \in [DataHandles -> DataPublishers \cup {NONE}]
         /\ result' \in [DataPublishers -> LDT!Errors \cup {"track", NONE}]
         /\ pending'[h] = NONE /\ \A g \in DataHandles \ {h} : pending'[g] = pending[g]
         /\ DataOwned'
         /\ \A d \in DataPublishers : Holds(d) => Holds(d)'
         /\ \E c \in DataPublishers :
              handle[c] = h /\ dataPc[c] \in {"sending", "waiting"} /\ result'[c] = res
<1>0. DataTyped /\ DataOwned BY DataParts
<1>1. PICK c \in DataPublishers : c = pending[h] BY <1>0, DataRanges
<1>2. /\ pending' = [pending EXCEPT ![h] = NONE] /\ result' = [result EXCEPT ![c] = res]
      /\ pending[h] = c /\ c # NONE
  BY <1>1, DataBounds DEF LDT!Deliver
<1>3. dataPc[c] \in {"sending", "waiting"} /\ handle[c] = h /\ result[c] = NONE
  BY <1>0, <1>2, DataBounds DEF DataOwned, LDT!PublicationsAnswered
<1>4. /\ pending' \in [DataHandles -> DataPublishers \cup {NONE}]
      /\ result' \in [DataPublishers -> LDT!Errors \cup {"track", NONE}]
      /\ pending'[h] = NONE /\ \A g \in DataHandles \ {h} : pending'[g] = pending[g]
      /\ result'[c] = res /\ \A d \in DataPublishers \ {c} : result'[d] = result[d]
  BY <1>0, <1>2, DataRanges
<1>5. \A d \in DataPublishers \ {c} : dataPc[d] # "idle" =>
        handle[d] \in DataHandles /\ handle[d] # h
  BY <1>3, DataCaller
<1>6. DataOwned'
  <2>1. ASSUME NEW g \in DataHandles, pending'[g] # NONE
        PROVE  dataPc'[pending[g]] \in {"sending", "waiting"} /\ result'[pending[g]] = NONE
    <3>1. g # h /\ pending[g] # NONE /\ pending[g] \in DataPublishers
      BY <1>0, <1>4, <2>1, DataRanges
    <3>2. /\ dataPc[pending[g]] \in {"sending", "waiting"} /\ handle[pending[g]] = g
          /\ result[pending[g]] = NONE
      BY <1>0, <3>1, DataBounds DEF DataOwned, LDT!PublicationsAnswered
    <3>3. pending[g] # c BY <1>3, <3>1, <3>2
    <3> QED BY <1>4, <3>1, <3>2, <3>3
  <2>2. ASSUME NEW d \in DataPublishers,
               dataPc'[d] \in {"sending", "waiting", "withdrawing"}, result'[d] = NONE
        PROVE  /\ dataPc[d] \in {"sending", "waiting", "withdrawing"} /\ result[d] = NONE
               /\ pending'[handle[d]] = pending[handle[d]]
    <3>1. d # c BY <1>4, <2>2, DataBounds
    <3> QED BY <1>4, <1>5, <2>2, <3>1
  <2>3. \A g \in DataHandles : pending'[g] \in {pending[g], NONE} BY <1>4
  <2> QED BY <1>0, <2>1, <2>2, <2>3, DataOwnedKept
<1>7. \A d \in DataPublishers : Holds(d) => Holds(d)' BY <1>3, <1>4, DataBounds DEF Holds
<1> QED BY <1>3, <1>4, <1>6, <1>7

\* A publication that is rejected, or ends.
LEMMA DataDenied ==
  ASSUME DataInv, NEW m, m = Head(dataFromSFU), m.type # "accept",
         dataReader = LDT!Rest, dataLink = "up", dataFromSFU # <<>>, dataFromSFU' = Tail(dataFromSFU),
         UNCHANGED <<value, trackState, sidSession, dataPc, handle, restorer, requests,
                     unmarked, closed, dataPubs, dataToSFU, dataLink, dataSession, unsent,
                     doubled>>,
         active' = active \ {m.handle},
         dataReader' = IF m.handle \in active THEN [at |-> "mark", handle |-> m.handle] ELSE LDT!Rest,
         \/ pending[m.handle] = NONE /\ UNCHANGED <<pending, result>>
         \/ /\ pending[m.handle] # NONE
            /\ LDT!Deliver(m.handle, "rejected") \/ LDT!Deliver(m.handle, "unpublished")
  PROVE  DataInv'
<1>0. /\ DataTyped /\ DataOwned /\ DataStates /\ DataUntouched /\ DataHeld /\ DataTold
      /\ DataActive /\ DataListed
  BY DataParts
<1>1. /\ m \in LDT!Message /\ m.handle \in DataHandles /\ m.handle <= value
      /\ dataFromSFU' \in Seq(LDT!Message) /\ Len(dataFromSFU') <= MaxInFlight
      /\ \A t \in {"accept", "reject", "unpublish"}, g \in DataHandles :
           /\ Told(t, g)' => Told(t, g)
           /\ Told(t, g) => Told(t, g)' \/ (t = m.type /\ g = m.handle)
      /\ \A p, g : Asked(p, g)' <=> Asked(p, g)
      /\ ~Untouched(m.handle)
      /\ m.handle \notin dataPubs \ doubled \/ Told("accept", m.handle)'
      /\ DataTold'
  BY DataNews
<1>2. PICK h \in DataHandles : h = m.handle BY <1>1
<1>3. /\ pending' \in [DataHandles -> DataPublishers \cup {NONE}]
      /\ result' \in [DataPublishers -> LDT!Errors \cup {"track", NONE}]
      /\ pending'[h] = NONE /\ \A g \in DataHandles \ {h} : pending'[g] = pending[g]
      /\ DataOwned'
      /\ \A d \in DataPublishers : Holds(d) => Holds(d)'
  <2>1. CASE pending[h] = NONE
    <3>1. UNCHANGED <<pending, result>> BY <1>2, <2>1
    <3>2. DataOwned' BY <1>0, <3>1, DataOwnedSame
    <3>3. \A d \in DataPublishers : Holds(d) => Holds(d)' BY <3>1 DEF Holds
    <3> QED BY <1>0, <2>1, <3>1, <3>2, <3>3, DataRanges
  <2>2. CASE pending[h] # NONE
    <3>1. PICK res \in LDT!Errors \cup {"track"} : LDT!Deliver(h, res)
      BY <1>2, <2>2 DEF LDT!Errors
    <3> QED BY <2>2, <3>1, DataDelivered
  <2> QED BY <2>1, <2>2
<1>4. \A g \in DataHandles : Over(g) => Over(g)' BY <1>2, <1>3 DEF Over
<1>5. Over(h)' BY <1>1, <1>2, <1>3 DEF Over
<1>6. DataTyped'
  <2>1. dataReader' = LDT!Rest \/ dataReader' \in [at : {"mark", "complete", "refuse"}, handle : DataHandles]
    BY <1>2
  <2>2. active' \subseteq 1 .. value' BY <1>0, DataRanges
  <2>3. LDT!TypeOK' BY <1>0, <1>1, <1>3, <2>1, <2>2, DataBounds DEF DataTyped, LDT!TypeOK
  <2> QED BY <1>0, <1>1, <2>3 DEF DataTyped
<1>7. DataStates'
  <2>1. \A g \in DataHandles :
          g > value' \/ pending'[g] # NONE => trackState'[g] = "none" /\ g \notin active'
    BY <1>0, <1>2, <1>3 DEF DataStates
  <2>2. /\ \A g \in active' : trackState'[g] \in {"published", "republishing"}
        /\ \A g \in active' :
             trackState'[g] = "published" /\ restorer' # "due" => sidSession'[g] = dataSession'
    BY <1>0 DEF DataStates
  <2>3. \A d \in DataPublishers, g \in DataHandles :
          dataPc'[d] = "removed" /\ handle'[d] = g => Over(g)'
    BY <1>0, <1>4 DEF DataStates
  <2>4. \A g \in DataHandles :
          dataReader' # LDT!Rest /\ dataReader'.at # "complete" /\ dataReader'.handle = g =>
            Over(g)'
    BY <1>2, <1>5
  <2>5. \A g \in unmarked' : Over(g)' BY <1>0, <1>4, DataRanges DEF DataStates
  <2>6. \A g \in DataHandles : Asked(FALSE, g)' => Over(g)' BY <1>0, <1>1, <1>4 DEF DataStates
  <2> QED BY <2>1, <2>2, <2>3, <2>4, <2>5, <2>6 DEF DataStates
<1>8. DataUntouched'
  <2>1. \A g \in DataHandles : Untouched(g) => Untouched(g)'
    <3> SUFFICES ASSUME NEW g \in DataHandles, Untouched(g) PROVE Untouched(g)' OBVIOUS
    <3>1. g # h BY <1>1, <1>2
    <3> QED BY <1>1, <1>2, <3>1 DEF Untouched
  <2> QED BY <1>0, <2>1, DataUntouchedKept
<1>9. DataHeld' BY <1>0, <1>3, DataHeldKept
<1>10. DataActive'
  <2> SUFFICES ASSUME restorer # "due", NEW g \in active' \ (requests \cup unsent)
               PROVE  \/ Asked(TRUE, g) \/ Told("reject", g)' \/ Told("unpublish", g)'
                      \/ /\ g \in dataPubs
                         /\ Told("accept", g)' \/ trackState[g] = "published"
    BY <1>1 DEF DataActive
  <2>1. g \in active /\ g # h /\ g \in DataHandles BY <1>0, <1>2, DataRanges
  <2>2. dataReader # [at |-> "complete", handle |-> g] BY DEF LDT!Rest
  <2> QED BY <1>0, <1>1, <1>2, <2>1, <2>2 DEF DataActive
<1>11. DataListed'
  <2> SUFFICES ASSUME NEW g \in dataPubs \ (doubled \cup active'), ~Told("accept", g)'
               PROVE  /\ pending'[g] = NONE
                      /\ \/ Asked(FALSE, g)
                         \/ \E d \in DataPublishers : dataPc[d] = "removed" /\ handle[d] = g
    BY <1>1 DEF DataListed
  <2>1. g # h /\ g \notin active /\ g \in DataHandles BY <1>0, <1>1, <1>2, DataRanges
  <2>2. ~Told("accept", g) BY <1>1, <1>2, <2>1
  <2>3. dataReader # [at |-> "refuse", handle |-> g] BY DEF LDT!Rest
  <2> QED BY <1>0, <1>3, <2>1, <2>2, <2>3 DEF DataListed
<1> QED BY <1>1, <1>3, <1>6, <1>7, <1>8, <1>9, <1>10, <1>11 DEF DataInv

\* A publication that is accepted for a caller that waits.
LEMMA DataGiven ==
  ASSUME DataInv, NEW m, m = Head(dataFromSFU), m.type = "accept",
         dataReader = LDT!Rest, dataLink = "up", dataFromSFU # <<>>, dataFromSFU' = Tail(dataFromSFU),
         UNCHANGED <<value, dataPc, handle, dataReader, restorer, requests, unmarked, closed,
                     dataPubs, dataToSFU, dataLink, dataSession, unsent, doubled>>,
         pending[m.handle] # NONE, LDT!Deliver(m.handle, "track"),
         active' = active \cup {m.handle},
         trackState' = [trackState EXCEPT ![m.handle] = "published"],
         sidSession' = [sidSession EXCEPT ![m.handle] = dataSession]
  PROVE  DataInv'
<1>0. /\ DataTyped /\ DataOwned /\ DataStates /\ DataUntouched /\ DataHeld /\ DataTold
      /\ DataActive /\ DataListed
  BY DataParts
<1>1. /\ m \in LDT!Message /\ m.handle \in DataHandles /\ m.handle <= value
      /\ dataFromSFU' \in Seq(LDT!Message) /\ Len(dataFromSFU') <= MaxInFlight
      /\ \A t \in {"accept", "reject", "unpublish"}, g \in DataHandles :
           /\ Told(t, g)' => Told(t, g)
           /\ Told(t, g) => Told(t, g)' \/ (t = m.type /\ g = m.handle)
      /\ \A p, g : Asked(p, g)' <=> Asked(p, g)
      /\ ~Untouched(m.handle)
      /\ \A d \in DataPublishers : dataPc[d] = "sending" => handle[d] # m.handle
      /\ m.handle \in dataPubs \/ Told("unpublish", m.handle)'
      /\ DataTold'
  BY DataNews
<1>2. PICK h \in DataHandles : h = m.handle BY <1>1
<1>3. /\ pending' \in [DataHandles -> DataPublishers \cup {NONE}]
      /\ result' \in [DataPublishers -> LDT!Errors \cup {"track", NONE}]
      /\ pending'[h] = NONE /\ \A g \in DataHandles \ {h} : pending'[g] = pending[g]
      /\ DataOwned'
      /\ \A d \in DataPublishers : Holds(d) => Holds(d)'
      /\ \E c \in DataPublishers :
           handle[c] = h /\ dataPc[c] \in {"sending", "waiting"} /\ result'[c] = "track"
  BY <1>2, DataDelivered
<1>4. /\ trackState'[h] = "published" /\ sidSession'[h] = dataSession
      /\ \A g \in DataHandles \ {h} :
           trackState'[g] = trackState[g] /\ sidSession'[g] = sidSession[g]
  BY <1>0, <1>2, DataRanges
<1>5. \A g \in DataHandles : Over(g) => Over(g)' BY <1>2, <1>3 DEF Over
<1>6. DataTyped'
  <2>1. trackState' \in [DataHandles -> {"none", "published", "republishing", "unpublished"}]
    BY <1>0, DataRanges
  <2>2. dataSession \in 0 .. MaxRestarts BY <1>0 DEF DataTyped, LDT!TypeOK
  <2>3. sidSession' \in [DataHandles -> 0 .. MaxRestarts] BY <1>0, <2>2, DataRanges
  <2>4. active' \subseteq 1 .. value'
    BY <1>0, <1>1, <1>2, DataRanges, DataBounds DEF DataHandles
  <2>5. LDT!TypeOK' BY <1>0, <1>1, <1>3, <2>1, <2>3, <2>4, DataBounds DEF DataTyped, LDT!TypeOK
  <2> QED BY <1>0, <1>1, <2>5 DEF DataTyped
<1>7. DataStates'
  <2>1. ~(h > value) BY <1>0, <1>1, <1>2, DataRanges, DataBounds DEF DataHandles
  <2>2. \A g \in DataHandles :
          g > value' \/ pending'[g] # NONE => trackState'[g] = "none" /\ g \notin active'
    BY <1>0, <1>2, <1>3, <1>4, <2>1 DEF DataStates
  <2>3. /\ \A g \in active' : trackState'[g] \in {"published", "republishing"}
        /\ \A g \in active' :
             trackState'[g] = "published" /\ restorer' # "due" => sidSession'[g] = dataSession'
    <3> SUFFICES ASSUME NEW g \in active'
                 PROVE  /\ trackState'[g] \in {"published", "republishing"}
                        /\ trackState'[g] = "published" /\ restorer # "due" =>
                             sidSession'[g] = dataSession
      OBVIOUS
    <3>1. CASE g = h BY <1>4, <3>1
    <3>2. CASE g # h
      <4>1. g \in active /\ g \in DataHandles BY <1>0, <1>2, <3>2, DataRanges
      <4> QED BY <1>0, <1>4, <3>2, <4>1 DEF DataStates
    <3> QED BY <3>1, <3>2
  <2>4. \A d \in DataPublishers, g \in DataHandles :
          dataPc'[d] = "removed" /\ handle'[d] = g => Over(g)'
    BY <1>0, <1>5 DEF DataStates
  <2>5. \A g \in unmarked' : Over(g)' BY <1>0, <1>5, DataRanges DEF DataStates
  <2>6. \A g \in DataHandles : Asked(FALSE, g)' => Over(g)' BY <1>0, <1>1, <1>5 DEF DataStates
  <2> QED BY <2>2, <2>3, <2>4, <2>5, <2>6 DEF DataStates
<1>8. DataUntouched'
  <2>1. \A g \in DataHandles : Untouched(g) => Untouched(g)'
    <3> SUFFICES ASSUME NEW g \in DataHandles, Untouched(g) PROVE Untouched(g)' OBVIOUS
    <3>1. g # h BY <1>1, <1>2
    <3> QED BY <1>1, <1>2, <3>1 DEF Untouched
  <2> QED BY <1>0, <2>1, DataUntouchedKept
<1>9. DataHeld'
  <2> SUFFICES ASSUME NEW g \in active'
               PROVE  \E d \in DataPublishers : handle[d] = g /\ Holds(d)'
    BY DEF DataHeld
  <2>1. CASE g = h
    <3>1. PICK c \in DataPublishers :
            handle[c] = h /\ dataPc[c] \in {"sending", "waiting"} /\ result'[c] = "track"
      BY <1>3
    <3>2. dataPc[c] = "waiting" BY <1>1, <1>2, <3>1
    <3> QED BY <2>1, <3>1, <3>2 DEF Holds
  <2>2. CASE g # h BY <1>0, <1>2, <1>3, <2>2 DEF DataHeld
  <2> QED BY <2>1, <2>2
<1>10. DataActive'
  <2> SUFFICES ASSUME restorer # "due", NEW g \in active' \ (requests \cup unsent)
               PROVE  \/ Asked(TRUE, g) \/ Told("reject", g)' \/ Told("unpublish", g)'
                      \/ /\ g \in dataPubs
                         /\ Told("accept", g)' \/ trackState'[g] = "published"
    BY <1>1 DEF DataActive
  <2>1. CASE g = h BY <1>1, <1>2, <1>4, <2>1
  <2>2. CASE g # h
    <3>1. g \in active /\ g \in DataHandles BY <1>0, <1>2, <2>2, DataRanges
    <3>2. dataReader # [at |-> "complete", handle |-> g] BY DEF LDT!Rest
    <3> QED BY <1>0, <1>1, <1>2, <1>4, <2>2, <3>1, <3>2 DEF DataActive
  <2> QED BY <2>1, <2>2
<1>11. DataListed'
  <2> SUFFICES ASSUME NEW g \in dataPubs \ (doubled \cup active'), ~Told("accept", g)'
               PROVE  /\ pending'[g] = NONE
                      /\ \/ Asked(FALSE, g)
                         \/ \E d \in DataPublishers : dataPc[d] = "removed" /\ handle[d] = g
    BY <1>1 DEF DataListed
  <2>1. g # h /\ g \notin active /\ g \in DataHandles BY <1>0, <1>2, DataRanges
  <2>2. ~Told("accept", g) BY <1>1, <1>2, <2>1
  <2>3. dataReader # [at |-> "refuse", handle |-> g] BY DEF LDT!Rest
  <2> QED BY <1>0, <1>3, <2>1, <2>2, <2>3 DEF DataListed
<1> QED BY <1>1, <1>3, <1>6, <1>7, <1>8, <1>9, <1>10, <1>11 DEF DataInv

\* ... for a track the client has, or for one nobody waits for any more.
LEMMA DataConfirmed ==
  ASSUME DataInv, NEW m, m = Head(dataFromSFU), m.type = "accept",
         dataReader = LDT!Rest, dataLink = "up", dataFromSFU # <<>>, dataFromSFU' = Tail(dataFromSFU),
         UNCHANGED <<value, pending, active, trackState, sidSession, result, dataPc, handle,
                     restorer, requests, unmarked, closed, dataPubs, dataToSFU, dataLink,
                     dataSession, unsent, doubled>>,
         pending[m.handle] = NONE,
         dataReader' = [at |-> IF m.handle \in active THEN "complete" ELSE "refuse", handle |-> m.handle]
  PROVE  DataInv'
<1>0. /\ DataTyped /\ DataOwned /\ DataStates /\ DataUntouched /\ DataHeld /\ DataTold
      /\ DataActive /\ DataListed
  BY DataParts
<1>1. /\ m \in LDT!Message /\ m.handle \in DataHandles /\ m.handle <= value
      /\ dataFromSFU' \in Seq(LDT!Message) /\ Len(dataFromSFU') <= MaxInFlight
      /\ \A t \in {"accept", "reject", "unpublish"}, g \in DataHandles :
           /\ Told(t, g)' => Told(t, g)
           /\ Told(t, g) => Told(t, g)' \/ (t = m.type /\ g = m.handle)
      /\ \A p, g : Asked(p, g)' <=> Asked(p, g)
      /\ ~Untouched(m.handle)
      /\ DataTold'
  BY DataNews
<1>2. PICK h \in DataHandles : h = m.handle BY <1>1
<1>3. h \in active => dataReader' = [at |-> "complete", handle |-> h] BY <1>2
<1>4. h \notin active => dataReader' = [at |-> "refuse", handle |-> h] /\ Over(h)
  BY <1>1, <1>2 DEF Over
<1>5. DataTyped'
  <2>1. dataReader' \in [at : {"mark", "complete", "refuse"}, handle : DataHandles] BY <1>2
  <2>2. LDT!TypeOK' BY <1>0, <1>1, <2>1, DataBounds DEF DataTyped, LDT!TypeOK
  <2> QED BY <1>0, <1>1, <2>2 DEF DataTyped
<1>6. DataOwned' BY <1>0, DataOwnedSame
<1>7. DataStates'
  <2>1. \A g \in DataHandles : Over(g) => Over(g)' BY DEF Over
  <2>2. \A g \in DataHandles :
          dataReader' # LDT!Rest /\ dataReader'.at # "complete" /\ dataReader'.handle = g =>
            Over(g)'
    BY <1>2, <1>3, <1>4, <2>1
  <2>3. \A d \in DataPublishers, g \in DataHandles :
          dataPc'[d] = "removed" /\ handle'[d] = g => Over(g)'
    BY <1>0, <2>1 DEF DataStates
  <2>4. \A g \in unmarked' : Over(g)' BY <1>0, <2>1, DataRanges DEF DataStates
  <2>5. \A g \in DataHandles : Asked(FALSE, g)' => Over(g)' BY <1>0, <1>1, <2>1 DEF DataStates
  <2> QED BY <1>0, <2>2, <2>3, <2>4, <2>5 DEF DataStates
<1>8. DataUntouched'
  <2>1. \A g \in DataHandles : Untouched(g) => Untouched(g)'
    <3> SUFFICES ASSUME NEW g \in DataHandles, Untouched(g) PROVE Untouched(g)' OBVIOUS
    <3>1. g # h BY <1>1, <1>2
    <3> QED BY <1>1, <1>2, <3>1 DEF Untouched
  <2> QED BY <1>0, <2>1, DataUntouchedKept
<1>9. DataHeld' BY <1>0 DEF DataHeld, Holds
<1>10. DataActive'
  <2> SUFFICES ASSUME restorer # "due", NEW g \in active \ (requests \cup unsent)
               PROVE  \/ Asked(TRUE, g) \/ Told("reject", g)' \/ Told("unpublish", g)'
                      \/ /\ g \in dataPubs
                         /\ \/ Told("accept", g)' \/ dataReader' = [at |-> "complete", handle |-> g]
                            \/ trackState[g] = "published"
    BY <1>1 DEF DataActive
  <2>1. g \in DataHandles /\ dataReader # [at |-> "complete", handle |-> g]
    BY <1>0, DataRanges DEF LDT!Rest
  <2>2. CASE g = h
    <3>1. Told("reject", g) => Told("reject", g)' BY <1>1, <2>1
    <3>2. Told("unpublish", g) => Told("unpublish", g)' BY <1>1, <2>1
    <3> QED BY <1>0, <1>3, <2>1, <2>2, <3>1, <3>2 DEF DataActive
  <2>3. CASE g # h BY <1>0, <1>1, <1>2, <2>1, <2>3 DEF DataActive
  <2> QED BY <2>2, <2>3
<1>11. DataListed'
  <2> SUFFICES ASSUME NEW g \in dataPubs \ (doubled \cup active), ~Told("accept", g)'
               PROVE  /\ pending[g] = NONE
                      /\ \/ dataReader' = [at |-> "refuse", handle |-> g] \/ Asked(FALSE, g)
                         \/ \E d \in DataPublishers : dataPc[d] = "removed" /\ handle[d] = g
    BY <1>1 DEF DataListed
  <2>1. g \in DataHandles /\ dataReader # [at |-> "refuse", handle |-> g]
    BY <1>0, DataRanges DEF LDT!Rest
  <2>2. CASE g = h BY <1>2, <1>4, <2>2
  <2>3. CASE g # h
    <3>1. ~Told("accept", g) BY <1>1, <1>2, <2>1, <2>3
    <3> QED BY <1>0, <2>1, <3>1 DEF DataListed
  <2> QED BY <2>2, <2>3
<1> QED BY <1>1, <1>5, <1>6, <1>7, <1>8, <1>9, <1>10, <1>11 DEF DataInv

LEMMA DataResolved ==
  ASSUME DataInv, LDT!resolvePublish PROVE DataInv'
<1>1. PICK m : m = Head(dataFromSFU) OBVIOUS
<1>2. /\ UNCHANGED <<value, dataPc, handle, restorer, requests, unmarked, closed, dataPubs,
                     dataToSFU, dataLink, dataSession, unsent, doubled>>
      /\ dataReader = LDT!Rest /\ dataLink = "up" /\ dataFromSFU # <<>>
      /\ dataFromSFU' = Tail(dataFromSFU)
      /\ m.type \in {"accept", "reject"}
  BY <1>1 DEF LDT!resolvePublish, LDT!Next1, LDT!linkVars, LDT!ghostVars
<1>3. m \in LDT!Message BY <1>1, <1>2, DataHeard, DataParts
<1>4. m.handle \in DataHandles BY <1>3, DataBounds DEF LDT!Message
<1>5. pending[m.handle] # NONE => m.handle \notin active
  BY <1>4, DataParts DEF DataStates
<1>6. CASE pending[m.handle] # NONE /\ m.type = "accept"
  <2>1. /\ LDT!Deliver(m.handle, "track") /\ active' = active \cup {m.handle}
        /\ UNCHANGED dataReader
        /\ trackState' = [trackState EXCEPT ![m.handle] = "published"]
        /\ sidSession' = [sidSession EXCEPT ![m.handle] = dataSession]
    BY <1>1, <1>6 DEF LDT!resolvePublish
  <2> QED BY <1>1, <1>2, <1>6, <2>1, DataGiven
<1>7. CASE pending[m.handle] # NONE /\ m.type # "accept"
  <2>1. /\ LDT!Deliver(m.handle, "rejected") /\ UNCHANGED <<active, dataReader, trackState,
                                                            sidSession>>
    BY <1>1, <1>7 DEF LDT!resolvePublish
  <2>2. active' = active \ {m.handle} BY <1>5, <1>7, <2>1
  <2> QED BY <1>1, <1>2, <1>5, <1>7, <2>1, <2>2, DataDenied
<1>8. CASE pending[m.handle] = NONE /\ m.type = "accept"
  <2>1. /\ UNCHANGED <<pending, result, active, trackState, sidSession>>
        /\ dataReader' = [at |-> IF m.handle \in active THEN "complete" ELSE "refuse", handle |-> m.handle]
    BY <1>1, <1>8 DEF LDT!resolvePublish, LDT!RefuseLate
  <2> QED BY <1>1, <1>2, <1>8, <2>1, DataConfirmed
<1>9. CASE pending[m.handle] = NONE /\ m.type # "accept"
  <2>1. /\ UNCHANGED <<pending, result, trackState, sidSession>>
        /\ active' = active \ {m.handle}
        /\ dataReader' = IF m.handle \in active THEN [at |-> "mark", handle |-> m.handle] ELSE LDT!Rest
    BY <1>1, <1>9 DEF LDT!resolvePublish, LDT!RefuseLate
  <2> QED BY <1>1, <1>2, <1>9, <2>1, DataDenied
<1> QED BY <1>6, <1>7, <1>8, <1>9

LEMMA DataHeardEnd ==
  ASSUME DataInv, LDT!HandleUnpublishResponse PROVE DataInv'
<1>1. PICK m : m = Head(dataFromSFU) OBVIOUS
<1>2. /\ UNCHANGED <<value, trackState, sidSession, dataPc, handle, restorer, requests,
                     unmarked, closed, dataPubs, dataToSFU, dataLink, dataSession, unsent,
                     doubled>>
      /\ dataReader = LDT!Rest /\ dataLink = "up" /\ dataFromSFU # <<>>
      /\ dataFromSFU' = Tail(dataFromSFU)
      /\ m.type = "unpublish" /\ active' = active \ {m.handle}
      /\ dataReader' = IF m.handle \in active THEN [at |-> "mark", handle |-> m.handle] ELSE LDT!Rest
      /\ IF pending[m.handle] # NONE
         THEN LDT!Deliver(m.handle, "unpublished") ELSE UNCHANGED <<pending, result>>
  BY <1>1 DEF LDT!HandleUnpublishResponse, LDT!Next1, LDT!linkVars, LDT!ghostVars
<1> QED BY <1>1, <1>2, DataDenied

LEMMA DataNext == DataInv /\ LDT!Next => DataInv'
<1> SUFFICES ASSUME DataInv, LDT!Next PROVE DataInv' OBVIOUS
<1>1. ASSUME NEW c \in DataPublishers, LDT!Caller(c) PROVE DataInv'
  BY <1>1, DataPublished, DataSent, DataLeft, DataRemoved, DataUnpublished
     DEF LDT!Caller, LDT!Withdraw
<1>2. CASE LDT!SignalReader
  BY <1>2, DataResolved, DataHeardEnd, DataMarked, DataCompleted, DataRefused
     DEF LDT!SignalReader
<1>3. CASE LDT!RepublishTracks \/ LDT!Republished \/ LDT!Shutdown
  BY <1>3, DataRestored, DataRepublished, DataClosed
<1>4. ASSUME NEW h \in DataHandles,
             LDT!Republish(h) \/ LDT!ShutdownMarks(h) \/ LDT!SFUUnpublish(h)
      PROVE  DataInv'
  BY <1>4, DataRepublished, DataMarked, DataEnded
<1>5. CASE LDT!SFUServe \/ LDT!LinkFails \/ LDT!Restart
  BY <1>5, DataAnswered, DataDropped, DataRestarted
<1> QED BY <1>1, <1>2, <1>3, <1>4, <1>5, DataBounds DEF LDT!Next

LEMMA DataStill == DataInv /\ UNCHANGED dataVars => DataInv'
<1> SUFFICES ASSUME DataInv, UNCHANGED dataVars PROVE DataInv' OBVIOUS
<1>0. /\ DataTyped /\ DataOwned /\ DataStates /\ DataUntouched /\ DataHeld /\ DataTold
      /\ DataActive /\ DataListed
  BY DataParts
<1>1. UNCHANGED <<value, pending, active, trackState, sidSession, result, dataPc, handle,
                  dataReader, restorer, requests, unmarked, closed, dataPubs, dataToSFU,
                  dataFromSFU, dataLink, dataSession, unsent, doubled>>
  BY DEF dataVars
<1>2. /\ \A p, g : Asked(p, g)' <=> Asked(p, g)
      /\ \A t, g : Told(t, g)' <=> Told(t, g)
      /\ \A g : Over(g)' <=> Over(g)
  BY <1>1, DataSame DEF Over
<1>3. DataTyped' BY <1>0, <1>1 DEF DataTyped, LDT!TypeOK
<1>4. DataOwned' BY <1>0, <1>1, DataOwnedSame
<1>5. DataStates' BY <1>0, <1>1, <1>2 DEF DataStates
<1>6. DataUntouched'
  <2>1. \A g \in DataHandles : Untouched(g) => Untouched(g)' BY <1>1, <1>2 DEF Untouched
  <2> QED BY <1>0, <1>1, <2>1, DataUntouchedKept
<1>7. DataHeld' BY <1>0, <1>1 DEF DataHeld, Holds
<1>8. DataTold' BY <1>0, <1>1, DataToldSame
<1>9. DataActive' BY <1>0, <1>1, <1>2 DEF DataActive
<1>10. DataListed' BY <1>0, <1>1, <1>2 DEF DataListed
<1> QED BY <1>3, <1>4, <1>5, <1>6, <1>7, <1>8, <1>9, <1>10 DEF DataInv

LEMMA DataStep == DataInv /\ [Next]_vars => DataInv'
BY DataNext, DataStill DEF Next, vars

\* A track that is done with stays so: no step takes it up.
LEMMA DataOnceUnpublished ==
  DataInv /\ [Next]_vars =>
    \A h \in LDT!Handles : trackState[h] = "unpublished" => trackState'[h] = "unpublished"
<1> SUFFICES ASSUME DataInv, [Next]_vars, NEW h \in DataHandles, trackState[h] = "unpublished"
             PROVE  trackState'[h] = "unpublished"
  BY DataBounds
<1>0. DataTyped /\ DataStates BY DataParts
<1>1. pending[h] = NONE /\ h \notin active BY <1>0 DEF DataStates
<1>2. trackState \in [DataHandles -> {"none", "published", "republishing", "unpublished"}]
  BY <1>0, DataRanges
<1>3. CASE UNCHANGED trackState BY <1>3
<1>4. CASE \E g : trackState' = [trackState EXCEPT ![g] = "unpublished"] BY <1>2, <1>4
<1>5. CASE LDT!resolvePublish
  <2>1. CASE UNCHANGED trackState BY <2>1
  <2>2. CASE ~UNCHANGED trackState
    <3>1. /\ pending[Head(dataFromSFU).handle] # NONE
          /\ trackState' = [trackState EXCEPT ![Head(dataFromSFU).handle] = "published"]
      BY <1>5, <2>2 DEF LDT!resolvePublish
    <3> QED BY <1>1, <1>2, <3>1
  <2> QED BY <2>1, <2>2
<1>6. CASE LDT!completeRepublish
  BY <1>2, <1>6 DEF LDT!completeRepublish, LDT!Republishing
<1>7. CASE LDT!RepublishTracks
  <2>1. trackState' = [g \in DataHandles |-> IF g \in active THEN "republishing" ELSE trackState[g]]
    BY <1>7, DataBounds DEF LDT!RepublishTracks
  <2> QED BY <1>1, <2>1
<1>8. UNCHANGED trackState \/ LDT!Next BY DEF Next, vars, dataVars
<1>9. ASSUME NEW c \in DataPublishers, LDT!Caller(c)
      PROVE  UNCHANGED trackState \/ \E g : trackState' = [trackState EXCEPT ![g] = "unpublished"]
  BY <1>9 DEF LDT!Caller, LDT!Publish, LDT!SendPublish, LDT!SendPublishFails, LDT!Receive,
              LDT!ContextDone, LDT!Withdraw, LDT!Unpublish, LDT!Remove, LDT!SendUnpublish,
              LDT!markUnpublished, LDT!managerVars
<1>10. CASE LDT!SignalReader
  <2>1. CASE LDT!HandleUnpublishResponse BY <1>3, <2>1 DEF LDT!HandleUnpublishResponse
  <2>2. CASE LDT!ReaderMarks BY <1>4, <2>2 DEF LDT!ReaderMarks, LDT!markUnpublished
  <2>3. CASE LDT!ReaderRefuses BY <1>3, <2>3 DEF LDT!ReaderRefuses, LDT!managerVars
  <2> QED BY <1>5, <1>6, <1>10, <2>1, <2>2, <2>3 DEF LDT!SignalReader
<1>11. CASE LDT!Republished \/ LDT!Shutdown \/ LDT!SFUServe \/ LDT!LinkFails \/ LDT!Restart
  BY <1>3, <1>11 DEF LDT!Republished, LDT!Shutdown, LDT!SFUServe, LDT!LinkFails, LDT!Restart,
                     LDT!managerVars
<1>12. ASSUME NEW g \in DataHandles,
              LDT!Republish(g) \/ LDT!ShutdownMarks(g) \/ LDT!SFUUnpublish(g)
       PROVE  UNCHANGED trackState \/ trackState' = [trackState EXCEPT ![g] = "unpublished"]
  BY <1>12 DEF LDT!Republish, LDT!ShutdownMarks, LDT!SFUUnpublish, LDT!markUnpublished,
               LDT!managerVars
<1> QED BY <1>3, <1>4, <1>7, <1>8, <1>9, <1>10, <1>11, <1>12, DataBounds DEF LDT!Next

\* When nothing is under way both sides have the same tracks.
LEMMA DataQuiet == DataInv => LDT!Agreement
<1> SUFFICES ASSUME DataInv, LDT!Quiet
             PROVE  /\ \A h \in active \ unsent :
                         /\ trackState[h] = "published" /\ h \in dataPubs
                         /\ sidSession[h] = dataSession
                    /\ dataPubs \ doubled \subseteq active
                    /\ \A h \in active :
                         \E c \in DataPublishers : dataPc[c] = "holding" /\ handle[c] = h
  BY DEF LDT!Agreement
<1>0. DataTyped /\ DataStates /\ DataHeld /\ DataActive /\ DataListed BY DataParts
<1>1. /\ dataLink = "up" /\ dataToSFU = <<>> /\ dataFromSFU = <<>> /\ dataReader = LDT!Rest
      /\ restorer = "idle"
      /\ \A c \in DataPublishers : dataPc[c] \in {"idle", "holding"}
  BY DEF LDT!Quiet
<1>2. Len(dataToSFU) = 0 /\ Len(dataFromSFU) = 0 BY <1>1, EmptySeq
<1>3. (\A p, h : ~Asked(p, h)) /\ (\A t, h : ~Told(t, h)) BY <1>2 DEF Asked, Told
<1>4. \A h :
        /\ dataReader # [at |-> "complete", handle |-> h]
        /\ dataReader # [at |-> "refuse", handle |-> h]
  BY <1>1 DEF LDT!Rest
<1>5. requests = {} BY <1>0, <1>1 DEF DataTyped
<1>6. \A h \in active \ unsent : trackState[h] = "published" /\ h \in dataPubs
  BY <1>0, <1>1, <1>3, <1>4, <1>5 DEF DataActive
<1>7. \A h \in active \ unsent : sidSession[h] = dataSession BY <1>0, <1>1, <1>6 DEF DataStates
<1>8. dataPubs \ doubled \subseteq active BY <1>0, <1>1, <1>3, <1>4 DEF DataListed
<1>9. \A h \in active : \E c \in DataPublishers : dataPc[c] = "holding" /\ handle[c] = h
  BY <1>0, <1>1 DEF DataHeld, Holds
<1> QED BY <1>6, <1>7, <1>8, <1>9

\* Client and SFU agree on the data tracks published, and a track that ended
\* stays so, for any number of publishers, tracks, restarts and requests under way.
THEOREM DataTracksAlwaysAgree == Spec => DataTracksAgree
<1>1. DataInv => (component = "localData" =>
                    LDT!TypeOK /\ LDT!PublicationsAnswered /\ LDT!Agreement)
  BY DataQuiet DEF DataInv, DataTyped, DataOwned
<1>2. DataInv /\ [Next]_vars =>
        [\A h \in LDT!Handles : trackState[h] = "unpublished" => trackState'[h] = "unpublished"]_LDT!vars
  BY DataOnceUnpublished
<1> QED
  BY <1>1, <1>2, DataInit, DataStep, PTL DEF Spec, DataTracksAgree, LDT!UnpublishedForGood

-----------------------------------------------------------------------------
(* The remote participants, which MCRoomParticipants_proofs is about.      *)

\* Whichever component runs, what the composition does with the remote participants is what the
\* room does: what MCRoomParticipants_proofs shows of RoomSpec holds of it (room.go).
THEOREM RoomRunsBeside == Spec => RoomSpec
<1>1. Init => RP!Init BY DEF Init
<1>2. [Next]_vars => [RP!Next]_roomVars
  <2> SUFFICES ASSUME [Next]_vars PROVE RP!Next \/ UNCHANGED roomVars OBVIOUS
  <2>1. CASE UNCHANGED vars BY <2>1 DEF vars
  <2>2. CASE Next BY <2>2 DEF Next
  <2> QED BY <2>1, <2>2
<1> QED BY <1>1, <1>2, PTL DEF Spec, RoomSpec
=============================================================================
