-------------------------- MODULE TrackSubscription --------------------------
(***************************************************************************)
(* One remote media track as the application subscribes to it and sets     *)
(* what it wants of it (RemoteTrackPublication, publication.go), and what  *)
(* the sync state of a resume tells the SFU about it (Room.sendSyncState). *)
(*                                                                         *)
(* The setters change a field under the publication's lock, and send all   *)
(* of them after letting go of it.  The worker that resumes reads the      *)
(* track once the new connection is up and the peer connections are back,  *)
(* and sends what it read: setters may send before it and in between.      *)
(***************************************************************************)
EXTENDS Naturals, Sequences

CONSTANTS
  Callers,              \* application goroutines
  MaxCalls, MaxResumes  \* bounds

SubscriptionAssumption == {MaxCalls, MaxResumes} \subseteq Nat

VARIABLES
  autoSubscribe, \* ConnectParams.AutoSubscribe
  settings,      \* disabled, and the quality asked for (numbered by call)
  proc,          \* each goroutine: in updateSettings, and what it read
  attached,      \* p.track: media of the track has arrived
  media,         \* media the SFU has begun to send is on its way
  sfu,           \* SFU: subscribed, settings
  toSFU, link,
  calls, resumes,
  worker,        \* resume: where it is, and what it read of the track
  want,          \* what the application asked for: subscribed or not
  crossed,       \* setters overlapped
  lost,          \* kinds of messages lost with a connection that failed
  misled,        \* the track was read for a sync state when p.track did not tell what is wanted
  outdated       \* of what kind a sync state told what no longer held when it was sent

sfuVars == <<sfu, toSFU, link>>
ghosts == <<want, crossed, lost, misled, outdated>>
vars == <<autoSubscribe, settings, proc, attached, media, sfuVars, calls, resumes, worker, ghosts>>

Settings == [disabled : BOOLEAN, quality : 0 .. MaxCalls]
Default == [disabled |-> FALSE, quality |-> 0]
Idle == [at |-> "idle", settings |-> Default]

TypeOK ==
  /\ {autoSubscribe, attached, media, want, crossed, misled} \subseteq BOOLEAN
  /\ lost \subseteq {"settings", "subscription", "sync"}
  /\ outdated \subseteq {"settings", "subscription"}
  /\ worker \in [at : {"idle", "wait", "track", "enabled", "send"}, attached : BOOLEAN, disabled : BOOLEAN]
  /\ settings \in Settings
  /\ proc \in [Callers -> [at : {"idle", "read", "send"}, settings : Settings]]
  /\ sfu \in [subscribed : BOOLEAN, settings : Settings]
  /\ link \in {"up", "down"} /\ calls \in 0 .. MaxCalls /\ resumes \in 0 .. MaxResumes

Init ==
  /\ autoSubscribe \in BOOLEAN
  /\ settings = Default /\ proc = [p \in Callers |-> Idle]
  /\ attached = FALSE /\ media = autoSubscribe
  /\ sfu = [subscribed |-> autoSubscribe, settings |-> Default]
  /\ toSFU = <<>> /\ link = "up" /\ calls = 0 /\ resumes = 0
  /\ want = autoSubscribe /\ crossed = FALSE /\ lost = {} /\ misled = FALSE /\ outdated = {}
  /\ worker = [at |-> "idle", attached |-> FALSE, disabled |-> FALSE]

Send(m) == toSFU' = IF link = "up" THEN Append(toSFU, m) ELSE toSFU

-----------------------------------------------------------------------------
(* The application.                                                        *)

Set(p, s) ==
  /\ proc[p] = Idle /\ calls < MaxCalls
  /\ calls' = calls + 1
  /\ settings' = s
  /\ proc' = [proc EXCEPT ![p].at = "read"]
  /\ crossed' = (crossed \/ \E q \in Callers : proc[q] # Idle)
  /\ UNCHANGED <<autoSubscribe, attached, media, sfuVars, resumes, worker, want, lost, misled, outdated>>

SetEnabled(p, enabled) == Set(p, [settings EXCEPT !.disabled = ~enabled])
SetVideoQuality(p) == Set(p, [settings EXCEPT !.quality = calls + 1])

\* updateSettings: all the settings are read under the lock, and then sent.
ReadSettings(p) ==
  /\ proc[p].at = "read"
  /\ proc' = [proc EXCEPT ![p] = [at |-> "send", settings |-> settings]]
  /\ UNCHANGED <<autoSubscribe, settings, attached, media, sfuVars, calls, resumes, worker, ghosts>>

SendSettings(p) ==
  /\ proc[p].at = "send"
  /\ Send([type |-> "settings", settings |-> proc[p].settings])
  /\ lost' = IF link = "down" THEN lost \union {"settings"} ELSE lost
  /\ proc' = [proc EXCEPT ![p] = Idle]
  /\ UNCHANGED <<autoSubscribe, settings, attached, media, sfu, link, calls, resumes, worker, want,
                 crossed, misled, outdated>>

SetSubscribed(p, subscribed) ==
  /\ proc[p] = Idle /\ calls < MaxCalls /\ link = "up"
  /\ calls' = calls + 1
  /\ want' = subscribed
  /\ Send([type |-> "subscription", subscribed |-> subscribed])
  /\ UNCHANGED <<autoSubscribe, settings, proc, attached, media, sfu, link, resumes, worker, crossed,
                 lost, misled, outdated>>

\* addSubscribedMediaTrack.  Nothing takes the track off again but its end.
OnMediaTrack ==
  /\ media /\ media' = FALSE
  /\ attached' = TRUE
  /\ UNCHANGED <<autoSubscribe, settings, proc, sfuVars, calls, resumes, worker, ghosts>>

-----------------------------------------------------------------------------
(* Resumes.                                                                *)

LinkFails ==
  /\ link = "up" /\ resumes < MaxResumes
  /\ link' = "down"
  /\ toSFU' = <<>>
  /\ lost' = lost \union {toSFU[i].type : i \in 1 .. Len(toSFU)}
  /\ UNCHANGED <<autoSubscribe, settings, proc, attached, media, sfu, calls, resumes, worker, want,
                 crossed, misled, outdated>>

\* Mutant: the sync state lists the tracks that are as the SFU would have them.
Listed_Swapped == worker.attached = autoSubscribe

\* The sync state lists the tracks whose subscription is not the default one.
Listed == worker.attached # autoSubscribe

\* Reconnect and Start.
LinkUp ==
  /\ link = "down" /\ worker.at = "idle"
  /\ link' = "up" /\ resumes' = resumes + 1
  /\ worker' = [worker EXCEPT !.at = "wait"]
  /\ UNCHANGED <<autoSubscribe, settings, proc, attached, media, sfu, toSFU, calls, ghosts>>

\* waitUntilConnected, and setResumed.  No sync state is sent if they fail, and if
\* nothing has been negotiated yet.
OnResumed ==
  /\ worker.at = "wait"
  /\ \E at \in {"track", "idle"} : worker' = [worker EXCEPT !.at = at]
  /\ UNCHANGED <<autoSubscribe, settings, proc, attached, media, sfuVars, calls, resumes, ghosts>>

\* sendSyncState: IsSubscribed.
ReadTrack ==
  /\ worker.at = "track"
  /\ worker' = [worker EXCEPT !.at = "enabled", !.attached = attached]
  /\ misled' = (misled \/ attached # want)
  /\ UNCHANGED <<autoSubscribe, settings, proc, attached, media, sfuVars, calls, resumes,
                 want, crossed, lost, outdated>>

\* IsEnabled.
ReadEnabled ==
  /\ worker.at = "enabled"
  /\ worker' = [worker EXCEPT !.at = "send", !.disabled = settings.disabled]
  /\ UNCHANGED <<autoSubscribe, settings, proc, attached, media, sfuVars, calls, resumes, ghosts>>

SendSyncState ==
  /\ worker.at = "send"
  /\ Send([type |-> "sync", listed |-> Listed, subscribed |-> ~autoSubscribe,
           disabled |-> worker.disabled])
  /\ lost' = IF link = "down" THEN lost \union {"sync"} ELSE lost
  /\ outdated' = outdated
       \union {k \in {"subscription"} : worker.attached # want}
       \union {k \in {"settings"} : worker.disabled /\ ~settings.disabled}
  /\ worker' = [worker EXCEPT !.at = "idle"]
  /\ UNCHANGED <<autoSubscribe, settings, proc, attached, media, sfu, link, calls, resumes,
                 want, crossed, misled>>

-----------------------------------------------------------------------------
(* The SFU: it begins to send media of a track it is told to subscribe to. *)

Subscribe(b) == media' = (media \/ (b /\ ~sfu.subscribed))

TakeSettings ==
  /\ link = "up" /\ toSFU # <<>> /\ Head(toSFU).type = "settings"
  /\ sfu' = [sfu EXCEPT !.settings = Head(toSFU).settings]
  /\ toSFU' = Tail(toSFU)
  /\ UNCHANGED <<autoSubscribe, settings, proc, attached, media, link, calls, resumes, worker, ghosts>>

TakeSubscription ==
  /\ link = "up" /\ toSFU # <<>> /\ Head(toSFU).type = "subscription"
  /\ sfu' = [sfu EXCEPT !.subscribed = Head(toSFU).subscribed]
  /\ Subscribe(Head(toSFU).subscribed)
  /\ toSFU' = Tail(toSFU)
  /\ UNCHANGED <<autoSubscribe, settings, proc, attached, link, calls, resumes, worker, ghosts>>

TakeSync ==
  /\ link = "up" /\ toSFU # <<>> /\ Head(toSFU).type = "sync"
  /\ LET m == Head(toSFU)
         b == IF m.listed THEN m.subscribed ELSE sfu.subscribed IN
     /\ sfu' = [sfu EXCEPT !.subscribed = b, !.settings.disabled = @ \/ m.disabled]
     /\ Subscribe(b)
  /\ toSFU' = Tail(toSFU)
  /\ UNCHANGED <<autoSubscribe, settings, proc, attached, link, calls, resumes, worker, ghosts>>

-----------------------------------------------------------------------------
Next ==
  \/ \E p \in Callers :
       \/ \E b \in BOOLEAN : SetEnabled(p, b) \/ SetSubscribed(p, b)
       \/ SetVideoQuality(p) \/ ReadSettings(p) \/ SendSettings(p)
  \/ OnMediaTrack \/ LinkFails
  \/ LinkUp \/ OnResumed \/ ReadTrack \/ ReadEnabled \/ SendSyncState
  \/ TakeSettings \/ TakeSubscription \/ TakeSync

Spec == Init /\ [][Next]_vars

-----------------------------------------------------------------------------
Quiet == link = "up" /\ toSFU = <<>> /\ ~media /\ \A p \in Callers : proc[p] = Idle

\* Through resumes, the SFU keeps the subscription the application asked for,
\* and its settings, unless setters overlapped, a request was lost with a
\* connection, p.track told the sync state something else than was wanted, or a
\* setter sent between the reading of the track and the sending of what was read.
SubscriptionKept ==
  Quiet => /\ ~misled /\ "subscription" \notin lost \union outdated => sfu.subscribed = want
           /\ ~crossed /\ "settings" \notin lost \union outdated => sfu.settings = settings

\* SetSubscribed "subscribes or unsubscribes from this track" (publication.go
\* 170), for good: a resume does not change what reached the SFU.
SubscriptionStands == Quiet /\ lost = {} => sfu.subscribed = want

\* SetEnabled "enables or disables the track" (publication.go 194), also while the
\* worker holds a sync state that it has read and not sent.
SettersStand ==
  Quiet /\ lost = {} /\ ~misled /\ ~crossed => sfu.subscribed = want /\ sfu.settings = settings
=============================================================================
