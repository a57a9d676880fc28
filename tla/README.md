# TLA+ models of the LiveKit server SDK for Go

This directory holds TLA+ modules that model the concurrent core of the SDK and
the algorithms of its media path, TLC configurations that check them on small
instances, and proofs of their main invariants that TLAPS checks for every
instance. Paths below are relative to the repository root; `datatrack/` stands
for `internal/datatrack/`, `sync/` for `pkg/synchronizer/`.

- `tlc -workers 2 -config RTCEngine.cfg MCRTCEngine` checks a configuration.
- `tlapm RTCEngine_proofs.tla` checks the proofs of a module.
- `PROJECT.json` lists the runs, what each definition models (file and lines),
  one mutation of the model per checked property, and the hazards of the code.

## 1. The system

| Component | State it keeps | Operations | Talks to | Module |
|---|---|---|---|---|
| Connection manager (`connection_manager.go`) | connection state, recovery-worker slot, region settings, connected region | the transitions, `requestRecovery`, `recoveryWorkerShouldContinue`, `stopRecoveryWorker`, plans | called by the engine | `ConnectionManager` |
| RTC engine (`engine.go`) | `closed`, peer connections, late callbacks | `join`, `resumeConnection`, `restartConnection`, `handleDisconnect`, `OnLeave`, `Close` | connection manager, signal transport, room callbacks | `RTCEngine` |
| Signal transport (`signalling/signaltransport_websocket.go`) | websocket, reader goroutine | dial, first message, read loop, `Close`, `SendMessage` | engine, through callbacks from its reader | `RTCEngine`, `PendingRequests` |
| Room life cycle (`room.go`) | `disconnectReason`, what it told the application | `OnResuming`, `OnRestarting`, `OnRestarted`, `OnDisconnected`, `cleanup`, `ConnectionState` | application | `RTCEngine`, `ConnectionLifecycle` |
| Pending requests (`requestresponse.go`, `engine.go` 808-876) | registry, wrapping id counter, one channel per request | `newPendingRequest`, `Await`, `deliverResponse`, `abortPendingRequests` | signal reader, recovery worker, `Close` | `PendingRequests` |
| RPC (`rpc.go`, `localparticipant.go` 840-971, `room.go` 957-1005, 1557-1604) | pending acks and responses, two timers and two channels per call, registered handlers | `PerformRpc`, the handlers of acks, responses and requests, `handleParticipantDisconnected` | data channel reader, signal reader, application | `Rpc` |
| Remote data tracks (`datatrack/remote.go`) | tracks by SID and by handle; per track: subscription, waiters, streams | `Subscribe`, `Stream.Close`, publication updates, subscriber handles, `Shutdown`, resend after restart | SFU over the signal connection; two handlers | `RemoteDataTracks` |
| Local data tracks (`datatrack/local.go`) | publications, pending publish requests, handle allocator | `Publish`, `Unpublish`, the SFU's answers, `RepublishTracks`, `Shutdown` | SFU, data track sender | `LocalDataTracks` |
| Data track packets (`datatrack/packetizer.go`, `depacketizer.go`, `remote.go` 600-800) | wrapping counters, partial frames, a stream's buffer | `packetize`, `push`, `evictOldest`, `Stream.Next`, `Stream.Close` | data channel | `DataTrackFrames` |
| Data track sender (`datatracksender.go`) | freshest frame, current channel, wake-ups | `send`, `setDataChannel`, `run`, `stop` | data channel | `DataTrackSender` |
| Peer connection transport (`transport.go`) | negotiation flags, pending candidates, debounce timer | offers, answers, ICE restarts, candidates | pion, signal connection | `PublisherNegotiation` |
| Room participants (`room.go`, `participant.go`, `remoteparticipant.go`) | identity and sid maps, deferred updates, publications | participant updates, snapshots, media tracks, moves | signal reader, recovery worker | `RoomParticipants` |
| Remote publications (`publication.go`, `room.go` 748-800) | subscription, settings | `SetSubscribed`, `SetEnabled`, `SetVideoQuality`, the sync state of a resume | SFU | `TrackSubscription` |
| Local publications (`localparticipant.go`, `engine.go` 796-806, 1755-1763) | publications, senders, listeners by client id | publish, simulcast, unpublish, `republishTracks` | SFU, signal reader, recovery worker | `LocalPublications`, `BackupCodec`, `TrackMute` |
| Data streams (`streams.go`, `room.go`) | write queue, closed flags, read buffer | write, close, read | data channel, engine's `Close` | `DataStreams` |
| API failover (`failover.go`, `regionurlprovider.go`) | region cache, attempts and their contexts | a call with retries | HTTP | `Failover` |
| Local tracks (`localtrack.go`, `readersampleprovider.go`, `pkg/media/pcmlocaltrack.go`) | writer goroutines, packetizer clock, pending NAL units, PCM chunks | `Bind`, `Unbind`, `StartWrite`, `WriteSample`, `NextSample`, `WaitForPlayout` | peer connection, application | `LocalTrackWriter`, `SampleTimestamps`, `AccessUnits`, `PCMLocalTrack` |
| End-to-end encryption (`e2ee/`) | keys, cached ciphers | set and rotate keys, encrypt, decrypt | media and data paths | `FrameKeys` |
| Synchronizers (`sync/`) | start gate, per-track offsets, participants' clocks, end time | `GetPTS`, sender reports, adding and removing tracks, `End` | RTP, RTCP | `StartGate`, `TrackTimeline`, `SynchronizerEnd`, `SyncEngine`, `SyncEngineTrack`, `NtpEstimator` |
| Sample builder (`pkg/samplebuilder/`) | ring indexed by wrapping numbers | `Push`, `Pop`, `ForcePop` | RTP | `SampleBuilder` |
| Interceptors (`pkg/interceptor/`) | NACK queue, highest sequence number | packets read | RTP, RTCP | `NackGenerator` |
| API clients, cloud agents, ogg reader, tooling | none | one remote call, file parsing | | not modelled (section 8) |

The behaviours that make this system hard:

- **Goroutines that own one connection in turn.** The application's join, the
  websocket's reader, recovery workers, ICE callbacks, and the goroutine `Close`
  starts all create, replace and tear down the same websocket and peer
  connections. Only the recovery-worker slot, and `closed`, keep them apart.
- **Callbacks that run late.** `OnTransportClose` and an ICE failure are reported
  by goroutines of their own, at a time when the connection they speak of may be
  gone and another one in place.
- **State used after its lock was released.** Answers are written to a channel,
  subscription updates sent and handles released after the unlock.
- **One reader, many waiters.** Requests, subscriptions, RPC calls wait for a
  message, a timeout, their context, a restart or the end of the room, whichever
  comes first; each must get exactly one outcome and leave nothing behind.
- **A full reconnect in the middle.** A new session knows nothing of the old one:
  requests fail, subscriptions are sent again, stale messages may still arrive.
- **Numbers that wrap.** Sequence numbers, timestamps, frame numbers, request ids
  and handles are compared by differences in their own width, with packets lost,
  repeated and reordered around the wrap.

## 2. The modules

`ConnectionManager` defines one operator per critical section of
`connectionManager.mu`. It has no behaviour of its own: `RTCEngine` extends it
and calls the operators from its goroutines.

`RTCEngine` composes the connection manager, the engine, the signal transport
and the room's connection callbacks. Every goroutine has a program counter:
`App` (Room.Join), `User` (Room.Disconnect), `Reader` (the read loop), and a set
of `Workers` (the goroutines `handleDisconnect` starts). A step ends where
another goroutine can observe something: at a critical section, at an atomic, at
a channel or network operation. `conn`, `started` and `closeCbs` stand for the
websocket pointer, its reader and the readers that ended without having called
`OnTransportClose` yet; `pcState` for the primary peer connection; `view` for the
last connection callback the application saw. A join or a resume walks through
its plan: `Plan`, then per attempt `DialSucceeds` or `DialFails`, `Swap`, one of
the `First...` actions for the first message, `WaitConnected` or `WaitFails`, and
`SettleJoin` or `SettleResume`. Which message comes first, whether dials succeed,
when a websocket breaks and when the peer connection connects or fails are
choices of the environment. `Room.Join` may be called again on the same room
after it failed (`JoinAgain`).

A read loop ends in three stores (signaltransport_websocket.go:250-253), and others may
come in between: `readers[r]` is "running", "stopped" (`ReaderStops`: `isStarted` is
false, so `Close` waits no more, and `Start` may start the next loop) and "none"
(`ReaderForgets`: it clears the pointer, to whichever websocket it leads by then, and
releases the waiters). `awaited[r]` are those whose `Close` waits for r. `conn` is the
pointer; "held" says that the pointer is gone while somebody who loaded it before still
reads an open websocket, one message at the most. `ReaderForgets` is two stores in one
step: what the second does, the release of those who wait, disables nobody, and who waits
cannot move between the two. `Close` loads `isStarted` and the pointer in one step.

`handleDisconnect` and the worker's loop are `HandleDisconnect`, `Loop` to
`CloseUp`. The comment at connection_manager.go:121, "a worker is running if and
only if state requires recovery", holds only approximately: between the end of a
recovery and the release of the slot, and between giving up and closing, it does
not. `WorkerSlot` and `NoOrphanedRecovery` state what does hold.

`ConnectionLifecycle` is the abstract specification of the above: the states
`Room.ConnectionState` reports and one bit, whether somebody is responsible for
getting the connection back. `RTCEngine!Lifecycle` instantiates it with
`connectionState <- ConnectionState` (a translation of room.go:560) and
`ended <- state = "CLOSED"`.

`PendingRequests` models the registry. A request's goroutine registers, sends,
awaits and leaves; the reader takes an answer, removes the request, and writes to
its channel in a later step (`hand`); `Close` and `restartConnection` take all
channels at once and close them one by one (`aborting`). A request object is used
again by the model once nothing refers to it, so that ids really wrap. `asked`
holds what the server has been asked: an answer may come at any time afterwards,
or never.

`Rpc` models calls to one remote participant. The goroutine `PerformRpc` starts
(`Publish`, `Arm`, `StoreAck`, `StoreResponse`), the two timers, the caller, the
reader of the reliable data channel and the signal reader are separate
processes. `resolve` is cut where it stops the timers and where it writes to a
channel of one slot. `handleParticipantDisconnected` ranges over a `sync.Map`:
`due` holds the calls stored when it began, and those stored later may be seen or
missed. The same function is called by `OnRestarting` on the recovery worker after
the reader ended (room.go:1120); the model's signal reader stands for either.

`RemoteDataTracks` models `RemoteManager` and the `RemoteTrack`s together with an
SFU and the two queues between them. `Callers` are application goroutines inside
one `Subscribe` or `Stream.Close`; `Reader` handles signal messages; `Restorer`
runs `Room.OnRestarted`, when the new reader is already running. `outbox[t]` is
the track's `sendMu` with the update its holder is sending. The SFU assigns
handles as it likes among those free, publishes and unpublishes, and may restart
the session. Packets are left out: `PacketsRouted` compares the routing maps of
both sides.

The components beside the engine:

- `LocalDataTracks`: `LocalManager` and the SFU, over requests and answers of a
  session that may be replaced. A caller of `Publish` is at `send`, `receive`,
  `withdraw`...; the reader delivers or refuses an answer; the restorer runs
  `Room.OnRestarted`. What a function does after the manager's unlock (`ReaderMarks`,
  `SendUnpublish`, `ShutdownMarks`) is a step of its own.
- `RoomParticipants`: the identity map, `sidToIdentity`, `sidDefers`, the objects made
  for a participant and the publications each holds. The signal reader and the recovery
  worker go through a list of infos (`Look`, `Add`, `Update`, `Resid`,
  `runParticipantDefers`); a media track is a goroutine that looks for its participant,
  defers, or polls for its publication (`OnMediaTrack`, `Find`, `Attach`).
- `TrackSubscription`: setters change a field under the lock and send all of them after
  it. The worker that resumes goes step by step: the new connection is up (`LinkUp`), it
  waits for the peer connections (`OnResumed`), looks whether media arrived (`ReadTrack`)
  and whether the track is enabled (`ReadEnabled`), and sends (`SendSyncState`), behind
  whatever setters sent meanwhile.
- `LocalPublications`: one attempt per call of `PublishTrack` or
  `PublishSimulcastTrack`, its channel registered under the track's client id, and
  `republishTracks` on the recovery worker.
- `BackupCodec`: the SFU's quality updates against the goroutines they start, and its
  answers: the reader looks up the channel (`SFUAnswers`) and sends without the lock
  (`SendsAnswer`), whether or not the goroutine receives yet.
- `TrackMute`: `setMuted`, which takes no lock, step by step on the application's
  goroutines and on the reader, and the comparison in `updateInfo`.
- `PublisherNegotiation`: offers on the debounce timer, on spawned goroutines and on
  the recovery worker; readers of the old and the new signal connection; gathering;
  the flags `renegotiate` and `restartAfterGathering`. While the first offer is
  unanswered there is no answer to fall back to, and pion refuses an ICE restart
  (`Refuses`): the worker then goes on to a full reconnect, the gathering's goroutine
  logs it.
- `Failover`: goroutines inside `RoundTrip`, the region list they share, detached
  deadlines and the contexts of the attempts.

Data and media:

- `DataTrackFrames`: a frame's packets, a channel that loses and reorders, the
  depacketizer's partial frames with their eviction, and a stream's buffer with its
  reader. `DataTrackSender`: the goroutine behind it.
- `DataStreams`: the goroutine of the writer, the closers (application, engine,
  `onDone`), the data channel, and the room's handlers and readers. Publishing may fail,
  which the writer ignores; the channel may stop draining, and a full reconnect replaces
  it (`ReplaceChannel`), with what it held.
- `LocalTrackWriter`: the writer goroutines of a track, with the errors that end them
  (`SampleFails`); `SampleTimestamps`: the RTP timestamps of `WriteSample`, whose frame may
  be refused by the encryption, and its division of samples among packets; `AccessUnits`: NAL units to pictures; `PCMLocalTrack`:
  chunks to frames, with mute, close and `WaitForPlayout`.
- `FrameKeys`: the key read, the cipher cached and the index sent by calls between
  which keys are set and rotated. `NackGenerator`: what is asked for again.
- `SampleBuilder`: the ring of packets, with the arithmetic of 16-bit numbers in a
  smaller width; a packet's place in the stream is kept beside its number, so that
  properties can speak of the order the sender meant.
- `StartGate`, `TrackTimeline`, `SyncEngineTrack`, `NtpEstimator`: packets and sender
  reports with the places they have in the sender's media, and the time the code gives
  them. A track starts at any timestamp, with or without the pause after an adjustment
  (`throttled`) and with audio adjusted or not (`still`). Slopes are 1; the regression's answer is its truth plus a chosen error
  (`SyncEngineTrack`), or the line through the accepted reports (`NtpEstimator`).
- `SynchronizerEnd`, `SyncEngine`: registration, removal, replacement and `End` of the
  older synchronizer and of the sync engine, lock by lock. The former keeps the maps of the
  code: from a track's ID to its SSRC, from that to the participant, and there to the track.

`MCRoom`, `MCMedia` and `MCSync` bring these together for TLC. Each declares the
variables of all its components; `component`, chosen in `Init`, says which runs, the
others stay at one of their initial states, and `Next` is the disjunction of the
components' next-state relations, each guarded by its name. So a behaviour of
`MCRoom` is a behaviour of one component, unchanged, and its set of behaviours is the
union of theirs; a property says of the component that runs what that component's own
module states. The components of one sum share no state in the code beyond the signal
connection, whose failures and restarts each of them models itself.

`MCRoomParticipants`, which `MCRoom` extends, holds the part of it that is about
`RoomParticipants`, so that the longest proof sees nothing of the other components.

`MCRTCEngine`, `MCRemoteDataTracks`, `MCRpc` hold the values and symmetries of the
other runs and name the conjunctions of properties they check. Proof modules:
`RTCEngine_proofs`, `PendingRequests_proofs`, `Rpc_proofs`, `RemoteDataTracks_proofs`,
`MCRoom_proofs`, `MCRoomPublisher_proofs`, `MCRoomParticipants_proofs`, `MCMedia_proofs`. A definition named `X_Y` is a
plausible bug in `X`: the mutation of the model that some property must notice.

## 3. The runs

| Run | Question | States | Bounds |
|---|---|---|---|
| `RTCEngine` | safety and refinement of the connection life cycle | 881k | 2 worker goroutines, 2 regions, 3 faults, 2 late callbacks, `maxReconnectCount` 2 |
| `RTCEngineLive` | do recoveries and closing end | 39k | as above, 2 faults, no leave settings, `maxReconnectCount` 1 |
| `RemoteDataTracks` | maps, routes and subscriptions against the SFU | 978k | 2 track objects, 2 SIDs of one publication, 2 handles, 1 caller, 1 restart |
| `RemoteDataTracksCallers` | concurrent callers of one track | 291k | 1 SID, 2 callers, 1 restart |
| `PendingRequests` | one answer per request | 183k | 2 requests, ids 0..3, 1 restart |
| `Rpc` | one outcome per call | 102k | 1 call, 1 incoming request |
| `TrackMute` | do mutes settle | 129k | 2 callers, 3 calls, 1 mute by the SFU, 1 failure of the connection |
| `MCRoom` | does each component between the room and its servers agree with the other side | 2112k | below |
| `MCMedia` | do data and media get through | 2788k | below |
| `MCSync` | are samples whole and times steady | 620k | below |
| `NackGeneratorWrap`, `SampleBuilderGap` | expected violations, section 6 | | |

All configurations switch off TLC's deadlock check: a closed engine with nothing
left to do, a finished call or a room in which nothing more is published is a
proper end. That nobody waits for ever is stated by the liveness properties and by
`NoneStranded`, `NobodyForgotten` and `SomebodyWillAnswer`.

**What they show, component by component.**

*RTCEngine.* `WorkerSlot`: the slot is held exactly while a worker runs, and there
is never a second one. `NoOrphanedRecovery`: a connection that needs recovery has a
worker, or one that has given up and will close the engine. `JoinExclusive`: no
recovery runs beside the first join, even when a leave request arrives during it.
`SettingsFresh`: the region settings of a leave request die with the recovery they
were sent for. `OutcomeSettled` is `TornDown` (of whatever a join or a worker
creates while the engine is being closed, no reader still runs afterwards, no peer connection
lives and the transport holds no open websocket; one whose pointer a late reader cleared is
not its any more, see `WebsocketKept` in section 6) and `ViewFollows`
(after a successful recovery the last thing the application heard is that it is over).
`ReconnectHonoured`: only a join ends a requested full reconnect.
`ImplementsLifecycle`: the refinement of `ConnectionLifecycle`. `ConnectionSettles`
is the liveness of both, `RecoveryEnds` and `CloseCompletes`.

*PendingRequests.* `WrittenOnce`: a channel never has two writers to come, nor one
after it was written; a second write would block the reader or panic.
`NoneStranded`: whoever awaits is registered or somebody has its channel in hand.
`AnswersRouted`: an answer reaches the request it answers although ids wrap.
`OldSessionFailed`: a full reconnect fails what was sent before it.
`CloseReleases`: after `Close` every `Await` returns.

*Rpc.* `CallsSettled` is `SomebodyWillAnswer` (while a caller waits, a timer, a
reader, its goroutine or a filled channel is left to wake it) and `NothingLeft` (a call
that is over leaves no entry in the two maps). `AnswerBeatsTimeout`: an answer resolved
before a timer fires is not reported as a timeout. `EveryCallReturns`: liveness.

*RemoteDataTracks.* `RoutesAgree` is `DescriptorsIndexed` (the map by SID holds every
published track under its current SID), `RouteOwned` (a handle routes only to a track
that uses it, or to one whose last stream is just being closed by a caller about to
release it) and `Agreement` (as long as there was no full reconnect, the published
tracks are those of the SFU, and it serves nothing nobody wants; with a reconnect it
fails, section 6). `SubscriptionReachesSFU`: when nothing is under way the SFU serves
every subscription the client wants, whatever reconnects and withdrawals came before.
`NobodyForgotten`: every waiting `Subscribe` will be answered. `SubscriptionsFollow` is
`SubscriptionWanted` (a pending subscription has waiters, an active one has streams, and
each stream an owner who can still close it) with `SendsOrdered` and `ReleaseChecked`
(the steps taken after an unlock do not overtake or undo those of another caller).

*TrackMute.* `MuteSettles`: if mutes stop coming, the publication's flag and the SFU's
end up equal, although each side answers the other's messages; so do the track's own
flag and what the application was told, unless two calls of `setMuted` overlapped.

*MCRoom.* Each property is a comparison of the client with the SFU once nothing is
under way, after any crossing of messages, with the safety of the steps in between.
`DataTracksAgree`: what is published is the same on both sides, every `Publish` that
returned a track is one the SFU confirmed, and what ended stays ended, also when the
answer comes after the caller gave up. `ParticipantsAgree`: the room's participants,
SIDs and tracks are the SFU's, and media found its publication, except for what an update
that overtook a snapshot left behind (section 6). `PublicationsAgree`: the same
for local tracks with their senders, and the signal reader is never blocked on the
channel of a publisher. `NegotiationConverges`: the SFU ends up with the latest tracks
and with the ICE restart of the last resume, and answers meet their offers; an ICE restart
may have been overtaken by a plain offer, and nothing is said as long as pion's refusal of
one is the last that was tried.
`BackupServed`: unless an attempt failed, a backup codec asked for has been published
(`Served`); its layers are those of the last update that came after the flag was set, and all
of them before (`LayersFollow`); an attempt nobody else joined finds its answer in its
channel, however early it came, and never blocks the reader (`AnswerKept`).
`SubscriptionKept`: the SFU has the subscription and settings asked for last, unless a setter
sent while the worker held an older sync state (`outdated`), setters overlapped, a request
was lost with its connection, or the media of a subscription had not arrived (`misled`).
`FailoverBounded`: known regions are not tried twice while another is left, contexts of
finished attempts are released, a deadline covers the failover and not one attempt.

*MCMedia.* `FramesKept`: every frame received is one that was pushed, whole, and its
reader is awake; the sender sends what it kept without a further push and never tears a
frame. `StreamsWhole`: whatever is lost, what is read was published, in that order and each
chunk once (`ReadInOrder`); if nothing was lost and nobody but a task's `onDone` closed the
stream, it is all that was handed over, whole task by whole task (`ReadWhole`); until it is
closed no chunk is passed over; a trailer comes between two tasks; readers are released; the
engine's Close can go on. `MediaOut`: one live writer per bound track, unless an error ended
it or another provider's goroutine began last; PCM samples
are played in order, and who waits for the playout is woken. `PicturesTimed`:
timestamps follow durations and pauses and never go back, and until a frame is refused by the
encryption the packetizer is behind by less than a tick for each packet dropped; pictures lose no unit, hold
one picture and carry their own metadata. `KeysMatch`: labels and cached ciphers are of
the right key. `LossAsked`: what is missing is asked for, except right at the wrap.

*MCSync.* `SamplesWhole`: the builder's own invariants (`check`), whole frames in
order, and holes waited for as long as `maxLate` says. `StartSteady`: what the gate
releases at its pace has neither burst nor stall, and every packet is accounted for.
`TimelineSteady`: a correction never moves a track's time back, a report measures the
drift at its own place (with rebasing over a wrap as well; without, a report from the other
side of a wrap is never accepted), and packets of one frame share one fate. `EndsTogether`:
after `End` all registered tracks of the older synchronizer drain to one time, which is no
less than what any track had reached, unless another track's call took that one out; in the
sync engine nothing of a replaced track is left behind.
`RegressionFollowed`: a track's time stays near the wall clock and smooth under a wrong
regression, and the regression follows a clock that stepped.

Every property of a passing run is matched with a mutation of the model that a
plausible bug would be (`..._Never`, `..._KeepsSettings`, ...): TLC then finds
the property violated. Each module's type invariant is part of one of its properties.

**Bounds, and why they are enough.** `Workers` is a pool, not a limit of the code:
with two, one may run while another has given up and not yet closed the engine;
`WorkerSlot` shows that two never run at once. `MaxFaults` counts leave requests,
broken websockets, failed ICE transports and repeated joins; three of them suffice to
disturb the recovery from a disturbance. Timeouts and failing dials are not bounded.
`MaxLateCloses` bounds the readers that ended and have yet to say so. Two `Readers` are one
that runs and one that stopped and has yet to clear the pointer; a third would need another
websocket to have come and gone between two stores of the first. In
`RemoteDataTracks` each SID is published once, two of them share a publication so
that a publisher's reconnect (`reassignSID`) happens, and `MaxInFlight` bounds each
queue. `MaxID` stands for 2^32 - 1; the model lets no request live through a full
cycle of the counter between leaving and the arrival of an answer (`NotOvertaken`),
which takes 2^32 - 1 further requests. In `Rpc` calls share nothing but the readers,
so one call and one request, which may itself make that call, are enough to hold up
both; timers do not fire before the goroutine, which does no waiting in between, has
stored its handlers, and of two running timers the shorter fires first.

In the sums: **MCRoom** has two callers of data tracks, two handles and one full
reconnect (a third `Publish` finds the handles used up); one identity with two sids,
one track and one full reconnect (a participant's state depends on no other's but for
moved messages; that the leftovers of a crossing outlive a reconnect takes two of them, with
which the property holds as well, in 2920k states; the proof covers any number of all); two
local tracks, one of them simulcast, three publishing calls and one full reconnect;
two renegotiations, one candidate and two resumes, so that the readers of two
connections are alive at once; two layers and three quality updates, each of which may start
an attempt, and adding a track or sending may fail; two goroutines,
three calls of a setter and one resume; two API requests of which one has a deadline,
two hosts and two lists. Queues hold one message (`MaxInFlight`); with two,
`LocalDataTracks`, `RoomParticipants` and `LocalPublications` hold as well, in more
states. **MCMedia** has three frames of zero, one and three packets with the numbers
about to wrap and one partial frame of the four that numbers distinguish; two pushers
and two channels; two writes of two chunks, so that one may be handed over while the other closes the stream,
and one event that loses messages (an error, a channel replaced), after which only a channel
that does not drain loses more (`MaxLosses`);
two providers and three writer goroutines; seven PCM samples in frames of two; three samples
of one tick or one and a half (`Parts` 2), of which one may be refused, and three further ticks of the clock with timestamps modulo 12; five NAL units; two keys for each of two calls;
one wrap of eight sequence numbers with packets up to three places out of order.
**MCSync** has sequence numbers modulo 16, ten packets around the wrap with gaps of two
and reordering by three; five packets of the gate; the three modes of sender reports,
four ticks of the clock, times up to six and timestamps modulo 16, from 0 and from 13, so that
they wrap at the third tick; three tracks of two participants, where one takes
over an SSRC and one an ID; regressions that are right, slightly and grossly off; two
clocks and a wrap of six. The widths are the smallest in which half the circle, a gap
and a reordering are told apart: everything the code does with wrapping numbers is a
difference compared with half the circle or with a fixed distance.

## 4. Fairness

Nothing fair is assumed of servers, except where named.

- `RTCEngine!Scheduling`: goroutines that can run do run, callbacks that are due are
  delivered, and the timer of `waitUntilConnected` fires; an attempt on a *broken*
  websocket sees the read error. `ResponsiveSpec` adds that the server answers, or
  drops, each websocket it accepts, and drops one the client no longer writes to
  (`HeldBreaks`). The code needs both: it reads the first message without a deadline
  (section 6, `DeadlineHonoured`), and a reader whose websocket's pointer was cleared is
  out of `Close`'s reach, which waits for it all the same (`WebsocketKept`).
- `PendingRequests!Fairness`: the aborting loop and the reader's write go on, and a
  goroutine whose channel is ready receives. Answers may never come.
- `Rpc!Fairness`: a call's goroutine runs, timers fire, and readers finish the
  resolution they began when the channel has room. Remotes may never answer.

- `TrackMute!Fairness`: goroutines inside `setMuted` go on, the reader handles what it
  read, the SFU handles what it got, and a broken connection is resumed. It is bounded
  only in how often somebody mutes.

The properties of the sums ask for agreement whenever nothing is under way, which needs
no fairness; that each of those moments comes is left to the schedulers.
`RemoteDataTracks` has no liveness property: its `Subscribe` waits for the caller's
context, which is the caller's.

## 5. What is proved

TLAPS proves these for all values of the constants allowed by the named assumptions
(`RegionsAssumption`, `ProcsAssumption`, `RequestsAssumption`, `TracksAssumption`,
`RpcAssumption`, and `Bounds` of `MCRoom` and of `MCMedia`, which collect those of their
components): any number of workers, regions, faults, retries, requests, restarts, data
tracks, callers, handles, publishing calls, channels, frames, packets, calls, keys, layers,
providers, writers and chunks, and any width of the numbers that wrap. Two theorems have a
hypothesis of their own, `NumbersSuffice` and `~Retries`, explained where they are listed.

`RTCEngine_proofs`: `TypeCorrect` (`TypeOK`), `OneWorker` (`WorkerSlot`),
`RecoveryHasOwner` (`NoOrphanedRecovery`), `JoinUndisturbed` (`JoinExclusive`),
`SettingsEnd` (`SettingsFresh`), `ReconnectNotDowngraded` (`ReconnectHonoured`),
`Refinement` (`ImplementsLifecycle`), `OutcomeIsSettled` (`OutcomeSettled`).

The inductive invariant is `IInv == Typed /\ Protocol`. `TypeOK` alone is not
inductive: `Settle...` reads `plan[p][attempt[p]]`, so `PlanInv` adds that an attempt
under way points into its plan and that a worker inside its loop has not used up
`maxReconnectCount`. `Protocol` is the conjunction of the four safety invariants with
`JoinedFirst`: they hold only together. `requestRecovery` starts a worker when the
slot is free, so `WorkerSlot` needs to know that the slot tells the truth;
`JoinExclusive` needs that no worker runs in INITIAL; `NoOrphanedRecovery` needs that
the holder of the slot is the one who releases it. There is one lemma per group of
actions (`WorkerStepInv`, `JoinStepInv`, `FirstMessageInv`, `FirstLeaveInv`,
`ReaderStepInv`, `CloseStepInv`, `EnvironmentInv`), with facts about
`requestRecovery` stated once. The refinement is proved by mapping each change of the
connection manager's variables to an abstract action; most actions leave them alone
and are stutters. `OutcomeSettled` has two invariants of its own on top of `IInv`. `Torn`:
once `Close` tears down, no worker runs any more (it took the slot away), no peer
connection comes up, a join past its wait leaves nothing open, because it looks at
`closed` again at each place where it could, and each reader that runs is `Watched`: somebody
who closed the transport waits for it, or will; it needs `IInv` for the slot. `Reported`: a
worker at work means that the connection is not up, and whoever brings it up has told the
application or is the worker about to do so.

`PendingRequests_proofs`: `TypeCorrect`, `OneWrite` (`WrittenOnce`),
`NobodyWaitsInVain` (`NoneStranded`), `AnswerGoesToAsker` (`AnswersRouted`),
`RestartFailsOldRequests` (`OldSessionFailed`). `IInv` adds to them `Books`: the
registry holds a request only under its own id (`Indexed`), ids of live requests are
not shared (`Distinct`), a request that is over is not registered (`Gone`), and how
far `Close` and the restart are (`Phases`). `AnswersRouted` rests on `AskedByID` and
`Indexed`, `WrittenOnce` on the fact that whoever writes has first removed the request
from the registry, `OldSessionFailed` on `SentOnSession`.

`Rpc_proofs`: `CallsAreSettled` (`CallsSettled`) and `AnswersWin` (`AnswerBeatsTimeout`).
`IInv` follows a handler through its life. `Stages` ties the timers to the place of the
call's goroutine; `HandlersStored`: what a reader holds was stored before; `TimersForget`:
a timer that is over has left nothing in the maps but what the data channel's reader is
about to forget; `CallerServed`: a waiting caller whose response timer does not run has a
value in a channel or a reader that will put one there. That `resolve` stops the timers
before it writes makes `AnsweredOver` (both timers of a call answered in time are over),
and from there `TimeoutsLate`, which is `AnswerBeatsTimeout` for the channel as well as for
the outcome.

`RemoteDataTracks_proofs`: `NobodyWaitsForNothing` (`NobodyForgotten`),
`SubscriptionsReachSFU` (`SubscriptionReachesSFU`), `RoutesAlwaysAgree` (`RoutesAgree`) and
`CallersAreFollowed` (`SubscriptionsFollow`: `SubscriptionWanted`, `SendsOrdered`,
`ReleaseChecked`). `IInv` is types of the tracks, the messages and the callers, and
`Kept`: the three invariants together with `WaitersAsk` (a track's waiters are callers
that ask for it and have no answer, so whoever is told is one that still listens),
`AnswerRead` (an answer is held only by a call that will read it, so no old one is taken
for a new one), `SenderSends` (an update on its way is its sender's, at the place that
sends) and `Targeted`. They need each other: that a last waiter may withdraw is
`SubscriptionWanted`, that nobody else is left behind by it `NobodyForgotten`. Messages
are in `IInv` only so that a handle's message names a SID. There is one lemma per action
of a caller, and one each for `end` and `activate`, which every handler's step is made
of.

The two about the SFU need the messages. `MapsInv` is the maps' part: `KeysOnce` (one
published track for a publication, which is how a reconnected publisher's track keeps its
object) because a listing names a publication once (`ListsOnce`), and `RouteOwned` with the
callers that still hold a handle. `ServedInv` carries `SubscriptionReachesSFU`: `Asked`, a
wanted subscription is served, or the last request under way asks for it, or an update is
still to be sent; it survives reordering because only one update of a track is on its way
(`sendMu`), and a moved SID because no news about a publication is under way once a SID that
is still published was heard of (`NewsLast`). `FirstInv` holds until the first full
reconnect and gives `Agreement`: `PubsFollow` (the last news, or else the tracks, are as the
SFU has it) and `TakenBack` (what nobody wants is not served, or the last update takes it
back). It ends with the session because the snapshot may be older than what it undoes.

`MCRoom_proofs`: `BackupAlwaysServed` (`BackupServed`), `SubscriptionAlwaysKept`
(`SubscriptionKept`), `FailoverAlwaysBounded` (`FailoverBounded`) and
`DataTracksAlwaysAgree` (`DataTracksAgree`). All constants of the components are constants
of `MCRoom`. A step of the sum is a step of the component that runs or leaves its variables
alone, so each theorem is an invariant of one component.
- `BackupInv`: a codec that is wanted and not published is being published by one of the
  goroutines unless one failed, layers are switched off only by updates that come after the
  flag, and `AnswersPlaced`: as long as an attempt is alone its channel is the one registered
  from its registration to its end, and its answer is in one place, asked for, in the
  reader's hands, in the channel or received.
- `SubscriptionInv`: the last request under way that speaks of the subscription, and every
  sync state behind it, tell what the application wants, or, if there is no request, the SFU
  has it and every sync state under way tells it (`QueueTells`, `Follows`); the same for the
  settings, as long as setters did not overlap (`OneSetter`, `SettingsFollow`). A sync state
  that was read before a setter sent falls out of this by `outdated`.
- `ApiInv`: a request's record is consistent at each of its places (`RequestOK`): the hosts
  of its path are those it marks as tried, one context lives exactly while an attempt is
  sent or a body is open, and the list it knows is the cache's or one it fetched.
- `DataInv`: a handle is either not yet answered (`DataStates`: no state, no track), active,
  or `Over`, which is for ever. `DataActive`: an active track is one the SFU has, or a
  request or a message that settles it is on its way, or the restorer will ask for it.
  `DataListed`: what the SFU has and the client does not is being told, refused or taken
  back: an accept finds its handle pending and makes it active, or finds it over, and then
  the reader withdraws it. `DataTold` says that the last message about a handle has the
  SFU's state, except for those that the SFU doubled. `DataHeld` and `DataOwned`: an active
  track belongs to exactly one caller, so that what a caller withdraws is its own. The
  action property `UnpublishedForGood` follows from `DataStates`.

`MCRoomParticipants_proofs` has `ParticipantsAlwaysAgree` (`ParticipantsAgree`), about
`RoomSpec`, the room's component alone; `RoomRunsBeside` in `MCRoom_proofs` shows that
`MCRoom`'s `Spec` implements `RoomSpec`, and the theorem holds of it. `ParticipantInv` is
`RoomKinds`, which has the types and what a thread holds at each of its places, and for
every participant and every media track:
- `Sequential`: unless an update overtook the snapshot of a join under way, the reader and
  the worker are never both about one participant (`Alone`), and each knows what it found.
- `SidsExact`: of a participant nothing ever overtook the room knows its one SID, or
  the old one besides, between `updateInfo` and the lock taken next. `Emptied`: while a
  join is under way, whoever is still listed is being dropped by the worker.
- `Follows`, as long as nothing overtook the snapshot of this connection: `Ordered`, what
  the room has, what a thread has in hand and what is queued tell of a participant in the
  order of its sessions and versions, and with every track still published; `Ended`, what
  is told to leave is over at the SFU; `LastWord`, the last to speak of a participant (a
  queued update, or else a thread, or else the room) is as the SFU has it; `Known`, the
  room finds it by its SID, and knows no SID newer than what is still to be told.
- `FoundRight`: a media track that found its participant has the object the room has.
  `Served`: one that waits does so under the SID of the participant, and if that is in the
  room, a thread is about to run what waits.
When no update is queued and no thread at work, the room has the last word, and that is
`RoomAgrees`. The old statement of it was wrong, and the proof showed where (section 6).

`MCRoomPublisher_proofs` has the publisher's side of the same sum,
`NegotiationAlwaysConverges` (`NegotiationConverges`) and `PublicationsAlwaysAgree`
(`PublicationsAgree`, if not `Retries`: with it the property fails, section 6).
- `NegotiationInv`, with `PublishInJoin` and `BadCandidates` off (section 6):
  `OfferAnswered`, an offer outstanding has its answer on the way or will be made again
  (`Redone`: the link is down, the worker is about to restart ICE or was refused it and makes
  another peer connection, or the restart waits for the gathering), unless the gathering's
  goroutine was refused (`refused`); `LatestOffered` and `RestartOffered`, the last offer under way (or else
  the SFU) has the latest tracks and the last ICE restart, or another offer is due;
  `OneInFlight`, unless offers crossed, at most one offer of this connection is unanswered,
  and it is the latest. The last one is why answers need no ids: it is lost when an ICE
  restart replaces an offer made on the same connection.
- `PublishInv` says that there is an `own`, the track each publishing attempt is for, such
  that nine facts hold. `OnePlace`: an attempt is in one place only, before its request, in
  a queue, in the reader's hands or in its channel, so the reader, which sends on a channel
  of capacity one, never blocks. `Listening`: the listener registered for a track is that of
  the attempt asked for or answered. `Awaited`: somebody waits for an answer under way, or
  the track is given up. `OneHolder` and `WantedHeld`: a track is wanted exactly if it is
  published, being published by the worker, or yet to be published again, and it is only one
  of these. `HaveSenders`: what is published or being published has a sender, and offers
  only add to it. `ServedUp`: what the SFU has is published or about to be, and what is
  published is in the last offer, or another is due, and forwarded, or its withdrawal is on
  the way. The code does not keep the track of an attempt beyond the call, hence the
  quantifier: the proof carries `own` from step to step.

`MCMedia_proofs`: five of the six properties of `MCMedia` in full.
- `KeysAlwaysMatch` (`KeysMatch`: a frame carries the index of the key that sealed it, and
  a cipher taken from the cache is of the key its call read and no older than the call).
  `KeysInv` is types, `OwnKey` (a call that has read a key read it at its own index),
  `KeyOfBeginning` (after it began) and `BlockOfIndex` (the cached index and key belong
  together, because one pointer holds both). The fast path reads index and key from one
  value, the slow path stores what it read: the argument uses no lock of the encryptor.
- `MediaAlwaysOut` (`MediaOut`), for the writers and the PCM track. `WriterInv`: a goroutine
  that reads is the one `cancelWrite` belongs to, the one that waits holds
  `writeStartupLock` and replaces the reader only when it saw its end, and one that ended was
  cancelled, found its provider at its end, or `failed`. `RunsInv` adds who is
  replaced by whom (`Succeeded`, `WriterEnds`) and how often `onWriteComplete` was called
  (`CompletedCounted`). With one provider the newest goroutine is the one that writes; with
  two it need not be, and the proof failed there until `WriterRuns` said so: a goroutine that
  began late may be of a provider that another has overtaken (`LastProviderWins`, section 6).
  `PCMInv`: `BufferHolds`, the buffer is what was pushed and not yet played, without a gap
  and in order, and a waiter for playout is heard of.
- `LossAlwaysAsked` (`LossAsked`). `NackInv` is the property with `NewestIsHead`: the head
  is the newest packet seen. The rest is arithmetic modulo the width, in lemmas of its own:
  two numbers less than half the circle apart compare as the packets do (`NewerNumbers`,
  which needs `Reach` below half the width), and the numbers the loop names are those of
  the packets between (`LoopNames`).
- `FramesAlwaysKept` (`FramesKept`), the receiving half under `NumbersSuffice`: the packets
  of a behaviour use no sequence number twice. The hypothesis is needed: with `SeqMod` 4 and
  nine packets TLC finds a frame put together from two. In the code that takes 65,536
  packets between two of one partial frame, which by then would have been evicted unless the
  channel held a packet back as long. `ReceiveInv`: there is a sequence of all chunks made
  so far, of which the packets on their way and the partial frames are parts under their
  numbers (`NetMade`, `PartialsMade`), frame after frame (`FrameByFrame`). That a partial
  frame is finished only with all its chunks follows because its numbers run from its start
  to its end without a gap. The sending half is `WakeInv` and `FrameInv`: `SwitchNoticed` (a
  worker on another channel than the one set last has yet to look, or the token is there),
  `Resumes` (what was sent on an open channel is what precedes the packet in flight) and
  `NothingAhead` (nothing is sent on a channel before the worker is on it, so a new one
  begins with a new frame).
- `StreamsAlwaysWhole` (`StreamsWhole`), for any number of writers, writes and chunks.
  `StreamInv` follows a chunk from its caller to the application. `TasksPlaced`: a task is
  offered by one caller, the worker's, or done. `WorkerPlaced` and `FuseHeld`: the worker
  holds the lock while it waits for the channel, and of all who close at most one is within
  the fuse's `Once`. `TrailerPlaced`: so there is one trailer, and what follows it begins a
  task. `PiecesPlaced` and `WrittenUnbroken`: no chunk is sent twice, and until the fuse
  breaks none is passed over. `InOrder`: while only `onDone` closes, chunks of a task follow
  one another, and once somebody is within `Once` the worker is past its chunks.
  `ReaderPlaced`: who reads is listed, closed, or was being listed as the room was cleaned
  up. Two parts make the receiving half go through. `Ordered`, whatever is lost: what the
  reader has, and then what is on its way, was sent, and in that order. `Delivered`, as long
  as nothing was lost (`AllArrived`): it is all that was sent, without a gap, and
  what closed the reader was the trailer at the place after what it has. That the engine's
  Close is not stuck was stated with ENABLED, which is beyond the prover; it now says who can
  take a step (`WorkerGoesOn`, `CloserGoesOn`), and TLC found the two the same.

Only model-checked:
- all liveness properties, which are out of reach of the prover;
- of `MCMedia`, `PicturesTimed` (its access units are computed by a recursive function over
  the data, and induction over data is beyond these provers);
- `MCSync`, which reaches the one module with a RECURSIVE operator (`SampleBuilder`);
- `TrackMute`, whose property is one of liveness.

## 6. Where code and documents disagree

Two standard runs show a behaviour that a comment or a test says there is not:

- `NackGeneratorWrap` (`LossRequested`): nackgenerator.go:119 pushes what lies between
  two sequence numbers with `seq < header.SequenceNumber`; if the later one has wrapped,
  nothing is pushed and the packets lost around the wrap are never asked for.
- `SampleBuilderGap` (`check`): the invariant that samplebuilder.go:106 spells out, "the
  entry at tail must not be missing", fails when `Push` makes room for a packet far
  ahead by dropping a lone packet (335-349): the packet is put at the place computed
  before the drop, tail stays at an empty slot, and the next call that looks there
  dereferences nil. `MCSync` has gaps of two packets, which are handled well.

These were met too:

- `DisconnectNotLost` of `RTCEngine`, whose configuration `RTCEngineLostDisconnect.cfg` is
  kept beside the standard runs: engine.go:1006 promises to notice "a new disconnect
  [that] may have arrived while settling". If the reader ends during
  `waitUntilConnected`, `requestRecovery` sees RESUMING and a worker and does
  nothing; the worker then declares the connection restored. Nobody reads the signal
  connection any more and nothing will recover it.
- `NoSelfWait` of `Rpc`, violated with `CallOf <- MCNestedCall` in `Rpc.cfg`: an RPC handler runs on the goroutine that reads the reliable data
  channel; if it performs an RPC itself, it waits for messages behind it in the same
  channel and always ends in a connection timeout.

The following are stated as properties at the end of their module, with the line they
are taken from, and are violated there; no standard run asks for them:

| Property | Module | What the code does |
|---|---|---|
| `RearmedRecoveryKept` | `RTCEngine` | engine.go:1050 releases the slot "so a later disconnect can re-arm recovery"; the worker that gave up closes the engine all the same |
| `DeadlineHonoured` | `RTCEngine` | engine.go:309, "the caller's deadline (if any) is still honored"; after a successful dial the first message is read without one |
| `ServerReasonKept` | `RTCEngine` | room.go:1106, "the raw protocol disconnect reason reported by the server"; a worker that stops because of the server's leave request overwrites it with SIGNAL_CLOSE and reports the disconnect a second time |
| `PacketsRouted` | `RemoteDataTracks` | remote.go:272: `HandleSubscriberHandles` (256) deletes a track's former handle without asking whether it routes another track by now (`releaseHandle` does ask), and packets of a live subscription are dropped |
| `StillPublished` | `RemoteDataTracks` | remote.go:400: on a restart the reader starts (engine.go:1648) before the join response's snapshot is applied (1672), which can undo a newer update and end a published track; in `RoomParticipants` the same leaves a participant behind who is gone, and `overtaken` names those in its properties |
| `RoomAgrees` without `crossed` | `RoomParticipants` | room.go:716: of two goroutines that find a participant missing and add it under two SIDs, the second adds its SID beside the first, which only `OnParticipantUpdate` would remove (1211); so an update that crosses the snapshot leaves an old SID in `sidToIdentity` for good, also past the next full reconnect, where the participant is found and removed under its own SID only; `crossed` names those whose SIDs may be more than one |
| `AckCounts` | `Rpc` | localparticipant.go:909, 934: the request is published before the ack's handler is stored; an ack in between is discarded |
| `ResponseTimeoutClamped` | `Rpc` | rpc.go:66 says a response timeout below 8000 ms is clamped; only the value sent to the remote is, to 1 s (localparticipant.go:882-904) |
| `RemoteMuteApplied` | `TrackMute` | localparticipant.go:774: the echo of an earlier request undoes a mute by the SFU |
| `PublishedOnce` | `BackupCodec` | publication.go:478: updates that come while the backup codec is being published publish it again |
| `SubscriptionStands` | `TrackSubscription` | room.go:760 lists by whether media has arrived, so a resume may undo a subscription |
| `FreshestLast` | `DataTrackSender` | datatracksender.go:28: of two goroutines that push, the older frame may be kept |
| `NothingAfterTrailer`, `DoneMeansWritten` | `DataStreams` | streams.go:138, 151: `Close` during a task ends the stream before its chunks, and `onDone` is called all the same; so it is for a task handed over while another's `onDone` closes the stream, which `processWriteQueue` may still take (with one write a former `SentWhole` said otherwise and held) |
| `EngineCloseReturns` | `DataStreams` | with a channel that stopped draining, the engine's Close waits for the writer's lock for ever (engine.go:401) |
| `CancelForwarded` | `Failover` | failover.go:138: between two attempts nobody forwards a cancellation |
| `CompleteMeansEOF`, `LastProviderWins` | `LocalTrackWriter` | localtrack.go:94: `onWriteComplete` is called for a cancelled writer too; with two providers, goroutines may begin in the other order than they were started, and the one that is left may be of the overtaken provider |
| `KeepsUp` (with `Durations` {0, 2}) | `SampleTimestamps` | localtrack.go:458: a pause before a sample without duration is not skipped |
| `ForcedEmpty`, `MaxDelay` | `SampleBuilder` | samplebuilder.go:531, 64: a forced pop that returns nil may leave packets; a hole inside a frame is waited for longer than `maxLate` |
| `StartHolds` | `TrackTimeline` | sync/track.go:975: the residue of a quantised advance is added again with each report, and the start moves too far |
| `NothingBeyond`, `EveryTrackEnds` | `SynchronizerEnd` | sync/synchronizer.go: tracks that advance or register between End's rounds are beyond its end, or have none |
| `PullKept` | `SyncEngineTrack` | sync/syncenginetrack.go:441: a pull to the deadline is forgotten by the next time the regression gives |
| `OneReportOneVote` | `NtpEstimator` | sync/ntpestimator.go:34: copies of one outlier count as several |
| `EmptyAtEnd`, `MutedIsSilent` | `PCMLocalTrack` | pcmlocaltrack.go: a `WriteSample` that looked at `closed` or `muted` before it changed pushes after it |
| `EncryptorFresh` | `FrameKeys` | frameencryptor.go:84 compares the index only: a key set anew at the current index is never used to encrypt |
| `WebsocketKept` | `RTCEngine` | signaltransport_websocket.go:232, "close previous conn, if any": a reader that ended clears the pointer (252) after it said that it does not run (251); a websocket stored in between loses its pointer and is never closed by the client. Whoever reads it goes on for one message; a `Close` then waits (88) for a reader on a websocket it cannot reach, until the server drops it |
| `RestartTakesPlace` | `PublisherNegotiation` | transport.go:284, "restarting ICE after ICE gathering": if the first offer is still unanswered there is no current remote description (483), pion refuses the local description (507), and the goroutine only logs it |
| `SettersStand` | `TrackSubscription` | publication.go:194: a setter that sends between the reading (room.go:758-770) and the sending (798) of a resume's sync state is undone by it, though the connection is up (engine.go:1119) |
| `SwitchedOff` | `BackupCodec` | publication.go:519-531: an update that switches layers off before the flag is set is dropped, and all layers are sent until the next update |
| `ReaderFree` | `BackupCodec` | localparticipant.go:506, engine.go:1761: of two attempts the later one's channel gets both answers; if it times out with the first in it, the signal reader waits for ever on the second |
| `ReadWithoutGap` | `DataStreams` | streams.go:199 ignores that a chunk was not published (engine.go:1253-1289), and a new channel (569) does not have what the old one held: the chunk is missing between others, the trailer comes, and the reader ends as usual |
| `ErrorsOutlived` | `LocalTrackWriter` | localtrack.go:677, 692: one error of `NextSample` or `WriteSample` ends the goroutine; the track stays bound, its provider has samples, and nobody writes them |
| `InStepThroughout`, `NothingRounded` | `SampleTimestamps` | localtrack.go:522-534: a frame that cannot be encrypted has moved the packetizer but not `lastRTPTimestamp`, and the next sample skips the same gap again; 520 rounds down, so that each packet dropped may lose a part of a tick |
| `PlacedByDistance` | `TrackTimeline` | sync/track.go:529 compares 32-bit timestamps as numbers: without rebasing, a report from the other side of a wrap seems 2^32 ticks away and is refused as unacceptable (534) |
| `EveryTrackCounts` | `SynchronizerEnd` | sync/synchronizer.go:298, 304-315: a track registered under the SSRC of another takes its place, and removing an earlier track by an ID that a later one took removes the later one; the track that lost its place still gives times, and `End` does not see them |

Three constants switch off a case in which agreement fails by design or for want of a
handler: `Retries` (`LocalPublications`: an application that publishes again a track
whose answer is late, engine.go:1761, can block the signal reader), `PublishInJoin`
(`PublisherNegotiation`: the reader starts at engine.go:1649 before `SetLocalOffer` at
1656, and an answer in between is refused) and `BadCandidates` (transport.go:376: a
candidate pion refuses makes `SetRemoteDescription` return before the renegotiation).

`SubscriptionReachesSFU` leaves out a track whose SID an earlier, ended track object had
too: `sendMu` orders the updates of one `RemoteTrack`, so the last update of the ended one
may be sent after the first of its successor and undo it.

A small one that needs no model: `RegisterRpcMethod` "will overwrite any existing
callback" (room.go:957), but returns an error and keeps it (room.go:980).

## 7. Plan

What is left, in this order; modules to prove about use no RECURSIVE operator.

1. Proofs of what is only model-checked (section 5): the parts of `PicturesTimed`
   that the prover can state, and `MCSync` without its RECURSIVE operators.
2. The single-peer-connection join of `RTCEngine`, and the subscriber's side of
   `transport.go` (answers to the SFU's offers).
3. `PublisherNegotiation` and `LocalPublications` in one model: offers with the senders
   of publishes under way, over a full reconnect.
4. Active speakers, attributes, connection quality and transcriptions of the room;
   codecs other than H.264 and H.265 in the sample provider; the receiving PCM track.

## 8. Not modelled

- The opt-in `WithSinglePeerConnection` join, which creates the publisher before it
  dials (engine.go:267-300): planned. The websocket's `Start` seen half done by `Close`
  (signaltransport_websocket.go:69-74), and a `Close` that loads the flag and the pointer
  (81-83) on two sides of another goroutine's step.
- Contents of messages, URLs, tokens, SDP, media payloads and what is done to them by
  encryption, packet trailers, resamplers and codec parsers: data that the properties
  do not depend on.
- The regressions and the session's offset estimation (`ntpestimator.go` 210-330,
  `sessiontimeline.go`, `participantclock.go`): floating-point filters, out of TLC's
  reach; the models take their answer as a choice or as an exact line. The
  synchronizer's reports against a pipeline deadline are modelled, its statistics not.
- Requests that carry metadata and wait for an answer (`SetName`, `SetMetadata`,
  `SetAttributes`): each is a pending request, which is modelled.
- Backoff times and timeouts as durations: a timeout is a choice, except where two of
  them race (`Rpc`).
- The pacer and RTT interceptors, thin wrappers without state of their own.
- API clients, `auth.go`, cloud agents, the ogg reader, build files and examples: no
  state of their own beyond one remote call.
