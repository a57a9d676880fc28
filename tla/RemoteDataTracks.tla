---------------------------- MODULE RemoteDataTracks ----------------------------
(***************************************************************************)
(* Subscriptions to the data tracks of remote participants                 *)
(* (internal/datatrack/remote.go) and the SFU they are requested from.     *)
(*                                                                         *)
(* The Callers are application goroutines, each inside one Subscribe or    *)
(* Stream.Close; Reader is the goroutine that handles signal messages and  *)
(* Restorer the one that runs Room.OnRestarted after a full reconnect,     *)
(* when the new reader is already running.  A critical section of a        *)
(* track's or the manager's mutex is one step; sendMu is outbox, held from *)
(* the change of a subscription until the update it caused was written.    *)
(***************************************************************************)
EXTENDS Naturals, Sequences, FiniteSets, Functions

CONSTANTS
  Tracks,          \* bound: RemoteTracks a behaviour may create
  SIDs,            \* track SIDs, each published at most once
  Key,             \* Key[s]: the publisher and publication handle behind a SID
  Meta,            \* Meta[s]: name, schema, encoding and encryption of a SID
  Handles,         \* handles the SFU assigns to subscriptions
  Callers, Reader, Restorer,
  None,            \* no track, handle, update or answer
  MaxRestarts,     \* bound: full reconnects of a behaviour
  MaxInFlight      \* bound: unread updates and answers of a connection

Handlers == {Reader, Restorer}

ASSUME TracksAssumption ==
  /\ IsFiniteSet(Tracks) /\ IsFiniteSet(SIDs) /\ IsFiniteSet(Handles)
  /\ Reader \notin Callers /\ Restorer \notin Callers /\ Reader # Restorer
  /\ None \notin Tracks \cup SIDs \cup Handles \cup Callers \cup Handlers
  /\ None \notin {"stream", "error"}
  /\ None \notin [by : Callers \cup Handlers, sid : SIDs \cup {None}, subscribe : BOOLEAN]
  /\ SIDs \subseteq DOMAIN Key /\ SIDs \subseteq DOMAIN Meta
  /\ MaxRestarts \in Nat /\ MaxInFlight \in Nat

VARIABLES
  descriptors,   \* the manager's tracks by their current SID
  subHandles,    \* the manager's tracks by subscription handle
  created,       \* RemoteTracks made so far
  unpublished,   \* those whose fuse is broken
  sid,           \* a track's info.SID; its other metadata is that of the SID
  subscription,  \* a track's subscription state
  waiters,       \* a track's Subscribe calls waiting for the SFU
  subHandle,     \* a track's handle; meaningful while it is active
  streams,       \* a track's open streams, by the caller that owns them
  outbox,        \* the update the holder of a track's sendMu is sending
  pc, target,    \* where a caller is, and the track it is about
  answer,        \* what a caller's waiter channel holds
  released,      \* the handle a closing caller has yet to release
  todo, jobs,    \* tracks a handler has yet to resend; OnRestarted's next calls
  pubs, used,    \* SFU: the SIDs published now, and ever
  assigned,      \* SFU: the handle of each of our subscriptions
  toSFU, fromSFU, link, restarts

managerVars == <<descriptors, subHandles>>
trackVars   == <<created, unpublished, sid, subscription, waiters, subHandle, streams>>
callerVars  == <<pc, target, answer, released>>
handlerVars == <<todo, jobs>>
sfuVars     == <<pubs, used, assigned>>
linkVars    == <<link, restarts>>
vars == <<managerVars, trackVars, outbox, callerVars, handlerVars, sfuVars, toSFU, fromSFU,
          linkVars>>

Published == created \ unpublished

TypeOK ==
  /\ descriptors \in [SIDs -> Tracks \cup {None}]
  /\ subHandles \in [Handles -> Tracks \cup {None}]
  /\ created \subseteq Tracks /\ unpublished \subseteq created
  /\ sid \in [Tracks -> SIDs \cup {None}]
  /\ subscription \in [Tracks -> {"none", "pending", "active"}]
  /\ waiters \in [Tracks -> SUBSET Callers]
  /\ subHandle \in [Tracks -> Handles \cup {None}]
  /\ streams \in [Tracks -> SUBSET Callers]
  /\ \A t \in Tracks : \/ outbox[t] = None
                       \/ /\ outbox[t].by \in Callers \cup Handlers
                          /\ outbox[t].sid \in SIDs /\ outbox[t].subscribe \in BOOLEAN
  /\ pc \in [Callers -> {"idle", "requesting", "failed", "waiting", "withdrawing",
                         "withdrawn", "open", "closing", "releasing"}]
  /\ target \in [Callers -> Tracks \cup {None}]
  /\ answer \in [Callers -> {None, "stream", "error"}]
  /\ \A c \in Callers : answer[c] # None =>
       pc[c] \in {"requesting", "failed", "waiting", "withdrawn"}
  /\ released \in [Callers -> Handles \cup {None}]
  /\ todo \in [Handlers -> SUBSET Tracks]
  /\ pubs \subseteq used /\ used \subseteq SIDs
  /\ assigned \in [SIDs -> Handles \cup {None}]
  /\ link \in {"up", "down", "closed"}
  /\ restarts \in 0..MaxRestarts

Init ==
  /\ descriptors = [s \in SIDs |-> None]
  /\ subHandles = [h \in Handles |-> None]
  /\ created = {} /\ unpublished = {}
  /\ sid = [t \in Tracks |-> None]
  /\ subscription = [t \in Tracks |-> "none"]
  /\ waiters = [t \in Tracks |-> {}]
  /\ subHandle = [t \in Tracks |-> None]
  /\ streams = [t \in Tracks |-> {}]
  /\ outbox = [t \in Tracks |-> None]
  /\ pc = [c \in Callers |-> "idle"]
  /\ target = [c \in Callers |-> None]
  /\ answer = [c \in Callers |-> None]
  /\ released = [c \in Callers |-> None]
  /\ todo = [g \in Handlers |-> {}]
  /\ jobs = <<>>
  /\ pubs = {} /\ used = {} /\ assigned = [s \in SIDs |-> None]
  /\ toSFU = <<>> /\ fromSFU = <<>>
  /\ link = "up" /\ restarts = 0

-----------------------------------------------------------------------------
(* Application calls.                                                      *)

Goto(c, label) == pc' = [pc EXCEPT ![c] = label]

Queue_Unordered(t, by, subscribe) ==
  outbox' = [outbox EXCEPT ![t] = [by |-> by, sid |-> sid[t], subscribe |-> subscribe]]

\* unlockAndSend: taken with the change of the subscription, sent by Send.
Queue(t, by, subscribe) ==
  /\ outbox[t] = None
  /\ outbox' = [outbox EXCEPT ![t] = [by |-> by, sid |-> sid[t], subscribe |-> subscribe]]

\* Subscribe by a first subscriber, by one that finds the request made, and by
\* one that joins an active subscription.  Otherwise it returns an error.
SubscribeFirst(c, t) ==
  /\ subscription[t] = "none"
  /\ subscription' = [subscription EXCEPT ![t] = "pending"]
  /\ waiters' = [waiters EXCEPT ![t] = @ \cup {c}]
  /\ Queue(t, c, TRUE)
  /\ Goto(c, "requesting")
  /\ UNCHANGED streams

SubscribePending(c, t) ==
  /\ subscription[t] = "pending"
  /\ waiters' = [waiters EXCEPT ![t] = @ \cup {c}]
  /\ Goto(c, "waiting")
  /\ UNCHANGED <<subscription, streams, outbox>>

SubscribeActive(c, t) ==
  /\ subscription[t] = "active"
  /\ streams' = [streams EXCEPT ![t] = @ \cup {c}]
  /\ Goto(c, "open")
  /\ UNCHANGED <<subscription, waiters, outbox>>

Subscribe(c, t) ==
  /\ pc[c] = "idle"
  /\ t \in Published
  /\ SubscribeFirst(c, t) \/ SubscribePending(c, t) \/ SubscribeActive(c, t)
  /\ target' = [target EXCEPT ![c] = t]
  /\ UNCHANGED <<managerVars, created, unpublished, sid, subHandle, answer, released,
                 handlerVars, sfuVars, toSFU, fromSFU, linkVars>>

\* What follows a send of the caller that holds sendMu.
AfterSend(label, failed) ==
  CASE label = "requesting"  -> IF failed THEN "failed" ELSE "waiting"
    [] label = "withdrawing" -> "withdrawn"
    [] label = "closing"     -> "releasing"

\* The update is written, or lost or refused with the connection, and sendMu
\* is released.
Send(t) ==
  /\ outbox[t] # None /\ Len(toSFU) < MaxInFlight
  /\ \E failed \in (IF link = "up" THEN {FALSE} ELSE BOOLEAN) :
       pc' = IF outbox[t].by \in Callers
             THEN [pc EXCEPT ![outbox[t].by] = AfterSend(@, failed)]
             ELSE pc
  /\ toSFU' = IF link = "up"
              THEN Append(toSFU, [sid |-> outbox[t].sid, subscribe |-> outbox[t].subscribe])
              ELSE toSFU
  /\ outbox' = [outbox EXCEPT ![t] = None]
  /\ UNCHANGED <<managerVars, trackVars, target, answer, released, handlerVars, sfuVars,
                 fromSFU, linkVars>>

Answered(cs, a) == [c \in Callers |-> IF c \in cs THEN a ELSE answer[c]]

SubscribeFailed_Alone(c) ==
  /\ pc[c] = "failed"
  /\ LET t == target[c] IN
     IF subscription[t] = "pending"
     THEN /\ subscription' = [subscription EXCEPT ![t] = "none"]
          /\ answer' = Answered({c}, "error")
          /\ waiters' = [waiters EXCEPT ![t] = {}]
     ELSE UNCHANGED <<subscription, answer, waiters>>
  /\ Goto(c, "waiting")
  /\ UNCHANGED <<managerVars, created, unpublished, sid, subHandle, streams, outbox, target,
                 released, handlerVars, sfuVars, toSFU, fromSFU, linkVars>>

\* The request could not be sent: everybody who waits for it fails.
SubscribeFailed(c) ==
  /\ pc[c] = "failed"
  /\ LET t == target[c] IN
     IF subscription[t] = "pending"
     THEN /\ subscription' = [subscription EXCEPT ![t] = "none"]
          /\ answer' = Answered(waiters[t], "error")
          /\ waiters' = [waiters EXCEPT ![t] = {}]
     ELSE UNCHANGED <<subscription, answer, waiters>>
  /\ Goto(c, "waiting")
  /\ UNCHANGED <<managerVars, created, unpublished, sid, subHandle, streams, outbox, target,
                 released, handlerVars, sfuVars, toSFU, fromSFU, linkVars>>

Return(c) ==
  /\ pc[c] = "waiting"
  /\ answer[c] # None
  /\ Goto(c, IF answer[c] = "stream" THEN "open" ELSE "idle")
  /\ answer' = [answer EXCEPT ![c] = None]
  /\ UNCHANGED <<managerVars, trackVars, outbox, target, released, handlerVars, sfuVars,
                 toSFU, fromSFU, linkVars>>

removeWaiter(c, t) == waiters' = [waiters EXCEPT ![t] = @ \ {c}]

Timeout_Silent(c) ==
  /\ pc[c] = "waiting"
  /\ LET t == target[c] IN
     /\ waiters' = [waiters EXCEPT ![t] = @ \ {c}]
     /\ subscription' = [subscription EXCEPT
                           ![t] = IF @ = "pending" /\ waiters[t] \subseteq {c} THEN "none" ELSE @]
  /\ Goto(c, "withdrawn")
  /\ UNCHANGED <<managerVars, created, unpublished, sid, subHandle, streams, outbox, target,
                 answer, released, handlerVars, sfuVars, toSFU, fromSFU, linkVars>>

Timeout_KeepsWaiter(c) ==
  /\ pc[c] = "waiting"
  /\ Goto(c, "withdrawn")
  /\ UNCHANGED <<managerVars, trackVars, outbox, target, answer, released, handlerVars,
                 sfuVars, toSFU, fromSFU, linkVars>>

\* ctx ended, perhaps just after the answer came.  The last waiter withdraws
\* the request.
Timeout(c) ==
  /\ pc[c] = "waiting"
  /\ LET t == target[c] IN
     /\ removeWaiter(c, t)
     /\ IF subscription[t] = "pending" /\ waiters[t] \subseteq {c}
        THEN /\ subscription' = [subscription EXCEPT ![t] = "none"]
             /\ Queue(t, c, FALSE)
             /\ Goto(c, "withdrawing")
        ELSE /\ Goto(c, "withdrawn")
             /\ UNCHANGED <<subscription, outbox>>
  /\ UNCHANGED <<managerVars, created, unpublished, sid, subHandle, streams, target, answer,
                 released, handlerVars, sfuVars, toSFU, fromSFU, linkVars>>

\* The second look at the waiter channel: a stream that came is closed.
Withdrawn(c) ==
  /\ pc[c] = "withdrawn"
  /\ Goto(c, IF answer[c] = "stream" THEN "open" ELSE "idle")
  /\ answer' = [answer EXCEPT ![c] = None]
  /\ UNCHANGED <<managerVars, trackVars, outbox, target, released, handlerVars, sfuVars,
                 toSFU, fromSFU, linkVars>>

\* removeStream: the last stream to leave ends the subscription.
Close(c) ==
  /\ pc[c] = "open"
  /\ LET t == target[c] IN
     /\ streams' = [streams EXCEPT ![t] = @ \ {c}]
     /\ IF streams[t] = {c} /\ subscription[t] = "active"
        THEN /\ subscription' = [subscription EXCEPT ![t] = "none"]
             /\ released' = [released EXCEPT ![c] = subHandle[t]]
             /\ Queue(t, c, FALSE)
             /\ Goto(c, "closing")
        ELSE /\ Goto(c, "idle")
             /\ UNCHANGED <<subscription, released, outbox>>
  /\ UNCHANGED <<managerVars, created, unpublished, sid, waiters, subHandle, target, answer,
                 handlerVars, sfuVars, toSFU, fromSFU, linkVars>>

usesHandle(t, h) == subscription[t] = "active" /\ subHandle[t] = h

releaseHandle_Unchecked(c) ==
  /\ pc[c] = "releasing"
  /\ LET h == released[c] IN
     subHandles' = IF subHandles[h] = target[c] THEN [subHandles EXCEPT ![h] = None]
                                                ELSE subHandles
  /\ released' = [released EXCEPT ![c] = None]
  /\ Goto(c, "idle")
  /\ UNCHANGED <<descriptors, trackVars, outbox, target, answer, handlerVars, sfuVars, toSFU,
                 fromSFU, linkVars>>

releaseHandle(c) ==
  /\ pc[c] = "releasing"
  /\ LET h == released[c] IN
     subHandles' = IF subHandles[h] = target[c] /\ ~usesHandle(target[c], h)
                   THEN [subHandles EXCEPT ![h] = None]
                   ELSE subHandles
  /\ released' = [released EXCEPT ![c] = None]
  /\ Goto(c, "idle")
  /\ UNCHANGED <<descriptors, trackVars, outbox, target, answer, handlerVars, sfuVars, toSFU,
                 fromSFU, linkVars>>

-----------------------------------------------------------------------------
(* Messages of the SFU, and what a full reconnect makes of them.           *)

End_KeepsStreams(ts, err) ==
  /\ unpublished' = unpublished \cup ts
  /\ answer' = Answered(UNION {waiters[t] : t \in ts}, err)
  /\ waiters' = [t \in Tracks |-> IF t \in ts THEN {} ELSE waiters[t]]
  /\ subscription' = [t \in Tracks |-> IF t \in ts THEN "none" ELSE subscription[t]]
  /\ UNCHANGED streams

\* RemoteTrack.end, for a set of tracks.
End(ts, err) ==
  /\ unpublished' = unpublished \cup ts
  /\ answer' = Answered(UNION {waiters[t] : t \in ts}, err)
  /\ waiters' = [t \in Tracks |-> IF t \in ts THEN {} ELSE waiters[t]]
  /\ streams' = [t \in Tracks |-> IF t \in ts THEN {} ELSE streams[t]]
  /\ subscription' = [t \in Tracks |-> IF t \in ts THEN "none" ELSE subscription[t]]

DropHandles_Never(ts) == UNCHANGED subHandles

\* The manager forgets the handles of the active ones among them.
DropHandles(ts) ==
  LET dropped == {subHandle[t] : t \in {u \in ts : subscription[u] = "active"}} IN
  subHandles' = [h \in Handles |-> IF h \in dropped THEN None ELSE subHandles[h]]

\* reassignSIDLocked: the track republished under SID s with the same info.
reassignSID(t, s) == Meta[sid[t]] = Meta[s]

Republished(t, s) == t \in Published /\ Key[sid[t]] = Key[s] /\ reassignSID(t, s)

\* handlePublicationUpdates for the publishers (keys) listed, of which the
\* SIDs listed are published; handler g then resends what was reassigned.
handlePublicationUpdates(g, keys, listed) ==
  LET news  == {s \in listed : Key[s] \in keys /\ descriptors[s] = None}
      moved == {t \in Published : \E s \in news : Republished(t, s)}
      fresh == {s \in news : ~\E t \in Published : Republished(t, s)}
  IN \E make \in Injection(fresh, Tracks \ created) :
     LET made    == Range(make)
         newSID  == [t \in Tracks |->
                       CASE t \in moved -> CHOOSE s \in news : Republished(t, s)
                         [] t \in made  -> CHOOSE s \in fresh : make[s] = t
                         [] OTHER       -> sid[t]]
         ended   == {t \in Published : Key[sid[t]] \in keys /\ newSID[t] \notin listed}
         current == (Published \ ended) \cup made
     IN /\ sid' = newSID
        /\ created' = created \cup made
        /\ descriptors' = [s \in SIDs |->
                             IF \E t \in current : newSID[t] = s
                             THEN CHOOSE t \in current : newSID[t] = s ELSE None]
        /\ End(ended, "error") /\ DropHandles(ended)
        /\ todo' = [todo EXCEPT ![g] = {t \in moved : subscription[t] # "none"}]
        /\ UNCHANGED <<subHandle, outbox, pc, target, released>>

\* RemoteTrack.activate: every waiter gets a stream.
activate(t, h) ==
  /\ subHandle' = [subHandle EXCEPT ![t] = h]
  /\ subscription' = [subscription EXCEPT ![t] = "active"]
  /\ streams' = [streams EXCEPT ![t] = @ \cup waiters[t]]
  /\ answer' = Answered(waiters[t], "stream")
  /\ waiters' = [waiters EXCEPT ![t] = {}]
  /\ UNCHANGED <<created, unpublished, sid>>

\* The handle an active subscription had is forgotten.
HandleSubscriberHandles(h, s) ==
  LET t == descriptors[s] IN
  /\ IF t = None \/ subscription[t] = "none"
     THEN UNCHANGED <<subHandles, trackVars, answer>>
     ELSE /\ activate(t, h)
          /\ subHandles' = [k \in Handles |->
                              CASE k = h -> t
                                [] k # h /\ subscription[t] = "active" /\ k = subHandle[t] -> None
                                [] OTHER -> subHandles[k]]
  /\ UNCHANGED <<descriptors, outbox, pc, target, released, todo>>

Resending(g) == \E t \in Tracks : outbox[t] # None /\ outbox[t].by = g
Free(g) == todo[g] = {} /\ ~Resending(g)

\* The reader handles its next message.
Receive ==
  /\ fromSFU # <<>> /\ Free(Reader)
  /\ LET m == Head(fromSFU) IN
     \/ m.type = "update" /\ handlePublicationUpdates(Reader, {m.key}, m.listed)
     \/ m.type = "handles" /\ HandleSubscriberHandles(m.handle, m.sid)
  /\ fromSFU' = Tail(fromSFU)
  /\ UNCHANGED <<jobs, sfuVars, toSFU, linkVars>>

resendSubscription_ActiveOnly(g, t) ==
  /\ t \in todo[g] /\ ~Resending(g)
  /\ todo' = [todo EXCEPT ![g] = @ \ {t}]
  /\ IF subscription[t] = "active" THEN Queue(t, g, TRUE) ELSE UNCHANGED outbox
  /\ UNCHANGED <<managerVars, trackVars, callerVars, jobs, sfuVars, toSFU, fromSFU, linkVars>>

resendSubscription(g, t) ==
  /\ t \in todo[g] /\ ~Resending(g)
  /\ todo' = [todo EXCEPT ![g] = @ \ {t}]
  /\ IF subscription[t] # "none" THEN Queue(t, g, TRUE) ELSE UNCHANGED outbox
  /\ UNCHANGED <<managerVars, trackVars, callerVars, jobs, sfuVars, toSFU, fromSFU, linkVars>>

\* A snapshot also covers the publishers it does not list.
HandleParticipantSnapshot(keys, listed) ==
  handlePublicationUpdates(Restorer, keys \cup {Key[sid[t]] : t \in Published}, listed)

ResendSubscriptionUpdates ==
  /\ todo' = [todo EXCEPT ![Restorer] = Published]
  /\ UNCHANGED <<managerVars, trackVars, outbox, callerVars>>

\* The calls of OnRestarted.
Restore ==
  /\ jobs # <<>> /\ Free(Restorer)
  /\ LET j == Head(jobs) IN
     \/ j.type = "update" /\ handlePublicationUpdates(Restorer, j.keys, j.listed)
     \/ j.type = "snapshot" /\ HandleParticipantSnapshot(j.keys, j.listed)
     \/ j.type = "resend" /\ ResendSubscriptionUpdates
  /\ jobs' = Tail(jobs)
  /\ UNCHANGED <<sfuVars, toSFU, fromSFU, linkVars>>

Shutdown_KeepsDescriptors ==
  /\ link # "closed" /\ link' = "closed"
  /\ End(Published, "error")
  /\ subHandles' = [h \in Handles |-> None]
  /\ UNCHANGED <<descriptors, created, sid, subHandle, outbox, pc, target, released,
                 handlerVars, sfuVars, toSFU, fromSFU, restarts>>

\* Room.cleanup, while both handlers may be in the middle of their work.
Shutdown ==
  /\ link # "closed" /\ link' = "closed"
  /\ End(Published, "error")
  /\ descriptors' = [s \in SIDs |-> None]
  /\ subHandles' = [h \in Handles |-> None]
  /\ UNCHANGED <<created, sid, subHandle, outbox, pc, target, released, handlerVars, sfuVars,
                 toSFU, fromSFU, restarts>>

-----------------------------------------------------------------------------
(* The SFU and the connection to it.                                       *)

Update(key, listed) == [type |-> "update", key |-> key, listed |-> listed]

SFUUnchanged == UNCHANGED <<managerVars, trackVars, outbox, callerVars, handlerVars>>

Tell(m) == fromSFU' = IF link = "up" THEN Append(fromSFU, m) ELSE fromSFU

\* A publisher publishes; having reconnected it does so under a new SID, and
\* the subscription to the old one is gone.
SFUPublish(s) ==
  /\ s \notin used
  /\ used' = used \cup {s}
  /\ pubs' = {r \in pubs : Key[r] # Key[s]} \cup {s}
  /\ assigned' = [r \in SIDs |-> IF Key[r] = Key[s] THEN None ELSE assigned[r]]
  /\ Tell(Update(Key[s], {s}))
  /\ SFUUnchanged /\ UNCHANGED <<toSFU, linkVars>>

SFUUnpublish(s) ==
  /\ s \in pubs
  /\ pubs' = pubs \ {s}
  /\ assigned' = [assigned EXCEPT ![s] = None]
  /\ Tell(Update(Key[s], {}))
  /\ SFUUnchanged /\ UNCHANGED <<used, toSFU, linkVars>>

FreeHandles == Handles \ Range(assigned)

\* The SFU serves an update: a subscription gets a handle that is not in use.
SFUServe ==
  /\ toSFU # <<>> /\ link = "up" /\ Len(fromSFU) < MaxInFlight
  /\ LET u == Head(toSFU) IN
     CASE u.sid \notin pubs -> UNCHANGED <<assigned, fromSFU>>
       [] u.sid \in pubs /\ ~u.subscribe ->
            assigned' = [assigned EXCEPT ![u.sid] = None] /\ UNCHANGED fromSFU
       [] u.sid \in pubs /\ u.subscribe ->
            \E h \in (IF assigned[u.sid] = None THEN FreeHandles ELSE {assigned[u.sid]}) :
              /\ assigned' = [assigned EXCEPT ![u.sid] = h]
              /\ fromSFU' = Append(fromSFU, [type |-> "handles", handle |-> h, sid |-> u.sid])
  /\ toSFU' = Tail(toSFU)
  /\ SFUUnchanged /\ UNCHANGED <<pubs, used, linkVars>>

LinkFails ==
  /\ link = "up" /\ restarts < MaxRestarts
  /\ link' = "down"
  /\ UNCHANGED <<managerVars, trackVars, outbox, callerVars, handlerVars, sfuVars, toSFU,
                 fromSFU, restarts>>

\* A full reconnect: a new session with the SFU, whose JoinResponse lists the
\* publishers in the room.  The previous reader and worker are done by then.
Restart ==
  /\ link = "down" /\ link' = "up" /\ restarts' = restarts + 1
  /\ Free(Reader) /\ Free(Restorer) /\ jobs = <<>>
  /\ \E keys \in SUBSET {Key[s] : s \in SIDs} :
       /\ {Key[s] : s \in pubs} \subseteq keys
       /\ jobs' = <<[type |-> "update", keys |-> keys, listed |-> pubs],
                    [type |-> "snapshot", keys |-> keys, listed |-> pubs],
                    [type |-> "resend"]>>
  /\ assigned' = [s \in SIDs |-> None]
  /\ toSFU' = <<>> /\ fromSFU' = <<>>
  /\ UNCHANGED <<managerVars, trackVars, outbox, callerVars, todo, pubs, used>>

Next ==
  \/ \E c \in Callers : \/ \E t \in Tracks : Subscribe(c, t)
                        \/ SubscribeFailed(c) \/ Return(c) \/ Timeout(c) \/ Withdrawn(c)
                        \/ Close(c) \/ releaseHandle(c)
  \/ \E t \in Tracks : Send(t) \/ \E g \in Handlers : resendSubscription(g, t)
  \/ Receive \/ Restore \/ Shutdown
  \/ \E s \in SIDs : SFUPublish(s) \/ SFUUnpublish(s)
  \/ SFUServe \/ LinkFails \/ Restart

Spec == Init /\ [][Next]_vars

-----------------------------------------------------------------------------
(* Properties.                                                             *)

\* A published track is found under its current SID, and nothing else is: SIDs
\* reassigned or unpublished leave no entry behind (handlePublicationUpdates).
DescriptorsIndexed ==
  \A s \in SIDs, t \in Tracks : descriptors[s] = t <=> t \in Published /\ sid[t] = s

\* The manager routes a handle only to the track that uses it, or that ended
\* the subscription and is about to release the handle (removeStream).
RouteOwned ==
  \A h \in Handles : subHandles[h] # None =>
    \/ usesHandle(subHandles[h], h)
    \/ \E c \in Callers : /\ pc[c] \in {"closing", "releasing"}
                          /\ target[c] = subHandles[h] /\ released[c] = h

\* A handle the SFU assigned again while its release was under way survives
\* the release: the route of an active track is taken away only by the message
\* that moves it, by another owner of the handle, or by the end of the track.
ReleaseChecked ==
  [][\A c \in Callers : pc[c] = "releasing" /\ pc'[c] = "idle" =>
       \A h \in Handles : subHandles[h] # None /\ usesHandle(subHandles[h], h) =>
         subHandles'[h] = subHandles[h]]_vars

\* No Subscribe call is left behind: one without an answer waits on a track
\* whose request is under way (SubscribeFailed, activate and end answer all).
NobodyForgotten ==
  \A c \in Callers : pc[c] \in {"requesting", "failed", "waiting"} /\ answer[c] = None =>
    subscription[target[c]] = "pending" /\ c \in waiters[target[c]]

\* A subscription is wanted by somebody: a pending one has waiters, an active
\* one has streams, and each stream has an owner who can still close it.
SubscriptionWanted ==
  \A t \in Tracks :
    /\ subscription[t] = "pending" <=> waiters[t] # {}
    /\ subscription[t] = "active" <=> streams[t] # {}
    /\ \A c \in streams[t] :
         /\ target[c] = t
         /\ \/ pc[c] = "open"
            \/ /\ pc[c] \in {"requesting", "failed", "waiting", "withdrawn"}
               /\ answer[c] = "stream"

\* Updates of one track are sent one at a time, each by the goroutine that
\* caused it: a later change cannot overtake an earlier one (sendMu, 348).
SendsOrdered ==
  \A c \in Callers :
    pc[c] \in {"requesting", "withdrawing", "closing"} =>
      outbox[target[c]] # None /\ outbox[target[c]].by = c

\* The SFU serves what the callers, subscribing and closing at once, want served: the requests reach it
\* in the order they were decided, and a handle is released only by who ended it (remote.go
\* Subscribe, removeStream).
SubscriptionsFollow == [](SubscriptionWanted /\ SendsOrdered) /\ ReleaseChecked

\* Nothing is under way between the client and the SFU.
Quiet ==
  /\ link = "up" /\ toSFU = <<>> /\ fromSFU = <<>> /\ jobs = <<>>
  /\ \A g \in Handlers : todo[g] = {}
  /\ \A t \in Tracks : outbox[t] = None

\* Then every subscription the client wants is one the SFU serves, whatever
\* reconnects of either side, failed sends and withdrawals came before.  The
\* exception is a SID that a track which ended had too: sendMu orders the updates
\* of one RemoteTrack, so that track's last one may follow those of its successor.
SubscriptionReachesSFU ==
  Quiet =>
    \A t \in Published :
      /\ subscription[t] # "none" /\ sid[t] \in pubs
      /\ \A u \in unpublished : sid[u] # sid[t]
      => assigned[sid[t]] # None

\* Without reconnects the client and the SFU agree: the tracks published are
\* those of the SFU, and the SFU serves no subscription nobody wants.
Agreement ==
  Quiet /\ restarts = 0 =>
    /\ {sid[t] : t \in Published} = pubs
    /\ \A t \in Published : assigned[sid[t]] # None => subscription[t] # "none"

\* Between the SID index, the handles' routes and the SFU nothing is left over and nothing points to a
\* track that is gone, through unpublishing, reassigned SIDs and full reconnects (remote.go).
RoutesAgree == TypeOK /\ DescriptorsIndexed /\ RouteOwned /\ Agreement

\* "HandlePacket routes a packet received on the data channel to its track's
\* subscribers" (remote.go 272): the packets of a subscription the SFU serves
\* find the track.
PacketsRouted ==
  Quiet => \A t \in Published :
    subscription[t] = "active" /\ assigned[sid[t]] = subHandle[t] =>
      subHandles[subHandle[t]] = t

\* "Unpublished is closed once the track is no longer published, whether by
\* its publisher, the SFU, or disconnecting from the room" (remote.go 400).
StillPublished == Quiet => \A t \in unpublished : sid[t] \notin pubs

=============================================================================
