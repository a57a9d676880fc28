------------------------------- MODULE MCRoom -------------------------------
(***************************************************************************)
(* The components between the room and the SFU that run beside the engine, *)
(* one per behaviour: each is its own specification, and what a component  *)
(* does when another one acts is in its module. A property is asked of the *)
(* component that runs; the room's is in MCRoomParticipants.               *)
(***************************************************************************)
EXTENDS MCRoomParticipants

\* Those of the components, under other names where two of them differ.
CONSTANTS
  h2, h3,       \* hosts the project has regions at
  NONE,         \* no value
  MaxRestarts,
  DataPublishers, MaxHandle,
  Publishers, Worker, Cids, Simulcast, Retries, MaxAttempts,
  PublishInJoin, BadCandidates, MaxChanges, MaxOffers, MaxCandidates, MaxResumes,
  Layers, MaxUpdates, MayFail,
  Subscribers, MaxCalls, MaxSyncs,
  Requests, Deadlines, Project, Lists, failoverMaxAttempts, DefaultTTL, CloudAPI

VARIABLES
  value, pending, active, trackState, sidSession, result, dataPc,
  handle, dataReader, restorer, requests, unmarked, closed,
  dataPubs, dataToSFU, dataFromSFU, dataLink,
  dataSession, unsent, doubled,
  publishProc, attempts, chan, listeners, publishPubs, publishSenders,
  negotiate, todo, publishReader, publishSfu, publishToSFU, publishFromSFU,
  publishLink, publishSession, publishWanted, publishLost,
  negotiateWant, negotiatePc, transport, candidates, timer, spawned,
  gatherer, worker, joining, offers, negotiateToSFU, negotiateFromSFU,
  negotiateLink, negotiateResumes, readers, negotiateSfu, negotiateAsked,
  negotiateOvertaken, latest, negotiateCrossed, negotiateRefused,
  kind, backupUpdates, backupWanted, late, disabled, published, attempt, listener,
  full, carries, backupSenders, backupAsked, failed,
  autoSubscribe, settings, subscribeProc, attached, subscribeMedia,
  subscribeSfu, subscribeToSFU, subscribeLink, calls, subscribeResumes,
  subscribeWorker, subscribeWant, subscribeCrossed, subscribeLost, misled, outdated,
  req, cache

\* Data tracks published, over full reconnects.
LDT == INSTANCE LocalDataTracks WITH
  Callers <- DataPublishers, None <- NONE,
  pc <- dataPc, reader <- dataReader,
  pubs <- dataPubs, toSFU <- dataToSFU,
  fromSFU <- dataFromSFU, link <- dataLink,
  session <- dataSession
\* Tracks published, some of them in layers.
LP == INSTANCE LocalPublications WITH
  Callers <- Publishers,
  proc <- publishProc, pubs <- publishPubs, senders <- publishSenders,
  reader <- publishReader, sfu <- publishSfu, toSFU <- publishToSFU,
  fromSFU <- publishFromSFU, link <- publishLink, session <- publishSession,
  wanted <- publishWanted, lost <- publishLost
\* Offers and answers over resumes.
PN == INSTANCE PublisherNegotiation WITH
  want <- negotiateWant, pc <- negotiatePc, toSFU <- negotiateToSFU,
  fromSFU <- negotiateFromSFU, link <- negotiateLink,
  resumes <- negotiateResumes, sfu <- negotiateSfu, asked <- negotiateAsked,
  overtaken <- negotiateOvertaken, crossed <- negotiateCrossed,
  refused <- negotiateRefused
\* Dynacast asks for the backup codec's layers.
BC == INSTANCE BackupCodec WITH
  updates <- backupUpdates, wanted <- backupWanted,
  senders <- backupSenders, asked <- backupAsked
\* Goroutines that subscribe and change settings.
TS == INSTANCE TrackSubscription WITH
  Callers <- Subscribers, MaxResumes <- MaxSyncs,
  proc <- subscribeProc, media <- subscribeMedia, sfu <- subscribeSfu,
  toSFU <- subscribeToSFU, link <- subscribeLink,
  resumes <- subscribeResumes, worker <- subscribeWorker, want <- subscribeWant,
  crossed <- subscribeCrossed, lost <- subscribeLost
\* API requests, with and without a deadline.
FO == INSTANCE Failover

ASSUME Bounds ==
  /\ LDT!LocalTracksAssumption
  /\ LP!PublicationsAssumption
  /\ PN!NegotiationAssumption
  /\ BC!BackupAssumption
  /\ TS!SubscriptionAssumption
  /\ FO!FailoverAssumption

dataVars == <<value, pending, active, trackState, sidSession, result, dataPc, handle,
              dataReader, restorer, requests, unmarked, closed, dataPubs, dataToSFU,
              dataFromSFU, dataLink, dataSession, unsent, doubled>>
publishVars == <<publishProc, attempts, chan, listeners, publishPubs,
                 publishSenders, negotiate, todo, publishReader,
                 publishSfu, publishToSFU, publishFromSFU, publishLink,
                 publishSession, publishWanted, publishLost>>
negotiateVars == <<negotiateWant, negotiatePc, transport, candidates,
                   timer, spawned, gatherer, worker, joining, offers,
                   negotiateToSFU, negotiateFromSFU, negotiateLink,
                   negotiateResumes, readers, negotiateSfu,
                   negotiateAsked, negotiateOvertaken, latest,
                   negotiateCrossed, negotiateRefused>>
backupVars == <<kind, backupUpdates, backupWanted, late, disabled, published, attempt,
                listener, full, carries, backupSenders, backupAsked, failed>>
subscribeVars == <<autoSubscribe, settings, subscribeProc, attached,
                   subscribeMedia, subscribeSfu, subscribeToSFU,
                   subscribeLink, calls, subscribeResumes, subscribeWant,
                   subscribeWorker, subscribeCrossed, subscribeLost, misled, outdated>>
apiVars == <<req, cache>>
vars == <<component, dataVars, roomVars, publishVars, negotiateVars, backupVars,
          subscribeVars, apiVars>>

Components == {"localData", "room", "publish", "negotiate", "backup",
               "subscribe", "api"}

\* A component that does not run stays in one of its initial states.
Init ==
  /\ component \in Components
  /\ LDT!Init
  /\ RP!Init
  /\ LP!Init
  /\ PN!Init /\ (component # "negotiate" => ~timer)
  /\ BC!Init /\ (component # "backup" => kind = "audio")
  /\ TS!Init /\ (component # "subscribe" => autoSubscribe)
  /\ FO!Init

Next ==
  /\ UNCHANGED component
  /\ \/ /\ component = "localData" /\ LDT!Next
        /\ UNCHANGED <<roomVars, publishVars, negotiateVars, backupVars,
                      subscribeVars, apiVars>>
     \/ /\ component = "room" /\ RP!Next
        /\ UNCHANGED <<dataVars, publishVars, negotiateVars,
                      backupVars, subscribeVars, apiVars>>
     \/ /\ component = "publish" /\ LP!Next
        /\ UNCHANGED <<dataVars, roomVars, negotiateVars, backupVars,
                      subscribeVars, apiVars>>
     \/ /\ component = "negotiate" /\ PN!Next
        /\ UNCHANGED <<dataVars, roomVars, publishVars, backupVars,
                      subscribeVars, apiVars>>
     \/ /\ component = "backup" /\ BC!Next
        /\ UNCHANGED <<dataVars, roomVars, publishVars, negotiateVars,
                      subscribeVars, apiVars>>
     \/ /\ component = "subscribe" /\ TS!Next
        /\ UNCHANGED <<dataVars, roomVars, publishVars, negotiateVars,
                      backupVars, apiVars>>
     \/ /\ component = "api" /\ FO!Next
        /\ UNCHANGED <<dataVars, roomVars, publishVars, negotiateVars,
                      backupVars, subscribeVars>>

Spec == Init /\ [][Next]_vars

\* The region lists the project may serve: of other hosts, with its own, and none.
RegionLists == {<<h2, h3>>, <<Project, h2>>, <<>>}

-----------------------------------------------------------------------------
\* When nothing is under way the client and the SFU agree on what is published, under the SIDs of
\* this session; every caller of Publish gets its answer; and a publication that ended, by an
\* answer, a withdrawal, a refusal or a shutdown, stays ended (internal/datatrack/local.go).
DataTracksAgree == /\ [](component = "localData" => LDT!TypeOK /\ LDT!PublicationsAnswered /\ LDT!Agreement)
                   /\ LDT!UnpublishedForGood

\* The signal reader is not stuck on a publisher that gave up, and after publishing, withdrawing and
\* republishing on a new connection both sides list the tracks the application wants published,
\* each with a sender (localparticipant.go, engine.go OnLocalTrackPublished).
PublicationsAgree == component = "publish" => LP!TypeOK /\ LP!ReaderFree /\ LP!PublicationsAgree

\* Offers asked for while another is unanswered, or while candidates are gathered, are made later:
\* the SFU gets the latest tracks, and the ICE restart of the last resume unless a plain offer
\* overtook it; both unless pion refused that ICE restart, the first offer being unanswered, and
\* no offer was made since.  The answer applied is the one to the latest offer, unless answers
\* crossed (transport.go 461-514 createAndSendOffer, SetRemoteDescription).
NegotiationConverges ==
  component = "negotiate" =>
    PN!TypeOK /\ PN!Converged /\ PN!RestartReachesSFU /\ PN!AnswersMatch

\* Unless an attempt failed, a backup codec the SFU asks for has been published when nothing is
\* under way; its layers are those of the last update if that came after the flag was set, and all
\* of them until one does; an attempt nobody else joined finds the SFU's answer in its channel, and
\* never blocks the signal reader (publication.go 519-542, localparticipant.go 506-577).
BackupServed == component = "backup" => BC!TypeOK /\ BC!BackupServed

\* The SFU keeps the subscription and the settings the application asked for, through resumes and
\* the sync states they send, which may cross the updates of a setter; unless a setter sent while
\* the worker held what it had read, p.track did not tell what was wanted, setters overlapped, or
\* a request was lost (publication.go SetSubscribed, updateSettings; room.go sendSyncState).
SubscriptionKept == component = "subscribe" => TS!TypeOK /\ TS!SubscriptionKept

\* An API request tries a host again only when it knows no other, keeps no attempt's context once
\* it returned, and its deadline does not cut a failover short (failover.go).
FailoverBounded ==
  component = "api" => FO!TypeOK /\ FO!FreshRegions /\ FO!ContextsReleased /\ FO!DeadlineDetached
=============================================================================
