---------------------------- MODULE LocalPublications ----------------------------
(***************************************************************************)
(* The media tracks the local participant publishes (localparticipant.go), *)
(* the listeners that bring the SFU's answers to the publishers            *)
(* (engine.go), and the SFU.                                               *)
(*                                                                         *)
(* PublishTrack runs on application goroutines, and on the recovery worker *)
(* when a full reconnect republishes everything.  Each call is an attempt  *)
(* with a channel of its own; the SFU's SID of a track is named by the     *)
(* attempt that asked for it.  Offers are made some time after Negotiate,  *)
(* of the senders the peer connection has by then.                         *)
(***************************************************************************)
EXTENDS Naturals, Sequences

CONSTANTS
  Callers, Worker,  \* application goroutines, the recovery worker
  Cids,             \* the local tracks, by client id
  Simulcast,        \* those published with PublishSimulcastTrack
  Retries,          \* does the application retry a track whose publishing failed?
  MaxAttempts,      \* bound: publishing calls
  MaxRestarts,      \* bound: full reconnects
  MaxInFlight       \* bound: unread requests and answers of a connection

PublicationsAssumption ==
  /\ Simulcast \subseteq Cids /\ Retries \in BOOLEAN /\ Worker \notin Callers
  /\ MaxAttempts \in Nat /\ MaxRestarts \in Nat /\ MaxInFlight \in Nat \ {0}

Procs == Callers \cup {Worker}
Attempts == 1 .. MaxAttempts
None == 0

VARIABLES
  proc,        \* each goroutine: where it is, its attempt, track and peer connection
  attempts,    \* publishing calls so far
  chan,        \* what each attempt's channel holds: an SID or None
  listeners,   \* engine.trackPublishedListeners: track -> attempt
  pubs,        \* LocalParticipant.tracks: SID -> track
  senders, negotiate, \* the publisher's peer connection: its senders (by attempt); an offer is due
  todo,        \* worker: tracks yet to republish
  reader,      \* signal reader: the listener and answer it is delivering
  sfu,         \* SFU: the tracks of this session, SID -> track and whether offered
  toSFU, fromSFU, link, session,
  wanted,      \* tracks published and not unpublished since
  lost         \* tracks whose publishing failed or straddled a full reconnect

clientVars == <<chan, listeners, pubs, senders, negotiate>>
linkVars == <<toSFU, fromSFU, link, session>>
ghosts == <<wanted, lost>>
vars == <<proc, attempts, clientVars, todo, reader, sfu, linkVars, ghosts>>

Rest == [at |-> "idle", k |-> None, cid |-> None, session |-> 0]

\* Publications and the SFU's tracks, as sets of records.
pub(k, c) == [sid |-> k, cid |-> c]

TypeOK ==
  /\ \A p \in Procs :
       /\ proc[p].at \in {"idle", "register", "send", "wait", "add", "unregister", "republish"}
       /\ proc[p].at = "idle" => proc[p] = Rest
  /\ attempts \in 0 .. MaxAttempts
  /\ chan \in [Attempts -> 0 .. MaxAttempts]
  /\ listeners \in [Cids -> 0 .. MaxAttempts]
  /\ pubs \subseteq [sid : Attempts, cid : Cids]
  /\ senders \subseteq Attempts /\ negotiate \in BOOLEAN /\ todo \subseteq Cids
  /\ reader.to \in 0 .. MaxAttempts
  /\ sfu.tracks \subseteq [sid : Attempts, cid : Cids] /\ sfu.offered \subseteq Attempts
  /\ Len(toSFU) <= MaxInFlight /\ Len(fromSFU) <= MaxInFlight
  /\ link \in {"up", "down"} /\ session \in 0 .. MaxRestarts
  /\ wanted \subseteq Cids /\ lost \subseteq Cids

Init ==
  /\ proc = [p \in Procs |-> Rest] /\ attempts = 0
  /\ chan = [k \in Attempts |-> None] /\ listeners = [c \in Cids |-> None]
  /\ pubs = {} /\ senders = {} /\ negotiate = FALSE /\ todo = {}
  /\ reader = [to |-> None, sid |-> None]
  /\ sfu = [tracks |-> {}, offered |-> {}]
  /\ toSFU = <<>> /\ fromSFU = <<>> /\ link = "up" /\ session = 0
  /\ wanted = {} /\ lost = {}

-----------------------------------------------------------------------------
(* PublishTrack and PublishSimulcastTrack.                                 *)

Goto(p, at) == proc' = [proc EXCEPT ![p].at = at]
Done(p) == proc' = [proc EXCEPT ![p] = IF p = Worker THEN [Rest EXCEPT !.at = "republish"] ELSE Rest]

Send(m) ==
  IF link = "up" THEN Len(toSFU) < MaxInFlight /\ toSFU' = Append(toSFU, m) ELSE UNCHANGED toSFU

\* AddTrack on the peer connection of now; the layers of a simulcast track are
\* encodings of one sender.
AddTrack(p, c) ==
  /\ attempts < MaxAttempts
  /\ attempts' = attempts + 1
  /\ proc' = [proc EXCEPT ![p] = [at |-> "register", k |-> attempts + 1, cid |-> c,
                                  session |-> session]]
  /\ senders' = senders \cup {attempts + 1}

prepareTrackPublication(p, c) == c \notin Simulcast /\ AddTrack(p, c)
prepareSimulcastTrackPublication(p, c) == c \in Simulcast /\ AddTrack(p, c)

\* The application publishes a track it does not have published.
Unpublished(c) ==
  /\ \A q \in Procs : proc[q].cid # c
  /\ c \notin todo /\ (Retries \/ c \notin lost) /\ \A t \in pubs : t.cid # c

PublishTrack(p, c) ==
  /\ p # Worker /\ proc[p] = Rest /\ Unpublished(c)
  /\ prepareTrackPublication(p, c)
  /\ UNCHANGED <<chan, listeners, pubs, negotiate, todo, reader, sfu, linkVars, ghosts>>

PublishSimulcastTrack(p, c) ==
  /\ p # Worker /\ proc[p] = Rest /\ Unpublished(c)
  /\ prepareSimulcastTrackPublication(p, c)
  /\ UNCHANGED <<chan, listeners, pubs, negotiate, todo, reader, sfu, linkVars, ghosts>>

RegisterTrackPublishedListener(p) ==
  /\ proc[p].at = "register"
  /\ listeners' = [listeners EXCEPT ![proc[p].cid] = proc[p].k]
  /\ Goto(p, "send")
  /\ UNCHANGED <<attempts, chan, pubs, senders, negotiate, todo, reader, sfu, linkVars, ghosts>>

\* A track is negotiated at once, a simulcast track when the SFU has answered.
Negotiate(p, early) ==
  negotiate' = (negotiate \/ (proc[p].session = session /\ early = (proc[p].cid \notin Simulcast)))

SendAddTrack(p) ==
  /\ proc[p].at = "send"
  /\ Send([type |-> "add", sid |-> proc[p].k, cid |-> proc[p].cid, set |-> {}])
  /\ IF link = "up"
     THEN Goto(p, "wait") /\ Negotiate(p, TRUE)
     ELSE Goto(p, "unregister") /\ UNCHANGED negotiate
  /\ lost' = IF link = "up" /\ proc[p].session = session THEN lost ELSE lost \cup {proc[p].cid}
  /\ UNCHANGED <<attempts, chan, listeners, pubs, senders, todo, reader, sfu, fromSFU, link,
                 session, wanted>>

Answered(p) ==
  /\ proc[p].at = "wait" /\ chan[proc[p].k] # None
  /\ proc' = [proc EXCEPT ![p].at = "add", ![p].k = chan[proc[p].k]]
  /\ chan' = [chan EXCEPT ![proc[p].k] = None]
  /\ UNCHANGED <<attempts, listeners, pubs, senders, negotiate, todo, reader, sfu, linkVars,
                 ghosts>>

\* ErrTrackPublishTimeout: the sender stays, and so may the SFU's track.
TimesOut(p) ==
  /\ proc[p].at = "wait"
  /\ Goto(p, "unregister")
  /\ lost' = lost \cup {proc[p].cid}
  /\ UNCHANGED <<attempts, clientVars, todo, reader, sfu, linkVars, wanted>>

addPublication(p) ==
  /\ proc[p].at = "add"
  /\ pubs' = {t \in pubs : t.sid # proc[p].k} \cup {pub(proc[p].k, proc[p].cid)}
  /\ wanted' = wanted \cup {proc[p].cid}
  /\ Negotiate(p, FALSE)
  /\ lost' = IF proc[p].session = session THEN lost ELSE lost \cup {proc[p].cid}
  /\ Goto(p, "unregister")
  /\ UNCHANGED <<attempts, chan, listeners, senders, todo, reader, sfu, linkVars>>

UnregisterTrackPublishedListener(p) ==
  /\ proc[p].at = "unregister"
  /\ listeners' = [listeners EXCEPT ![proc[p].cid] = None]
  /\ Done(p)
  /\ lost' = IF proc[p].session = session THEN lost ELSE lost \cup {proc[p].cid}
  /\ UNCHANGED <<attempts, chan, pubs, senders, negotiate, todo, reader, sfu, linkVars, wanted>>

-----------------------------------------------------------------------------
(* UnpublishTrack, by the application or the reader.                       *)

\* LocalTrackPublication.unpublish: the sender of the track, if it is one of
\* this peer connection's.
unpublish(t) == senders' = senders \ {t.sid}

removed(t) ==
  /\ pubs' = pubs \ {t}
  /\ unpublish(t)
  /\ negotiate' = TRUE
  /\ wanted' = wanted \ {t.cid}

UnpublishTrack(p, t) ==
  /\ p # Worker /\ proc[p] = Rest /\ t \in pubs
  /\ removed(t)
  /\ UNCHANGED <<proc, attempts, chan, listeners, todo, reader, sfu, linkVars, lost>>

-----------------------------------------------------------------------------
(* The signal reader.                                                      *)

Answer(type) ==
  /\ link = "up" /\ reader.to = None /\ fromSFU # <<>> /\ Head(fromSFU).type = type
  /\ fromSFU' = Tail(fromSFU)

\* Mutant: the channels have no slot, so that a publisher must be waiting.
Slot_Not(k) == chan[k] = None /\ \E p \in Procs : proc[p].k = k /\ proc[p].at = "wait"

\* Each attempt's channel has one slot.
Slot(k) == chan[k] = None

\* engine.OnLocalTrackPublished: look the listener up, then write to its channel.
OnLocalTrackPublished ==
  /\ Answer("published")
  /\ reader' = [to |-> listeners[Head(fromSFU).cid], sid |-> Head(fromSFU).sid]
  /\ UNCHANGED <<proc, attempts, clientVars, todo, sfu, toSFU, link, session, ghosts>>

Deliver ==
  /\ reader.to # None /\ Slot(reader.to)
  /\ chan' = [chan EXCEPT ![reader.to] = reader.sid]
  /\ reader' = [to |-> None, sid |-> None]
  /\ UNCHANGED <<proc, attempts, listeners, pubs, senders, negotiate, todo, sfu, linkVars, ghosts>>

\* UnpublishTrack knows only what addPublication has listed: an end that
\* overtakes the publisher is lost.
OnLocalTrackUnpublished ==
  /\ Answer("unpublished")
  /\ \/ \E t \in pubs : t.sid = Head(fromSFU).sid /\ removed(t) /\ UNCHANGED lost
     \/ /\ \A t \in pubs : t.sid # Head(fromSFU).sid
        /\ lost' = lost \cup {c \in Cids : c = Head(fromSFU).cid /\ \E p \in Procs : proc[p].cid = c}
        /\ UNCHANGED <<pubs, senders, negotiate, wanted>>
  /\ UNCHANGED <<proc, attempts, chan, listeners, todo, reader, sfu, toSFU, link, session>>

-----------------------------------------------------------------------------
(* Offers, full reconnects.                                                *)

Offer ==
  /\ negotiate /\ link = "up"
  /\ negotiate' = FALSE
  /\ Send([type |-> "offer", sid |-> None, cid |-> None, set |-> senders])
  /\ UNCHANGED <<proc, attempts, chan, listeners, pubs, senders, todo, reader, sfu, fromSFU, link,
                 session, ghosts>>

LinkFails ==
  /\ link = "up" /\ session < MaxRestarts /\ proc[Worker] = Rest
  /\ link' = "down" /\ toSFU' = <<>> /\ fromSFU' = <<>>
  /\ UNCHANGED <<proc, attempts, clientVars, todo, reader, sfu, session, ghosts>>

\* Mutant: a full reconnect leaves the old publications listed.
forget_Not == UNCHANGED pubs

\* republishTracks begins: new peer connections, a new session, and every
\* publication taken off the books.
forget == pubs' = {}

republishTracks ==
  /\ link = "down" /\ reader.to = None
  /\ link' = "up" /\ session' = session + 1
  /\ sfu' = [tracks |-> {}, offered |-> {}]
  /\ senders' = {} /\ negotiate' = FALSE
  /\ todo' = {t.cid : t \in pubs}
  /\ forget
  /\ proc' = [proc EXCEPT ![Worker] = [Rest EXCEPT !.at = "republish"]]
  /\ UNCHANGED <<attempts, chan, listeners, reader, toSFU, fromSFU, ghosts>>

Republish(c) ==
  /\ proc[Worker].at = "republish" /\ c \in todo
  /\ todo' = todo \ {c}
  /\ prepareTrackPublication(Worker, c) \/ prepareSimulcastTrackPublication(Worker, c)
  /\ UNCHANGED <<chan, listeners, pubs, negotiate, reader, sfu, linkVars, ghosts>>

Republished ==
  /\ proc[Worker].at = "republish" /\ todo = {}
  /\ proc' = [proc EXCEPT ![Worker] = Rest]
  /\ UNCHANGED <<attempts, clientVars, todo, reader, sfu, linkVars, ghosts>>

-----------------------------------------------------------------------------
(* The SFU.                                                                *)

Tell(type, t) ==
  /\ Len(fromSFU) < MaxInFlight
  /\ fromSFU' = Append(fromSFU, [type |-> type, sid |-> t.sid, cid |-> t.cid])

\* The SFU accepts a track; it replaces one of the same id that never came.
SFUAdds ==
  /\ link = "up" /\ toSFU # <<>> /\ Head(toSFU).type = "add"
  /\ toSFU' = Tail(toSFU)
  /\ LET t == pub(Head(toSFU).sid, Head(toSFU).cid) IN
     /\ sfu' = [sfu EXCEPT !.tracks = {u \in @ : u.cid = t.cid => u.sid \in sfu.offered} \cup {t}]
     /\ Tell("published", t)
  /\ UNCHANGED <<proc, attempts, clientVars, todo, reader, link, session, ghosts>>

\* A track that was offered before and is not any more is over.
SFUTakesOffer ==
  /\ link = "up" /\ toSFU # <<>> /\ Head(toSFU).type = "offer"
  /\ toSFU' = Tail(toSFU)
  /\ LET set == Head(toSFU).set
         over == {t \in sfu.tracks : t.sid \in sfu.offered \ set} IN
     /\ sfu' = [tracks |-> sfu.tracks \ over, offered |-> set]
  /\ UNCHANGED <<proc, attempts, clientVars, todo, reader, fromSFU, link, session, ghosts>>

SFUUnpublishes(t) ==
  /\ link = "up" /\ t \in sfu.tracks
  /\ sfu' = [sfu EXCEPT !.tracks = @ \ {t}]
  /\ Tell("unpublished", t)
  /\ UNCHANGED <<proc, attempts, clientVars, todo, reader, toSFU, link, session, ghosts>>

-----------------------------------------------------------------------------
Next ==
  \/ \E p \in Procs :
       \/ \E c \in Cids : PublishTrack(p, c) \/ PublishSimulcastTrack(p, c)
       \/ RegisterTrackPublishedListener(p) \/ SendAddTrack(p) \/ Answered(p) \/ TimesOut(p)
       \/ addPublication(p) \/ UnregisterTrackPublishedListener(p)
       \/ \E t \in pubs : UnpublishTrack(p, t)
  \/ OnLocalTrackPublished \/ Deliver \/ OnLocalTrackUnpublished
  \/ Offer \/ LinkFails \/ republishTracks \/ Republished
  \/ \E c \in Cids : Republish(c)
  \/ SFUAdds \/ SFUTakesOffer
  \/ \E t \in sfu.tracks : SFUUnpublishes(t)

Spec == Init /\ [][Next]_vars

-----------------------------------------------------------------------------
\* The signal reader is never stuck on a channel nobody will read again: the
\* publisher whose channel is full is still before its select (engine.go 1761).
\* With Retries it may be: a track tried twice gets two late answers.
ReaderFree ==
  reader.to # None /\ ~Slot(reader.to) =>
    \E p \in Procs : proc[p].k = reader.to /\ proc[p].at \in {"send", "wait"}

\* The tracks the SFU forwards: accepted, and part of the last offer.
published == {t \in sfu.tracks : t.sid \in sfu.offered}

Quiet ==
  /\ link = "up" /\ toSFU = <<>> /\ fromSFU = <<>> /\ reader.to = None /\ ~negotiate
  /\ \A p \in Procs : proc[p] = Rest

\* When nothing is under way, the participant and the SFU list the same tracks
\* under the same SIDs, each with a sender, and they are those the application
\* wants published: republication brings back all of them and nothing else.
\* Left out are tracks whose publishing failed, or was under way when a full
\* reconnect began.
PublicationsAgree ==
  Quiet =>
    /\ {t \in pubs : t.cid \notin lost} = {t \in published : t.cid \notin lost}
    /\ \A c \in Cids \ lost : c \in wanted <=> \E t \in pubs : t.cid = c
    /\ \A t \in pubs : t.cid \notin lost => t.sid \in senders
=============================================================================
