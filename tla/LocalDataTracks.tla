----------------------------- MODULE LocalDataTracks -----------------------------
(***************************************************************************)
(* The data tracks the local participant publishes                         *)
(* (internal/datatrack/local.go) and the SFU that accepts them.            *)
(*                                                                         *)
(* Callers are application goroutines inside PublishDataTrack or           *)
(* LocalTrack.Unpublish.  The signal reader handles the SFU's answers; the *)
(* restorer is the recovery worker inside Room.OnRestarted, when the       *)
(* reader of the new session already runs.  A critical section of the      *)
(* manager's mutex is one step; what a function does after the unlock is   *)
(* another.  A track is named by its handle: handles are never reused.     *)
(***************************************************************************)
EXTENDS Naturals, Sequences

CONSTANTS
  Callers,      \* goroutines that publish data tracks
  None,         \* no caller, no answer
  MaxHandle,    \* the largest handle: math.MaxUint16
  MaxRestarts,  \* bound: full reconnects of a behaviour
  MaxInFlight   \* bound: unread requests and answers of a connection

Errors == {"disconnected", "unpublished", "rejected"}

LocalTracksAssumption ==
  /\ None \notin Callers \cup Errors \cup {"track"}
  /\ MaxHandle \in Nat \ {0} /\ MaxRestarts \in Nat /\ MaxInFlight \in Nat \ {0}

Handles == 1 .. MaxHandle

VARIABLES
  value,             \* handleAllocator.value: the last handle given out
  pending,           \* handle -> the caller whose publication it is, or None
  active,            \* handles of the published tracks
  trackState,        \* publishState of each track
  sidSession,        \* the session a track's SID belongs to
  result,            \* what each caller's result channel holds
  pc, handle,        \* where each caller is, and the handle it is about
  reader,            \* what the signal reader has yet to do after the unlock
  restorer, requests,\* RepublishTracks: is it due, and what it has yet to send
  unmarked,          \* tracks Shutdown removed and has yet to mark
  closed,            \* Shutdown ran
  pubs,              \* SFU: the handles published on this session
  toSFU, fromSFU, link, session,
  unsent,            \* tracks whose republication could not be sent
  doubled            \* requests the SFU refused for a handle it already has

managerVars == <<value, pending, active, trackState, sidSession>>
callerVars  == <<result, pc, handle>>
workerVars  == <<reader, restorer, requests, unmarked, closed>>
linkVars    == <<link, session>>
ghostVars   == <<unsent, doubled>>
vars == <<managerVars, callerVars, workerVars, pubs, toSFU, fromSFU, linkVars, ghostVars>>

Message == [type : {"accept", "reject", "unpublish"}, handle : Handles]
Rest == [at |-> "idle"]

TypeOK ==
  /\ value \in 0..MaxHandle
  /\ pending \in [Handles -> Callers \cup {None}]
  /\ active \subseteq 1..value
  /\ trackState \in [Handles -> {"none", "published", "republishing", "unpublished"}]
  /\ sidSession \in [Handles -> 0..MaxRestarts]
  /\ result \in [Callers -> Errors \cup {"track", None}]
  /\ pc \in [Callers -> {"idle", "sending", "waiting", "withdrawing", "holding", "removed"}]
  /\ handle \in [Callers -> 0..MaxHandle]
  /\ reader = Rest \/ reader \in [at : {"mark", "complete", "refuse"}, handle : Handles]
  /\ restorer \in {"idle", "due", "sending"} /\ requests \subseteq Handles
  /\ unmarked \subseteq Handles /\ closed \in BOOLEAN
  /\ pubs \subseteq Handles
  /\ toSFU \in Seq([publish : BOOLEAN, handle : Handles]) /\ Len(toSFU) <= MaxInFlight
  /\ fromSFU \in Seq(Message) /\ Len(fromSFU) <= MaxInFlight
  /\ link \in {"up", "down"} /\ session \in 0..MaxRestarts
  /\ unsent \subseteq Handles /\ doubled \subseteq Handles

Init ==
  /\ value = 0 /\ pending = [h \in Handles |-> None] /\ active = {}
  /\ trackState = [h \in Handles |-> "none"] /\ sidSession = [h \in Handles |-> 0]
  /\ result = [c \in Callers |-> None]
  /\ pc = [c \in Callers |-> "idle"] /\ handle = [c \in Callers |-> 0]
  /\ reader = Rest /\ restorer = "idle" /\ requests = {} /\ unmarked = {} /\ closed = FALSE
  /\ pubs = {} /\ toSFU = <<>> /\ fromSFU = <<>> /\ link = "up" /\ session = 0
  /\ unsent = {} /\ doubled = {}

-----------------------------------------------------------------------------
(* Shared pieces.                                                          *)

Goto(c, label) == pc' = [pc EXCEPT ![c] = label]

\* A request the signal connection takes, if there is one; else it is lost.
SendRequest(publish, h) ==
  IF link = "up"
  THEN /\ Len(toSFU) < MaxInFlight
       /\ toSFU' = Append(toSFU, [publish |-> publish, handle |-> h])
  ELSE UNCHANGED toSFU

\* Every pending publication fails with ErrDisconnected.
FailPending_Silently ==
  /\ pending' = [h \in Handles |-> None]
  /\ UNCHANGED result

FailPending ==
  /\ pending' = [h \in Handles |-> None]
  /\ result' = [c \in Callers |->
                  IF \E h \in Handles : pending[h] = c THEN "disconnected" ELSE result[c]]

markUnpublished(h) == trackState' = [trackState EXCEPT ![h] = "unpublished"]

-----------------------------------------------------------------------------
(* LocalManager.Publish and LocalTrack.Unpublish.                          *)

\* With every handle given out Publish returns ErrLimitReached.
Publish(c) ==
  /\ pc[c] = "idle" /\ value < MaxHandle
  /\ value' = value + 1
  /\ pending' = [pending EXCEPT ![value + 1] = c]
  /\ handle' = [handle EXCEPT ![c] = value + 1]
  /\ result' = [result EXCEPT ![c] = None]
  /\ Goto(c, "sending")
  /\ UNCHANGED <<active, trackState, sidSession, workerVars, pubs, toSFU, fromSFU, linkVars,
                 ghostVars>>

\* ensurePublisherConnected waits for the connection, then the request goes out.
SendPublish(c) ==
  /\ pc[c] = "sending" /\ link = "up"
  /\ SendRequest(TRUE, handle[c])
  /\ Goto(c, "waiting")
  /\ UNCHANGED <<managerVars, result, handle, workerVars, pubs, fromSFU, linkVars, ghostVars>>

\* The context or the connect timeout ends first, or the websocket fails.
SendPublishFails(c) ==
  /\ pc[c] = "sending"
  /\ pending' = [pending EXCEPT ![handle[c]] = None]
  /\ Goto(c, "idle")
  /\ UNCHANGED <<value, active, trackState, sidSession, result, handle, workerVars, pubs,
                 toSFU, fromSFU, linkVars, ghostVars>>

Receive(c) ==
  /\ pc[c] = "waiting" /\ result[c] # None
  /\ Goto(c, IF result[c] = "track" THEN "holding" ELSE "idle")
  /\ UNCHANGED <<managerVars, result, handle, workerVars, pubs, toSFU, fromSFU, linkVars,
                 ghostVars>>

\* An answer that came first is taken from the channel and withdrawn.
ContextDone(c) ==
  /\ pc[c] = "waiting"
  /\ Goto(c, IF pending[handle[c]] # None THEN "idle" ELSE "withdrawing")
  /\ pending' = [pending EXCEPT ![handle[c]] = None]
  /\ UNCHANGED <<value, active, trackState, sidSession, result, handle, workerVars, pubs,
                 toSFU, fromSFU, linkVars, ghostVars>>

\* unpublish, under the lock: only who removes the track marks it and tells the SFU.
Remove(c) ==
  /\ Goto(c, IF handle[c] \in active THEN "removed" ELSE "idle")
  /\ active' = active \ {handle[c]}
  /\ UNCHANGED <<value, pending, trackState, sidSession, result, handle, workerVars, pubs,
                 toSFU, fromSFU, linkVars, ghostVars>>

Withdraw(c) ==
  /\ pc[c] = "withdrawing" /\ result[c] # None
  /\ IF result[c] = "track"
     THEN Remove(c)
     ELSE /\ Goto(c, "idle")
          /\ UNCHANGED <<managerVars, result, handle, workerVars, pubs, toSFU, fromSFU,
                         linkVars, ghostVars>>

Unpublish(c) == pc[c] = "holding" /\ Remove(c)

SendUnpublish(c) ==
  /\ pc[c] = "removed"
  /\ markUnpublished(handle[c])
  /\ SendRequest(FALSE, handle[c])
  /\ Goto(c, "idle")
  /\ UNCHANGED <<value, pending, active, sidSession, result, handle, workerVars, pubs,
                 fromSFU, linkVars, ghostVars>>

-----------------------------------------------------------------------------
(* The signal reader.                                                      *)

Next1(type) ==
  /\ reader = Rest /\ link = "up" /\ fromSFU # <<>> /\ Head(fromSFU).type \in type
  /\ fromSFU' = Tail(fromSFU)

Deliver(h, res) ==
  /\ pending' = [pending EXCEPT ![h] = None]
  /\ result' = [result EXCEPT ![pending[h]] = res]

\* What is left to do after the unlock for an answer to handle h.
RefuseLate_Not(h, ok) == Rest

RefuseLate(h, ok) == IF ok THEN [at |-> "refuse", handle |-> h] ELSE Rest

\* A publication completes, fails, is confirmed after a reconnect, or was abandoned.
resolvePublish ==
  /\ Next1({"accept", "reject"})
  /\ LET h == Head(fromSFU).handle  ok == Head(fromSFU).type = "accept" IN
     CASE pending[h] # None ->
            /\ Deliver(h, IF ok THEN "track" ELSE "rejected")
            /\ active' = IF ok THEN active \cup {h} ELSE active
            /\ trackState' = IF ok THEN [trackState EXCEPT ![h] = "published"] ELSE trackState
            /\ sidSession' = IF ok THEN [sidSession EXCEPT ![h] = session] ELSE sidSession
            /\ UNCHANGED reader
       [] pending[h] = None /\ h \in active ->
            /\ active' = IF ok THEN active ELSE active \ {h}
            /\ reader' = [at |-> IF ok THEN "complete" ELSE "mark", handle |-> h]
            /\ UNCHANGED <<pending, result, trackState, sidSession>>
       [] OTHER ->
            /\ reader' = RefuseLate(h, ok)
            /\ UNCHANGED <<pending, result, active, trackState, sidSession>>
  /\ UNCHANGED <<value, pc, handle, restorer, requests, unmarked, closed, pubs, toSFU, linkVars,
                 ghostVars>>

HandleUnpublishResponse ==
  /\ Next1({"unpublish"})
  /\ LET h == Head(fromSFU).handle IN
     /\ IF pending[h] # None THEN Deliver(h, "unpublished") ELSE UNCHANGED <<pending, result>>
     /\ active' = active \ {h}
     /\ reader' = IF h \in active THEN [at |-> "mark", handle |-> h] ELSE Rest
  /\ UNCHANGED <<value, trackState, sidSession, pc, handle, restorer, requests, unmarked,
                 closed, pubs, toSFU, linkVars, ghostVars>>

\* After the unlock: mark the track, confirm it, or unpublish what nobody wants.
ReaderMarks ==
  /\ reader.at = "mark"
  /\ markUnpublished(reader.handle)
  /\ reader' = Rest
  /\ UNCHANGED <<value, pending, active, sidSession, callerVars, restorer, requests, unmarked,
                 closed, pubs, toSFU, fromSFU, linkVars, ghostVars>>

Republishing_Any(h) == TRUE

Republishing(h) == trackState[h] = "republishing"

completeRepublish ==
  /\ reader.at = "complete"
  /\ IF Republishing(reader.handle)
     THEN /\ trackState' = [trackState EXCEPT ![reader.handle] = "published"]
          /\ sidSession' = [sidSession EXCEPT ![reader.handle] = session]
     ELSE UNCHANGED <<trackState, sidSession>>
  /\ reader' = Rest
  /\ UNCHANGED <<value, pending, active, callerVars, restorer, requests, unmarked, closed, pubs,
                 toSFU, fromSFU, linkVars, ghostVars>>

ReaderRefuses ==
  /\ reader.at = "refuse"
  /\ SendRequest(FALSE, reader.handle)
  /\ reader' = Rest
  /\ UNCHANGED <<managerVars, callerVars, restorer, requests, unmarked, closed, pubs, fromSFU,
                 linkVars, ghostVars>>

-----------------------------------------------------------------------------
(* Full reconnects and the end of the room.                                *)

RepublishTracks ==
  /\ restorer = "due"
  /\ FailPending
  /\ trackState' = [h \in Handles |-> IF h \in active THEN "republishing" ELSE trackState[h]]
  /\ requests' = active
  /\ restorer' = "sending"
  /\ UNCHANGED <<value, active, sidSession, pc, handle, reader, unmarked, closed, pubs, toSFU,
                 fromSFU, linkVars, ghostVars>>

\* The requests, in any order (a map); each waits for the publisher connection,
\* and one that cannot be sent is only logged.
Republish(h) ==
  /\ restorer = "sending" /\ h \in requests
  /\ \/ link = "up" /\ SendRequest(TRUE, h) /\ unsent' = unsent \ {h}
     \/ unsent' = unsent \cup {h} /\ UNCHANGED toSFU
  /\ requests' = requests \ {h}
  /\ UNCHANGED <<managerVars, callerVars, reader, restorer, unmarked, closed, pubs, fromSFU,
                 linkVars, doubled>>

Republished ==
  /\ restorer = "sending" /\ requests = {}
  /\ restorer' = "idle"
  /\ UNCHANGED <<managerVars, callerVars, reader, requests, unmarked, closed, pubs, toSFU,
                 fromSFU, linkVars, ghostVars>>

Shutdown ==
  /\ ~closed /\ closed' = TRUE
  /\ FailPending
  /\ unmarked' = active /\ active' = {}
  /\ link' = "down" /\ toSFU' = <<>> /\ fromSFU' = <<>>
  /\ UNCHANGED <<value, trackState, sidSession, pc, handle, reader, restorer, requests, pubs,
                 session, ghostVars>>

ShutdownMarks(h) ==
  /\ h \in unmarked
  /\ markUnpublished(h)
  /\ unmarked' = unmarked \ {h}
  /\ UNCHANGED <<value, pending, active, sidSession, callerVars, reader, restorer, requests,
                 closed, pubs, toSFU, fromSFU, linkVars, ghostVars>>

-----------------------------------------------------------------------------
(* The SFU and the signal connection.                                      *)

Tell(type, h) ==
  /\ Len(fromSFU) < MaxInFlight
  /\ fromSFU' = Append(fromSFU, [type |-> type, handle |-> h])

\* A publication is accepted or rejected, one of a handle in use rejected; an
\* unpublication is answered.
SFUServe ==
  /\ toSFU # <<>> /\ link = "up"
  /\ toSFU' = Tail(toSFU)
  /\ LET h == Head(toSFU).handle IN
     \/ /\ Head(toSFU).publish /\ h \notin pubs
        /\ pubs' = pubs \cup {h} /\ Tell("accept", h) /\ UNCHANGED doubled
     \/ /\ Head(toSFU).publish
        /\ Tell("reject", h) /\ UNCHANGED pubs
        /\ doubled' = IF h \in pubs THEN doubled \cup {h} ELSE doubled
     \/ /\ ~Head(toSFU).publish
        /\ IF h \in pubs THEN Tell("unpublish", h) ELSE UNCHANGED fromSFU
        /\ pubs' = pubs \ {h} /\ UNCHANGED doubled
  /\ UNCHANGED <<managerVars, callerVars, workerVars, linkVars, unsent>>

\* The SFU ends a publication on its own.
SFUUnpublish(h) ==
  /\ h \in pubs /\ link = "up"
  /\ pubs' = pubs \ {h}
  /\ Tell("unpublish", h)
  /\ UNCHANGED <<managerVars, callerVars, workerVars, toSFU, linkVars, ghostVars>>

LinkFails ==
  /\ link = "up" /\ session < MaxRestarts
  /\ link' = "down" /\ toSFU' = <<>> /\ fromSFU' = <<>>
  /\ UNCHANGED <<managerVars, callerVars, workerVars, pubs, session, ghostVars>>

\* A new session: the previous reader and worker are done by then.
Restart ==
  /\ link = "down" /\ ~closed /\ reader = Rest /\ restorer = "idle"
  /\ link' = "up" /\ session' = session + 1 /\ pubs' = {}
  /\ restorer' = "due" /\ doubled' = {}
  /\ UNCHANGED <<managerVars, callerVars, reader, requests, unmarked, closed, toSFU, fromSFU,
                 unsent>>

-----------------------------------------------------------------------------
Caller(c) ==
  \/ Publish(c) \/ SendPublish(c) \/ SendPublishFails(c) \/ Receive(c) \/ ContextDone(c)
  \/ Withdraw(c) \/ Unpublish(c) \/ SendUnpublish(c)

SignalReader ==
  \/ resolvePublish \/ HandleUnpublishResponse
  \/ ReaderMarks \/ completeRepublish \/ ReaderRefuses

Next ==
  \/ \E c \in Callers : Caller(c)
  \/ SignalReader
  \/ RepublishTracks \/ Republished \/ Shutdown
  \/ \E h \in Handles : Republish(h) \/ ShutdownMarks(h) \/ SFUUnpublish(h)
  \/ SFUServe \/ LinkFails \/ Restart

Spec == Init /\ [][Next]_vars

-----------------------------------------------------------------------------
\* A publication under way belongs to one caller, whose channel is still empty
\* (delivering to a full one would block the manager under its lock), and a
\* caller without an answer is still in the books (Publish, resolvePublish,
\* HandleUnpublishResponse, RepublishTracks, Shutdown).
PublicationsAnswered ==
  /\ \A h \in Handles : pending[h] # None =>
       /\ pc[pending[h]] \in {"sending", "waiting"}
       /\ handle[pending[h]] = h /\ result[pending[h]] = None
  /\ \A c \in Callers :
       pc[c] \in {"sending", "waiting", "withdrawing"} /\ result[c] = None =>
         pending[handle[c]] = c

\* Unpublished is closed once, and for good: no late answer, republication or
\* second Unpublish brings a track back (local.go 363).
UnpublishedForGood ==
  [][\A h \in Handles : trackState[h] = "unpublished" => trackState'[h] = "unpublished"]_vars

\* Nothing is under way between the client and the SFU.
Quiet ==
  /\ link = "up" /\ toSFU = <<>> /\ fromSFU = <<>> /\ reader = Rest /\ restorer = "idle"
  /\ \A c \in Callers : pc[c] \in {"idle", "holding"}

\* Then the SFU publishes the tracks the client holds published, under the SID
\* of this session, and no other: abandoned, withdrawn and late publications are
\* gone on both sides, and each track left is one some caller was given.  Left
\* out are tracks whose republication could not be sent, and handles the SFU was
\* asked for twice.
Agreement ==
  Quiet =>
    /\ \A h \in active \ unsent :
         trackState[h] = "published" /\ h \in pubs /\ sidSession[h] = session
    /\ pubs \ doubled \subseteq active
    /\ \A h \in active : \E c \in Callers : pc[c] = "holding" /\ handle[c] = h
=============================================================================
