----------------------------- MODULE PendingRequests -----------------------------
(***************************************************************************)
(* The registry of signal requests waiting for a response (engine.go, the  *)
(* functions around newPendingRequest, and requestresponse.go): goroutines *)
(* make a request, send it and Await; the signal reader delivers answers;  *)
(* Close and the recovery worker abort what still waits.  A request's      *)
(* channel is read once and must be written, by a send or by its closing,  *)
(* at most once: a second write panics, or blocks the reader for good.     *)
(*                                                                         *)
(* A request is the object newPendingRequest returns.  The model uses it   *)
(* again once nothing can refer to the previous one.                       *)
(***************************************************************************)
EXTENDS Integers

CONSTANTS
  Requests,    \* goroutines that make a request
  None,        \* not a request
  MaxID,       \* the largest request id: math.MaxUint32
  MaxRestarts  \* bound: full reconnects of a behaviour

ASSUME RequestsAssumption ==
  /\ None \notin Requests
  /\ MaxID \in Nat \ {0} /\ MaxRestarts \in Nat

Ids == 0 .. MaxID
Sessions == 0 .. MaxRestarts
NotSent == -1
Aborters == {"close", "restart"}

VARIABLES
  nextRequestID,    \* the last id given out
  pendingRequests,  \* id -> the request registered under it
  closed,           \* engine.closed
  closer, restarter, \* how far Close and restartConnection are
  aborting,         \* channels each of them took and has yet to close
  hand,             \* the answer the reader took the channel for
  stage,            \* what each request's goroutine is doing
  id, ch,           \* a request's id and its channel
  sent,             \* the session a request was sent on
  session, link,    \* the signal session, and whether it is connected
  asked             \* requests the server got, whose answer may still come

reqVars  == <<stage, id, ch, sent>>
linkVars == <<session, link>>
abortVars == <<closed, closer, restarter, aborting>>
vars == <<nextRequestID, pendingRequests, abortVars, hand, reqVars, linkVars, asked>>

Question == [id : Ids, asker : Requests]
NoAnswer == [to |-> None, of |-> None]
Made == {"made", "waiting"}

TypeOK ==
  /\ nextRequestID \in Ids
  /\ pendingRequests \in [Ids -> Requests \cup {None}]
  /\ closed \in BOOLEAN
  /\ closer \in {"running", "aborting", "closing"}
  /\ restarter \in {"idle", "left", "failing", "joining", "retry"}
  /\ aborting \in [Aborters -> SUBSET Requests]
  /\ hand \in [to : Requests, of : Requests] \cup {NoAnswer}
  /\ stage \in [Requests -> Made \cup {"none", "leaving"}]
  /\ id \in [Requests -> Ids]
  /\ ch \in [Requests -> {"empty", "answered", "closed"}]
  /\ sent \in [Requests -> Sessions \cup {NotSent}]
  /\ session \in Sessions
  /\ link \in {"up", "down"}
  /\ asked \subseteq Question

(* Whoever may still write to a request's channel: the registry through an *)
(* id, the reader, an aborter.                                             *)
Registered(r) == \E i \in Ids : pendingRequests[i] = r
InHand(r)     == hand.to = r
Aborted(r)    == \E a \in Aborters : r \in aborting[a]

(* Nothing refers to the request any more. *)
Forgotten(r) ==
  /\ stage[r] = "none"
  /\ ~Registered(r) /\ ~InHand(r) /\ ~Aborted(r)
  /\ \A q \in asked : q.asker # r

----------------------------------------------------------------------------
(* newPendingRequest, Await and removePendingRequest *)

Steps(from, to) == (to - from - 1) % (MaxID + 1)
InUse_CountsZero(i) == pendingRequests[i] # None
InUse(i) == i = 0 \/ pendingRequests[i] # None

(* allocateRequestIDLocked counts on to the first id that is not zero and  *)
(* not in use; when all are it does not return.                            *)
IsNextID(i) ==
  /\ ~InUse(i)
  /\ \A j \in Ids : Steps(nextRequestID, j) < Steps(nextRequestID, i) => InUse(j)

(* The counter takes 2^32 - 1 requests to come round.  No answer, and no   *)
(* goroutine on its way out of Await, is that late.                        *)
NotOvertaken(i) ==
  /\ \A q \in asked : q.id # i
  /\ \A r \in Requests : stage[r] # "none" /\ ~Registered(r) => id[r] # i

newPendingRequest_Registers(r) ==
  /\ Forgotten(r)
  /\ \E i \in Ids :
       /\ IsNextID(i) /\ NotOvertaken(i)
       /\ nextRequestID' = i
       /\ id' = [id EXCEPT ![r] = i]
       /\ pendingRequests' = [pendingRequests EXCEPT ![i] = r]
       /\ ch' = [ch EXCEPT ![r] = "empty"]
  /\ stage' = [stage EXCEPT ![r] = "made"]
  /\ sent' = [sent EXCEPT ![r] = NotSent]
  /\ UNCHANGED <<abortVars, hand, linkVars, asked>>

newPendingRequest(r) ==
  /\ Forgotten(r)
  /\ \E i \in Ids :
       /\ IsNextID(i) /\ NotOvertaken(i)
       /\ nextRequestID' = i
       /\ id' = [id EXCEPT ![r] = i]
       /\ pendingRequests' = IF closed THEN pendingRequests
                             ELSE [pendingRequests EXCEPT ![i] = r]
       /\ ch' = [ch EXCEPT ![r] = IF closed THEN "closed" ELSE "empty"]
  /\ stage' = [stage EXCEPT ![r] = "made"]
  /\ sent' = [sent EXCEPT ![r] = NotSent]
  /\ UNCHANGED <<abortVars, hand, linkVars, asked>>

(* The goroutine sends its request and starts to Await; the server gets it *)
(* unless the connection is about to fail.                                 *)
Send(r) ==
  /\ stage[r] = "made" /\ link = "up"
  /\ stage' = [stage EXCEPT ![r] = "waiting"]
  /\ sent' = [sent EXCEPT ![r] = session]
  /\ asked' \in {asked, asked \cup {[id |-> id[r], asker |-> r]}}
  /\ UNCHANGED <<nextRequestID, pendingRequests, abortVars, hand, id, ch, linkVars>>

SendFails(r) ==
  /\ stage[r] = "made" /\ link = "down"
  /\ stage' = [stage EXCEPT ![r] = "waiting"]
  /\ UNCHANGED <<nextRequestID, pendingRequests, abortVars, hand, id, ch, sent, linkVars,
                 asked>>

Leave(r) ==
  /\ stage[r] = "waiting"
  /\ stage' = [stage EXCEPT ![r] = "leaving"]
  /\ UNCHANGED <<nextRequestID, pendingRequests, abortVars, hand, id, ch, sent, linkVars,
                 asked>>

(* Await's select: the channel was written, or ctx is done. *)
Receive(r)     == ch[r] # "empty" /\ Leave(r)
ContextDone(r) == Leave(r)

removePendingRequest(r) ==
  /\ stage[r] = "leaving"
  /\ stage' = [stage EXCEPT ![r] = "none"]
  /\ pendingRequests' = [pendingRequests EXCEPT ![id[r]] = None]
  /\ UNCHANGED <<nextRequestID, abortVars, hand, id, ch, sent, linkVars, asked>>

----------------------------------------------------------------------------
(* The signal reader *)

deliverResponse_Unchecked(q) ==
  /\ link = "up" /\ hand = NoAnswer
  /\ asked' = asked \ {q}
  /\ hand' = [to |-> pendingRequests[q.id], of |-> q.asker]
  /\ pendingRequests' = [pendingRequests EXCEPT ![q.id] = None]
  /\ UNCHANGED <<nextRequestID, abortVars, reqVars, linkVars>>

deliverResponse_Keeps(q) ==
  /\ link = "up" /\ hand = NoAnswer
  /\ asked' = asked \ {q}
  /\ IF q.id = 0 \/ pendingRequests[q.id] = None
     THEN UNCHANGED <<pendingRequests, hand>>
     ELSE /\ hand' = [to |-> pendingRequests[q.id], of |-> q.asker]
          /\ UNCHANGED pendingRequests
  /\ UNCHANGED <<nextRequestID, abortVars, reqVars, linkVars>>

(* deliverResponse up to its unlock; an answer that finds nobody is handed *)
(* to the Room, which does not touch the registry.                         *)
deliverResponse(q) ==
  /\ link = "up" /\ hand = NoAnswer
  /\ asked' = asked \ {q}
  /\ IF q.id = 0 \/ pendingRequests[q.id] = None
     THEN UNCHANGED <<pendingRequests, hand>>
     ELSE /\ hand' = [to |-> pendingRequests[q.id], of |-> q.asker]
          /\ pendingRequests' = [pendingRequests EXCEPT ![q.id] = None]
  /\ UNCHANGED <<nextRequestID, abortVars, reqVars, linkVars>>

(* ch <- res, after the unlock *)
Put ==
  /\ hand # NoAnswer
  /\ ch' = [ch EXCEPT ![hand.to] = "answered"]
  /\ hand' = NoAnswer
  /\ UNCHANGED <<nextRequestID, pendingRequests, abortVars, stage, id, sent, linkVars,
                 asked>>

----------------------------------------------------------------------------
(* abortPendingRequests, from Close and from restartConnection *)

(* The map is swapped for an empty one under the lock. *)
TakeAll(a) ==
  /\ aborting' = [aborting EXCEPT ![a] = {r \in Requests : Registered(r)}]
  /\ pendingRequests' = [i \in Ids |-> None]

CloseChannel_Skips(a, r) ==
  /\ r \in aborting[a]
  /\ aborting' = [aborting EXCEPT ![a] = {}]
  /\ ch' = [ch EXCEPT ![r] = "closed"]
  /\ UNCHANGED <<nextRequestID, pendingRequests, closed, closer, restarter, hand, stage,
                 id, sent, linkVars, asked>>

(* The channels taken are closed one by one, after the unlock. *)
CloseChannel(a, r) ==
  /\ r \in aborting[a]
  /\ aborting' = [aborting EXCEPT ![a] = @ \ {r}]
  /\ ch' = [ch EXCEPT ![r] = "closed"]
  /\ UNCHANGED <<nextRequestID, pendingRequests, closed, closer, restarter, hand, stage,
                 id, sent, linkVars, asked>>

Close ==
  /\ ~closed
  /\ closed' = TRUE /\ closer' = "aborting"
  /\ UNCHANGED <<nextRequestID, pendingRequests, restarter, aborting, hand, reqVars,
                 linkVars, asked>>

CloseAborts ==
  /\ closer = "aborting"
  /\ closer' = "closing"
  /\ TakeAll("close")
  /\ UNCHANGED <<nextRequestID, closed, restarter, hand, reqVars, linkVars, asked>>

cleanupConnection_Skipped ==
  /\ restarter \in {"idle", "retry"} /\ session < MaxRestarts
  /\ hand = NoAnswer
  /\ restarter' = "left"
  /\ UNCHANGED <<nextRequestID, pendingRequests, closed, closer, aborting, hand, reqVars,
                 linkVars, asked>>

(* cleanupConnection: the old websocket is closed and its reader waited for *)
cleanupConnection ==
  /\ restarter \in {"idle", "retry"} /\ session < MaxRestarts
  /\ hand = NoAnswer
  /\ restarter' = "left"
  /\ link' = "down" /\ asked' = {}
  /\ UNCHANGED <<nextRequestID, pendingRequests, closed, closer, aborting, hand, reqVars,
                 session>>

RestartAborts ==
  /\ restarter = "left"
  /\ restarter' = "failing"
  /\ TakeAll("restart")
  /\ UNCHANGED <<nextRequestID, closed, closer, hand, reqVars, linkVars, asked>>

RestartAborted ==
  /\ restarter = "failing" /\ aborting["restart"] = {}
  /\ restarter' = "joining"
  /\ UNCHANGED <<nextRequestID, pendingRequests, closed, closer, aborting, hand, reqVars,
                 linkVars, asked>>

Join ==
  /\ restarter = "joining"
  /\ restarter' = "idle"
  /\ session' = session + 1 /\ link' = "up" /\ asked' = {}
  /\ UNCHANGED <<nextRequestID, pendingRequests, closed, closer, aborting, hand, reqVars>>

JoinFails ==
  /\ restarter = "joining"
  /\ restarter' = "retry"
  /\ UNCHANGED <<nextRequestID, pendingRequests, closed, closer, aborting, hand, reqVars,
                 linkVars, asked>>

----------------------------------------------------------------------------
(* The connection: it may fail with what is on it, and a resume keeps the  *)
(* session.                                                                *)

LinkFails ==
  /\ link = "up" /\ restarter = "idle"
  /\ link' = "down"
  /\ asked' \in SUBSET asked
  /\ UNCHANGED <<nextRequestID, pendingRequests, abortVars, hand, reqVars, session>>

Resume ==
  /\ link = "down" /\ restarter = "idle"
  /\ link' = "up"
  /\ UNCHANGED <<nextRequestID, pendingRequests, abortVars, hand, reqVars, session, asked>>

----------------------------------------------------------------------------

(* The tests set the counter just below its largest value. *)
Init ==
  /\ nextRequestID \in {0, MaxID - 1}
  /\ pendingRequests = [i \in Ids |-> None]
  /\ closed = FALSE /\ closer = "running" /\ restarter = "idle"
  /\ aborting = [a \in Aborters |-> {}]
  /\ hand = NoAnswer
  /\ stage = [r \in Requests |-> "none"]
  /\ id = [r \in Requests |-> 0]
  /\ ch = [r \in Requests |-> "empty"]
  /\ sent = [r \in Requests |-> NotSent]
  /\ session = 0 /\ link = "up" /\ asked = {}

Request(r) ==
  \/ newPendingRequest(r) \/ Send(r) \/ SendFails(r)
  \/ Receive(r) \/ ContextDone(r) \/ removePendingRequest(r)

Reader == Put \/ \E q \in asked : deliverResponse(q)
Closer == Close \/ CloseAborts
Restarter == cleanupConnection \/ RestartAborts \/ RestartAborted \/ Join \/ JoinFails
Connection == LinkFails \/ Resume

Next ==
  \/ \E r \in Requests : Request(r)
  \/ \E a \in Aborters, r \in Requests : CloseChannel(a, r)
  \/ Reader \/ Closer \/ Restarter \/ Connection

Spec == Init /\ [][Next]_vars

(* The goroutines that abort, the reader once it has taken a channel, and  *)
(* an Await whose channel was written all run on.  A context need not end, *)
(* an answer need not come.                                                *)
Fairness ==
  /\ WF_vars(CloseAborts) /\ WF_vars(Put)
  /\ \A r \in Requests : WF_vars(Receive(r))
  /\ \A a \in Aborters : WF_vars(\E r \in Requests : CloseChannel(a, r))

FairSpec == Spec /\ Fairness

----------------------------------------------------------------------------
(* Properties *)

(* A channel has at most one future writer among the registry, the reader  *)
(* and the aborters, and none once it was written.  deliverResponse sends  *)
(* and abortPendingRequests closes after the unlock, relying on the        *)
(* removal from the map to be the only one (engine.go:860).                *)
WrittenOnce ==
  \A r \in Requests :
    /\ Registered(r) => ~InHand(r) /\ ~Aborted(r)
    /\ InHand(r) => ~Aborted(r)
    /\ ~(r \in aborting["close"] /\ r \in aborting["restart"])
    /\ \A i, j \in Ids : pendingRequests[i] = r /\ pendingRequests[j] = r => i = j
    /\ Registered(r) \/ InHand(r) \/ Aborted(r) => ch[r] = "empty"

(* A request that waits on an empty channel has somebody who will write to *)
(* it, and after Close took the registry nobody registers any more: the    *)
(* check of closed in newPendingRequest and the abort share a lock.        *)
NoneStranded ==
  /\ \A r \in Requests :
       stage[r] \in Made /\ ch[r] = "empty" => Registered(r) \/ InHand(r) \/ Aborted(r)
  /\ closer = "closing" => \A r \in Requests : ~Registered(r)

(* An answer that is still to come finds the request that asked, or nobody *)
(* when that request is over, across the wrap of the id counter; and the   *)
(* channel the reader holds is the asker's.                                *)
AnswersRouted ==
  /\ \A q \in asked :
       /\ pendingRequests[q.id] \in {q.asker, None}
       /\ Registered(q.asker) => q.id # 0 /\ pendingRequests[q.id] = q.asker
  /\ hand.to = hand.of

(* Once the worker is in the new session no request still waits for the    *)
(* old one to answer: the old websocket is closed before the abort, so     *)
(* nothing is sent on it in between (engine.go:1163-1174).                 *)
OldSessionFailed ==
  \A r \in Requests :
    stage[r] = "waiting" /\ Registered(r) /\ restarter = "idle"
      => sent[r] \in {NotSent, session}

(* After Close every Await returns, whatever its context. *)
CloseReleases ==
  \A r \in Requests : closed /\ stage[r] = "waiting" ~> stage[r] # "waiting"
=============================================================================
