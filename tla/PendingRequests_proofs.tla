-------------------------- MODULE PendingRequests_proofs --------------------------
(***************************************************************************)
(* The invariants of PendingRequests, for any number of requests, any      *)
(* width of the id counter and any number of full reconnects.              *)
(***************************************************************************)
EXTENDS PendingRequests, TLAPS

(* The registry holds a request under its own id, which is not zero. *)
Indexed ==
  \A i \in Ids : pendingRequests[i] # None => i # 0 /\ id[pendingRequests[i]] = i

(* No other request is registered under the id of one that is not over. *)
Distinct ==
  \A r \in Requests : stage[r] # "none" => pendingRequests[id[r]] \in {r, None}

Gone == \A r \in Requests : stage[r] = "none" => ~Registered(r)

(* How far Close and restartConnection are. *)
Phases ==
  /\ closer # "running" => closed
  /\ closer # "closing" => aborting["close"] = {}
  /\ restarter # "failing" => aborting["restart"] = {}
  /\ restarter # "idle" => link = "down"
  /\ restarter \in {"left", "failing", "joining"} => session < MaxRestarts

(* The server was asked under the id of the request that asked. *)
AskedByID == \A q \in asked : id[q.asker] = q.id

(* A registered request was sent on the session, if at all; from the abort *)
(* of a restart until the next Join none was.                              *)
SentOnSession ==
  \A r \in Requests : Registered(r) =>
    \/ sent[r] = NotSent
    \/ restarter \in {"idle", "left"} /\ sent[r] = session

Held == WrittenOnce /\ NoneStranded
Books == Indexed /\ Distinct /\ Gone /\ Phases
Asks == AskedByID /\ AnswersRouted /\ SentOnSession
IInv == TypeOK /\ Books /\ Held /\ Asks

-----------------------------------------------------------------------------
(* One lemma per action, or per group of actions that move the same state. *)

USE RequestsAssumption
  DEF TypeOK, Ids, Sessions, NotSent, Aborters, Question, NoAnswer, Made, reqVars,
      linkVars, abortVars, IInv, Books, Held, Asks, Indexed, Distinct, Gone, Phases, WrittenOnce,
      NoneStranded, AskedByID, AnswersRouted, SentOnSession, Registered, InHand, Aborted

\* A new request's id is nobody else's.
LEMMA FreshID ==
  ASSUME IInv, NEW r \in Requests, NEW i \in Ids, IsNextID(i), NotOvertaken(i)
  PROVE  /\ i # 0 /\ pendingRequests[i] = None
         /\ \A s \in Requests : stage[s] # "none" => id[s] # i
<1>1. i # 0 /\ pendingRequests[i] = None
  BY DEF IsNextID, InUse
<1>2. ASSUME NEW s \in Requests, stage[s] # "none" PROVE id[s] # i
  <2>1. CASE Registered(s)
    BY <1>1, <2>1
  <2>2. CASE ~Registered(s)
    BY <1>2, <2>2 DEF NotOvertaken
  <2> QED BY <2>1, <2>2
<1> QED BY <1>1, <1>2

LEMMA NewStep ==
  ASSUME IInv, NEW r \in Requests, newPendingRequest(r) PROVE IInv'
<1>1. Forgotten(r)
  BY DEF newPendingRequest
<1>2. PICK i \in Ids :
        /\ IsNextID(i) /\ NotOvertaken(i)
        /\ nextRequestID' = i
        /\ id' = [id EXCEPT ![r] = i]
        /\ pendingRequests' = IF closed THEN pendingRequests
                              ELSE [pendingRequests EXCEPT ![i] = r]
        /\ ch' = [ch EXCEPT ![r] = IF closed THEN "closed" ELSE "empty"]
  BY DEF newPendingRequest
<1>3. /\ i # 0 /\ pendingRequests[i] = None
      /\ \A s \in Requests : stage[s] # "none" => id[s] # i
  BY <1>2, FreshID
<1>4. /\ stage' = [stage EXCEPT ![r] = "made"] /\ sent' = [sent EXCEPT ![r] = NotSent]
      /\ UNCHANGED <<closed, closer, restarter, aborting, hand, linkVars, asked>>
  BY DEF newPendingRequest
<1>5. TypeOK'
  BY <1>2, <1>4
<1>6. Books'
  BY <1>1, <1>2, <1>3, <1>4, <1>5 DEF Forgotten
<1>7. Held'
  BY <1>1, <1>2, <1>3, <1>4, <1>5 DEF Forgotten
<1>8. Asks'
  BY <1>1, <1>2, <1>3, <1>4, <1>5 DEF Forgotten, NotOvertaken
<1> QED BY <1>5, <1>6, <1>7, <1>8

LEMMA SendStep ==
  ASSUME IInv, NEW r \in Requests, Send(r) \/ SendFails(r) PROVE IInv'
<1>1. CASE Send(r)
  <2>1. TypeOK'
    BY <1>1 DEF Send
  <2>2. Books'
    BY <1>1, <2>1 DEF Send
  <2>3. Held'
    BY <1>1, <2>1 DEF Send
  <2>4. Asks'
    BY <1>1, <2>1 DEF Send
  <2> QED BY <2>1, <2>2, <2>3, <2>4
<1>2. CASE SendFails(r)
  <2>1. TypeOK'
    BY <1>2 DEF SendFails
  <2>2. Books'
    BY <1>2, <2>1 DEF SendFails
  <2>3. Held'
    BY <1>2, <2>1 DEF SendFails
  <2>4. Asks'
    BY <1>2, <2>1 DEF SendFails
  <2> QED BY <2>1, <2>2, <2>3, <2>4
<1> QED BY <1>1, <1>2

LEMMA LeaveStep ==
  ASSUME IInv, NEW r \in Requests, Leave(r) PROVE IInv'
<1>1. TypeOK'
  BY DEF Leave
<1>2. Books'
  BY <1>1 DEF Leave
<1>3. Held'
  BY <1>1 DEF Leave
<1>4. Asks'
  BY <1>1 DEF Leave
<1> QED BY <1>1, <1>2, <1>3, <1>4

\* The id removed is the request's own, or free.
LEMMA RemoveStep ==
  ASSUME IInv, NEW r \in Requests, removePendingRequest(r) PROVE IInv'
<1>1. TypeOK'
  BY DEF removePendingRequest
<1>2. Books'
  BY <1>1 DEF removePendingRequest
<1>3. Held'
  BY <1>1 DEF removePendingRequest
<1>4. Asks'
  BY <1>1 DEF removePendingRequest
<1> QED BY <1>1, <1>2, <1>3, <1>4

LEMMA DeliverStep ==
  ASSUME IInv, NEW q \in asked, deliverResponse(q) PROVE IInv'
<1>1. q.id \in Ids /\ q.asker \in Requests
  OBVIOUS
<1>2. CASE q.id = 0 \/ pendingRequests[q.id] = None
  <2>1. /\ asked' = asked \ {q}
        /\ UNCHANGED <<nextRequestID, pendingRequests, closed, closer, restarter, aborting,
                       hand, stage, id, ch, sent, session, link>>
    BY <1>2 DEF deliverResponse
  <2> QED BY <2>1
<1>3. CASE q.id # 0 /\ pendingRequests[q.id] # None
  <2> DEFINE to == pendingRequests[q.id]
  <2>1. /\ asked' = asked \ {q} /\ hand = NoAnswer
        /\ hand' = [to |-> to, of |-> q.asker]
        /\ pendingRequests' = [pendingRequests EXCEPT ![q.id] = None]
        /\ UNCHANGED <<nextRequestID, closed, closer, restarter, aborting,
                       stage, id, ch, sent, session, link>>
    BY <1>3 DEF deliverResponse
  <2>2. to \in Requests /\ to = q.asker /\ id[to] = q.id
    BY <1>1, <1>3
  <2>3. hand' = [to |-> to, of |-> to] /\ hand'.to = to /\ hand'.of = to
    BY <2>1, <2>2
  <2> HIDE DEF to
  <2>4. TypeOK'
    BY <1>1, <2>1, <2>2, <2>3
  <2>5. \A s \in Requests : Registered(s)' <=> Registered(s) /\ s # to
    BY <1>1, <2>1, <2>2 DEF to
  <2>6. Books'
    BY <1>1, <2>1, <2>2, <2>4
  <2>7. Held'
    <3>1. ASSUME NEW s \in Requests
          PROVE  InHand(s)' => s = to /\ ~Registered(s)' /\ ~Aborted(s)' /\ ch'[s] = "empty"
      BY <2>1, <2>2, <2>3, <2>5 DEF to
    <3>3. ASSUME NEW s \in Requests, Registered(s)'
          PROVE  ~Aborted(s)' /\ ch'[s] = "empty" /\ s # to
      BY <3>3, <2>1, <2>5
    <3>4. WrittenOnce'
      <4>1. ASSUME NEW s \in Requests, NEW i \in Ids, NEW j \in Ids,
                   pendingRequests'[i] = s, pendingRequests'[j] = s
            PROVE  i = j
        BY <1>1, <2>1, <4>1
      <4>2. ASSUME NEW s \in Requests
            PROVE  ~(s \in aborting'["close"] /\ s \in aborting'["restart"])
        BY <2>1
      <4>3. ASSUME NEW s \in Requests, Aborted(s)' PROVE ch'[s] = "empty"
        BY <2>1, <4>3
      <4> QED BY <3>1, <3>3, <4>1, <4>2, <4>3
    <3>2. NoneStranded'
      BY <2>1, <2>2, <2>3, <2>5
    <3> QED BY <3>2, <3>4
  <2>8. Asks'
    <3>1. AskedByID' /\ SentOnSession'
      BY <2>1, <2>5
    <3>2. AnswersRouted'
      BY <1>1, <2>1, <2>2, <2>3, <2>4, <2>5
    <3> QED BY <3>1, <3>2
  <2> QED BY <2>4, <2>6, <2>7, <2>8
<1> QED BY <1>2, <1>3

LEMMA PutStep ==
  ASSUME IInv, Put PROVE IInv'
<1>1. TypeOK'
  BY DEF Put
<1>2. Books'
  BY <1>1 DEF Put
<1>3. Held'
  BY <1>1 DEF Put
<1>4. Asks'
  BY <1>1 DEF Put
<1> QED BY <1>1, <1>2, <1>3, <1>4

\* What is registered becomes the aborter's.
LEMMA TakeAllEffect ==
  ASSUME IInv, NEW a \in Aborters, TakeAll(a), aborting[a] = {}
  PROVE  /\ \A r \in Requests : ~Registered(r)'
         /\ \A r \in Requests : r \in aborting'[a] <=> Registered(r)
         /\ \A b \in Aborters : b # a => aborting'[b] = aborting[b]
         /\ pendingRequests' \in [Ids -> Requests \cup {None}]
         /\ aborting' \in [Aborters -> SUBSET Requests]
  BY DEF TakeAll

LEMMA CloseAbortsStep ==
  ASSUME IInv, CloseAborts PROVE IInv'
<1>1. /\ \A r \in Requests : ~Registered(r)'
      /\ \A r \in Requests : r \in aborting'["close"] <=> Registered(r)
      /\ aborting'["restart"] = aborting["restart"]
      /\ pendingRequests' \in [Ids -> Requests \cup {None}]
      /\ aborting' \in [Aborters -> SUBSET Requests]
  BY TakeAllEffect DEF CloseAborts
<1>2. \A i \in Ids : pendingRequests'[i] = None
  BY <1>1
<1>3. TypeOK'
  BY <1>1 DEF CloseAborts
<1>4. Books'
  BY <1>1, <1>2, <1>3 DEF CloseAborts
<1>5. Held'
  <2>1. WrittenOnce'
    BY <1>1, <1>2, <1>3 DEF CloseAborts
  <2>2. NoneStranded'
    BY <1>1, <1>3 DEF CloseAborts
  <2> QED BY <2>1, <2>2
<1>6. Asks'
  BY <1>1, <1>2, <1>3 DEF CloseAborts
<1> QED BY <1>3, <1>4, <1>5, <1>6

LEMMA RestartAbortsStep ==
  ASSUME IInv, RestartAborts PROVE IInv'
<1>1. /\ \A r \in Requests : ~Registered(r)'
      /\ \A r \in Requests : r \in aborting'["restart"] <=> Registered(r)
      /\ aborting'["close"] = aborting["close"]
      /\ pendingRequests' \in [Ids -> Requests \cup {None}]
      /\ aborting' \in [Aborters -> SUBSET Requests]
  BY TakeAllEffect DEF RestartAborts
<1>2. \A i \in Ids : pendingRequests'[i] = None
  BY <1>1
<1>3. TypeOK'
  BY <1>1 DEF RestartAborts
<1>4. Books'
  BY <1>1, <1>2, <1>3 DEF RestartAborts
<1>5. Held'
  <2>1. WrittenOnce'
    BY <1>1, <1>2, <1>3 DEF RestartAborts
  <2>2. NoneStranded'
    BY <1>1, <1>3 DEF RestartAborts
  <2> QED BY <2>1, <2>2
<1>6. Asks'
  BY <1>1, <1>2, <1>3 DEF RestartAborts
<1> QED BY <1>3, <1>4, <1>5, <1>6

LEMMA CloseChannelStep ==
  ASSUME IInv, NEW a \in Aborters, NEW r \in Requests, CloseChannel(a, r) PROVE IInv'
<1>1. TypeOK'
  BY DEF CloseChannel
<1>2. Books'
  BY <1>1 DEF CloseChannel
<1>3. Held'
  BY <1>1 DEF CloseChannel
<1>4. Asks'
  BY <1>1 DEF CloseChannel
<1> QED BY <1>1, <1>2, <1>3, <1>4

LEMMA CloseStep ==
  ASSUME IInv, Close PROVE IInv'
<1>1. TypeOK'
  BY DEF Close
<1>2. Books'
  BY <1>1 DEF Close
<1>3. Held'
  BY <1>1 DEF Close
<1>4. Asks'
  BY <1>1 DEF Close
<1> QED BY <1>1, <1>2, <1>3, <1>4

LEMMA RestartStep ==
  ASSUME IInv, cleanupConnection \/ RestartAborted \/ Join \/ JoinFails PROVE IInv'
<1>1. CASE cleanupConnection
  <2>1. TypeOK'
    BY <1>1 DEF cleanupConnection
  <2>2. Books'
    BY <1>1, <2>1 DEF cleanupConnection
  <2>3. Held'
    BY <1>1, <2>1 DEF cleanupConnection
  <2>4. Asks'
    BY <1>1, <2>1 DEF cleanupConnection
  <2> QED BY <2>1, <2>2, <2>3, <2>4
<1>2. CASE RestartAborted
  <2>1. TypeOK'
    BY <1>2 DEF RestartAborted
  <2>2. Books'
    BY <1>2, <2>1 DEF RestartAborted
  <2>3. Held'
    BY <1>2, <2>1 DEF RestartAborted
  <2>4. Asks'
    BY <1>2, <2>1 DEF RestartAborted
  <2> QED BY <2>1, <2>2, <2>3, <2>4
<1>3. CASE Join
  <2>1. TypeOK'
    BY <1>3 DEF Join
  <2>2. Books'
    BY <1>3, <2>1 DEF Join
  <2>3. Held'
    BY <1>3, <2>1 DEF Join
  <2>4. Asks'
    BY <1>3, <2>1 DEF Join
  <2> QED BY <2>1, <2>2, <2>3, <2>4
<1>4. CASE JoinFails
  <2>1. TypeOK'
    BY <1>4 DEF JoinFails
  <2>2. Books'
    BY <1>4, <2>1 DEF JoinFails
  <2>3. Held'
    BY <1>4, <2>1 DEF JoinFails
  <2>4. Asks'
    BY <1>4, <2>1 DEF JoinFails
  <2> QED BY <2>1, <2>2, <2>3, <2>4
<1> QED BY <1>1, <1>2, <1>3, <1>4

LEMMA ConnectionStep ==
  ASSUME IInv, Connection PROVE IInv'
<1>1. TypeOK'
  BY DEF Connection, LinkFails, Resume
<1>2. Books'
  BY <1>1 DEF Connection, LinkFails, Resume
<1>3. Held'
  BY <1>1 DEF Connection, LinkFails, Resume
<1>4. Asks'
  BY <1>1 DEF Connection, LinkFails, Resume
<1> QED BY <1>1, <1>2, <1>3, <1>4

LEMMA InitInv == Init => IInv
<1> SUFFICES ASSUME Init PROVE IInv
  OBVIOUS
<1>1. TypeOK
  <2>1. nextRequestID \in Ids /\ session \in Sessions /\ asked = {}
    BY DEF Init
  <2>2. /\ pendingRequests \in [Ids -> Requests \cup {None}]
        /\ aborting \in [Aborters -> SUBSET Requests]
    BY DEF Init
  <2>3. /\ stage \in [Requests -> Made \cup {"none", "leaving"}]
        /\ ch \in [Requests -> {"empty", "answered", "closed"}]
    BY DEF Init
  <2>4. /\ id \in [Requests -> Ids]
        /\ sent \in [Requests -> Sessions \cup {NotSent}]
    BY DEF Init
  <2> QED BY <2>1, <2>2, <2>3, <2>4 DEF Init
<1>2. Books
  BY <1>1 DEF Init
<1>3. Held
  BY <1>1 DEF Init
<1>4. Asks
  BY <1>1 DEF Init
<1> QED BY <1>1, <1>2, <1>3, <1>4

LEMMA StutterInv == IInv /\ UNCHANGED vars => IInv'
  BY DEF vars

-----------------------------------------------------------------------------
LEMMA NextInv == IInv /\ [Next]_vars => IInv'
<1> SUFFICES ASSUME IInv, [Next]_vars PROVE IInv'
  OBVIOUS
<1> HIDE DEF IInv
<1>1. ASSUME NEW r \in Requests, Request(r) PROVE IInv'
  BY <1>1, NewStep, SendStep, LeaveStep, RemoveStep
     DEF Request, Receive, ContextDone
<1>2. ASSUME NEW a \in Aborters, NEW r \in Requests, CloseChannel(a, r) PROVE IInv'
  BY <1>2, CloseChannelStep
<1>3. CASE Reader
  BY <1>3, PutStep, DeliverStep DEF Reader
<1>4. CASE Closer
  BY <1>4, CloseStep, CloseAbortsStep DEF Closer
<1>5. CASE Restarter
  BY <1>5, RestartStep, RestartAbortsStep DEF Restarter
<1>6. CASE Connection
  BY <1>6, ConnectionStep
<1>7. CASE UNCHANGED vars
  BY <1>7, StutterInv
<1> QED BY <1>1, <1>2, <1>3, <1>4, <1>5, <1>6, <1>7 DEF Next

(* The books of the registry agree with the goroutines in every reachable  *)
(* state.                                                                  *)
THEOREM Invariant == Spec => []IInv
  BY InitInv, NextInv, PTL DEF Spec

(* Type correctness. *)
THEOREM TypeCorrect == Spec => []TypeOK
<1>1. IInv => TypeOK
  BY DEF IInv
<1> QED BY <1>1, Invariant, PTL

(* deliverResponse and abortPendingRequests write to a channel after they  *)
(* release the lock; a channel never has two writers to come, nor one once *)
(* it was written.                                                         *)
THEOREM OneWrite == Spec => []WrittenOnce
<1>1. IInv => WrittenOnce
  BY DEF IInv, Held
<1> QED BY <1>1, Invariant, PTL

(* Whoever Awaits an empty channel is waited for in turn, and nobody       *)
(* registers once Close took the registry.                                 *)
THEOREM NobodyWaitsInVain == Spec => []NoneStranded
<1>1. IInv => NoneStranded
  BY DEF IInv, Held
<1> QED BY <1>1, Invariant, PTL

(* An answer goes to the request it answers, whatever the width of the     *)
(* counter and however often it wraps.                                     *)
THEOREM AnswerGoesToAsker == Spec => []AnswersRouted
<1>1. IInv => AnswersRouted
  BY DEF IInv, Asks
<1> QED BY <1>1, Invariant, PTL

(* A full reconnect leaves nobody waiting for the old session.             *)
THEOREM RestartFailsOldRequests == Spec => []OldSessionFailed
<1>1. IInv => OldSessionFailed
  BY DEF IInv, Asks, SentOnSession, OldSessionFailed
<1> QED BY <1>1, Invariant, PTL
=============================================================================
