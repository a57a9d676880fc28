----------------------- MODULE RemoteDataTracks_proofs -----------------------
(***************************************************************************)
(* The Subscribe and Close calls of any number of callers, on any number   *)
(* of tracks and through any number of reconnects: nobody is left waiting, *)
(* the subscription is what the callers want, the updates leave in the     *)
(* order of the changes they tell of, the SFU ends up serving what is      *)
(* wanted, and the maps by SID and by handle name the right tracks.        *)
(***************************************************************************)
EXTENDS RemoteDataTracks, SequenceTheorems, TLAPS

Asking  == {"requesting", "failed", "waiting"}
Sending == {"requesting", "withdrawing", "closing"}
Labels  == {"idle", "requesting", "failed", "waiting", "withdrawing", "withdrawn", "open",
            "closing", "releasing"}
Requests == [by : Callers \cup Handlers, sid : SIDs \cup {None}, subscribe : BOOLEAN]
Keys == {Key[s] : s \in SIDs}
Messages == [type : {"update"}, key : Keys, listed : SUBSET SIDs]
            \cup [type : {"handles"}, handle : Handles, sid : SIDs]
Jobs == [type : {"update", "snapshot"}, keys : SUBSET Keys, listed : SUBSET SIDs]
        \cup [type : {"resend"}]

TracksTyped ==
  /\ created \subseteq Tracks
  /\ sid \in [Tracks -> SIDs \cup {None}]
  /\ descriptors \in [SIDs -> Tracks \cup {None}]
  /\ subHandles = [h \in Handles |-> subHandles[h]]

MessagesTyped ==
  /\ pubs \subseteq SIDs
  /\ assigned \in [SIDs -> Handles \cup {None}]
  /\ fromSFU \in Seq(Messages) /\ jobs \in Seq(Jobs)

CallersTyped ==
  /\ subscription \in [Tracks -> {"none", "pending", "active"}]
  /\ waiters \in [Tracks -> SUBSET Callers]
  /\ streams \in [Tracks -> SUBSET Callers]
  /\ outbox \in [Tracks -> Requests \cup {None}]
  /\ pc \in [Callers -> Labels]
  /\ target \in [Callers -> Tracks \cup {None}]
  /\ answer \in [Callers -> {None, "stream", "error"}]

\* A caller that is about something is about a track.
Targeted == \A c \in Callers : pc[c] # "idle" => target[c] \in Tracks

\* An answer is held only by who may still read it.
AnswerRead == \A c \in Callers : answer[c] # None => pc[c] \in Asking \cup {"withdrawn"}

\* A track's waiters are callers that ask for it and have no answer.
WaitersAsk ==
  \A t \in Tracks : \A c \in waiters[t] :
    pc[c] \in Asking /\ target[c] = t /\ answer[c] = None

\* An update on its way is one that its sender is sending.
SenderSends ==
  \A t \in Tracks : outbox[t] # None /\ outbox[t].by \in Callers =>
    pc[outbox[t].by] \in Sending /\ target[outbox[t].by] = t

\* What the callers' side keeps to.
Kept == Targeted /\ AnswerRead /\ WaitersAsk /\ SenderSends
        /\ NobodyForgotten /\ SubscriptionWanted /\ SendsOrdered

IInv == TracksTyped /\ MessagesTyped /\ CallersTyped /\ Kept

coreVars == <<subscription, waiters, streams, outbox, pc, target, answer>>

-----------------------------------------------------------------------------
LEMMA Distinct ==
  ASSUME TracksAssumption
  PROVE  /\ None \notin Tracks /\ None \notin Callers /\ None # "stream" /\ None # "error"
         /\ None \notin SIDs /\ None \notin Handles /\ None \notin Requests
         /\ \A g \in Handlers : g \notin Callers
         /\ SIDs \subseteq DOMAIN Key
  BY DEF TracksAssumption, Handlers, Requests

LEMMA InitInv == ASSUME TracksAssumption PROVE Init => IInv
<1> SUFFICES ASSUME Init PROVE IInv OBVIOUS
<1> USE DEF Init
<1>1. TracksTyped BY DEF TracksTyped
<1>2. MessagesTyped BY EmptySeq DEF MessagesTyped
<1>3. CallersTyped BY DEF CallersTyped, Labels
<1>4. Kept
  BY Distinct DEF Kept, Targeted, AnswerRead, WaitersAsk, SenderSends, NobodyForgotten,
                  SubscriptionWanted, SendsOrdered, Sending, Asking
<1> QED BY <1>1, <1>2, <1>3, <1>4 DEF IInv

\* Steps that only move what the callers do not look at.
LEMMA CoreSame == ASSUME CallersTyped, Kept, UNCHANGED coreVars PROVE CallersTyped' /\ Kept'
  BY DEF CallersTyped, Kept, coreVars, Targeted, AnswerRead, WaitersAsk, SenderSends,
         NobodyForgotten, SubscriptionWanted, SendsOrdered

-----------------------------------------------------------------------------
(* The callers' steps.                                                     *)

\* A caller queues an update only when no other one of the track is being sent.
LEMMA QueueOrdered ==
  ASSUME TracksAssumption, CallersTyped, Kept, NEW c \in Callers, NEW t \in Tracks,
         NEW r \in Requests, r.by = c, outbox[t] = None, outbox' = [outbox EXCEPT ![t] = r],
         NEW label, pc' = [pc EXCEPT ![c] = label],
         target'[c] = t, \A d \in Callers : d # c => target'[d] = target[d]
  PROVE  SendsOrdered'
<1> SUFFICES ASSUME NEW d \in Callers, pc'[d] \in {"requesting", "withdrawing", "closing"}
             PROVE  outbox'[target'[d]] # None /\ outbox'[target'[d]].by = d
  BY DEF SendsOrdered
<1>1. CASE d = c
  <2>1. outbox'[t] = r BY DEF CallersTyped
  <2> QED BY <1>1, <2>1, Distinct
<1>2. CASE d # c
  <2>1. pc[d] \in {"requesting", "withdrawing", "closing"} BY <1>2 DEF CallersTyped
  <2>2. outbox[target[d]] # None /\ outbox[target[d]].by = d /\ target[d] \in Tracks
    BY <2>1 DEF Kept, SendsOrdered, Targeted
  <2>3. target[d] # t BY <2>2
  <2>4. outbox'[target[d]] = outbox[target[d]] BY <2>2, <2>3 DEF CallersTyped
  <2> QED BY <1>2, <2>2, <2>4
<1> QED BY <1>1, <1>2

LEMMA SubscribeKeeps ==
  ASSUME TracksAssumption, TracksTyped, CallersTyped, Kept,
         NEW c \in Callers, NEW t \in Tracks, Subscribe(c, t)
  PROVE  CallersTyped' /\ Kept'
<1>1. /\ pc[c] = "idle" /\ answer[c] = None /\ answer' = answer
      /\ \A u \in Tracks : c \notin waiters[u] /\ c \notin streams[u]
      /\ target' = [target EXCEPT ![c] = t]
  BY Distinct DEF Subscribe, Kept, AnswerRead, WaitersAsk, SubscriptionWanted, Asking
<1>2. \A u \in Tracks : outbox[u] # None => outbox[u].by # c
  BY <1>1 DEF Kept, SenderSends, Sending
<1>3. CASE SubscribeFirst(c, t)
  <2>1. /\ subscription[t] = "none" /\ outbox[t] = None
        /\ subscription' = [subscription EXCEPT ![t] = "pending"]
        /\ waiters' = [waiters EXCEPT ![t] = @ \cup {c}]
        /\ outbox' = [outbox EXCEPT ![t] = [by |-> c, sid |-> sid[t], subscribe |-> TRUE]]
        /\ pc' = [pc EXCEPT ![c] = "requesting"] /\ streams' = streams
    BY <1>3 DEF SubscribeFirst, Queue, Goto
  <2>2. [by |-> c, sid |-> sid[t], subscribe |-> TRUE] \in Requests
    BY DEF TracksTyped, Requests
  <2>3. CallersTyped' BY <1>1, <2>1, <2>2 DEF CallersTyped, Labels
  <2>4. waiters[t] = {} /\ streams[t] = {} BY <2>1 DEF Kept, SubscriptionWanted
  <2>5. Targeted' /\ AnswerRead'
    BY <1>1, <2>1 DEF CallersTyped, Kept, Targeted, AnswerRead, Asking
  <2>6. WaitersAsk' BY <1>1, <2>1 DEF CallersTyped, Kept, WaitersAsk, Asking
  <2>7. SenderSends'
    BY <1>1, <1>2, <2>1 DEF CallersTyped, Kept, SenderSends, Sending
  <2>8. NobodyForgotten' BY <1>1, <2>1 DEF CallersTyped, Kept, NobodyForgotten, Targeted
  <2>9. SubscriptionWanted'
    BY <1>1, <2>1, <2>4 DEF CallersTyped, Kept, SubscriptionWanted
  <2>10. SendsOrdered'
    <3>1. target'[c] = t /\ \A d \in Callers : d # c => target'[d] = target[d]
      BY <1>1 DEF CallersTyped
    <3> QED BY <2>1, <2>2, <3>1, QueueOrdered
  <2> QED BY <2>3, <2>5, <2>6, <2>7, <2>8, <2>9, <2>10 DEF Kept
<1>4. CASE SubscribePending(c, t)
  <2>1. /\ subscription[t] = "pending"
        /\ waiters' = [waiters EXCEPT ![t] = @ \cup {c}]
        /\ pc' = [pc EXCEPT ![c] = "waiting"] /\ UNCHANGED <<subscription, streams, outbox>>
    BY <1>4 DEF SubscribePending, Goto
  <2>2. CallersTyped' BY <1>1, <2>1 DEF CallersTyped, Labels
  <2>3. Targeted' /\ AnswerRead'
    BY <1>1, <2>1 DEF CallersTyped, Kept, Targeted, AnswerRead, Asking
  <2>4. WaitersAsk' BY <1>1, <2>1 DEF CallersTyped, Kept, WaitersAsk, Asking
  <2>5. SenderSends' BY <1>1, <1>2, <2>1 DEF CallersTyped, Kept, SenderSends
  <2>6. NobodyForgotten' BY <1>1, <2>1 DEF CallersTyped, Kept, NobodyForgotten, Targeted
  <2>7. SubscriptionWanted' BY <1>1, <2>1 DEF CallersTyped, Kept, SubscriptionWanted
  <2>8. SendsOrdered' BY <1>1, <2>1 DEF CallersTyped, Kept, SendsOrdered
  <2> QED BY <2>2, <2>3, <2>4, <2>5, <2>6, <2>7, <2>8 DEF Kept
<1>5. CASE SubscribeActive(c, t)
  <2>1. /\ subscription[t] = "active"
        /\ streams' = [streams EXCEPT ![t] = @ \cup {c}]
        /\ pc' = [pc EXCEPT ![c] = "open"] /\ UNCHANGED <<subscription, waiters, outbox>>
    BY <1>5 DEF SubscribeActive, Goto
  <2>2. CallersTyped' BY <1>1, <2>1 DEF CallersTyped, Labels
  <2>3. Targeted' /\ AnswerRead' /\ WaitersAsk'
    BY <1>1, <2>1 DEF CallersTyped, Kept, Targeted, AnswerRead, WaitersAsk
  <2>4. SenderSends' BY <1>1, <1>2, <2>1 DEF CallersTyped, Kept, SenderSends
  <2>5. NobodyForgotten' BY <1>1, <2>1 DEF CallersTyped, Kept, NobodyForgotten
  <2>6. SubscriptionWanted' BY <1>1, <2>1 DEF CallersTyped, Kept, SubscriptionWanted
  <2>7. SendsOrdered' BY <1>1, <2>1 DEF CallersTyped, Kept, SendsOrdered
  <2> QED BY <2>2, <2>3, <2>4, <2>5, <2>6, <2>7 DEF Kept
<1> QED BY <1>3, <1>4, <1>5 DEF Subscribe

\* The sender is where it queued the update, and goes on from there.
LEMMA SendKeeps ==
  ASSUME TracksAssumption, TracksTyped, CallersTyped, Kept, NEW t \in Tracks, Send(t)
  PROVE  CallersTyped' /\ Kept'
<1> DEFINE by == outbox[t].by
<1>1. /\ outbox[t] # None /\ outbox' = [outbox EXCEPT ![t] = None]
      /\ UNCHANGED <<subscription, waiters, streams, target, answer>>
  BY DEF Send, trackVars
<1>2. CASE by \notin Callers
  <2>1. pc' = pc BY <1>2 DEF Send
  <2>2. CallersTyped' BY <1>1, <2>1 DEF CallersTyped
  <2>3. Targeted' /\ AnswerRead' /\ WaitersAsk' /\ NobodyForgotten' /\ SubscriptionWanted'
    BY <1>1, <2>1 DEF Kept, Targeted, AnswerRead, WaitersAsk, NobodyForgotten, SubscriptionWanted
  <2>4. SenderSends' BY <1>1, <2>1 DEF CallersTyped, Kept, SenderSends
  <2>5. SendsOrdered'
    BY <1>1, <1>2, <2>1 DEF CallersTyped, Kept, SendsOrdered
  <2> QED BY <2>2, <2>3, <2>4, <2>5 DEF Kept
<1>3. CASE by \in Callers
  <2>1. pc[by] \in Sending /\ target[by] = t BY <1>1, <1>3 DEF Kept, SenderSends
  <2>2. PICK label \in {"failed", "waiting", "withdrawn", "releasing"} :
          /\ pc' = [pc EXCEPT ![by] = label]
          /\ label \in {"failed", "waiting"} <=> pc[by] = "requesting"
          /\ label = "withdrawn" <=> pc[by] = "withdrawing"
    <3>1. PICK failed \in BOOLEAN : pc' = [pc EXCEPT ![by] = AfterSend(@, failed)]
      BY <1>3 DEF Send
    <3>2. AfterSend(pc[by], failed) \in {"failed", "waiting", "withdrawn", "releasing"}
          /\ (AfterSend(pc[by], failed) \in {"failed", "waiting"} <=> pc[by] = "requesting")
          /\ (AfterSend(pc[by], failed) = "withdrawn" <=> pc[by] = "withdrawing")
      BY <2>1 DEF AfterSend, Sending
    <3> QED BY <3>1, <3>2
  <2>3. answer[by] # None => pc[by] = "requesting"
    BY <1>3, <2>1 DEF Kept, AnswerRead, Asking, Sending
  <2> HIDE DEF by
  <2>4. CallersTyped' BY <1>1, <1>3, <2>2 DEF CallersTyped, Labels
  <2>5. Targeted' BY <1>1, <1>3, <2>1, <2>2 DEF CallersTyped, Kept, Targeted
  <2>6. AnswerRead' BY <1>1, <1>3, <2>2, <2>3 DEF CallersTyped, Kept, AnswerRead, Asking
  <2>7. WaitersAsk' BY <1>1, <1>3, <2>1, <2>2 DEF CallersTyped, Kept, WaitersAsk, Asking, Sending
  <2>8. SenderSends'
    BY <1>1, <1>3, <2>1, <2>2 DEF CallersTyped, Kept, SenderSends, by
  <2>9. NobodyForgotten'
    BY <1>1, <1>3, <2>1, <2>2 DEF CallersTyped, Kept, NobodyForgotten, Sending
  <2>10. SubscriptionWanted'
    BY <1>1, <1>3, <2>1, <2>2, <2>3 DEF CallersTyped, Kept, SubscriptionWanted, Sending
  <2>11. SendsOrdered'
    BY <1>1, <1>3, <2>1, <2>2 DEF CallersTyped, Kept, SendsOrdered, by
  <2> QED BY <2>4, <2>5, <2>6, <2>7, <2>8, <2>9, <2>10, <2>11 DEF Kept
<1> QED BY <1>2, <1>3

\* A call that is over holds no answer; it was among no track's waiters.
LEMMA ReturnKeeps ==
  ASSUME TracksAssumption, TracksTyped, CallersTyped, Kept,
         NEW c \in Callers, Return(c) \/ Withdrawn(c)
  PROVE  CallersTyped' /\ Kept'
<1>1. /\ pc[c] \in {"waiting", "withdrawn"}
      /\ answer' = [answer EXCEPT ![c] = None]
      /\ UNCHANGED <<subscription, waiters, streams, target, outbox>>
  BY DEF Return, Withdrawn, trackVars
<1>2. PICK label \in {"open", "idle"} :
        pc' = [pc EXCEPT ![c] = label] /\ (label = "open" <=> answer[c] = "stream")
  BY DEF Return, Withdrawn, Goto
<1>3. \A u \in Tracks : c \notin waiters[u]
  BY <1>1 DEF Return, Withdrawn, Kept, WaitersAsk, Asking
<1>4. \A u \in Tracks : outbox[u] # None => outbox[u].by # c
  BY <1>1 DEF Kept, SenderSends, Sending
<1>5. CallersTyped' BY <1>1, <1>2 DEF CallersTyped, Labels
<1>6. Targeted' BY <1>1, <1>2 DEF CallersTyped, Kept, Targeted
<1>7. AnswerRead' BY <1>1, <1>2 DEF CallersTyped, Kept, AnswerRead
<1>8. WaitersAsk' BY <1>1, <1>2, <1>3 DEF CallersTyped, Kept, WaitersAsk
<1>9. SenderSends' BY <1>1, <1>2, <1>4 DEF CallersTyped, Kept, SenderSends
<1>10. NobodyForgotten' BY <1>1, <1>2 DEF CallersTyped, Kept, NobodyForgotten
<1>11. SubscriptionWanted' BY <1>1, <1>2 DEF CallersTyped, Kept, SubscriptionWanted
<1>12. SendsOrdered' BY <1>1, <1>2 DEF CallersTyped, Kept, SendsOrdered
<1> QED BY <1>5, <1>6, <1>7, <1>8, <1>9, <1>10, <1>11, <1>12 DEF Kept

\* Everybody who waits for the request that failed is answered.
LEMMA FailedKeeps ==
  ASSUME TracksAssumption, TracksTyped, CallersTyped, Kept,
         NEW c \in Callers, SubscribeFailed(c)
  PROVE  CallersTyped' /\ Kept'
<1> DEFINE t == target[c]
<1>1. /\ pc[c] = "failed" /\ pc' = [pc EXCEPT ![c] = "waiting"]
      /\ UNCHANGED <<streams, target, outbox>>
  BY DEF SubscribeFailed, Goto
<1>2. t \in Tracks BY <1>1 DEF Kept, Targeted
<1>3. \A u \in Tracks : outbox[u] # None => outbox[u].by # c
  BY <1>1 DEF Kept, SenderSends, Sending
<1>4. CASE subscription[t] # "pending"
  <2>1. UNCHANGED <<subscription, answer, waiters>> BY <1>4 DEF SubscribeFailed
  <2>2. CallersTyped' BY <1>1, <2>1 DEF CallersTyped, Labels
  <2>3. Targeted' /\ AnswerRead' /\ WaitersAsk'
    BY <1>1, <2>1 DEF CallersTyped, Kept, Targeted, AnswerRead, WaitersAsk, Asking
  <2>4. SenderSends' BY <1>1, <1>3, <2>1 DEF CallersTyped, Kept, SenderSends
  <2>5. NobodyForgotten' BY <1>1, <2>1 DEF CallersTyped, Kept, NobodyForgotten
  <2>6. SubscriptionWanted' BY <1>1, <2>1 DEF CallersTyped, Kept, SubscriptionWanted
  <2>7. SendsOrdered' BY <1>1, <2>1 DEF CallersTyped, Kept, SendsOrdered
  <2> QED BY <2>2, <2>3, <2>4, <2>5, <2>6, <2>7 DEF Kept
<1>5. CASE subscription[t] = "pending"
  <2>1. /\ subscription' = [subscription EXCEPT ![t] = "none"]
        /\ waiters' = [waiters EXCEPT ![t] = {}]
        /\ answer' = [d \in Callers |-> IF d \in waiters[t] THEN "error" ELSE answer[d]]
    BY <1>5 DEF SubscribeFailed, Answered
  <2>2. streams[t] = {} BY <1>2, <1>5 DEF Kept, SubscriptionWanted
  <2>3. \A d \in waiters[t] : pc[d] \in Asking /\ answer[d] = None
    BY <1>2 DEF Kept, WaitersAsk
  <2> HIDE DEF t
  <2>4. CallersTyped' BY <1>1, <1>2, <2>1 DEF CallersTyped, Labels
  <2>5. Targeted' BY <1>1, <2>1 DEF CallersTyped, Kept, Targeted
  <2>6. AnswerRead' BY <1>1, <2>1, <2>3 DEF CallersTyped, Kept, AnswerRead, Asking
  <2>7. WaitersAsk'
    BY <1>1, <1>2, <2>1 DEF CallersTyped, Kept, WaitersAsk, Asking
  <2>8. SenderSends' BY <1>1, <1>3, <2>1 DEF CallersTyped, Kept, SenderSends
  <2>9. NobodyForgotten'
    <3> SUFFICES ASSUME NEW d \in Callers, pc'[d] \in {"requesting", "failed", "waiting"},
                        answer'[d] = None
                 PROVE  subscription'[target'[d]] = "pending" /\ d \in waiters'[target'[d]]
      BY DEF NobodyForgotten
    <3>1. d \notin waiters[t] /\ answer[d] = None BY <2>1, Distinct
    <3>2. pc[d] \in {"requesting", "failed", "waiting"} BY <1>1 DEF CallersTyped
    <3>3. subscription[target[d]] = "pending" /\ d \in waiters[target[d]]
      BY <3>1, <3>2 DEF Kept, NobodyForgotten
    <3>4. target[d] # t /\ target[d] \in Tracks BY <3>1, <3>2, <3>3 DEF Kept, Targeted
    <3> QED BY <1>1, <2>1, <3>3, <3>4 DEF CallersTyped
  <2>10. SubscriptionWanted'
    BY <1>1, <1>2, <2>1, <2>2, <2>3, Distinct DEF CallersTyped, Kept, SubscriptionWanted, Asking
  <2>11. SendsOrdered' BY <1>1, <2>1 DEF CallersTyped, Kept, SendsOrdered
  <2> QED BY <2>4, <2>5, <2>6, <2>7, <2>8, <2>9, <2>10, <2>11 DEF Kept
<1> QED BY <1>4, <1>5

\* The last waiter withdraws the request; it leaves no other behind.
LEMMA TimeoutKeeps ==
  ASSUME TracksAssumption, TracksTyped, CallersTyped, Kept, NEW c \in Callers, Timeout(c)
  PROVE  CallersTyped' /\ Kept'
<1> DEFINE t == target[c]
           last == subscription[t] = "pending" /\ waiters[t] \subseteq {c}
<1>1. /\ pc[c] = "waiting" /\ waiters' = [waiters EXCEPT ![t] = @ \ {c}]
      /\ UNCHANGED <<streams, target, answer>>
  BY DEF Timeout, removeWaiter
<1>2. t \in Tracks BY <1>1 DEF Kept, Targeted
<1>3. \A u \in Tracks : outbox[u] # None => outbox[u].by # c
  BY <1>1 DEF Kept, SenderSends, Sending
<1>4. \A u \in Tracks : c \in waiters[u] => u = t BY DEF Kept, WaitersAsk
<1>5. CASE last
  <2>1. /\ subscription' = [subscription EXCEPT ![t] = "none"] /\ outbox[t] = None
        /\ outbox' = [outbox EXCEPT ![t] = [by |-> c, sid |-> sid[t], subscribe |-> FALSE]]
        /\ pc' = [pc EXCEPT ![c] = "withdrawing"]
    BY <1>5 DEF Timeout, Queue, Goto
  <2>2. [by |-> c, sid |-> sid[t], subscribe |-> FALSE] \in Requests
    BY <1>2 DEF TracksTyped, Requests
  <2>3. streams[t] = {} /\ waiters[t] = {c} BY <1>2, <1>5 DEF Kept, SubscriptionWanted
  <2>4. answer[c] = None BY <1>2, <2>3 DEF Kept, WaitersAsk
  <2> HIDE DEF t
  <2>5. CallersTyped' BY <1>1, <1>2, <2>1, <2>2 DEF CallersTyped, Labels
  <2>6. Targeted' BY <1>1, <1>2, <2>1 DEF CallersTyped, Kept, Targeted, t
  <2>7. AnswerRead' BY <1>1, <2>1, <2>4 DEF CallersTyped, Kept, AnswerRead, Asking
  <2>8. WaitersAsk' BY <1>1, <1>2, <1>4, <2>1 DEF CallersTyped, Kept, WaitersAsk, Asking
  <2>9. SenderSends' BY <1>1, <1>2, <1>3, <2>1 DEF CallersTyped, Kept, SenderSends, Sending, t
  <2>10. NobodyForgotten'
    BY <1>1, <1>2, <2>1, <2>3 DEF CallersTyped, Kept, NobodyForgotten, Targeted
  <2>11. SubscriptionWanted'
    BY <1>1, <1>2, <2>1, <2>3, <2>4, Distinct DEF CallersTyped, Kept, SubscriptionWanted
  <2>12. SendsOrdered'
    <3>1. target'[c] = t /\ \A d \in Callers : d # c => target'[d] = target[d]
      BY <1>1 DEF t
    <3> QED BY <1>2, <2>1, <2>2, <3>1, QueueOrdered
  <2> QED BY <2>5, <2>6, <2>7, <2>8, <2>9, <2>10, <2>11, <2>12 DEF Kept
<1>6. CASE ~last
  <2>1. pc' = [pc EXCEPT ![c] = "withdrawn"] /\ UNCHANGED <<subscription, outbox>>
    BY <1>6 DEF Timeout, Goto
  <2>2. subscription[t] = "pending" => waiters[t] \ {c} # {} BY <1>6
  <2>3. subscription[t] # "pending" => waiters[t] \ {c} = {}
    BY <1>2 DEF Kept, SubscriptionWanted
  <2> HIDE DEF t, last
  <2>4. CallersTyped' BY <1>1, <1>2, <2>1 DEF CallersTyped, Labels
  <2>5. Targeted' BY <1>1, <1>2, <2>1 DEF CallersTyped, Kept, Targeted, t
  <2>6. AnswerRead' BY <1>1, <2>1 DEF CallersTyped, Kept, AnswerRead, Asking
  <2>7. WaitersAsk' BY <1>1, <1>2, <1>4, <2>1 DEF CallersTyped, Kept, WaitersAsk, Asking
  <2>8. SenderSends' BY <1>1, <1>3, <2>1 DEF CallersTyped, Kept, SenderSends
  <2>9. NobodyForgotten'
    BY <1>1, <1>2, <2>1 DEF CallersTyped, Kept, NobodyForgotten, Targeted
  <2>10. SubscriptionWanted'
    BY <1>1, <1>2, <2>1, <2>2, <2>3 DEF CallersTyped, Kept, SubscriptionWanted
  <2>11. SendsOrdered' BY <1>1, <2>1 DEF CallersTyped, Kept, SendsOrdered
  <2> QED BY <2>4, <2>5, <2>6, <2>7, <2>8, <2>9, <2>10, <2>11 DEF Kept
<1> QED BY <1>5, <1>6

\* The last stream to leave ends the subscription.
LEMMA CloseKeeps ==
  ASSUME TracksAssumption, TracksTyped, CallersTyped, Kept, NEW c \in Callers, Close(c)
  PROVE  CallersTyped' /\ Kept'
<1> DEFINE t == target[c]
           last == streams[t] = {c} /\ subscription[t] = "active"
<1>1. /\ pc[c] = "open" /\ streams' = [streams EXCEPT ![t] = @ \ {c}]
      /\ UNCHANGED <<waiters, target, answer>>
  BY DEF Close
<1>2. t \in Tracks /\ answer[c] = None
  BY <1>1 DEF Kept, Targeted, AnswerRead, Asking
<1>3. /\ \A u \in Tracks : outbox[u] # None => outbox[u].by # c
      /\ \A u \in Tracks : c \notin waiters[u]
      /\ \A u \in Tracks : c \in streams[u] => u = t
  BY <1>1 DEF Kept, SenderSends, Sending, WaitersAsk, Asking, SubscriptionWanted
<1>4. CASE last
  <2>1. /\ subscription' = [subscription EXCEPT ![t] = "none"] /\ outbox[t] = None
        /\ outbox' = [outbox EXCEPT ![t] = [by |-> c, sid |-> sid[t], subscribe |-> FALSE]]
        /\ pc' = [pc EXCEPT ![c] = "closing"]
    BY <1>4 DEF Close, Queue, Goto
  <2>2. [by |-> c, sid |-> sid[t], subscribe |-> FALSE] \in Requests
    BY <1>2 DEF TracksTyped, Requests
  <2>3. waiters[t] = {} /\ streams[t] = {c} /\ subscription[t] = "active"
    BY <1>2, <1>4 DEF Kept, SubscriptionWanted
  <2> HIDE DEF t, last
  <2>4. CallersTyped' BY <1>1, <1>2, <2>1, <2>2 DEF CallersTyped, Labels
  <2>5. Targeted' BY <1>1, <1>2, <2>1 DEF CallersTyped, Kept, Targeted, t
  <2>6. AnswerRead' BY <1>1, <1>2, <2>1 DEF CallersTyped, Kept, AnswerRead, Asking
  <2>7. WaitersAsk' BY <1>1, <1>3, <2>1 DEF CallersTyped, Kept, WaitersAsk, Asking
  <2>8. SenderSends' BY <1>1, <1>2, <1>3, <2>1 DEF CallersTyped, Kept, SenderSends, Sending, t
  <2>9. NobodyForgotten'
    BY <1>1, <1>2, <2>1, <2>3 DEF CallersTyped, Kept, NobodyForgotten, Targeted
  <2>10. SubscriptionWanted'
    BY <1>1, <1>2, <1>3, <2>1, <2>3 DEF CallersTyped, Kept, SubscriptionWanted
  <2>11. SendsOrdered'
    <3>1. target'[c] = t /\ \A d \in Callers : d # c => target'[d] = target[d]
      BY <1>1 DEF t
    <3> QED BY <1>2, <2>1, <2>2, <3>1, QueueOrdered
  <2> QED BY <2>4, <2>5, <2>6, <2>7, <2>8, <2>9, <2>10, <2>11 DEF Kept
<1>5. CASE ~last
  <2>1. pc' = [pc EXCEPT ![c] = "idle"] /\ UNCHANGED <<subscription, outbox>>
    BY <1>5 DEF Close, Goto
  <2>2. subscription[t] = "active" => streams[t] # {c} /\ streams[t] # {} BY <1>2, <1>5 DEF Kept, SubscriptionWanted
  <2>3. subscription[t] # "active" => streams[t] = {} BY <1>2 DEF Kept, SubscriptionWanted
  <2> HIDE DEF t, last
  <2>4. CallersTyped' BY <1>1, <1>2, <2>1 DEF CallersTyped, Labels
  <2>5. Targeted' BY <1>1, <2>1 DEF CallersTyped, Kept, Targeted
  <2>6. AnswerRead' BY <1>1, <1>2, <2>1 DEF CallersTyped, Kept, AnswerRead
  <2>7. WaitersAsk' BY <1>1, <1>3, <2>1 DEF CallersTyped, Kept, WaitersAsk
  <2>8. SenderSends' BY <1>1, <1>3, <2>1 DEF CallersTyped, Kept, SenderSends
  <2>9. NobodyForgotten' BY <1>1, <2>1 DEF CallersTyped, Kept, NobodyForgotten
  <2>10. SubscriptionWanted'
    BY <1>1, <1>2, <1>3, <2>1, <2>2, <2>3 DEF CallersTyped, Kept, SubscriptionWanted
  <2>11. SendsOrdered' BY <1>1, <2>1 DEF CallersTyped, Kept, SendsOrdered
  <2> QED BY <2>4, <2>5, <2>6, <2>7, <2>8, <2>9, <2>10, <2>11 DEF Kept
<1> QED BY <1>4, <1>5

LEMMA ReleaseKeeps ==
  ASSUME TracksAssumption, TracksTyped, CallersTyped, Kept, NEW c \in Callers, releaseHandle(c)
  PROVE  CallersTyped' /\ Kept'
<1>1. /\ pc[c] = "releasing" /\ pc' = [pc EXCEPT ![c] = "idle"]
      /\ UNCHANGED <<subscription, waiters, streams, outbox, target, answer>>
  BY DEF releaseHandle, Goto, trackVars
<1>2. answer[c] = None BY <1>1 DEF Kept, AnswerRead, Asking
<1>3. CallersTyped' BY <1>1 DEF CallersTyped, Labels
<1>4. Targeted' /\ AnswerRead'
  BY <1>1, <1>2 DEF CallersTyped, Kept, Targeted, AnswerRead
<1>5. WaitersAsk' /\ SenderSends'
  BY <1>1 DEF CallersTyped, Kept, WaitersAsk, SenderSends, Asking, Sending
<1>6. NobodyForgotten' BY <1>1 DEF CallersTyped, Kept, NobodyForgotten
<1>7. SubscriptionWanted' BY <1>1 DEF CallersTyped, Kept, SubscriptionWanted
<1>8. SendsOrdered' BY <1>1 DEF CallersTyped, Kept, SendsOrdered
<1> QED BY <1>3, <1>4, <1>5, <1>6, <1>7, <1>8 DEF Kept

-----------------------------------------------------------------------------
(* The handlers' steps.                                                    *)

\* A handler's update waits for the one that is being sent.
LEMMA ResendKeeps ==
  ASSUME TracksAssumption, TracksTyped, CallersTyped, Kept,
         NEW g \in Handlers, NEW t \in Tracks, resendSubscription(g, t)
  PROVE  CallersTyped' /\ Kept'
<1>1. UNCHANGED <<subscription, waiters, streams, pc, target, answer>>
  BY DEF resendSubscription, trackVars, callerVars
<1>2. CASE outbox' = outbox BY <1>1, <1>2, CoreSame DEF coreVars
<1>3. CASE Queue(t, g, TRUE)
  <2>1. /\ outbox[t] = None
        /\ outbox' = [outbox EXCEPT ![t] = [by |-> g, sid |-> sid[t], subscribe |-> TRUE]]
    BY <1>3 DEF Queue
  <2>2. [by |-> g, sid |-> sid[t], subscribe |-> TRUE] \in Requests
    BY DEF TracksTyped, Requests
  <2>3. CallersTyped' BY <1>1, <2>1, <2>2 DEF CallersTyped
  <2>4. Targeted' /\ AnswerRead' /\ WaitersAsk' /\ NobodyForgotten' /\ SubscriptionWanted'
    BY <1>1 DEF Kept, Targeted, AnswerRead, WaitersAsk, NobodyForgotten, SubscriptionWanted
  <2>5. SenderSends' BY <1>1, <2>1, Distinct DEF CallersTyped, Kept, SenderSends
  <2>6. SendsOrdered'
    BY <1>1, <2>1 DEF CallersTyped, Kept, SendsOrdered
  <2> QED BY <2>3, <2>4, <2>5, <2>6 DEF Kept
<1> QED BY <1>2, <1>3 DEF resendSubscription

\* The end of tracks answers all who wait for them, and closes their streams.
LEMMA EndKeeps ==
  ASSUME TracksAssumption, CallersTyped, Kept, NEW ts \in SUBSET Tracks, End(ts, "error"),
         UNCHANGED <<outbox, pc, target>>
  PROVE  CallersTyped' /\ Kept'
<1> DEFINE told == UNION {waiters[t] : t \in ts}
<1>1. /\ answer' = [c \in Callers |-> IF c \in told THEN "error" ELSE answer[c]]
      /\ waiters' = [t \in Tracks |-> IF t \in ts THEN {} ELSE waiters[t]]
      /\ streams' = [t \in Tracks |-> IF t \in ts THEN {} ELSE streams[t]]
      /\ subscription' = [t \in Tracks |-> IF t \in ts THEN "none" ELSE subscription[t]]
  BY DEF End, Answered
<1>2. \A c \in told : pc[c] \in Asking /\ answer[c] = None /\ target[c] \in ts
  BY DEF Kept, WaitersAsk
<1>3. \A t \in ts : \A c \in waiters[t] : c \in told OBVIOUS
<1> HIDE DEF told
<1>4. CallersTyped' BY <1>1 DEF CallersTyped
<1>5. Targeted' BY DEF Kept, Targeted
<1>6. AnswerRead' BY <1>1, <1>2 DEF Kept, AnswerRead, Asking
<1>7. WaitersAsk'
  BY <1>1, <1>2 DEF CallersTyped, Kept, WaitersAsk
<1>8. SenderSends' /\ SendsOrdered' BY DEF Kept, SenderSends, SendsOrdered
<1>9. NobodyForgotten'
  <2> SUFFICES ASSUME NEW c \in Callers, pc[c] \in {"requesting", "failed", "waiting"},
                      answer'[c] = None
               PROVE  subscription'[target[c]] = "pending" /\ c \in waiters'[target[c]]
    BY DEF NobodyForgotten
  <2>1. c \notin told /\ answer[c] = None BY <1>1, Distinct
  <2>2. subscription[target[c]] = "pending" /\ c \in waiters[target[c]] /\ target[c] \in Tracks
    BY <2>1 DEF Kept, NobodyForgotten, Targeted
  <2>3. target[c] \notin ts BY <1>3, <2>1, <2>2
  <2> QED BY <1>1, <2>2, <2>3
<1>10. SubscriptionWanted'
  <2>1. \A t \in Tracks : \A c \in streams'[t] : c \in streams[t] /\ c \in Callers /\ answer'[c] = answer[c]
    BY <1>1, <1>2, Distinct DEF CallersTyped, Kept, SubscriptionWanted, Asking
  <2> QED BY <1>1, <2>1 DEF Kept, SubscriptionWanted
<1> QED BY <1>4, <1>5, <1>6, <1>7, <1>8, <1>9, <1>10 DEF Kept

\* Every waiter gets a stream.
LEMMA ActivateKeeps ==
  ASSUME TracksAssumption, CallersTyped, Kept, NEW t \in Tracks, NEW h,
         subscription[t] # "none", activate(t, h), UNCHANGED <<outbox, pc, target>>
  PROVE  CallersTyped' /\ Kept'
<1>1. /\ subscription' = [subscription EXCEPT ![t] = "active"]
      /\ streams' = [streams EXCEPT ![t] = @ \cup waiters[t]]
      /\ answer' = [c \in Callers |-> IF c \in waiters[t] THEN "stream" ELSE answer[c]]
      /\ waiters' = [waiters EXCEPT ![t] = {}]
  BY DEF activate, Answered
<1>2. \A c \in waiters[t] : pc[c] \in Asking /\ answer[c] = None /\ target[c] = t
  BY DEF Kept, WaitersAsk
<1>3. waiters[t] # {} \/ streams[t] # {} BY DEF CallersTyped, Kept, SubscriptionWanted
<1>4. waiters[t] \subseteq Callers /\ streams[t] \subseteq Callers BY DEF CallersTyped
<1>5. CallersTyped' BY <1>1, <1>4 DEF CallersTyped
<1>6. Targeted' BY DEF Kept, Targeted
<1>7. AnswerRead' BY <1>1, <1>2 DEF Kept, AnswerRead, Asking
<1>8. WaitersAsk' BY <1>1, <1>2 DEF CallersTyped, Kept, WaitersAsk
<1>9. SenderSends' /\ SendsOrdered' BY DEF Kept, SenderSends, SendsOrdered
<1>10. NobodyForgotten'
  <2> SUFFICES ASSUME NEW c \in Callers, pc[c] \in {"requesting", "failed", "waiting"},
                      answer'[c] = None
               PROVE  subscription'[target[c]] = "pending" /\ c \in waiters'[target[c]]
    BY DEF NobodyForgotten
  <2>1. c \notin waiters[t] /\ answer[c] = None BY <1>1, Distinct
  <2>2. subscription[target[c]] = "pending" /\ c \in waiters[target[c]] /\ target[c] \in Tracks
    BY <2>1 DEF Kept, NobodyForgotten, Targeted
  <2>3. target[c] # t BY <2>1, <2>2
  <2> QED BY <1>1, <2>2, <2>3 DEF CallersTyped
<1>11. SubscriptionWanted'
  <2>1. ASSUME NEW u \in Tracks, u # t
        PROVE  /\ subscription'[u] = subscription[u] /\ waiters'[u] = waiters[u]
               /\ streams'[u] = streams[u]
               /\ \A c \in streams[u] : c \in Callers /\ answer'[c] = answer[c]
    BY <1>1, <1>2, <2>1 DEF CallersTyped, Kept, SubscriptionWanted
  <2>2. subscription'[t] = "active" /\ waiters'[t] = {} /\ streams'[t] = streams[t] \cup waiters[t]
    BY <1>1 DEF CallersTyped
  <2>3. \A c \in streams[t] : answer'[c] = answer[c] \/ c \in waiters[t]
    BY <1>1, <1>4
  <2>4. \A c \in waiters[t] : answer'[c] = "stream" BY <1>1, <1>4
  <2> QED BY <1>2, <1>3, <2>1, <2>2, <2>3, <2>4 DEF Kept, SubscriptionWanted, Asking
<1> QED BY <1>5, <1>6, <1>7, <1>8, <1>9, <1>10, <1>11 DEF Kept

LEMMA PublicationsKeep ==
  ASSUME TracksAssumption, TracksTyped, CallersTyped, Kept, NEW g \in Handlers, NEW keys,
         NEW listed \in SUBSET SIDs, handlePublicationUpdates(g, keys, listed)
  PROVE  TracksTyped' /\ CallersTyped' /\ Kept'
<1> DEFINE news  == {s \in listed : Key[s] \in keys /\ descriptors[s] = None}
           moved == {t \in Published : \E s \in news : Republished(t, s)}
           fresh == {s \in news : ~\E t \in Published : Republished(t, s)}
<1>1. PICK make \in Injection(fresh, Tracks \ created) :
        LET made    == Range(make)
            newSID  == [t \in Tracks |->
                          CASE t \in moved -> CHOOSE s \in news : Republished(t, s)
                            [] t \in made  -> CHOOSE s \in fresh : make[s] = t
                            [] OTHER       -> sid[t]]
            ended   == {t \in Published : Key[sid[t]] \in keys /\ newSID[t] \notin listed}
            current == (Published \ ended) \cup made
        IN /\ sid' = newSID
           /\ created' = created \cup made
           /\ descriptors' = [s \in SIDs |->
                                IF \E t \in current : newSID[t] = s
                                THEN CHOOSE t \in current : newSID[t] = s ELSE None]
           /\ End(ended, "error") /\ DropHandles(ended)
           /\ UNCHANGED <<outbox, pc, target>>
  BY DEF handlePublicationUpdates
<1> DEFINE made    == Range(make)
           newSID  == [t \in Tracks |->
                         CASE t \in moved -> CHOOSE s \in news : Republished(t, s)
                           [] t \in made  -> CHOOSE s \in fresh : make[s] = t
                           [] OTHER       -> sid[t]]
           ended   == {t \in Published : Key[sid[t]] \in keys /\ newSID[t] \notin listed}
           current == (Published \ ended) \cup made
<1>2. /\ sid' = newSID /\ created' = created \cup made
      /\ descriptors' = [s \in SIDs |->
                           IF \E t \in current : newSID[t] = s
                           THEN CHOOSE t \in current : newSID[t] = s ELSE None]
      /\ End(ended, "error") /\ DropHandles(ended) /\ UNCHANGED <<outbox, pc, target>>
  BY <1>1
<1>3. news \subseteq SIDs /\ fresh \subseteq SIDs OBVIOUS
<1>4. made \subseteq Tracks /\ \A t \in made : \E s \in fresh : make[s] = t
  BY DEF Injection, Range
<1>5. ended \subseteq Tracks /\ current \subseteq Tracks
  BY <1>4 DEF Published, TracksTyped
<1>6. \A t \in moved : \E s \in news : Republished(t, s) OBVIOUS
<1> HIDE DEF made, moved, news, fresh, ended, current
<1>7. newSID \in [Tracks -> SIDs \cup {None}]
  <2> SUFFICES ASSUME NEW t \in Tracks PROVE newSID[t] \in SIDs \cup {None} OBVIOUS
  <2>1. CASE t \in moved BY <1>3, <1>6, <2>1
  <2>2. CASE t \notin moved /\ t \in made BY <1>3, <1>4, <2>2
  <2>3. CASE t \notin moved /\ t \notin made BY <2>3 DEF TracksTyped
  <2> QED BY <2>1, <2>2, <2>3
<1> HIDE DEF newSID
<1>8. descriptors' \in [SIDs -> Tracks \cup {None}]
  <2> SUFFICES ASSUME NEW s \in SIDs PROVE descriptors'[s] \in Tracks \cup {None}
    BY <1>2
  <2>1. CASE \E t \in current : newSID[t] = s BY <1>2, <1>5, <2>1
  <2>2. CASE ~\E t \in current : newSID[t] = s BY <1>2, <2>2
  <2> QED BY <2>1, <2>2
<1>9. subHandles' = [h \in Handles |-> subHandles'[h]] BY <1>2 DEF DropHandles
<1>10. TracksTyped' BY <1>2, <1>4, <1>7, <1>8, <1>9 DEF TracksTyped
<1> QED BY <1>2, <1>5, <1>10, EndKeeps

LEMMA HandlesKeep ==
  ASSUME TracksAssumption, TracksTyped, CallersTyped, Kept, NEW h \in Handles, NEW s \in SIDs,
         HandleSubscriberHandles(h, s)
  PROVE  TracksTyped' /\ CallersTyped' /\ Kept'
<1> DEFINE t == descriptors[s]
<1>1. UNCHANGED <<descriptors, outbox, pc, target>> BY DEF HandleSubscriberHandles
<1>2. CASE t = None \/ subscription[t] = "none"
  <2>1. UNCHANGED <<subHandles, created, sid, subscription, waiters, streams, answer>>
    BY <1>2 DEF HandleSubscriberHandles, trackVars
  <2> QED BY <1>1, <2>1, CoreSame DEF coreVars, TracksTyped
<1>3. CASE ~(t = None \/ subscription[t] = "none")
  <2>1. activate(t, h) /\ subHandles' = [k \in Handles |-> subHandles'[k]]
    BY <1>3 DEF HandleSubscriberHandles
  <2>2. t \in Tracks BY <1>3 DEF TracksTyped
  <2>3. TracksTyped' BY <1>1, <2>1 DEF TracksTyped, activate
  <2> QED BY <1>1, <1>3, <2>1, <2>2, <2>3, ActivateKeeps
<1> QED BY <1>2, <1>3

-----------------------------------------------------------------------------
(* Messages keep their kind.                                               *)

LEMMA SFUKeeps ==
  ASSUME TracksAssumption, MessagesTyped,
         \/ \E s \in SIDs : SFUPublish(s) \/ SFUUnpublish(s)
         \/ SFUServe \/ LinkFails \/ Restart
  PROVE  MessagesTyped'
<1>1. ASSUME NEW s \in SIDs, NEW listed \in SUBSET SIDs, Tell(Update(Key[s], listed))
      PROVE  fromSFU' \in Seq(Messages)
  <2>1. Update(Key[s], listed) \in Messages BY DEF Update, Messages, Keys
  <2> QED BY <1>1, <2>1, AppendProperties DEF Tell, MessagesTyped
<1>2. ASSUME NEW s \in SIDs, SFUPublish(s) PROVE MessagesTyped'
  <2>1. fromSFU' \in Seq(Messages) BY <1>1, <1>2 DEF SFUPublish
  <2> QED BY <1>2, <2>1 DEF SFUPublish, MessagesTyped, SFUUnchanged, handlerVars
<1>3. ASSUME NEW s \in SIDs, SFUUnpublish(s) PROVE MessagesTyped'
  <2>1. fromSFU' \in Seq(Messages) BY SMTT(30), <1>1, <1>3 DEF SFUUnpublish
  <2> QED BY <1>3, <2>1 DEF SFUUnpublish, MessagesTyped, SFUUnchanged, handlerVars
<1>4. CASE SFUServe
  <2> DEFINE u == Head(toSFU)
  <2>1. UNCHANGED <<pubs, jobs>> BY <1>4 DEF SFUServe, SFUUnchanged, handlerVars
  <2>2. CASE UNCHANGED <<assigned, fromSFU>> BY <2>1, <2>2 DEF MessagesTyped
  <2>3. CASE assigned' = [assigned EXCEPT ![u.sid] = None] /\ UNCHANGED fromSFU
    BY <2>1, <2>3 DEF MessagesTyped
  <2>4. CASE u.sid \in pubs /\ u.subscribe /\ ~UNCHANGED <<assigned, fromSFU>>
    <3>1. PICK h \in (IF assigned[u.sid] = None THEN FreeHandles ELSE {assigned[u.sid]}) :
            /\ assigned' = [assigned EXCEPT ![u.sid] = h]
            /\ fromSFU' = Append(fromSFU, [type |-> "handles", handle |-> h, sid |-> u.sid])
      BY <1>4, <2>4 DEF SFUServe
    <3>2. u.sid \in SIDs BY <2>4 DEF MessagesTyped
    <3>3. h \in Handles BY <3>1, <3>2 DEF MessagesTyped, FreeHandles
    <3>4. [type |-> "handles", handle |-> h, sid |-> u.sid] \in Messages
      BY <3>2, <3>3 DEF Messages
    <3>5. fromSFU' \in Seq(Messages) BY <3>1, <3>4, AppendProperties DEF MessagesTyped
    <3> QED BY <2>1, <3>1, <3>3, <3>5 DEF MessagesTyped
  <2> QED BY <1>4, <2>2, <2>3, <2>4 DEF SFUServe
<1>5. CASE LinkFails BY <1>5 DEF LinkFails, MessagesTyped, handlerVars, sfuVars
<1>6. CASE Restart
  <2>1. PICK keys \in SUBSET Keys :
          jobs' = <<[type |-> "update", keys |-> keys, listed |-> pubs],
                    [type |-> "snapshot", keys |-> keys, listed |-> pubs],
                    [type |-> "resend"]>>
    BY <1>6 DEF Restart, Keys
  <2>2. /\ [type |-> "update", keys |-> keys, listed |-> pubs] \in Jobs
        /\ [type |-> "snapshot", keys |-> keys, listed |-> pubs] \in Jobs
        /\ [type |-> "resend"] \in Jobs
    BY DEF Jobs, MessagesTyped
  <2>3. jobs' \in Seq(Jobs) BY <2>1, <2>2
  <2>4. assigned' \in [SIDs -> Handles \cup {None}] /\ pubs' = pubs /\ fromSFU' = <<>>
    BY <1>6 DEF Restart
  <2> QED BY <2>3, <2>4, EmptySeq DEF MessagesTyped
<1> QED BY <1>2, <1>3, <1>4, <1>5, <1>6

LEMMA StepInv == ASSUME TracksAssumption PROVE IInv /\ [Next]_vars => IInv'
<1> SUFFICES ASSUME IInv, [Next]_vars PROVE IInv' OBVIOUS
<1>0. TracksTyped /\ MessagesTyped /\ CallersTyped /\ Kept BY DEF IInv
<1>1. ASSUME NEW c \in Callers,
             \/ \E t \in Tracks : Subscribe(c, t)
             \/ SubscribeFailed(c) \/ Return(c) \/ Timeout(c) \/ Withdrawn(c) \/ Close(c)
      PROVE  IInv'
  <2>1. /\ UNCHANGED <<created, sid, descriptors, subHandles>>
        /\ UNCHANGED <<pubs, assigned, fromSFU, jobs>>
    BY <1>1 DEF Subscribe, SubscribeFailed, Return, Timeout, Withdrawn, Close, managerVars,
                trackVars, sfuVars, handlerVars
  <2>2. TracksTyped' /\ MessagesTyped' BY <1>0, <2>1 DEF TracksTyped, MessagesTyped
  <2>3. CallersTyped' /\ Kept'
    BY <1>0, <1>1, SubscribeKeeps, FailedKeeps, ReturnKeeps, TimeoutKeeps, CloseKeeps
  <2> QED BY <2>2, <2>3 DEF IInv
<1>2. ASSUME NEW c \in Callers, releaseHandle(c) PROVE IInv'
  <2>1. UNCHANGED <<created, sid, descriptors, pubs, assigned, fromSFU, jobs>>
    BY <1>2 DEF releaseHandle, trackVars, sfuVars, handlerVars
  <2>2. subHandles' = [h \in Handles |-> subHandles'[h]]
    BY <1>0, <1>2 DEF releaseHandle, TracksTyped
  <2>3. TracksTyped' /\ MessagesTyped' BY <1>0, <2>1, <2>2 DEF TracksTyped, MessagesTyped
  <2> QED BY <1>0, <1>2, <2>3, ReleaseKeeps DEF IInv
<1>3. ASSUME NEW t \in Tracks, Send(t) \/ \E g \in Handlers : resendSubscription(g, t)
      PROVE  IInv'
  <2>1. UNCHANGED <<created, sid, descriptors, subHandles, pubs, assigned, fromSFU, jobs>>
    BY <1>3 DEF Send, resendSubscription, managerVars, trackVars, sfuVars, handlerVars
  <2>2. TracksTyped' /\ MessagesTyped' BY <1>0, <2>1 DEF TracksTyped, MessagesTyped
  <2> QED BY <1>0, <1>3, <2>2, SendKeeps, ResendKeeps DEF IInv
<1>4. CASE Receive
  <2>1. Head(fromSFU) \in Messages /\ Tail(fromSFU) \in Seq(Messages)
    BY <1>0, <1>4, HeadTailProperties DEF Receive, MessagesTyped
  <2>2. MessagesTyped' BY <1>0, <1>4, <2>1 DEF Receive, MessagesTyped, sfuVars
  <2> DEFINE m == Head(fromSFU)
  <2>3. CASE m.type = "update" /\ handlePublicationUpdates(Reader, {m.key}, m.listed)
    <3>1. m.listed \in SUBSET SIDs BY <2>1, <2>3 DEF Messages
    <3> QED BY <1>0, <2>2, <2>3, <3>1, PublicationsKeep DEF IInv, Handlers
  <2>4. CASE m.type = "handles" /\ HandleSubscriberHandles(m.handle, m.sid)
    <3>1. m.handle \in Handles /\ m.sid \in SIDs BY <2>1, <2>4 DEF Messages
    <3> QED BY <1>0, <2>2, <2>4, <3>1, HandlesKeep DEF IInv
  <2> QED BY <1>4, <2>3, <2>4 DEF Receive
<1>5. CASE Restore
  <2>1. Head(jobs) \in Jobs /\ Tail(jobs) \in Seq(Jobs)
    BY <1>0, <1>5, HeadTailProperties DEF Restore, MessagesTyped
  <2>2. MessagesTyped' BY <1>0, <1>5, <2>1 DEF Restore, MessagesTyped, sfuVars
  <2> DEFINE j == Head(jobs)
  <2>3. ASSUME j.type \in {"update", "snapshot"}, NEW keys,
               handlePublicationUpdates(Restorer, keys, j.listed)
        PROVE  IInv'
    <3>1. j.listed \in SUBSET SIDs BY <2>1, <2>3 DEF Jobs
    <3> QED BY <1>0, <2>2, <2>3, <3>1, PublicationsKeep DEF IInv, Handlers
  <2>4. CASE ResendSubscriptionUpdates
    <3>1. UNCHANGED coreVars /\ UNCHANGED <<created, sid, descriptors, subHandles>>
      BY <2>4 DEF ResendSubscriptionUpdates, coreVars, managerVars, trackVars, callerVars
    <3> QED BY <1>0, <2>2, <3>1, CoreSame DEF IInv, TracksTyped
  <2> QED BY <1>5, <2>3, <2>4 DEF Restore, HandleParticipantSnapshot
<1>6. CASE Shutdown
  <2>1. /\ End(Published, "error") /\ UNCHANGED <<outbox, pc, target>>
        /\ Published \in SUBSET Tracks
    BY <1>0, <1>6 DEF Shutdown, Published, TracksTyped
  <2>2. TracksTyped' BY <1>0, <1>6 DEF Shutdown, TracksTyped
  <2>3. MessagesTyped' BY <1>0, <1>6 DEF Shutdown, MessagesTyped, sfuVars, handlerVars
  <2> QED BY <1>0, <2>1, <2>2, <2>3, EndKeeps DEF IInv
<1>7. CASE \/ \E s \in SIDs : SFUPublish(s) \/ SFUUnpublish(s)
           \/ SFUServe \/ LinkFails \/ Restart
  <2>1. UNCHANGED coreVars /\ UNCHANGED <<created, sid, descriptors, subHandles>>
    BY <1>7 DEF SFUPublish, SFUUnpublish, SFUServe, LinkFails, Restart, SFUUnchanged, coreVars,
                managerVars, trackVars, callerVars
  <2> QED BY <1>0, <1>7, <2>1, CoreSame, SFUKeeps DEF IInv, TracksTyped
<1>8. CASE UNCHANGED vars
  <2>1. UNCHANGED coreVars
        /\ UNCHANGED <<created, sid, descriptors, subHandles, pubs, assigned, fromSFU, jobs>>
    BY <1>8 DEF vars, coreVars, managerVars, trackVars, callerVars, sfuVars, handlerVars
  <2> QED BY <1>0, <2>1, CoreSame DEF IInv, TracksTyped, MessagesTyped
<1> QED BY <1>1, <1>2, <1>3, <1>4, <1>5, <1>6, <1>7, <1>8 DEF Next

-----------------------------------------------------------------------------
\* No Subscribe call waits for an answer that nobody is going to give it.
THEOREM NobodyWaitsForNothing == ASSUME TracksAssumption PROVE Spec => []NobodyForgotten
<1>1. Init => IInv BY InitInv
<1>2. IInv /\ [Next]_vars => IInv' BY StepInv
<1>3. IInv => NobodyForgotten BY DEF IInv, Kept
<1> QED BY <1>1, <1>2, <1>3, PTL DEF Spec

\* Only the caller's own release ends its releasing.
LEMMA OnlyRelease ==
  ASSUME TracksAssumption, IInv, [Next]_vars, NEW c \in Callers,
         pc[c] = "releasing", pc'[c] = "idle"
  PROVE  releaseHandle(c)
<1>1. pc \in [Callers -> Labels] BY DEF IInv, CallersTyped
<1>2. ASSUME NEW d \in Callers,
             \/ \E t \in Tracks : Subscribe(d, t)
             \/ SubscribeFailed(d) \/ Return(d) \/ Timeout(d) \/ Withdrawn(d) \/ Close(d)
             \/ releaseHandle(d)
      PROVE  d = c
  <2>1. \E label : pc' = [pc EXCEPT ![d] = label]
    BY <1>2 DEF Subscribe, SubscribeFirst, SubscribePending, SubscribeActive, SubscribeFailed,
                Return, Timeout, Withdrawn, Close, releaseHandle, Goto
  <2> QED BY <1>1, <2>1
<1>3. ~\/ \E t \in Tracks : Subscribe(c, t)
       \/ SubscribeFailed(c) \/ Return(c) \/ Timeout(c) \/ Withdrawn(c) \/ Close(c)
  BY DEF Subscribe, SubscribeFailed, Return, Timeout, Withdrawn, Close
<1>4. ASSUME NEW t \in Tracks, Send(t) PROVE FALSE
  <2>1. CASE outbox[t].by = c BY <1>4, <2>1 DEF Send, IInv, Kept, SenderSends, Sending
  <2>2. CASE outbox[t].by # c BY <1>1, <1>4, <2>2 DEF Send
  <2> QED BY <2>1, <2>2
<1>5. ASSUME pc' = pc PROVE FALSE BY <1>5
<1>6. ASSUME \/ \E t \in Tracks, g \in Handlers : resendSubscription(g, t)
             \/ Receive \/ Restore \/ Shutdown
             \/ \E s \in SIDs : SFUPublish(s) \/ SFUUnpublish(s)
             \/ SFUServe \/ LinkFails \/ Restart \/ UNCHANGED vars
      PROVE  pc' = pc
  BY <1>6 DEF resendSubscription, Receive, Restore, Shutdown, SFUPublish, SFUUnpublish, SFUServe,
              LinkFails, Restart, vars, SFUUnchanged, callerVars, handlePublicationUpdates,
              HandleParticipantSnapshot, HandleSubscriberHandles, ResendSubscriptionUpdates
<1> QED BY <1>2, <1>3, <1>4, <1>5, <1>6 DEF Next

LEMMA StepReleases ==
  ASSUME TracksAssumption
  PROVE  IInv /\ [Next]_vars =>
           [\A c \in Callers : pc[c] = "releasing" /\ pc'[c] = "idle" =>
              \A h \in Handles : subHandles[h] # None /\ usesHandle(subHandles[h], h) =>
                subHandles'[h] = subHandles[h]]_vars
<1> SUFFICES ASSUME IInv, [Next]_vars, NEW c \in Callers, pc[c] = "releasing", pc'[c] = "idle",
                    NEW h \in Handles, subHandles[h] # None, usesHandle(subHandles[h], h)
             PROVE  subHandles'[h] = subHandles[h]
  OBVIOUS
<1>1. releaseHandle(c) BY OnlyRelease
<1>2. subHandles = [k \in Handles |-> subHandles[k]] BY DEF IInv, TracksTyped
<1> QED BY <1>1, <1>2 DEF releaseHandle

\* A subscription is wanted by those who have it, its updates leave in the order
\* of its changes, and a handle in use again outlives the release of its former use.
THEOREM CallersAreFollowed == ASSUME TracksAssumption PROVE Spec => SubscriptionsFollow
<1>1. Init => IInv BY InitInv
<1>2. IInv /\ [Next]_vars => IInv' BY StepInv
<1>3. IInv => SubscriptionWanted /\ SendsOrdered BY DEF IInv, Kept
<1> QED
  BY <1>1, <1>2, <1>3, StepReleases, PTL DEF Spec, SubscriptionsFollow, ReleaseChecked

-----------------------------------------------------------------------------
(* The manager's maps, and what the SFU is told and tells.                 *)

\* A publication is listed under one SID at a time.
OneEach(ss) == \A r, s \in ss : Key[r] = Key[s] => r = s

Listings == {m \in Messages : m.type = "update" =>
               OneEach(m.listed) /\ \A s \in m.listed : Key[s] = m.key}
Restores == {j \in Jobs : j.type # "resend" =>
               OneEach(j.listed) /\ \A s \in j.listed : Key[s] \in j.keys}

ListsOnce == OneEach(pubs) /\ fromSFU \in Seq(Listings) /\ jobs \in Seq(Restores)

RoutesTyped ==
  /\ unpublished \subseteq created
  /\ subHandles \in [Handles -> Tracks \cup {None}]
  /\ subHandle \in [Tracks -> Handles \cup {None}]
  /\ released \in [Callers -> Handles \cup {None}]
  /\ todo \in [Handlers -> SUBSET Tracks]
  /\ pubs \subseteq used /\ used \subseteq SIDs
  /\ toSFU \in Seq([sid : SIDs, subscribe : BOOLEAN])
  /\ link \in {"up", "down", "closed"} /\ restarts \in 0..MaxRestarts
  /\ link = "down" => restarts < MaxRestarts

\* Only tracks that were made are worked on, and each keeps its publication.
TracksMade ==
  /\ \A t \in created : sid[t] \in SIDs
  /\ \A t \in Tracks \ created : subscription[t] = "none" /\ outbox[t] = None
  /\ \A g \in Handlers : todo[g] \subseteq created
  /\ \A c \in Callers : pc[c] # "idle" => target[c] \in created
  /\ \A t \in Tracks : outbox[t] # None =>
       /\ outbox[t].sid \in SIDs
       /\ Key[outbox[t].sid] = Key[sid[t]] /\ Meta[outbox[t].sid] = Meta[sid[t]]
       /\ ~outbox[t].subscribe => subscription[t] = "none"

\* One track a publication: of two with one key the SID would tell nothing.
KeysOnce == \A t, u \in Published : Key[sid[t]] = Key[sid[u]] => t = u

MapsInv == ListsOnce /\ RoutesTyped /\ TracksMade /\ KeysOnce /\ DescriptorsIndexed /\ RouteOwned

\* What the SFU's messages say.
About(i, k) == fromSFU[i].type = "update" /\ fromSFU[i].key = k
Lists(i, s) == fromSFU[i].type = "update" /\ s \in fromSFU[i].listed
Restored(i) == jobs[i].type # "resend"

\* Some track has the SID, or an update about it to send.
Heard(s) == \/ \E t \in created : sid[t] = s
            \/ \E t \in Tracks : outbox[t] # None /\ outbox[t].sid = s

Mentioned(s) == \E i \in 1..Len(toSFU) : toSFU[i].sid = s

\* The last request under way about the SID.
LastAsks(s, subscribe) ==
  \E i \in 1..Len(toSFU) :
    /\ toSFU[i].sid = s /\ toSFU[i].subscribe = subscribe
    /\ \A j \in 1..Len(toSFU) : j > i => toSFU[j].sid # s

\* Nothing is known of a SID before its publisher used it.
UsedFirst ==
  /\ \A s \in SIDs : Heard(s) \/ Mentioned(s) => s \in used
  /\ \A i \in 1..Len(fromSFU), s \in SIDs : Lists(i, s) => s \in used
  /\ \A i \in 1..Len(jobs) : Restored(i) => jobs[i].listed \subseteq used
  /\ \A s \in SIDs : assigned[s] # None => s \in pubs

\* Once a SID that is still published was heard of, no news about its
\* publication is under way: the next news ends it.
NewsLast ==
  \A s \in pubs :
    /\ Heard(s) \/ (\E i \in 1..Len(jobs) : Restored(i) /\ s \in jobs[i].listed) =>
         \A j \in 1..Len(fromSFU) : ~About(j, Key[s])
    /\ \A i, j \in 1..Len(fromSFU) : Lists(i, s) /\ j > i => ~About(j, Key[s])

\* A restart applies one listing, and then resends.
OneListing ==
  /\ \A i, j \in 1..Len(jobs) : Restored(i) /\ Restored(j) => jobs[i].listed = jobs[j].listed
  /\ jobs # <<>> => jobs[Len(jobs)].type = "resend"

\* A track whose update is about a former SID, which the SFU still publishes,
\* was moved by a stale listing: it is published, and will be moved back.
StrayPublished ==
  link # "closed" =>
    \A t \in Tracks :
      outbox[t] # None /\ outbox[t].sid # sid[t] /\ outbox[t].sid \in pubs =>
        /\ t \in Published
        /\ \A i \in 1..Len(jobs) : Restored(i) =>
             sid[t] \in jobs[i].listed \/ outbox[t].sid \in jobs[i].listed

\* A wanted subscription is served, or the last request about it asks for it,
\* or it is still to be asked for.
Asked ==
  link = "up" /\ jobs = <<>> =>
    \A t \in Published :
      /\ subscription[t] # "none" /\ sid[t] \in pubs
      /\ \A u \in unpublished : sid[u] # sid[t]
      => \/ \E g \in Handlers : t \in todo[g]
         \/ outbox[t] # None /\ outbox[t].sid = sid[t]
         \/ LastAsks(sid[t], TRUE)
         \/ ~Mentioned(sid[t]) /\ assigned[sid[t]] # None

ServedInv == UsedFirst /\ NewsLast /\ OneListing /\ StrayPublished /\ Asked

FirstSession == link = "up" /\ restarts = 0

\* The SFU's first word about a SID is under way, once.
NewsOnce ==
  \A i \in 1..Len(fromSFU), s \in SIDs : Lists(i, s) =>
    /\ ~Heard(s) /\ ~Mentioned(s) /\ assigned[s] = None
    /\ \A j \in 1..Len(fromSFU) : Lists(j, s) => i = j

\* No two tracks have, or send updates about, one SID.
SIDsOnce ==
  /\ \A t, u \in created : sid[t] = sid[u] => t = u
  /\ \A t \in Tracks, u \in created : outbox[t] # None /\ outbox[t].sid = sid[u] => t = u

OfKey(ss, k) == {s \in ss : Key[s] = k}

\* The last news about a publication, or else the tracks, are as the SFU has it.
PubsFollow ==
  /\ \A i \in 1..Len(fromSFU), k \in Keys :
       About(i, k) /\ (\A j \in 1..Len(fromSFU) : j > i => ~About(j, k)) =>
         fromSFU[i].listed = OfKey(pubs, k)
  /\ \A k \in Keys : (\A i \in 1..Len(fromSFU) : ~About(i, k)) =>
       OfKey({sid[t] : t \in Published}, k) = OfKey(pubs, k)

\* What nobody wants is not served, or the last update about it takes it back.
TakenBack ==
  \A t \in Published : subscription[t] = "none" =>
    IF outbox[t] # None /\ outbox[t].sid = sid[t] THEN ~outbox[t].subscribe
    ELSE LastAsks(sid[t], FALSE) \/ (~Mentioned(sid[t]) /\ assigned[sid[t]] = None)

FirstInv ==
  FirstSession =>
    /\ jobs = <<>> /\ (\A c \in Callers : pc[c] # "failed")
    /\ NewsOnce /\ SIDsOnce /\ PubsFollow /\ TakenBack

-----------------------------------------------------------------------------
(* What handlePublicationUpdates comes to.                                 *)

Ended == unpublished' \ unpublished

Relisted(g, keys, listed) ==
  /\ created \subseteq created' /\ created' \subseteq Tracks
  /\ unpublished \subseteq unpublished' /\ Ended \subseteq Published
  /\ \A t \in created :
       \/ sid'[t] = sid[t]
       \/ /\ t \in Published /\ sid'[t] \in listed /\ descriptors[sid'[t]] = None
          /\ Key[sid'[t]] = Key[sid[t]] /\ Meta[sid'[t]] = Meta[sid[t]]
          /\ subscription[t] # "none" => t \in todo'[g]
  /\ \A t \in created' \ created :
       /\ t \in Published' /\ sid'[t] \in listed /\ Key[sid'[t]] \in keys
       /\ descriptors[sid'[t]] = None
       /\ \A u \in created' \ created : sid'[t] = sid'[u] => t = u
       /\ \A u \in Published : sid'[u] # sid'[t]
  /\ \A t \in Published : t \in Ended <=> Key[sid[t]] \in keys /\ sid'[t] \notin listed
  /\ \A t \in Published, s \in listed :
       /\ Key[s] \in keys /\ descriptors[s] = None
       /\ Key[sid[t]] = Key[s] /\ Meta[sid[t]] = Meta[s]
       => sid'[t] = s
  /\ \A s \in listed : Key[s] \in keys => \E t \in Published' : sid'[t] = s
  /\ descriptors' = [s \in SIDs |->
                       IF \E t \in Published' : sid'[t] = s
                       THEN CHOOSE t \in Published' : sid'[t] = s ELSE None]
  /\ subscription' = [t \in Tracks |-> IF t \in Ended THEN "none" ELSE subscription[t]]
  /\ DropHandles(Ended)
  /\ todo'[g] \subseteq Published /\ \A f \in Handlers : f # g => todo'[f] = todo[f]
  /\ UNCHANGED <<subHandle, outbox, pc, target, released>>

LEMMA PublicationsRelist ==
  ASSUME TracksAssumption, TracksTyped, RoutesTyped, TracksMade, DescriptorsIndexed,
         NEW g \in Handlers, NEW keys, NEW listed \in SUBSET SIDs, OneEach(listed),
         handlePublicationUpdates(g, keys, listed)
  PROVE  Relisted(g, keys, listed) /\ todo' \in [Handlers -> SUBSET Tracks]
<1> DEFINE news  == {s \in listed : Key[s] \in keys /\ descriptors[s] = None}
           moved == {t \in Published : \E s \in news : Republished(t, s)}
           fresh == {s \in news : ~\E t \in Published : Republished(t, s)}
<1>1. PICK make \in Injection(fresh, Tracks \ created) :
        LET made    == Range(make)
            newSID  == [t \in Tracks |->
                          CASE t \in moved -> CHOOSE s \in news : Republished(t, s)
                            [] t \in made  -> CHOOSE s \in fresh : make[s] = t
                            [] OTHER       -> sid[t]]
            ended   == {t \in Published : Key[sid[t]] \in keys /\ newSID[t] \notin listed}
            current == (Published \ ended) \cup made
        IN /\ sid' = newSID
           /\ created' = created \cup made
           /\ descriptors' = [s \in SIDs |->
                                IF \E t \in current : newSID[t] = s
                                THEN CHOOSE t \in current : newSID[t] = s ELSE None]
           /\ End(ended, "error") /\ DropHandles(ended)
           /\ todo' = [todo EXCEPT ![g] = {t \in moved : subscription[t] # "none"}]
           /\ UNCHANGED <<subHandle, outbox, pc, target, released>>
  BY DEF handlePublicationUpdates
<1> DEFINE made    == Range(make)
           newSID  == [t \in Tracks |->
                         CASE t \in moved -> CHOOSE s \in news : Republished(t, s)
                           [] t \in made  -> CHOOSE s \in fresh : make[s] = t
                           [] OTHER       -> sid[t]]
           ended   == {t \in Published : Key[sid[t]] \in keys /\ newSID[t] \notin listed}
           current == (Published \ ended) \cup made
<1>2. /\ sid' = newSID /\ created' = created \cup made
      /\ descriptors' = [s \in SIDs |->
                           IF \E t \in current : newSID[t] = s
                           THEN CHOOSE t \in current : newSID[t] = s ELSE None]
      /\ End(ended, "error") /\ DropHandles(ended)
      /\ todo' = [todo EXCEPT ![g] = {t \in moved : subscription[t] # "none"}]
      /\ UNCHANGED <<subHandle, outbox, pc, target, released>>
  BY <1>1
<1>3. /\ unpublished' = unpublished \cup ended
      /\ subscription' = [t \in Tracks |-> IF t \in ended THEN "none" ELSE subscription[t]]
  BY <1>2 DEF End
<1>4. /\ made \subseteq Tracks \ created
      /\ \A t \in made : \E s \in fresh : make[s] = t
      /\ \A s \in fresh : make[s] \in made
      /\ \A r, s \in fresh : make[r] = make[s] => r = s
  BY DEF Injection, IsInjective, Range
<1>5. ended \subseteq Published /\ Published \subseteq created /\ created \subseteq Tracks
  BY DEF Published, TracksTyped
<1>6. ended = Ended /\ Published' = current
  <2> HIDE DEF made, moved, news, fresh, ended, current, newSID
  <2>1. ended = Ended BY <1>3, <1>5 DEF Published, Ended
  <2>2. made \cap unpublished = {} /\ made \cap ended = {} BY <1>4, <1>5 DEF RoutesTyped
  <2>3. created' = created \cup made BY <1>2
  <2>4. current = (Published \ ended) \cup made BY DEF current
  <2> QED BY <1>3, <2>1, <2>2, <2>3, <2>4 DEF Published
<1>7. /\ \A t \in moved : \E s \in news : Republished(t, s)
      /\ \A t \in Published, s \in news : Republished(t, s) => t \in moved
      /\ moved \subseteq Published
  OBVIOUS
<1>8. \A s \in fresh : s \in news /\ ~\E t \in Published : Republished(t, s) OBVIOUS
<1>9. \A s \in news : s \in fresh \/ \E t \in Published : Republished(t, s) OBVIOUS
<1>10. \A s : s \in news <=> s \in listed /\ Key[s] \in keys /\ descriptors[s] = None OBVIOUS
<1>11. \A t \in Published : t \in ended <=> Key[sid[t]] \in keys /\ newSID[t] \notin listed
  OBVIOUS
<1>12. \A t \in moved : newSID[t] \in news /\ Republished(t, newSID[t])
  <2> SUFFICES ASSUME NEW t \in moved
               PROVE  newSID[t] \in news /\ Republished(t, newSID[t]) OBVIOUS
  <2>1. t \in Tracks /\ t \notin made BY <1>4, <1>5, <1>7
  <2>2. \E s \in news : Republished(t, s) BY <1>7
  <2> HIDE DEF news, moved, fresh, made
  <2>3. newSID[t] = CHOOSE s \in news : Republished(t, s) BY <2>1
  <2> HIDE DEF newSID
  <2> QED BY <2>2, <2>3
<1>13. \A t \in made : newSID[t] \in fresh /\ make[newSID[t]] = t
  <2> SUFFICES ASSUME NEW t \in made
               PROVE  newSID[t] \in fresh /\ make[newSID[t]] = t OBVIOUS
  <2>1. t \in Tracks /\ t \notin moved BY <1>4, <1>5, <1>7
  <2>2. newSID[t] = CHOOSE s \in fresh : make[s] = t BY <2>1
  <2>3. \E s \in fresh : make[s] = t BY <1>4
  <2> HIDE DEF newSID, fresh, made, moved
  <2> QED BY <2>2, <2>3
<1>14. \A t \in created \ moved : newSID[t] = sid[t] BY <1>4, <1>5
<1> HIDE DEF made, moved, news, fresh, ended, current, newSID
<1>15. \A t \in moved : /\ newSID[t] \in listed /\ descriptors[newSID[t]] = None
                        /\ Key[newSID[t]] = Key[sid[t]] /\ Meta[newSID[t]] = Meta[sid[t]]
                        /\ Key[sid[t]] \in keys
  BY <1>10, <1>12 DEF Republished, reassignSID
<1>16. \A t \in made : /\ newSID[t] \in listed /\ Key[newSID[t]] \in keys
                       /\ descriptors[newSID[t]] = None
  BY <1>8, <1>10, <1>13
<1>17. \A t, u \in made : newSID[t] = newSID[u] => t = u BY <1>13
<1>18. \A t \in made, u \in Published : newSID[u] # newSID[t]
  <2> SUFFICES ASSUME NEW t \in made, NEW u \in Published, newSID[u] = newSID[t] PROVE FALSE
    OBVIOUS
  <2>1. newSID[t] \in fresh BY <1>13
  <2>2. CASE u \in moved BY <1>8, <1>12, <2>1, <2>2
  <2>3. CASE u \notin moved
    <3>1. sid[u] = newSID[t] /\ sid[u] \in SIDs
      BY <1>5, <1>14, <1>16, <2>3
    <3>2. descriptors[sid[u]] = u BY <1>5, <3>1 DEF DescriptorsIndexed
    <3>3. descriptors[sid[u]] = None BY <1>16, <3>1
    <3> QED BY <1>5, <3>2, <3>3, Distinct
  <2> QED BY <2>2, <2>3
<1>19. ASSUME NEW t \in Published, NEW s \in listed, Key[s] \in keys, descriptors[s] = None,
              Key[sid[t]] = Key[s], Meta[sid[t]] = Meta[s]
       PROVE  newSID[t] = s
  <2>1. s \in news /\ Republished(t, s) BY <1>10, <1>19 DEF Republished, reassignSID
  <2>2. t \in moved BY <1>7, <2>1
  <2> QED BY <1>15, <1>19, <2>2 DEF OneEach
<1>20. ASSUME NEW s \in listed, Key[s] \in keys
       PROVE  \E t \in current : newSID[t] = s
  <2>0. \A t \in Published : newSID[t] = s => t \in current BY <1>11 DEF current
  <2>1. CASE descriptors[s] # None
    <3>1. PICK t \in Tracks : t = descriptors[s] BY <2>1 DEF TracksTyped
    <3>2. t \in Published /\ sid[t] = s BY <3>1 DEF DescriptorsIndexed
    <3>3. newSID[t] = s BY <1>5, <1>14, <1>15, <2>1, <3>2 DEF OneEach
    <3> QED BY <2>0, <3>2, <3>3
  <2>2. CASE descriptors[s] = None
    <3>1. s \in news BY <1>10, <1>20, <2>2
    <3>2. CASE s \in fresh
      <4>1. make[s] \in made BY <1>4, <3>2
      <4>2. newSID[make[s]] = s BY <1>4, <1>13, <3>2, <4>1
      <4> QED BY <4>1, <4>2 DEF current
    <3>3. CASE s \notin fresh
      <4>1. PICK t \in Published : Republished(t, s) BY <1>9, <3>1, <3>3
      <4>2. newSID[t] = s BY <1>19, <1>20, <2>2, <4>1 DEF Republished, reassignSID
      <4> QED BY <2>0, <4>1, <4>2
    <3> QED BY <3>2, <3>3
  <2> QED BY <2>1, <2>2
<1>21. todo'[g] = {t \in moved : subscription[t] # "none"} BY <1>2 DEF RoutesTyped
<1>22. todo' \in [Handlers -> SUBSET Tracks]
  <2>1. {t \in moved : subscription[t] # "none"} \subseteq Tracks BY <1>5, <1>7
  <2> QED BY <1>2, <2>1 DEF RoutesTyped
<1>23. \A t \in created : \/ newSID[t] = sid[t]
                          \/ /\ t \in Published /\ newSID[t] \in listed
                             /\ descriptors[newSID[t]] = None
                             /\ Key[newSID[t]] = Key[sid[t]] /\ Meta[newSID[t]] = Meta[sid[t]]
                             /\ subscription[t] # "none" => t \in todo'[g]
  BY <1>7, <1>14, <1>15, <1>21
<1>24. created' \ created = made BY <1>2, <1>4
<1>25. todo'[g] \subseteq Published /\ \A f \in Handlers : f # g => todo'[f] = todo[f]
  BY <1>2, <1>7, <1>21 DEF RoutesTyped
<1>26. created \subseteq created' /\ created' \subseteq Tracks BY <1>2, <1>4, <1>5
<1>27. \A t \in made : t \in current BY DEF current
<1>28. DropHandles(Ended) BY <1>2, <1>6
<1> QED
  BY <1>2, <1>3, <1>5, <1>6, <1>11, <1>16, <1>17, <1>18, <1>19, <1>20, <1>22, <1>23, <1>24,
     <1>25, <1>26, <1>27, <1>28 DEF Relisted

\* The messages each handler takes from its queue.
LEMMA Received ==
  ASSUME TracksAssumption, IInv, MapsInv, Receive
  PROVE  /\ fromSFU # <<>> /\ fromSFU' = Tail(fromSFU) /\ Free(Reader)
         /\ UNCHANGED <<jobs, sfuVars, toSFU, linkVars>>
         /\ \/ \E k \in Keys, listed \in SUBSET SIDs :
                 /\ About(1, k) /\ fromSFU[1].listed = listed
                 /\ OneEach(listed) /\ \A s \in listed : Key[s] = k
                 /\ Relisted(Reader, {k}, listed) /\ todo' \in [Handlers -> SUBSET Tracks]
            \/ /\ fromSFU[1].type = "handles"
               /\ \E h \in Handles, s \in SIDs : HandleSubscriberHandles(h, s)
<1> DEFINE m == Head(fromSFU)
<1>1. /\ fromSFU # <<>> /\ fromSFU' = Tail(fromSFU) /\ Free(Reader)
      /\ UNCHANGED <<jobs, sfuVars, toSFU, linkVars>>
      /\ \/ m.type = "update" /\ handlePublicationUpdates(Reader, {m.key}, m.listed)
         \/ m.type = "handles" /\ HandleSubscriberHandles(m.handle, m.sid)
  BY DEF Receive
<1>2. m \in Listings /\ m = fromSFU[1]
  BY <1>1, HeadTailProperties DEF MapsInv, ListsOnce
<1>3. CASE m.type = "update" /\ handlePublicationUpdates(Reader, {m.key}, m.listed)
  <2>1. /\ m.key \in Keys /\ m.listed \in SUBSET SIDs
        /\ OneEach(m.listed) /\ \A s \in m.listed : Key[s] = m.key
    BY <1>2, <1>3 DEF Listings, Messages
  <2>2. Reader \in Handlers BY DEF Handlers
  <2>3. Relisted(Reader, {m.key}, m.listed) /\ todo' \in [Handlers -> SUBSET Tracks]
    BY <1>3, <2>1, <2>2, PublicationsRelist DEF IInv, MapsInv
  <2> QED BY <1>1, <1>2, <1>3, <2>1, <2>3 DEF About
<1>4. CASE m.type = "handles" /\ HandleSubscriberHandles(m.handle, m.sid)
  <2>1. m.handle \in Handles /\ m.sid \in SIDs BY <1>2, <1>4 DEF Listings, Messages
  <2> QED BY <1>1, <1>2, <1>4, <2>1
<1> QED BY <1>1, <1>3, <1>4

LEMMA RestoredJob ==
  ASSUME TracksAssumption, IInv, MapsInv, Restore
  PROVE  /\ jobs # <<>> /\ jobs' = Tail(jobs) /\ Free(Restorer)
         /\ UNCHANGED <<fromSFU, sfuVars, toSFU, linkVars>>
         /\ \/ \E keys : \E listed \in SUBSET SIDs :
                 /\ Restored(1) /\ jobs[1].listed = listed
                 /\ OneEach(listed) /\ \A s \in listed : Key[s] \in keys
                 /\ Relisted(Restorer, keys, listed) /\ todo' \in [Handlers -> SUBSET Tracks]
            \/ ~Restored(1) /\ ResendSubscriptionUpdates
<1> DEFINE j == Head(jobs)
<1>1. /\ jobs # <<>> /\ jobs' = Tail(jobs) /\ Free(Restorer)
      /\ UNCHANGED <<fromSFU, sfuVars, toSFU, linkVars>>
      /\ \/ j.type = "update" /\ handlePublicationUpdates(Restorer, j.keys, j.listed)
         \/ j.type = "snapshot" /\ HandleParticipantSnapshot(j.keys, j.listed)
         \/ j.type = "resend" /\ ResendSubscriptionUpdates
  BY DEF Restore
<1>2. j \in Restores /\ j = jobs[1]
  BY <1>1, HeadTailProperties DEF MapsInv, ListsOnce
<1>3. ASSUME NEW keys, j.type # "resend", j.keys \subseteq keys,
             handlePublicationUpdates(Restorer, keys, j.listed)
      PROVE  \E listed \in SUBSET SIDs :
                 /\ Restored(1) /\ jobs[1].listed = listed
                 /\ OneEach(listed) /\ \A s \in listed : Key[s] \in keys
                 /\ Relisted(Restorer, keys, listed) /\ todo' \in [Handlers -> SUBSET Tracks]
  <2>1. /\ j.listed \in SUBSET SIDs /\ OneEach(j.listed)
        /\ \A s \in j.listed : Key[s] \in keys
    BY <1>2, <1>3 DEF Restores, Jobs
  <2>2. Restorer \in Handlers BY DEF Handlers
  <2>3. Relisted(Restorer, keys, j.listed) /\ todo' \in [Handlers -> SUBSET Tracks]
    BY <1>3, <2>1, <2>2, PublicationsRelist DEF IInv, MapsInv
  <2> QED BY <1>2, <1>3, <2>1, <2>3 DEF Restored
<1>4. CASE j.type = "update" /\ handlePublicationUpdates(Restorer, j.keys, j.listed)
  <2>1. \E listed \in SUBSET SIDs :
          /\ Restored(1) /\ jobs[1].listed = listed
          /\ OneEach(listed) /\ \A s \in listed : Key[s] \in j.keys
          /\ Relisted(Restorer, j.keys, listed) /\ todo' \in [Handlers -> SUBSET Tracks]
    BY <1>3, <1>4
  <2> QED BY <1>1, <2>1
<1>5. CASE j.type = "snapshot" /\ HandleParticipantSnapshot(j.keys, j.listed)
  <2> DEFINE keys == j.keys \cup {Key[sid[t]] : t \in Published}
  <2>1. handlePublicationUpdates(Restorer, keys, j.listed) /\ j.keys \subseteq keys
    BY <1>5 DEF HandleParticipantSnapshot
  <2> HIDE DEF keys
  <2>2. \E listed \in SUBSET SIDs :
          /\ Restored(1) /\ jobs[1].listed = listed
          /\ OneEach(listed) /\ \A s \in listed : Key[s] \in keys
          /\ Relisted(Restorer, keys, listed) /\ todo' \in [Handlers -> SUBSET Tracks]
    BY <1>3, <1>5, <2>1
  <2> QED BY <1>1, <2>2
<1>6. CASE j.type = "resend" /\ ResendSubscriptionUpdates
  BY <1>1, <1>2, <1>6 DEF Restored
<1> QED BY <1>1, <1>4, <1>5, <1>6

-----------------------------------------------------------------------------
(* The manager's maps.                                                     *)

LEMMA MapsInit == ASSUME TracksAssumption PROVE Init => MapsInv
<1> SUFFICES ASSUME Init PROVE MapsInv OBVIOUS
<1> USE DEF Init
<1>1. ListsOnce BY EmptySeq DEF ListsOnce, OneEach
<1>2. RoutesTyped BY EmptySeq DEF RoutesTyped, TracksAssumption
<1>3. TracksMade BY DEF TracksMade
<1>4. KeysOnce /\ DescriptorsIndexed /\ RouteOwned
  BY Distinct DEF KeysOnce, DescriptorsIndexed, RouteOwned, Published
<1> QED BY <1>1, <1>2, <1>3, <1>4 DEF MapsInv

LEMMA ListsStep ==
  ASSUME TracksAssumption, IInv, MapsInv, [Next]_vars PROVE ListsOnce'
<1>0. ListsOnce /\ pubs \subseteq SIDs /\ OneEach(pubs)
  BY DEF MapsInv, ListsOnce, IInv, MessagesTyped
<1>1. ASSUME UNCHANGED <<pubs, fromSFU, jobs>> PROVE ListsOnce'
  BY <1>0, <1>1 DEF ListsOnce, OneEach
<1>2. CASE \/ \E c \in Callers : \/ \E t \in Tracks : Subscribe(c, t)
                                 \/ SubscribeFailed(c) \/ Return(c) \/ Timeout(c)
                                 \/ Withdrawn(c) \/ Close(c) \/ releaseHandle(c)
           \/ \E t \in Tracks : Send(t) \/ \E g \in Handlers : resendSubscription(g, t)
           \/ Shutdown \/ LinkFails \/ UNCHANGED vars
  BY <1>1, <1>2 DEF Subscribe, SubscribeFailed, Return, Timeout, Withdrawn, Close, releaseHandle,
                    Send, resendSubscription, Shutdown, LinkFails, vars, sfuVars, handlerVars
<1>3. CASE Receive
  <2>1. Tail(fromSFU) \in Seq(Listings) BY <1>0, <1>3, Received, HeadTailProperties DEF ListsOnce
  <2> QED BY <1>0, <1>3, <2>1, Received DEF ListsOnce, OneEach, sfuVars
<1>4. CASE Restore
  <2>1. Tail(jobs) \in Seq(Restores)
    BY <1>0, <1>4, RestoredJob, HeadTailProperties DEF ListsOnce
  <2> QED BY <1>0, <1>4, <2>1, RestoredJob DEF ListsOnce, OneEach, sfuVars
<1>5. ASSUME NEW s \in SIDs, NEW listed \in SUBSET {s}, Tell(Update(Key[s], listed))
      PROVE  fromSFU' \in Seq(Listings)
  <2>1. Update(Key[s], listed) \in Listings BY DEF Update, Listings, Messages, Keys, OneEach
  <2> QED BY <1>0, <1>5, <2>1, AppendProperties DEF Tell, ListsOnce
<1>6. ASSUME NEW s \in SIDs, SFUPublish(s) PROVE ListsOnce'
  <2>1. fromSFU' \in Seq(Listings) BY <1>5, <1>6 DEF SFUPublish
  <2>2. OneEach(pubs') BY <1>0, <1>6 DEF SFUPublish, OneEach
  <2> QED BY <1>0, <1>6, <2>1, <2>2 DEF SFUPublish, ListsOnce, SFUUnchanged, handlerVars, OneEach
<1>7. ASSUME NEW s \in SIDs, SFUUnpublish(s) PROVE ListsOnce'
  <2>1. fromSFU' \in Seq(Listings) BY <1>5, <1>7 DEF SFUUnpublish
  <2>2. OneEach(pubs') BY <1>0, <1>7 DEF SFUUnpublish, OneEach
  <2> QED BY <1>0, <1>7, <2>1, <2>2 DEF SFUUnpublish, ListsOnce, SFUUnchanged, handlerVars, OneEach
<1>8. CASE SFUServe
  <2>1. UNCHANGED <<pubs, jobs>> BY <1>8 DEF SFUServe, SFUUnchanged, handlerVars
  <2>2. CASE fromSFU' = fromSFU BY <1>1, <2>1, <2>2
  <2>3. CASE fromSFU' # fromSFU
    <3>1. PICK h : fromSFU' = Append(fromSFU, [type |-> "handles", handle |-> h,
                                               sid |-> Head(toSFU).sid])
      BY <1>8, <2>3 DEF SFUServe
    <3>2. fromSFU' \in Seq(Messages)
      BY <1>8, StepInv DEF IInv, MessagesTyped, Next
    <3>3. fromSFU'[Len(fromSFU')] \in Messages /\ Len(fromSFU) \in Nat
      BY <1>0, <3>1, <3>2, AppendProperties, LenProperties, ElementOfSeq DEF ListsOnce
    <3>4. [type |-> "handles", handle |-> h, sid |-> Head(toSFU).sid] \in Messages
      BY <1>0, <3>1, <3>3, AppendProperties DEF ListsOnce
    <3>5. [type |-> "handles", handle |-> h, sid |-> Head(toSFU).sid] \in Listings
      BY <3>4 DEF Listings
    <3> QED BY <1>0, <2>1, <3>1, <3>5, AppendProperties DEF ListsOnce, OneEach
  <2> QED BY <2>2, <2>3
<1>9. CASE Restart
  <2>1. PICK keys \in SUBSET Keys :
          /\ {Key[s] : s \in pubs} \subseteq keys
          /\ jobs' = <<[type |-> "update", keys |-> keys, listed |-> pubs],
                       [type |-> "snapshot", keys |-> keys, listed |-> pubs],
                       [type |-> "resend"]>>
    BY <1>9 DEF Restart, Keys
  <2>2. \A s \in pubs : Key[s] \in keys BY <2>1
  <2>3. /\ [type |-> "update", keys |-> keys, listed |-> pubs] \in Restores
        /\ [type |-> "snapshot", keys |-> keys, listed |-> pubs] \in Restores
        /\ [type |-> "resend"] \in Restores
    BY <1>0, <2>2 DEF Restores, Jobs
  <2>4. jobs' \in Seq(Restores) BY <2>1, <2>3
  <2>5. pubs' = pubs /\ fromSFU' = <<>> BY <1>9 DEF Restart
  <2> QED BY <1>0, <2>4, <2>5, EmptySeq DEF ListsOnce, OneEach
<1> QED BY <1>2, <1>3, <1>4, <1>6, <1>7, <1>8, <1>9 DEF Next

LEMMA RoutesTypedStep ==
  ASSUME TracksAssumption, IInv, MapsInv, [Next]_vars PROVE RoutesTyped'
<1>0. RoutesTyped /\ TracksMade /\ TracksTyped /\ CallersTyped BY DEF MapsInv, IInv
<1>1. ASSUME UNCHANGED <<unpublished, created, subHandles, subHandle, todo, pubs, used, toSFU,
                         link, restarts>>,
             released' \in [Callers -> Handles \cup {None}]
      PROVE  RoutesTyped'
  BY <1>0, <1>1 DEF RoutesTyped
<1>2. ASSUME NEW c \in Callers,
             \/ \E t \in Tracks : Subscribe(c, t)
             \/ SubscribeFailed(c) \/ Return(c) \/ Timeout(c) \/ Withdrawn(c)
      PROVE  RoutesTyped'
  BY <1>0, <1>1, <1>2 DEF Subscribe, SubscribeFailed, Return, Timeout, Withdrawn, managerVars,
                          trackVars, sfuVars, handlerVars, linkVars, RoutesTyped
<1>3. ASSUME NEW c \in Callers, Close(c) PROVE RoutesTyped'
  <2>1. target[c] \in Tracks BY <1>3 DEF IInv, Kept, Targeted, Close
  <2>2. released' \in [Callers -> Handles \cup {None}] BY <1>0, <1>3, <2>1 DEF Close, RoutesTyped
  <2> QED BY <1>1, <1>3, <2>2 DEF Close, managerVars, sfuVars, handlerVars, linkVars
<1>4. ASSUME NEW c \in Callers, releaseHandle(c) PROVE RoutesTyped'
  BY <1>0, <1>4 DEF releaseHandle, RoutesTyped, trackVars, sfuVars, handlerVars, linkVars
<1>5. ASSUME NEW t \in Tracks, Send(t) PROVE RoutesTyped'
  <2>1. outbox[t] \in Requests /\ outbox[t].sid \in SIDs BY <1>0, <1>5 DEF Send, TracksMade, CallersTyped
  <2>2. [sid |-> outbox[t].sid, subscribe |-> outbox[t].subscribe] \in [sid : SIDs, subscribe : BOOLEAN]
    BY <2>1 DEF Requests
  <2>3. toSFU' \in Seq([sid : SIDs, subscribe : BOOLEAN])
    BY <1>0, <1>5, <2>2, AppendProperties DEF Send, RoutesTyped
  <2> QED BY <1>0, <1>5, <2>3 DEF Send, RoutesTyped, managerVars, trackVars, sfuVars, handlerVars,
                                  linkVars
<1>6. ASSUME NEW t \in Tracks, NEW g \in Handlers, resendSubscription(g, t) PROVE RoutesTyped'
  BY <1>0, <1>6 DEF resendSubscription, RoutesTyped, managerVars, trackVars, callerVars, sfuVars,
                    linkVars
<1>7. ASSUME NEW g \in Handlers, NEW keys, NEW listed, Relisted(g, keys, listed),
             todo' \in [Handlers -> SUBSET Tracks], UNCHANGED <<sfuVars, toSFU, linkVars>>
      PROVE  RoutesTyped'
  <2>1. unpublished' \subseteq created'
    BY <1>0, <1>7 DEF Relisted, RoutesTyped, Ended, Published
  <2>2. subHandles' \in [Handles -> Tracks \cup {None}]
    BY <1>0, <1>7 DEF Relisted, DropHandles, RoutesTyped
  <2> QED BY <1>0, <1>7, <2>1, <2>2 DEF Relisted, RoutesTyped, sfuVars, linkVars
<1>8. ASSUME NEW h \in Handles, NEW s \in SIDs, HandleSubscriberHandles(h, s),
             UNCHANGED <<sfuVars, toSFU, linkVars>>
      PROVE  RoutesTyped'
  <2> DEFINE t == descriptors[s]
  <2>1. /\ UNCHANGED <<unpublished, created, released, todo, pubs, used, toSFU, link, restarts>>
        /\ \/ UNCHANGED <<subHandles, subHandle>>
           \/ /\ t # None /\ subHandle' = [subHandle EXCEPT ![t] = h]
              /\ \A k \in Handles : subHandles'[k] \in {t, None, subHandles[k]}
              /\ subHandles' = [k \in Handles |-> subHandles'[k]]
    BY <1>8 DEF HandleSubscriberHandles, activate, trackVars, sfuVars, linkVars
  <2>2. t \in Tracks \cup {None} BY <1>0 DEF TracksTyped
  <2> HIDE DEF t
  <2>3. /\ subHandles' \in [Handles -> Tracks \cup {None}]
        /\ subHandle' \in [Tracks -> Handles \cup {None}]
    BY <1>0, <2>1, <2>2 DEF RoutesTyped
  <2> QED BY <1>0, <2>1, <2>3 DEF RoutesTyped
<1>9. CASE Receive
  <2>1. Reader \in Handlers BY DEF Handlers
  <2> QED BY <1>7, <1>8, <1>9, <2>1, Received
<1>10. CASE Restore
  <2>1. Restorer \in Handlers BY DEF Handlers
  <2>2. ASSUME ResendSubscriptionUpdates, UNCHANGED <<sfuVars, toSFU, linkVars>>
        PROVE  RoutesTyped'
    BY <1>0, <2>2 DEF ResendSubscriptionUpdates, RoutesTyped, TracksTyped, Published, managerVars,
                      trackVars, callerVars, sfuVars, linkVars
  <2> QED BY <1>7, <1>10, <2>1, <2>2, RestoredJob
<1>11. CASE Shutdown
  BY <1>0, <1>11 DEF Shutdown, End, RoutesTyped, Published, sfuVars, handlerVars
<1>12. ASSUME NEW s \in SIDs, SFUPublish(s) \/ SFUUnpublish(s) PROVE RoutesTyped'
  BY <1>0, <1>12 DEF SFUPublish, SFUUnpublish, SFUUnchanged, RoutesTyped, managerVars, trackVars,
                     callerVars, handlerVars, linkVars
<1>13. CASE SFUServe
  <2>1. toSFU' \in Seq([sid : SIDs, subscribe : BOOLEAN])
    BY <1>0, <1>13, HeadTailProperties DEF SFUServe, RoutesTyped
  <2> QED BY <1>0, <1>13, <2>1 DEF SFUServe, SFUUnchanged, RoutesTyped, managerVars, trackVars,
                                   callerVars, handlerVars, linkVars
<1>14. CASE LinkFails
  BY <1>0, <1>14, TracksAssumption DEF LinkFails, RoutesTyped, managerVars, trackVars, callerVars,
                                       handlerVars, sfuVars, TracksAssumption
<1>15. CASE Restart
  BY <1>0, <1>15, TracksAssumption, EmptySeq
     DEF Restart, RoutesTyped, managerVars, trackVars, callerVars, TracksAssumption
<1>16. CASE UNCHANGED vars
  BY <1>0, <1>16 DEF vars, RoutesTyped, managerVars, trackVars, callerVars, handlerVars, sfuVars,
                     linkVars
<1> QED
  BY <1>2, <1>3, <1>4, <1>5, <1>6, <1>9, <1>10, <1>11, <1>12, <1>13, <1>14, <1>15, <1>16 DEF Next

\* An update is queued for a track that was made, with the SID it has.
LEMMA QueueMade ==
  ASSUME RoutesTyped, TracksMade, CallersTyped, NEW t \in created, NEW by, NEW b \in BOOLEAN,
         outbox' = [outbox EXCEPT ![t] = [by |-> by, sid |-> sid[t], subscribe |-> b]],
         subscription' \in [Tracks -> {"none", "pending", "active"}],
         \A u \in Tracks : u # t => subscription'[u] = subscription[u],
         b \/ subscription'[t] = "none", created \subseteq Tracks, UNCHANGED sid
  PROVE  \A u \in Tracks : outbox'[u] # None =>
           /\ outbox'[u].sid \in SIDs
           /\ Key[outbox'[u].sid] = Key[sid'[u]] /\ Meta[outbox'[u].sid] = Meta[sid'[u]]
           /\ ~outbox'[u].subscribe => subscription'[u] = "none"
<1> SUFFICES ASSUME NEW u \in Tracks, outbox'[u] # None
             PROVE  /\ outbox'[u].sid \in SIDs
                    /\ Key[outbox'[u].sid] = Key[sid[u]] /\ Meta[outbox'[u].sid] = Meta[sid[u]]
                    /\ ~outbox'[u].subscribe => subscription'[u] = "none"
  OBVIOUS
<1>1. CASE u = t
  <2>1. outbox'[t] = [by |-> by, sid |-> sid[t], subscribe |-> b] BY DEF CallersTyped
  <2>2. outbox'[t].sid = sid[t] /\ outbox'[t].subscribe = b BY <2>1
  <2> QED BY <1>1, <2>2 DEF TracksMade
<1>2. CASE u # t
  <2>1. outbox'[u] = outbox[u] BY <1>2 DEF CallersTyped
  <2> QED BY <1>2, <2>1 DEF TracksMade
<1> QED BY <1>1, <1>2

LEMMA TracksMadeStep ==
  ASSUME TracksAssumption, IInv, MapsInv, [Next]_vars PROVE TracksMade'
<1>0. RoutesTyped /\ TracksMade /\ TracksTyped /\ CallersTyped /\ created \subseteq Tracks
  BY DEF MapsInv, IInv, TracksTyped
<1>1. CallersTyped' BY StepInv DEF IInv
<1>2. ASSUME UNCHANGED <<created, sid, todo>>,
             \A t \in Tracks \ created : subscription'[t] = "none" /\ outbox'[t] = None,
             \A c \in Callers : pc'[c] # "idle" => target'[c] \in created,
             \A t \in Tracks : outbox'[t] # None =>
               /\ outbox'[t].sid \in SIDs
               /\ Key[outbox'[t].sid] = Key[sid'[t]] /\ Meta[outbox'[t].sid] = Meta[sid'[t]]
               /\ ~outbox'[t].subscribe => subscription'[t] = "none"
      PROVE  TracksMade'
  BY <1>0, <1>2 DEF TracksMade
<1>3. ASSUME NEW c \in Callers, NEW t \in Tracks, Subscribe(c, t) PROVE TracksMade'
  <2>1. /\ t \in created /\ UNCHANGED <<created, sid, todo>>
        /\ target' = [target EXCEPT ![c] = t]
        /\ \E label : pc' = [pc EXCEPT ![c] = label]
    BY <1>3 DEF Subscribe, SubscribeFirst, SubscribePending, SubscribeActive, Goto, Published,
                handlerVars
  <2>2. \A d \in Callers : pc'[d] # "idle" => target'[d] \in created
    BY <1>0, <2>1 DEF TracksMade, CallersTyped
  <2>5. subscription' \in [Tracks -> {"none", "pending", "active"}] BY <1>1 DEF CallersTyped
  <2>3. CASE SubscribeFirst(c, t)
    <3>1. /\ subscription' = [subscription EXCEPT ![t] = "pending"]
          /\ outbox' = [outbox EXCEPT ![t] = [by |-> c, sid |-> sid[t], subscribe |-> TRUE]]
      BY <2>3 DEF SubscribeFirst, Queue
    <3>2. /\ \A u \in Tracks : u # t => subscription'[u] = subscription[u]
          /\ \A u \in Tracks \ created : subscription'[u] = "none" /\ outbox'[u] = None
      BY <1>0, <2>1, <3>1 DEF TracksMade, CallersTyped
    <3>3. \A u \in Tracks : outbox'[u] # None =>
               /\ outbox'[u].sid \in SIDs
               /\ Key[outbox'[u].sid] = Key[sid'[u]] /\ Meta[outbox'[u].sid] = Meta[sid'[u]]
               /\ ~outbox'[u].subscribe => subscription'[u] = "none"
      BY <1>0, <2>1, <2>5, <3>1, <3>2, QueueMade
    <3> QED BY <1>2, <2>1, <2>2, <3>2, <3>3
  <2>4. CASE UNCHANGED <<subscription, outbox>>
    BY <1>0, <1>2, <2>1, <2>2, <2>4 DEF TracksMade
  <2> QED BY <1>3, <2>3, <2>4 DEF Subscribe, SubscribePending, SubscribeActive
<1>4. ASSUME NEW c \in Callers, Timeout(c) \/ Close(c) PROVE TracksMade'
  <2> DEFINE t == target[c]
  <2>1. t \in created BY <1>0, <1>4 DEF Timeout, Close, TracksMade
  <2>2. UNCHANGED <<created, sid, todo, target>> /\ pc[c] # "idle"
        /\ \E label : pc' = [pc EXCEPT ![c] = label]
    BY <1>4 DEF Timeout, Close, Goto, handlerVars
  <2>3. \A d \in Callers : pc'[d] # "idle" => target'[d] \in created
    BY <1>0, <2>2 DEF TracksMade, CallersTyped
  <2>4. \/ UNCHANGED <<subscription, outbox>>
        \/ /\ subscription' = [subscription EXCEPT ![t] = "none"]
           /\ outbox' = [outbox EXCEPT ![t] = [by |-> c, sid |-> sid[t], subscribe |-> FALSE]]
    BY <1>4 DEF Timeout, Close, Queue
  <2> HIDE DEF t
  <2>7. subscription' \in [Tracks -> {"none", "pending", "active"}] BY <1>1 DEF CallersTyped
  <2>5. CASE UNCHANGED <<subscription, outbox>>
    BY <1>0, <1>2, <2>2, <2>3, <2>5 DEF TracksMade
  <2>6. CASE /\ subscription' = [subscription EXCEPT ![t] = "none"]
             /\ outbox' = [outbox EXCEPT ![t] = [by |-> c, sid |-> sid[t], subscribe |-> FALSE]]
    <3>1. /\ \A u \in Tracks : u # t => subscription'[u] = subscription[u]
          /\ \A u \in Tracks \ created : subscription'[u] = "none" /\ outbox'[u] = None
          /\ subscription'[t] = "none"
      BY <1>0, <2>1, <2>6 DEF TracksMade, CallersTyped
    <3>2. \A u \in Tracks : outbox'[u] # None =>
               /\ outbox'[u].sid \in SIDs
               /\ Key[outbox'[u].sid] = Key[sid'[u]] /\ Meta[outbox'[u].sid] = Meta[sid'[u]]
               /\ ~outbox'[u].subscribe => subscription'[u] = "none"
      BY <1>0, <2>1, <2>2, <2>6, <2>7, <3>1, QueueMade
    <3> QED BY <1>2, <2>2, <2>3, <3>1, <3>2
  <2> QED BY <2>4, <2>5, <2>6
<1>5. ASSUME NEW c \in Callers,
             SubscribeFailed(c) \/ Return(c) \/ Withdrawn(c) \/ releaseHandle(c)
      PROVE  TracksMade'
  <2>1. /\ UNCHANGED <<created, sid, todo, target, outbox>> /\ pc[c] # "idle"
        /\ \E label : pc' = [pc EXCEPT ![c] = label]
    BY <1>5 DEF SubscribeFailed, Return, Withdrawn, releaseHandle, Goto, handlerVars, trackVars
  <2>2. \A d \in Callers : pc'[d] # "idle" => target'[d] \in created
    BY <1>0, <2>1 DEF TracksMade, CallersTyped
  <2>3. \A u \in Tracks : subscription[u] = "none" => subscription'[u] = "none"
    BY <1>0, <1>5 DEF SubscribeFailed, Return, Withdrawn, releaseHandle, trackVars, CallersTyped
  <2> QED BY <1>0, <1>2, <2>1, <2>2, <2>3 DEF TracksMade
<1>6. ASSUME NEW t \in Tracks, Send(t) PROVE TracksMade'
  <2>1. /\ UNCHANGED <<created, sid, todo, target, subscription>>
        /\ outbox' = [outbox EXCEPT ![t] = None]
    BY <1>6 DEF Send, trackVars, handlerVars
  <2>2. \A d \in Callers : pc'[d] # "idle" => target'[d] \in created
    <3> SUFFICES ASSUME NEW d \in Callers, pc'[d] # "idle" PROVE target[d] \in created BY <2>1
    <3>1. CASE pc'[d] = pc[d] BY <1>0, <3>1 DEF TracksMade
    <3>2. CASE pc'[d] # pc[d]
      <4>1. outbox[t] # None /\ outbox[t].by = d BY <1>0, <1>6, <3>2 DEF Send, CallersTyped
      <4>2. pc[d] \in Sending BY <4>1 DEF IInv, Kept, SenderSends
      <4> QED BY <1>0, <4>2 DEF Sending, TracksMade
    <3> QED BY <3>1, <3>2
  <2>3. \A u \in Tracks : outbox'[u] = None \/ outbox'[u] = outbox[u]
    BY <1>0, <2>1 DEF CallersTyped
  <2> QED BY <1>0, <1>2, <2>1, <2>2, <2>3 DEF TracksMade
<1>7. ASSUME NEW t \in Tracks, NEW g \in Handlers, resendSubscription(g, t) PROVE TracksMade'
  <2>1. /\ UNCHANGED <<created, sid, target, pc, subscription>>
        /\ todo' = [todo EXCEPT ![g] = @ \ {t}] /\ t \in todo[g] /\ t \in created
        /\ outbox' = outbox \/
           outbox' = [outbox EXCEPT ![t] = [by |-> g, sid |-> sid[t], subscribe |-> TRUE]]
    BY <1>0, <1>7 DEF resendSubscription, trackVars, callerVars, Queue, TracksMade
  <2>2. \A f \in Handlers : todo'[f] \subseteq created BY <1>0, <2>1 DEF TracksMade, RoutesTyped
  <2>3. CASE outbox' = outbox BY <1>0, <2>1, <2>2, <2>3 DEF TracksMade
  <2>4. CASE outbox' = [outbox EXCEPT ![t] = [by |-> g, sid |-> sid[t], subscribe |-> TRUE]]
    <3>1. \A u \in Tracks \ created : outbox'[u] = None
      BY <1>0, <2>1, <2>4 DEF TracksMade, CallersTyped
    <3>2. \A u \in Tracks : outbox'[u] # None =>
           /\ outbox'[u].sid \in SIDs
           /\ Key[outbox'[u].sid] = Key[sid'[u]] /\ Meta[outbox'[u].sid] = Meta[sid'[u]]
           /\ ~outbox'[u].subscribe => subscription'[u] = "none"
      BY <1>0, <1>1, <2>1, <2>4, QueueMade DEF CallersTyped
    <3> QED BY <1>0, <2>1, <2>2, <3>1, <3>2 DEF TracksMade
  <2> QED BY <2>1, <2>3, <2>4
<1>8. ASSUME NEW g \in Handlers, NEW keys, NEW listed \in SUBSET SIDs, Relisted(g, keys, listed),
             todo' \in [Handlers -> SUBSET Tracks]
      PROVE  TracksMade'
  <2>1. /\ created \subseteq created' /\ created' \subseteq Tracks
        /\ UNCHANGED <<outbox, pc, target>> BY <1>8 DEF Relisted
  <2>2. \A t \in created' : sid'[t] \in SIDs BY <1>0, <1>8 DEF Relisted, TracksMade
  <2>3. \A t \in created : Key[sid'[t]] = Key[sid[t]] /\ Meta[sid'[t]] = Meta[sid[t]]
    BY <1>8 DEF Relisted
  <2>4. \A f \in Handlers : todo'[f] \subseteq created'
    BY <1>0, <1>8, <2>1 DEF Relisted, TracksMade, Published
  <2>5. \A t \in Tracks : subscription[t] = "none" => subscription'[t] = "none"
    BY <1>8 DEF Relisted
  <2>6. \A t \in Tracks : outbox[t] # None => t \in created BY <1>0 DEF TracksMade
  <2> QED BY <1>0, <2>1, <2>2, <2>3, <2>4, <2>5, <2>6 DEF TracksMade
<1>9. ASSUME NEW h \in Handles, NEW s \in SIDs, HandleSubscriberHandles(h, s) PROVE TracksMade'
  <2>1. UNCHANGED <<created, sid, outbox, pc, target, todo>>
    BY <1>9 DEF HandleSubscriberHandles, activate, trackVars
  <2>2. \A u \in Tracks : subscription[u] = "none" => subscription'[u] = "none"
    BY <1>0, <1>9 DEF HandleSubscriberHandles, activate, trackVars, CallersTyped
  <2> QED BY <1>0, <2>1, <2>2 DEF TracksMade
<1>10. CASE Receive
  <2>1. Reader \in Handlers BY DEF Handlers
  <2> QED BY <1>8, <1>9, <1>10, <2>1, Received
<1>11. CASE Restore
  <2>1. Restorer \in Handlers BY DEF Handlers
  <2>2. ASSUME ResendSubscriptionUpdates PROVE TracksMade'
    BY <1>0, <2>2 DEF ResendSubscriptionUpdates, TracksMade, RoutesTyped, Published, trackVars,
                      callerVars
  <2> QED BY <1>8, <1>11, <2>1, <2>2, RestoredJob
<1>12. CASE Shutdown
  BY <1>0, <1>12 DEF Shutdown, End, TracksMade, handlerVars
<1>13. CASE \/ \E s \in SIDs : SFUPublish(s) \/ SFUUnpublish(s)
            \/ SFUServe \/ LinkFails \/ Restart \/ UNCHANGED vars
  <2>1. UNCHANGED <<created, sid, subscription, outbox, pc, target, todo>>
    BY <1>13 DEF SFUPublish, SFUUnpublish, SFUServe, LinkFails, Restart, SFUUnchanged, trackVars,
                 callerVars, handlerVars, vars
  <2> QED BY <1>0, <2>1 DEF TracksMade
<1> QED BY <1>3, <1>4, <1>5, <1>6, <1>7, <1>10, <1>11, <1>12, <1>13 DEF Next

\* Listed, a publication has one track, and that track its SID.
LEMMA RelistedIndex ==
  ASSUME TracksAssumption, IInv, MapsInv, NEW g \in Handlers, NEW keys,
         NEW listed \in SUBSET SIDs, OneEach(listed), \A s \in listed : Key[s] \in keys,
         Relisted(g, keys, listed)
  PROVE  KeysOnce' /\ DescriptorsIndexed'
<1>0. /\ KeysOnce /\ DescriptorsIndexed /\ TracksMade /\ RoutesTyped
      /\ Published \subseteq created /\ created \subseteq Tracks
      /\ None \notin Tracks
  BY Distinct DEF MapsInv, IInv, TracksTyped, Published
<1>1. /\ Published' \subseteq created' /\ created' \subseteq Tracks
      /\ \A t \in Published' : t \in created => t \in Published /\ t \notin Ended
  BY <1>0 DEF Relisted, Published, Ended
<1>2. \A t \in Published' :
        \/ t \in Published /\ sid'[t] = sid[t] /\ Key[sid[t]] \notin keys
        \/ sid'[t] \in listed
  BY <1>1 DEF Relisted
<1>3. \A t \in Published' : t \in Published /\ Key[sid[t]] \notin keys => sid'[t] = sid[t]
  BY <1>0 DEF Relisted
<1>4. ASSUME NEW t \in Published', NEW u \in Published', t # u, sid'[t] = sid'[u] PROVE FALSE
  <2>1. CASE t \in created /\ u \in created
    <3>1. t \in Published /\ u \in Published BY <1>1, <2>1
    <3>2. Key[sid'[t]] = Key[sid[t]] /\ Key[sid'[u]] = Key[sid[u]] BY <2>1 DEF Relisted
    <3> QED BY <1>0, <1>4, <3>1, <3>2 DEF KeysOnce
  <2>2. CASE t \notin created /\ u \notin created
    BY <1>1, <1>4, <2>2 DEF Relisted
  <2>3. CASE t \notin created /\ u \in created BY <1>1, <1>4, <2>3 DEF Relisted
  <2>4. CASE t \in created /\ u \notin created BY <1>1, <1>4, <2>4 DEF Relisted
  <2> QED BY <2>1, <2>2, <2>3, <2>4
<1>5. ASSUME NEW t \in Published', NEW u \in Published', Key[sid'[t]] = Key[sid'[u]]
      PROVE  t = u
  <2>1. CASE sid'[t] \in listed /\ sid'[u] \in listed BY <1>4, <1>5, <2>1 DEF OneEach
  <2>2. CASE sid'[t] \notin listed \/ sid'[u] \notin listed
    <3>1. \/ t \in Published /\ sid'[t] = sid[t] /\ Key[sid[t]] \notin keys
          \/ u \in Published /\ sid'[u] = sid[u] /\ Key[sid[u]] \notin keys
      BY <1>2, <2>2
    <3>2. Key[sid'[t]] \notin keys /\ Key[sid'[u]] \notin keys BY <1>5, <3>1
    <3>3. /\ t \in Published /\ sid'[t] = sid[t]
          /\ u \in Published /\ sid'[u] = sid[u]
      BY <1>2, <3>2
    <3> QED BY <1>0, <1>5, <3>3 DEF KeysOnce
  <2> QED BY <2>1, <2>2
<1>6. KeysOnce' BY <1>5 DEF KeysOnce
<1>7. ASSUME NEW s \in SIDs, NEW t \in Tracks
      PROVE  descriptors'[s] = t <=> t \in Published' /\ sid'[t] = s
  <2>1. descriptors'[s] = IF \E u \in Published' : sid'[u] = s
                          THEN CHOOSE u \in Published' : sid'[u] = s ELSE None
    BY DEF Relisted
  <2>2. CASE \E u \in Published' : sid'[u] = s
    <3>1. descriptors'[s] \in Published' /\ sid'[descriptors'[s]] = s BY <2>1, <2>2
    <3> QED BY <1>4, <3>1
  <2>3. CASE ~\E u \in Published' : sid'[u] = s BY <1>0, <2>1, <2>3
  <2> QED BY <2>2, <2>3
<1>8. DescriptorsIndexed' BY <1>7 DEF DescriptorsIndexed
<1> QED BY <1>6, <1>8

LEMMA IndexStep ==
  ASSUME TracksAssumption, IInv, MapsInv, [Next]_vars PROVE KeysOnce' /\ DescriptorsIndexed'
<1>0. KeysOnce /\ DescriptorsIndexed BY DEF MapsInv
<1>1. ASSUME UNCHANGED <<created, unpublished, sid, descriptors>>
      PROVE  KeysOnce' /\ DescriptorsIndexed'
  BY <1>0, <1>1 DEF KeysOnce, DescriptorsIndexed, Published
<1>2. CASE \/ \E c \in Callers : \/ \E t \in Tracks : Subscribe(c, t)
                                 \/ SubscribeFailed(c) \/ Return(c) \/ Timeout(c)
                                 \/ Withdrawn(c) \/ Close(c) \/ releaseHandle(c)
           \/ \E t \in Tracks : Send(t) \/ \E g \in Handlers : resendSubscription(g, t)
           \/ \E s \in SIDs : SFUPublish(s) \/ SFUUnpublish(s)
           \/ SFUServe \/ LinkFails \/ Restart \/ UNCHANGED vars
  <2>1. UNCHANGED <<created, unpublished, sid, descriptors>>
    BY <1>2 DEF Subscribe, SubscribeFailed, Return, Timeout, Withdrawn, Close, releaseHandle,
                Send, resendSubscription, SFUPublish, SFUUnpublish, SFUServe, LinkFails, Restart,
                SFUUnchanged, managerVars, trackVars, vars
  <2> QED BY <1>1, <2>1
<1>3. CASE Receive
  <2>1. Reader \in Handlers BY DEF Handlers
  <2>2. ASSUME NEW h \in Handles, NEW s \in SIDs, HandleSubscriberHandles(h, s)
        PROVE  UNCHANGED <<created, unpublished, sid, descriptors>>
    BY <2>2 DEF HandleSubscriberHandles, activate, trackVars
  <2>3. ASSUME NEW k, NEW listed \in SUBSET SIDs, \A s \in listed : Key[s] = k
        PROVE  \A s \in listed : Key[s] \in {k}
    BY <2>3
  <2> QED BY <1>1, <1>3, <2>1, <2>2, <2>3, Received, RelistedIndex
<1>4. CASE Restore
  <2>1. Restorer \in Handlers BY DEF Handlers
  <2>2. ASSUME ResendSubscriptionUpdates PROVE UNCHANGED <<created, unpublished, sid, descriptors>>
    BY <2>2 DEF ResendSubscriptionUpdates, managerVars, trackVars
  <2> QED BY <1>1, <1>4, <2>1, <2>2, RestoredJob, RelistedIndex
<1>5. CASE Shutdown
  <2>1. Published' = {} BY <1>5 DEF Shutdown, End, Published
  <2>2. \A s \in SIDs : descriptors'[s] = None BY <1>5 DEF Shutdown
  <2> QED BY <2>1, <2>2, Distinct DEF KeysOnce, DescriptorsIndexed
<1> QED BY <1>2, <1>3, <1>4, <1>5 DEF Next

\* Steps that end no subscription and release no handle add no route either.
LEMMA RoutesSame ==
  ASSUME RouteOwned, RoutesTyped, None \notin Tracks,
         \A h \in Handles : subHandles'[h] # None => subHandles'[h] = subHandles[h],
         \A c \in Callers : pc[c] \in {"closing", "releasing"} =>
           /\ pc'[c] \in {"closing", "releasing"}
           /\ target'[c] = target[c] /\ released'[c] = released[c],
         \A t \in Tracks : subscription[t] = "active" =>
           subscription'[t] = "active" /\ subHandle'[t] = subHandle[t]
  PROVE  RouteOwned'
  BY DEF RouteOwned, RoutesTyped, usesHandle

\* A route that stays is owned as before, or by who ends the subscription now.
LEMMA RouteOwnedStep ==
  ASSUME TracksAssumption, IInv, MapsInv, [Next]_vars PROVE RouteOwned'
<1>0. RouteOwned /\ RoutesTyped /\ CallersTyped /\ TracksTyped /\ None \notin Tracks
  BY Distinct DEF MapsInv, IInv
<1>1. ASSUME NEW c \in Callers,
             \/ \E t \in Tracks : Subscribe(c, t)
             \/ SubscribeFailed(c) \/ Return(c) \/ Timeout(c) \/ Withdrawn(c)
      PROVE  RouteOwned'
  <2>1. UNCHANGED <<subHandles, subHandle, released>>
    BY <1>1 DEF Subscribe, SubscribeFailed, Return, Timeout, Withdrawn, managerVars, trackVars
  <2>2. pc[c] \notin {"closing", "releasing"}
    BY <1>1 DEF Subscribe, SubscribeFailed, Return, Timeout, Withdrawn
  <2>3. \A d \in Callers : d # c => pc'[d] = pc[d] /\ target'[d] = target[d]
    BY ZenonT(40), <1>0, <1>1 DEF Subscribe, SubscribeFirst, SubscribePending, SubscribeActive,
      SubscribeFailed, Return, Timeout, Withdrawn, Goto, CallersTyped
  <2>4. \A t \in Tracks : subscription[t] = "active" => subscription'[t] = "active"
    BY <1>0, <1>1 DEF Subscribe, SubscribeFirst, SubscribePending, SubscribeActive, SubscribeFailed,
                      Return, Timeout, Withdrawn, trackVars, CallersTyped
  <2> QED BY <1>0, <2>1, <2>2, <2>3, <2>4, RoutesSame
<1>2. ASSUME NEW c \in Callers, Close(c) PROVE RouteOwned'
  <2> DEFINE t == target[c]
  <2>1. /\ t \in Tracks /\ pc[c] = "open" /\ UNCHANGED <<subHandles, subHandle, target>>
    BY <1>2 DEF IInv, Kept, Targeted, Close, managerVars
  <2>2. CASE streams[t] = {c} /\ subscription[t] = "active"
    <3>1. /\ subscription' = [subscription EXCEPT ![t] = "none"]
          /\ released' = [released EXCEPT ![c] = subHandle[t]]
          /\ pc' = [pc EXCEPT ![c] = "closing"]
      BY <1>2, <2>2 DEF Close, Goto
    <3>2. \A h \in Handles : usesHandle(t, h) =>
            pc'[c] = "closing" /\ target'[c] = t /\ released'[c] = h
      BY <1>0, <2>1, <3>1 DEF usesHandle, RoutesTyped, CallersTyped
    <3>3. \A u \in Tracks, h \in Handles : u # t /\ usesHandle(u, h) =>
            subscription'[u] = "active" /\ subHandle'[u] = h
      BY <1>0, <2>1, <3>1 DEF usesHandle, CallersTyped
    <3>4. \A d \in Callers : d # c =>
            pc'[d] = pc[d] /\ target'[d] = target[d] /\ released'[d] = released[d]
      BY <1>0, <2>1, <3>1 DEF RoutesTyped, CallersTyped
    <3> HIDE DEF t
    <3>5. ASSUME NEW h \in Handles, subHandles[h] # None
          PROVE  \/ subscription'[subHandles[h]] = "active" /\ subHandle'[subHandles[h]] = h
                 \/ \E d \in Callers : /\ pc'[d] \in {"closing", "releasing"}
                                       /\ target'[d] = subHandles[h] /\ released'[d] = h
      <4>1. subHandles[h] \in Tracks BY <1>0, <3>5 DEF RoutesTyped
      <4>2. CASE usesHandle(subHandles[h], h) BY <3>2, <3>3, <4>1, <4>2
      <4>3. CASE ~usesHandle(subHandles[h], h)
        <5>1. PICK d \in Callers : /\ pc[d] \in {"closing", "releasing"}
                                   /\ target[d] = subHandles[h] /\ released[d] = h
          BY <1>0, <3>5, <4>3 DEF RouteOwned
        <5>2. d # c BY <2>1, <5>1
        <5> QED BY <3>4, <5>1, <5>2
      <4> QED BY <4>2, <4>3
    <3> QED BY <2>1, <3>5 DEF RouteOwned, usesHandle
  <2>3. CASE ~(streams[t] = {c} /\ subscription[t] = "active")
    <3>1. UNCHANGED <<subscription, released>> /\ pc' = [pc EXCEPT ![c] = "idle"]
      BY <1>2, <2>3 DEF Close, Goto
    <3>2. \A d \in Callers : d # c => pc'[d] = pc[d] BY <1>0, <3>1 DEF CallersTyped
    <3> QED BY <1>0, <2>1, <3>1, <3>2, RoutesSame
  <2> QED BY <2>2, <2>3
<1>3. ASSUME NEW c \in Callers, releaseHandle(c) PROVE RouteOwned'
  <2>1. /\ UNCHANGED <<subscription, subHandle, target>>
        /\ released' = [released EXCEPT ![c] = None] /\ pc' = [pc EXCEPT ![c] = "idle"]
    BY <1>3 DEF releaseHandle, Goto, trackVars
  <2>2. \A d \in Callers : d # c => pc'[d] = pc[d] /\ released'[d] = released[d]
    BY <1>0, <2>1 DEF RoutesTyped, CallersTyped
  <2>3. \A h \in Handles :
          /\ subHandles'[h] # None => subHandles'[h] = subHandles[h]
          /\ released[c] = h /\ subHandles[h] = target[c] /\ ~usesHandle(target[c], h) =>
               subHandles'[h] = None
    BY <1>0, <1>3 DEF releaseHandle, RoutesTyped
  <2>4. ASSUME NEW h \in Handles, subHandles'[h] # None
        PROVE  \/ usesHandle(subHandles[h], h)
               \/ \E d \in Callers : /\ pc'[d] \in {"closing", "releasing"}
                                     /\ target'[d] = subHandles[h] /\ released'[d] = h
    <3>1. subHandles[h] # None BY <2>3, <2>4
    <3>2. CASE ~usesHandle(subHandles[h], h)
      <4>1. PICK d \in Callers : /\ pc[d] \in {"closing", "releasing"}
                                 /\ target[d] = subHandles[h] /\ released[d] = h
        BY <1>0, <3>1, <3>2 DEF RouteOwned
      <4>2. d # c BY <2>3, <2>4, <3>2, <4>1
      <4> QED BY <2>1, <2>2, <4>1, <4>2
    <3> QED BY <3>2
  <2> QED BY <2>1, <2>3, <2>4 DEF RouteOwned, usesHandle
<1>4. ASSUME NEW t \in Tracks, Send(t) PROVE RouteOwned'
  <2>1. UNCHANGED <<subHandles, subHandle, subscription, target, released>>
    BY <1>4 DEF Send, managerVars, trackVars
  <2>2. ASSUME NEW c \in Callers, pc[c] \in {"closing", "releasing"}
        PROVE  pc'[c] \in {"closing", "releasing"}
    <3>1. CASE outbox[t].by = c /\ c \in Callers
      <4>1. pc[c] = "closing" BY <1>4, <2>2, <3>1 DEF Send, IInv, Kept, SenderSends, Sending
      <4>2. PICK failed \in BOOLEAN : pc' = [pc EXCEPT ![c] = AfterSend(@, failed)]
        BY <1>4, <3>1 DEF Send
      <4>3. pc'[c] = "releasing" BY <1>0, <4>1, <4>2 DEF AfterSend, CallersTyped
      <4> QED BY <4>3
    <3>2. CASE outbox[t].by # c BY <1>0, <1>4, <2>2, <3>2 DEF Send, CallersTyped
    <3> QED BY <3>1, <3>2
  <2> QED BY <1>0, <2>1, <2>2, RoutesSame
<1>5. ASSUME NEW g \in Handlers, NEW keys, NEW listed, Relisted(g, keys, listed)
      PROVE  RouteOwned'
  <2>1. UNCHANGED <<pc, target, released, subHandle>> BY <1>5 DEF Relisted
  <2>2. \A t \in Tracks : t \notin Ended => subscription'[t] = subscription[t]
    BY <1>5 DEF Relisted
  <2>3. \A h \in Handles :
          /\ subHandles'[h] # None => subHandles'[h] = subHandles[h]
          /\ \A t \in Ended : usesHandle(t, h) => subHandles'[h] = None
    BY <1>0, <1>5 DEF Relisted, DropHandles, usesHandle
  <2> QED BY <1>0, <2>1, <2>2, <2>3 DEF RouteOwned, RoutesTyped, usesHandle
<1>6. ASSUME NEW h \in Handles, NEW s \in SIDs, HandleSubscriberHandles(h, s) PROVE RouteOwned'
  <2> DEFINE t == descriptors[s]
  <2>1. UNCHANGED <<pc, target, released>> BY <1>6 DEF HandleSubscriberHandles
  <2>2. CASE t = None \/ subscription[t] = "none"
    <3>1. UNCHANGED <<subHandles, subscription, subHandle>>
      BY <1>6, <2>2 DEF HandleSubscriberHandles, trackVars
    <3> QED BY <1>0, <2>1, <3>1, RoutesSame
  <2>3. CASE ~(t = None \/ subscription[t] = "none")
    <3>1. /\ t \in Tracks
          /\ subHandle' = [subHandle EXCEPT ![t] = h]
          /\ subscription' = [subscription EXCEPT ![t] = "active"]
          /\ subHandles' = [k \in Handles |->
                              CASE k = h -> t
                                [] k # h /\ subscription[t] = "active" /\ k = subHandle[t] -> None
                                [] OTHER -> subHandles[k]]
      BY <1>0, <1>6, <2>3 DEF HandleSubscriberHandles, activate, TracksTyped
    <3> HIDE DEF t
    <3>2. subHandles'[h] = t /\ subscription'[t] = "active" /\ subHandle'[t] = h
      BY <1>0, <3>1 DEF RoutesTyped, CallersTyped
    <3>3. \A k \in Handles : k # h =>
            /\ subHandles'[k] # None => subHandles'[k] = subHandles[k]
            /\ usesHandle(t, k) => subHandles'[k] = None
      BY <3>1 DEF usesHandle
    <3>4. \A u \in Tracks : u # t =>
            subscription'[u] = subscription[u] /\ subHandle'[u] = subHandle[u]
      BY <1>0, <3>1 DEF RoutesTyped, CallersTyped
    <3> QED BY <1>0, <2>1, <3>1, <3>2, <3>3, <3>4 DEF RouteOwned, RoutesTyped, usesHandle
  <2> QED BY <2>2, <2>3
<1>7. CASE Receive
  <2>1. Reader \in Handlers BY DEF Handlers
  <2> QED BY <1>5, <1>6, <1>7, <2>1, Received
<1>8. CASE Restore
  <2>1. Restorer \in Handlers BY DEF Handlers
  <2>2. ASSUME ResendSubscriptionUpdates PROVE RouteOwned'
    <3>1. UNCHANGED <<subHandles, subscription, subHandle, pc, target, released>>
      BY <2>2 DEF ResendSubscriptionUpdates, managerVars, trackVars, callerVars
    <3> QED BY <1>0, <3>1, RoutesSame
  <2> QED BY <1>5, <1>8, <2>1, <2>2, RestoredJob
<1>9. CASE Shutdown BY <1>9 DEF Shutdown, RouteOwned
<1>10. CASE \/ \E t \in Tracks, g \in Handlers : resendSubscription(g, t)
            \/ \E s \in SIDs : SFUPublish(s) \/ SFUUnpublish(s)
            \/ SFUServe \/ LinkFails \/ Restart \/ UNCHANGED vars
  <2>1. UNCHANGED <<subHandles, subscription, subHandle, pc, target, released>>
    BY <1>10 DEF resendSubscription, SFUPublish, SFUUnpublish, SFUServe, LinkFails, Restart,
                 SFUUnchanged, managerVars, trackVars, callerVars, vars
  <2> QED BY <1>0, <2>1, RoutesSame
<1> QED BY <1>1, <1>2, <1>3, <1>4, <1>7, <1>8, <1>9, <1>10 DEF Next

LEMMA MapsStep == ASSUME TracksAssumption PROVE IInv /\ MapsInv /\ [Next]_vars => MapsInv'
  BY ListsStep, RoutesTypedStep, TracksMadeStep, IndexStep, RouteOwnedStep DEF MapsInv

LEMMA MapsTyped == ASSUME TracksAssumption, IInv, MapsInv PROVE TypeOK
<1>1. \A t \in Tracks : \/ outbox[t] = None
                        \/ /\ outbox[t].by \in Callers \cup Handlers
                           /\ outbox[t].sid \in SIDs /\ outbox[t].subscribe \in BOOLEAN
  BY DEF IInv, CallersTyped, MapsInv, TracksMade, Requests
<1>2. \A c \in Callers : answer[c] # None =>
        pc[c] \in {"requesting", "failed", "waiting", "withdrawn"}
  BY DEF IInv, Kept, AnswerRead, Asking
<1> QED
  BY <1>1, <1>2 DEF IInv, TracksTyped, MessagesTyped, CallersTyped, MapsInv, RoutesTyped, TypeOK,
                    Labels

-----------------------------------------------------------------------------
(* What is heard of a SID, and what is under way.                          *)

LEMMA TailItems ==
  ASSUME NEW S, NEW q \in Seq(S), q # <<>>
  PROVE  /\ Len(Tail(q)) = Len(q) - 1 /\ Len(q) \in Nat \ {0}
         /\ \A i \in 1..Len(Tail(q)) : i + 1 \in 1..Len(q) /\ Tail(q)[i] = q[i + 1]
         /\ \A i \in 1..Len(q) : i = 1 \/ i - 1 \in 1..Len(Tail(q))
  BY HeadTailProperties, LenProperties, EmptySeq

LEMMA AppendItems ==
  ASSUME NEW S, NEW q \in Seq(S), NEW e
  PROVE  /\ Len(Append(q, e)) = Len(q) + 1 /\ Len(q) \in Nat
         /\ \A i \in 1..Len(q) : Append(q, e)[i] = q[i] /\ i \in 1..Len(Append(q, e))
         /\ \A i \in 1..Len(Append(q, e)) : i = Len(q) + 1 \/ i \in 1..Len(q)
         /\ Append(q, e)[Len(q) + 1] = e
  BY AppendProperties, LenProperties

CallerStep == \E c \in Callers : \/ \E t \in Tracks : Subscribe(c, t)
                                 \/ SubscribeFailed(c) \/ Return(c) \/ Timeout(c)
                                 \/ Withdrawn(c) \/ Close(c) \/ releaseHandle(c)
ResendStep == \E t \in Tracks, g \in Handlers : resendSubscription(g, t)
SFUStep == \/ \E s \in SIDs : SFUPublish(s) \/ SFUUnpublish(s)
           \/ SFUServe \/ LinkFails \/ Restart

\* Updates are queued for tracks made, with the SID they have.
LEMMA OutboxFrom ==
  ASSUME TracksAssumption, IInv, MapsInv, CallerStep \/ ResendStep
  PROVE  /\ UNCHANGED <<created, sid>>
         /\ \A t \in Tracks : outbox'[t] = outbox[t] \/ (t \in created /\ outbox'[t].sid = sid[t])
<1>0. CallersTyped /\ TracksMade BY DEF IInv, MapsInv
<1>1. UNCHANGED <<created, sid>>
  BY DEF CallerStep, ResendStep, Subscribe, SubscribeFailed, Return, Timeout, Withdrawn, Close,
         releaseHandle, resendSubscription, trackVars
<1>2. ASSUME NEW t \in Tracks, NEW by, NEW b, Queue(t, by, b), t \in created
      PROVE  \A u \in Tracks : outbox'[u] = outbox[u] \/ (u \in created /\ outbox'[u].sid = sid[u])
  BY <1>0, <1>2 DEF Queue, CallersTyped
<1>3. ASSUME NEW c \in Callers, NEW t \in Tracks, Subscribe(c, t)
      PROVE  UNCHANGED outbox \/ \E by, b : Queue(t, by, b) /\ t \in created
  BY <1>3 DEF Subscribe, SubscribeFirst, SubscribePending, SubscribeActive, Published
<1>4. ASSUME NEW c \in Callers, Timeout(c) \/ Close(c)
      PROVE  UNCHANGED outbox \/ \E by, b : Queue(target[c], by, b) /\ target[c] \in created
  BY <1>0, <1>4 DEF Timeout, Close, TracksMade
<1>5. ASSUME NEW c \in Callers, NEW t \in Tracks, NEW g \in Handlers, resendSubscription(g, t)
      PROVE  UNCHANGED outbox \/ \E by, b : Queue(t, by, b) /\ t \in created
  BY <1>0, <1>5 DEF resendSubscription, TracksMade
<1>6. ASSUME NEW c \in Callers,
             SubscribeFailed(c) \/ Return(c) \/ Withdrawn(c) \/ releaseHandle(c)
      PROVE  UNCHANGED outbox
  BY <1>6 DEF SubscribeFailed, Return, Withdrawn, releaseHandle
<1>7. created \subseteq Tracks BY DEF IInv, TracksTyped
<1>8. CASE CallerStep BY <1>1, <1>2, <1>3, <1>4, <1>6, <1>7, <1>8 DEF CallerStep
<1>9. CASE ResendStep
  <2>1. PICK t \in Tracks, g \in Handlers : resendSubscription(g, t) BY <1>9 DEF ResendStep
  <2>2. UNCHANGED outbox \/ \E by, b : Queue(t, by, b) /\ t \in created
    BY <1>0, <2>1 DEF resendSubscription, TracksMade
  <2> QED BY <1>1, <1>2, <2>2
<1> QED BY <1>8, <1>9

\* A SID is heard of through a listing only.
LEMMA HeardFrom ==
  ASSUME TracksAssumption, IInv, MapsInv, [Next]_vars, NEW s \in SIDs, Heard(s)'
  PROVE  \/ Heard(s)
         \/ Receive /\ fromSFU # <<>> /\ Lists(1, s)
         \/ Restore /\ jobs # <<>> /\ Restored(1) /\ s \in jobs[1].listed
<1>0. TracksMade /\ CallersTyped /\ created \subseteq Tracks BY DEF IInv, MapsInv, TracksTyped
<1>1. ASSUME UNCHANGED <<created, sid, outbox>> PROVE Heard(s) BY <1>1 DEF Heard
<1>2. CASE CallerStep \/ ResendStep BY <1>2, OutboxFrom DEF Heard
<1>3. CASE \/ Shutdown \/ SFUStep \/ UNCHANGED vars
  BY <1>1, <1>3 DEF Shutdown, SFUStep, SFUPublish, SFUUnpublish, SFUServe, LinkFails, Restart,
                    SFUUnchanged, trackVars, vars
<1>4. ASSUME NEW t \in Tracks, Send(t) PROVE Heard(s)
  <2>1. UNCHANGED <<created, sid>> /\ \A u \in Tracks : outbox'[u] \in {None, outbox[u]}
    BY <1>0, <1>4 DEF Send, trackVars, CallersTyped
  <2> QED BY <2>1 DEF Heard
<1>5. ASSUME NEW g \in Handlers, NEW keys, NEW listed, Relisted(g, keys, listed)
      PROVE  Heard(s) \/ s \in listed
  BY <1>5 DEF Relisted, Heard
<1>6. CASE Receive
  <2>1. Reader \in Handlers BY DEF Handlers
  <2>2. ASSUME NEW h, NEW r, HandleSubscriberHandles(h, r) PROVE UNCHANGED <<created, sid, outbox>>
    BY <2>2 DEF HandleSubscriberHandles, activate, trackVars
  <2> QED BY <1>1, <1>5, <1>6, <2>1, <2>2, Received DEF Lists, About
<1>7. CASE Restore
  <2>1. Restorer \in Handlers BY DEF Handlers
  <2>2. ASSUME ResendSubscriptionUpdates PROVE UNCHANGED <<created, sid, outbox>>
    BY <2>2 DEF ResendSubscriptionUpdates, trackVars
  <2> QED BY <1>1, <1>5, <1>7, <2>1, <2>2, RestoredJob
<1> QED BY <1>2, <1>3, <1>4, <1>6, <1>7 DEF Next, CallerStep, ResendStep, SFUStep

\* A SID is mentioned to the SFU by an update only.
LEMMA MentionedFrom ==
  ASSUME TracksAssumption, IInv, MapsInv, [Next]_vars, NEW s \in SIDs, Mentioned(s)'
  PROVE  Mentioned(s) \/ Heard(s)
<1>0. RoutesTyped BY DEF MapsInv
<1>1. ASSUME UNCHANGED toSFU PROVE Mentioned(s) BY <1>1 DEF Mentioned
<1>2. CASE CallerStep \/ ResendStep \/ Shutdown \/ UNCHANGED vars
  BY <1>1, <1>2 DEF CallerStep, ResendStep, Subscribe, SubscribeFailed, Return, Timeout, Withdrawn,
                    Close, releaseHandle, resendSubscription, Shutdown, vars
<1>3. CASE Receive \/ Restore BY <1>1, <1>3 DEF Receive, Restore
<1>4. ASSUME NEW t \in Tracks, Send(t) PROVE Mentioned(s) \/ Heard(s)
  <2>1. CASE toSFU' = toSFU BY <1>1, <2>1
  <2>2. CASE toSFU' = Append(toSFU, [sid |-> outbox[t].sid, subscribe |-> outbox[t].subscribe])
    <3>1. PICK i \in 1..Len(toSFU') : toSFU'[i].sid = s BY DEF Mentioned
    <3>2. i \in 1..Len(toSFU) \/ outbox[t].sid = s BY <1>0, <2>2, <3>1, AppendItems DEF RoutesTyped
    <3>3. i \in 1..Len(toSFU) => toSFU'[i] = toSFU[i] BY <1>0, <2>2, AppendItems DEF RoutesTyped
    <3>4. outbox[t] # None BY <1>4 DEF Send
    <3> QED BY <3>1, <3>2, <3>3, <3>4 DEF Mentioned, Heard
  <2> QED BY <1>4, <2>1, <2>2 DEF Send
<1>5. CASE SFUServe
  <2>1. toSFU # <<>> /\ toSFU' = Tail(toSFU) BY <1>5 DEF SFUServe
  <2>2. PICK i \in 1..Len(toSFU') : toSFU'[i].sid = s BY DEF Mentioned
  <2>3. i + 1 \in 1..Len(toSFU) /\ toSFU'[i] = toSFU[i + 1]
    BY <1>0, <2>1, <2>2, TailItems DEF RoutesTyped
  <2> QED BY <2>2, <2>3 DEF Mentioned
<1>6. CASE Restart
  <2>1. toSFU' = <<>> BY <1>6 DEF Restart
  <2>2. PICK i \in 1..Len(toSFU') : TRUE BY DEF Mentioned
  <2> QED BY <2>1, <2>2
<1>7. ASSUME NEW r \in SIDs, SFUPublish(r) \/ SFUUnpublish(r) PROVE Mentioned(s)
  BY <1>1, <1>7 DEF SFUPublish, SFUUnpublish
<1>8. CASE LinkFails BY <1>1, <1>8 DEF LinkFails
<1> QED
  BY <1>2, <1>3, <1>4, <1>5, <1>6, <1>7, <1>8 DEF Next, CallerStep, ResendStep

LEMMA AsksSent ==
  ASSUME RoutesTyped, NEW r, NEW b, toSFU' = Append(toSFU, [sid |-> r, subscribe |-> b])
  PROVE  /\ LastAsks(r, b)'
         /\ \A s \in SIDs, x \in BOOLEAN : s # r /\ LastAsks(s, x) => LastAsks(s, x)'
         /\ \A s \in SIDs : s # r /\ Mentioned(s)' => Mentioned(s)
<1> DEFINE e == [sid |-> r, subscribe |-> b]
           n == Len(toSFU)
<1>1. /\ Len(toSFU') = n + 1 /\ n \in Nat
      /\ \A i \in 1..n : toSFU'[i] = toSFU[i]
      /\ toSFU'[n + 1] = e
  BY AppendItems DEF RoutesTyped
<1>2. e.sid = r /\ e.subscribe = b OBVIOUS
<1> HIDE DEF e, n
<1>3. LastAsks(r, b)'
  <2>1. n + 1 \in 1..Len(toSFU') /\ \A j \in 1..Len(toSFU') : ~(j > n + 1) BY <1>1
  <2> QED BY <1>1, <1>2, <2>1 DEF LastAsks
<1>4. ASSUME NEW s \in SIDs, NEW x \in BOOLEAN, s # r, LastAsks(s, x) PROVE LastAsks(s, x)'
  <2>1. PICK i \in 1..n : /\ toSFU[i].sid = s /\ toSFU[i].subscribe = x
                          /\ \A j \in 1..n : j > i => toSFU[j].sid # s
    BY <1>4 DEF LastAsks, n
  <2>2. \A j \in 1..Len(toSFU') : j > i => toSFU'[j].sid # s
    <3> SUFFICES ASSUME NEW j \in 1..Len(toSFU'), j > i PROVE toSFU'[j].sid # s OBVIOUS
    <3>1. j = n + 1 \/ j \in 1..n BY <1>1
    <3> QED BY <1>1, <1>2, <1>4, <2>1, <3>1
  <2>3. i \in 1..Len(toSFU') /\ toSFU'[i] = toSFU[i] BY <1>1
  <2> QED BY <2>1, <2>2, <2>3 DEF LastAsks
<1>5. ASSUME NEW s \in SIDs, s # r, Mentioned(s)' PROVE Mentioned(s)
  <2>1. PICK i \in 1..Len(toSFU') : toSFU'[i].sid = s BY <1>5 DEF Mentioned
  <2>2. i \in 1..n BY <1>1, <1>2, <1>5, <2>1
  <2> QED BY <1>1, <2>1, <2>2 DEF Mentioned, n
<1> QED BY <1>3, <1>4, <1>5

LEMMA AsksServed ==
  ASSUME RoutesTyped, toSFU # <<>>, toSFU' = Tail(toSFU)
  PROVE  /\ \A s \in SIDs, x \in BOOLEAN : LastAsks(s, x) =>
              \/ LastAsks(s, x)'
              \/ ~Mentioned(s)' /\ Head(toSFU).sid = s /\ Head(toSFU).subscribe = x
         /\ \A s \in SIDs : Mentioned(s)' => Mentioned(s)
         /\ \A s \in SIDs : ~Mentioned(s) => Head(toSFU).sid # s
<1> DEFINE n == Len(toSFU)
<1>1. /\ Len(toSFU') = n - 1 /\ n \in Nat \ {0}
      /\ \A i \in 1..Len(toSFU') : i + 1 \in 1..n /\ toSFU'[i] = toSFU[i + 1]
      /\ Head(toSFU) = toSFU[1]
  BY TailItems, HeadTailProperties DEF RoutesTyped
<1> HIDE DEF n
<1>2. ASSUME NEW s \in SIDs, NEW x \in BOOLEAN, LastAsks(s, x)
      PROVE  \/ LastAsks(s, x)'
             \/ ~Mentioned(s)' /\ Head(toSFU).sid = s /\ Head(toSFU).subscribe = x
  <2>1. PICK i \in 1..n : /\ toSFU[i].sid = s /\ toSFU[i].subscribe = x
                          /\ \A j \in 1..n : j > i => toSFU[j].sid # s
    BY <1>2 DEF LastAsks, n
  <2>2. CASE i = 1
    <3>1. \A j \in 1..Len(toSFU') : toSFU'[j].sid # s
      <4> SUFFICES ASSUME NEW j \in 1..Len(toSFU') PROVE toSFU'[j].sid # s OBVIOUS
      <4>1. j + 1 \in 1..n /\ j + 1 > 1 /\ toSFU'[j] = toSFU[j + 1] BY <1>1
      <4> QED BY <2>1, <2>2, <4>1
    <3> QED BY <1>1, <2>1, <2>2, <3>1 DEF Mentioned
  <2>3. CASE i # 1
    <3>1. i - 1 \in 1..Len(toSFU') /\ toSFU'[i - 1] = toSFU[i] BY <1>1, <2>3
    <3>2. \A j \in 1..Len(toSFU') : j > i - 1 => toSFU'[j].sid # s
      <4> SUFFICES ASSUME NEW j \in 1..Len(toSFU'), j > i - 1 PROVE toSFU'[j].sid # s OBVIOUS
      <4>1. j + 1 \in 1..n /\ j + 1 > i /\ toSFU'[j] = toSFU[j + 1] BY <1>1
      <4> QED BY <2>1, <4>1
    <3> QED BY <2>1, <3>1, <3>2 DEF LastAsks
  <2> QED BY <2>2, <2>3
<1>3. ASSUME NEW s \in SIDs, Mentioned(s)' PROVE Mentioned(s)
  BY <1>1, <1>3 DEF Mentioned, n
<1>4. ASSUME NEW s \in SIDs, ~Mentioned(s) PROVE Head(toSFU).sid # s
  BY <1>1, <1>4 DEF Mentioned, n
<1> QED BY <1>2, <1>3, <1>4

\* A message is added, for an update of the SFU or a subscription, taken, or all are lost.
LEMMA NewsFrom ==
  ASSUME TracksAssumption, IInv, MapsInv, [Next]_vars
  PROVE  \/ fromSFU' = fromSFU
         \/ fromSFU' = <<>>
         \/ Receive /\ fromSFU # <<>> /\ fromSFU' = Tail(fromSFU)
         \/ \E m : fromSFU' = Append(fromSFU, m) /\ m.type # "update"
         \/ \E s \in SIDs :
              /\ SFUPublish(s) \/ SFUUnpublish(s)
              /\ fromSFU' = Append(fromSFU, Update(Key[s], IF s \in pubs' THEN {s} ELSE {}))
<1>1. CASE CallerStep \/ ResendStep \/ Shutdown \/ UNCHANGED vars
  BY <1>1 DEF CallerStep, ResendStep, Subscribe, SubscribeFailed, Return, Timeout, Withdrawn,
              Close, releaseHandle, resendSubscription, Shutdown, vars
<1>2. CASE Receive BY <1>2, Received
<1>3. CASE Restore \/ LinkFails \/ Restart \/ \E t \in Tracks : Send(t)
  BY <1>3 DEF Restore, LinkFails, Restart, Send
<1>4. CASE SFUServe
  <2>1. CASE UNCHANGED fromSFU BY <2>1
  <2>2. CASE ~UNCHANGED fromSFU
    <3>1. PICK h : fromSFU' = Append(fromSFU, [type |-> "handles", handle |-> h,
                                               sid |-> Head(toSFU).sid])
      BY <1>4, <2>2 DEF SFUServe
    <3>2. [type |-> "handles", handle |-> h, sid |-> Head(toSFU).sid].type = "handles" OBVIOUS
    <3> QED BY <3>1, <3>2
  <2> QED BY <2>1, <2>2
<1>5. ASSUME NEW s \in SIDs, SFUPublish(s)
      PROVE  fromSFU' = fromSFU \/
             fromSFU' = Append(fromSFU, Update(Key[s], IF s \in pubs' THEN {s} ELSE {}))
  BY <1>5 DEF SFUPublish, Tell
<1>6. ASSUME NEW s \in SIDs, SFUUnpublish(s)
      PROVE  fromSFU' = fromSFU \/
             fromSFU' = Append(fromSFU, Update(Key[s], IF s \in pubs' THEN {s} ELSE {}))
  BY <1>6 DEF SFUUnpublish, Tell
<1> QED
  BY <1>1, <1>2, <1>3, <1>4, <1>5, <1>6 DEF Next, CallerStep, ResendStep

LEMMA UsedFirstStep ==
  ASSUME TracksAssumption, IInv, MapsInv, ServedInv, [Next]_vars PROVE UsedFirst'
<1>0. UsedFirst /\ RoutesTyped /\ ListsOnce BY DEF ServedInv, MapsInv
<1>1. used \subseteq used'
  BY DEF Next, vars, sfuVars, Subscribe, SubscribeFailed, Return, Timeout, Withdrawn,
         Close, releaseHandle, resendSubscription, Shutdown, Receive, Restore, LinkFails, Restart,
         Send, SFUServe, SFUPublish, SFUUnpublish
<1>2. ASSUME NEW s \in SIDs, Heard(s)' PROVE s \in used
  BY <1>0, <1>2, HeardFrom, LenProperties, EmptySeq DEF UsedFirst, ListsOnce
<1>3. ASSUME NEW s \in SIDs, Mentioned(s)' PROVE s \in used
  BY <1>0, <1>3, MentionedFrom DEF UsedFirst
<1>4. ASSUME NEW i \in 1..Len(fromSFU'), NEW s \in SIDs, Lists(i, s)' PROVE s \in used'
  <2>1. CASE fromSFU' = fromSFU BY <1>0, <1>1, <1>4, <2>1 DEF UsedFirst, Lists
  <2>2. CASE fromSFU' = <<>> BY <1>4, <2>2
  <2>3. CASE fromSFU # <<>> /\ fromSFU' = Tail(fromSFU)
    <3>1. i + 1 \in 1..Len(fromSFU) /\ fromSFU'[i] = fromSFU[i + 1]
      BY <1>0, <2>3, TailItems DEF ListsOnce
    <3> QED BY <1>0, <1>1, <1>4, <3>1 DEF UsedFirst, Lists
  <2>4. ASSUME NEW m, fromSFU' = Append(fromSFU, m), m.type = "update" => s \notin m.listed
        PROVE  s \in used'
    <3>1. i \in 1..Len(fromSFU) /\ fromSFU'[i] = fromSFU[i]
      BY <1>0, <1>4, <2>4, AppendItems DEF ListsOnce, Lists
    <3> QED BY <1>0, <1>1, <1>4, <3>1 DEF UsedFirst, Lists
  <2>5. ASSUME NEW r \in SIDs, SFUPublish(r) \/ SFUUnpublish(r),
               fromSFU' = Append(fromSFU, Update(Key[r], IF r \in pubs' THEN {r} ELSE {}))
        PROVE  s \in used'
    <3>1. CASE s = r BY <1>0, <2>5, <3>1 DEF SFUPublish, SFUUnpublish, RoutesTyped
    <3>2. CASE s # r
      <4>1. s \notin Update(Key[r], IF r \in pubs' THEN {r} ELSE {}).listed
        BY <3>2 DEF Update
      <4> QED BY <2>4, <2>5, <4>1
    <3> QED BY <3>1, <3>2
  <2> QED BY <2>1, <2>2, <2>3, <2>4, <2>5, NewsFrom
<1>5. ASSUME NEW i \in 1..Len(jobs'), Restored(i)' PROVE jobs'[i].listed \subseteq used'
  <2>1. CASE jobs' = jobs BY <1>0, <1>1, <1>5, <2>1 DEF UsedFirst, Restored
  <2>2. CASE Restore
    <3>1. jobs # <<>> /\ jobs' = Tail(jobs) BY <2>2 DEF Restore
    <3>2. i + 1 \in 1..Len(jobs) /\ jobs'[i] = jobs[i + 1]
      BY <1>0, <3>1, TailItems DEF ListsOnce
    <3> QED BY <1>0, <1>1, <1>5, <3>2 DEF UsedFirst, Restored
  <2>3. CASE Restart BY <1>0, <1>1, <1>5, <2>3 DEF Restart, Restored, RoutesTyped
  <2> QED
    BY <2>1, <2>2, <2>3 DEF Next, vars, handlerVars, Subscribe, SubscribeFailed, Return, Timeout,
         Withdrawn, Close, releaseHandle, resendSubscription, Shutdown, Receive, LinkFails,
         Send, SFUServe, SFUPublish, SFUUnpublish, SFUUnchanged
<1>6. ASSUME NEW s \in SIDs, assigned'[s] # None PROVE s \in pubs'
  <2>1. CASE UNCHANGED <<pubs, assigned>> BY <1>0, <1>6, <2>1 DEF UsedFirst
  <2>2. ASSUME NEW r \in SIDs, SFUPublish(r) PROVE s \in pubs'
    BY <1>0, <1>6, <2>2 DEF UsedFirst, SFUPublish
  <2>3. ASSUME NEW r \in SIDs, SFUUnpublish(r) PROVE s \in pubs'
    BY <1>0, <1>6, <2>3 DEF UsedFirst, SFUUnpublish, IInv, MessagesTyped
  <2>4. CASE SFUServe
    BY <1>0, <1>6, <2>4 DEF UsedFirst, SFUServe, IInv, MessagesTyped
  <2>5. CASE Restart BY <1>6, <2>5 DEF Restart
  <2> QED
    BY <2>1, <2>2, <2>3, <2>4, <2>5 DEF Next, vars, sfuVars, Subscribe, SubscribeFailed, Return,
         Timeout, Withdrawn, Close, releaseHandle, resendSubscription, Shutdown, Receive, Restore,
         LinkFails, Send
<1> QED BY <1>1, <1>2, <1>3, <1>4, <1>5, <1>6 DEF UsedFirst

LEMMA OneListingStep ==
  ASSUME TracksAssumption, IInv, MapsInv, ServedInv, [Next]_vars PROVE OneListing'
<1>0. OneListing /\ ListsOnce BY DEF ServedInv, MapsInv
<1>1. CASE jobs' = jobs BY <1>0, <1>1 DEF OneListing, Restored
<1>2. CASE Restore
  <2>1. jobs # <<>> /\ jobs' = Tail(jobs) BY <1>2 DEF Restore
  <2>2. /\ Len(jobs') = Len(jobs) - 1 /\ Len(jobs) \in Nat \ {0}
        /\ \A i \in 1..Len(jobs') : i + 1 \in 1..Len(jobs) /\ jobs'[i] = jobs[i + 1]
    BY <1>0, <2>1, TailItems DEF ListsOnce
  <2>3. jobs' # <<>> => Len(jobs') \in 1..Len(jobs')
    BY <1>0, <2>1, <2>2, HeadTailProperties, LenProperties, EmptySeq DEF ListsOnce
  <2> QED BY <1>0, <2>1, <2>2, <2>3 DEF OneListing, Restored
<1>3. CASE Restart BY <1>3 DEF Restart, OneListing, Restored
<1> QED
  BY <1>1, <1>2, <1>3 DEF Next, vars, handlerVars, Subscribe, SubscribeFailed, Return, Timeout,
       Withdrawn, Close, releaseHandle, resendSubscription, Shutdown, Receive, LinkFails,
       Send, SFUServe, SFUPublish, SFUUnpublish, SFUUnchanged

LEMMA NewsLastStep ==
  ASSUME TracksAssumption, IInv, MapsInv, ServedInv, [Next]_vars PROVE NewsLast'
<1>0. /\ NewsLast /\ UsedFirst /\ RoutesTyped /\ ListsOnce
      /\ pubs \subseteq SIDs /\ OneEach(pubs)
  BY DEF ServedInv, MapsInv, ListsOnce, IInv, MessagesTyped
<1> DEFINE Restoring(s) == \E i \in 1..Len(jobs) : Restored(i) /\ s \in jobs[i].listed
           NoNews(s) == \A j \in 1..Len(fromSFU) : ~About(j, Key[s])
           LastNews(s) == \A i, j \in 1..Len(fromSFU) : Lists(i, s) /\ j > i => ~About(j, Key[s])
<1>1. \A s \in pubs : (Heard(s) \/ Restoring(s) => NoNews(s)) /\ LastNews(s)
  BY <1>0 DEF NewsLast
<1>2. ASSUME NEW s \in SIDs, Heard(s)'
      PROVE  \/ Heard(s)
             \/ Receive /\ fromSFU # <<>> /\ Lists(1, s)
             \/ Restore /\ Restoring(s)
  BY <1>0, <1>2, HeardFrom, LenProperties, EmptySeq DEF ListsOnce
<1>3. ASSUME NEW s \in SIDs, Restoring(s)', ~Restart PROVE Restoring(s)
  <2>1. CASE jobs' = jobs BY <1>3, <2>1 DEF Restored
  <2>2. CASE Restore
    <3>1. jobs # <<>> /\ jobs' = Tail(jobs) BY <2>2 DEF Restore
    <3> QED BY <1>0, <1>3, <3>1, TailItems DEF ListsOnce, Restored
  <2> QED
    BY <1>3, <2>1, <2>2 DEF Next, vars, handlerVars, Subscribe, SubscribeFailed, Return, Timeout,
         Withdrawn, Close, releaseHandle, resendSubscription, Shutdown, Receive, LinkFails,
         Send, SFUServe, SFUPublish, SFUUnpublish, SFUUnchanged
<1>4. ASSUME NEW s \in pubs', s \in pubs, Key[s] \in Keys, ~Restart,
             \A i \in 1..Len(fromSFU') :
               \/ i \in 1..Len(fromSFU) /\ fromSFU'[i] = fromSFU[i]
               \/ ~About(i, Key[s])' /\ ~Lists(i, s)',
             ~Receive
      PROVE  (Heard(s)' \/ Restoring(s)' => NoNews(s)') /\ LastNews(s)'
  <2>0. s \in SIDs BY <1>0, <1>4
  <2>1. (Heard(s) \/ Restoring(s) => NoNews(s)) /\ LastNews(s) BY <1>1, <1>4
  <2>2. Heard(s)' \/ Restoring(s)' => NoNews(s) BY <1>2, <1>3, <1>4, <2>0, <2>1
  <2> HIDE DEF Restoring
  <2>3. NoNews(s) => NoNews(s)' BY <1>4 DEF About
  <2>4. LastNews(s)' BY <1>4, <2>1 DEF About, Lists
  <2> QED BY <2>2, <2>3, <2>4
<1>5. ASSUME NEW s \in pubs' PROVE (Heard(s)' \/ Restoring(s)' => NoNews(s)') /\ LastNews(s)'
  <2>0. \A r \in SIDs : Key[r] \in Keys BY DEF Keys
  <2>1. CASE UNCHANGED <<pubs, fromSFU>> /\ ~Restart
    <3>1. ~Receive BY <2>1, Received, HeadTailProperties, LenProperties, <1>0 DEF ListsOnce
    <3> QED BY <1>0, <1>4, <2>0, <2>1, <3>1
  <2>2. CASE Receive
    <3>1. /\ fromSFU # <<>> /\ fromSFU' = Tail(fromSFU) /\ UNCHANGED <<pubs, jobs>>
      BY <2>2, Received DEF sfuVars
    <3>2. /\ Len(fromSFU') = Len(fromSFU) - 1 /\ Len(fromSFU) \in Nat \ {0}
          /\ \A i \in 1..Len(fromSFU') : i + 1 \in 1..Len(fromSFU) /\ fromSFU'[i] = fromSFU[i + 1]
      BY <1>0, <3>1, TailItems DEF ListsOnce
    <3>3. s \in pubs /\ s \in SIDs BY <1>0, <3>1
    <3>4. (Heard(s) \/ Restoring(s) => NoNews(s)) /\ LastNews(s) BY <1>1, <3>3
    <3>5. Restoring(s)' => Restoring(s) BY <3>1 DEF Restored
    <3>6. NoNews(s) => NoNews(s)' BY <3>2 DEF About
    <3>7. LastNews(s)'
      <4> SUFFICES ASSUME NEW i \in 1..Len(fromSFU'), NEW j \in 1..Len(fromSFU'), Lists(i, s)',
                          j > i
                   PROVE  ~About(j, Key[s])'
        OBVIOUS
      <4>1. i + 1 \in 1..Len(fromSFU) /\ j + 1 \in 1..Len(fromSFU) /\ j + 1 > i + 1 BY <3>2
      <4>2. Lists(i + 1, s) BY <3>2 DEF Lists
      <4>3. ~About(j + 1, Key[s]) BY <3>4, <4>1, <4>2
      <4> QED BY <3>2, <4>3 DEF About
    <3>8. Lists(1, s) => NoNews(s)'
      <4> SUFFICES ASSUME Lists(1, s), NEW j \in 1..Len(fromSFU') PROVE ~About(j, Key[s])'
        OBVIOUS
      <4>1. 1 \in 1..Len(fromSFU) /\ j + 1 \in 1..Len(fromSFU) /\ j + 1 > 1 BY <3>2
      <4>2. ~About(j + 1, Key[s]) BY <3>4, <4>1
      <4> QED BY <3>2, <4>2 DEF About
    <3>9. Heard(s)' => Heard(s) \/ Lists(1, s) \/ Restoring(s) BY <1>2, <3>3
    <3> HIDE DEF Restoring, NoNews
    <3> QED BY <3>4, <3>5, <3>6, <3>7, <3>8, <3>9
  <2>3. CASE fromSFU' = <<>>
    BY <2>3, LenProperties
  <2>4. ASSUME NEW m, fromSFU' = Append(fromSFU, m), m.type # "update", UNCHANGED pubs, ~Restart
        PROVE  (Heard(s)' \/ Restoring(s)' => NoNews(s)') /\ LastNews(s)'
    <3>1. \A i \in 1..Len(fromSFU') :
            \/ i \in 1..Len(fromSFU) /\ fromSFU'[i] = fromSFU[i]
            \/ ~About(i, Key[s])' /\ ~Lists(i, s)'
      BY <1>0, <2>4, AppendItems DEF ListsOnce, About, Lists
    <3>2. ~Receive
      <4>1. Len(fromSFU') = Len(fromSFU) + 1 BY <1>0, <2>4, AppendItems DEF ListsOnce
      <4> QED BY <1>0, <4>1, TailItems, Received DEF ListsOnce
    <3> QED BY <1>0, <1>4, <2>0, <2>4, <3>1, <3>2
  <2>5. ASSUME NEW r \in SIDs, SFUPublish(r) \/ SFUUnpublish(r),
               \/ fromSFU' = fromSFU
               \/ fromSFU' = Append(fromSFU, Update(Key[r], IF r \in pubs' THEN {r} ELSE {}))
        PROVE  (Heard(s)' \/ Restoring(s)' => NoNews(s)') /\ LastNews(s)'
    <3>1. UNCHANGED <<jobs, created, sid, outbox>>
      BY <2>5 DEF SFUPublish, SFUUnpublish, SFUUnchanged, handlerVars, trackVars
    <3>2. CASE s = r
      <4>1. s \notin used
        BY <1>0, <2>5, <3>2 DEF SFUPublish, SFUUnpublish
      <4>2. ~Heard(s)'  BY <1>0, <2>5, <3>1, <3>2, <4>1 DEF UsedFirst, Heard
      <4>3. ~Restoring(s)' BY <1>0, <3>1, <4>1 DEF UsedFirst, Restored
      <4>4. \A i \in 1..Len(fromSFU) : ~Lists(i, s) BY <1>0, <2>5, <3>2, <4>1 DEF UsedFirst
      <4>5. LastNews(s)'
        <5>1. CASE fromSFU' = fromSFU BY <4>4, <5>1 DEF Lists
        <5>2. CASE fromSFU' = Append(fromSFU, Update(Key[r], IF r \in pubs' THEN {r} ELSE {}))
          <6>1. /\ \A i \in 1..Len(fromSFU') : i = Len(fromSFU') \/ i \in 1..Len(fromSFU)
                /\ \A i \in 1..Len(fromSFU) : fromSFU'[i] = fromSFU[i]
            BY <1>0, <5>2, AppendItems DEF ListsOnce
          <6>2. \A i \in 1..Len(fromSFU') : Lists(i, s)' => i = Len(fromSFU')
            BY <4>4, <6>1 DEF Lists
          <6> QED BY <6>2
        <5> QED BY <2>5, <5>1, <5>2
      <4> QED BY <4>2, <4>3, <4>5
    <3>3. CASE s # r
      <4>1. s \in pubs /\ Key[s] # Key[r]
        BY <1>0, <2>5, <3>3 DEF SFUPublish, SFUUnpublish, OneEach
      <4>2. ~Receive /\ ~Restart
        <5>1. ~Receive
          <6>1. Len(fromSFU') # Len(fromSFU) - 1
            BY <1>0, <2>5, AppendItems, LenProperties DEF ListsOnce
          <6> QED BY <1>0, <6>1, TailItems, Received DEF ListsOnce
        <5>2. ~Restart
          BY <2>5 DEF Restart, SFUPublish, SFUUnpublish, linkVars
        <5> QED BY <5>1, <5>2
      <4>3. \A i \in 1..Len(fromSFU') :
              \/ i \in 1..Len(fromSFU) /\ fromSFU'[i] = fromSFU[i]
              \/ ~About(i, Key[s])' /\ ~Lists(i, s)'
        <5>1. CASE fromSFU' = fromSFU BY <5>1
        <5>2. CASE fromSFU' = Append(fromSFU, Update(Key[r], IF r \in pubs' THEN {r} ELSE {}))
          <6> DEFINE m == Update(Key[r], IF r \in pubs' THEN {r} ELSE {})
          <6>1. m.key # Key[s] /\ s \notin m.listed BY <3>3, <4>1 DEF Update
          <6> HIDE DEF m
          <6> QED BY <1>0, <5>2, <6>1, AppendItems DEF ListsOnce, About, Lists, m
        <5> QED BY <2>5, <5>1, <5>2
      <4> QED BY <1>0, <1>4, <2>0, <4>1, <4>2, <4>3
    <3> QED BY <3>2, <3>3
  <2>6. UNCHANGED pubs \/ \E r \in SIDs : SFUPublish(r) \/ SFUUnpublish(r)
    BY DEF Next, vars, sfuVars, Subscribe, SubscribeFailed, Return, Timeout, Withdrawn, Close,
           releaseHandle, resendSubscription, Shutdown, Receive, Restore, LinkFails, Restart, Send,
           SFUServe
  <2>7. ASSUME NEW r \in SIDs, SFUPublish(r) \/ SFUUnpublish(r)
        PROVE  \/ fromSFU' = fromSFU
               \/ fromSFU' = Append(fromSFU, Update(Key[r], IF r \in pubs' THEN {r} ELSE {}))
    BY <1>0, <2>7 DEF SFUPublish, SFUUnpublish, Tell
  <2>8. Restart => fromSFU' = <<>> BY DEF Restart
  <2>9. CASE UNCHANGED pubs
    BY <2>1, <2>2, <2>3, <2>4, <2>5, <2>8, <2>9, NewsFrom
  <2> QED BY <2>5, <2>6, <2>7, <2>9
<1> QED BY <1>5 DEF NewsLast

LEMMA StrayPublishedStep ==
  ASSUME TracksAssumption, IInv, MapsInv, ServedInv, [Next]_vars PROVE StrayPublished'
<1>0. /\ StrayPublished /\ NewsLast /\ UsedFirst /\ OneListing /\ RoutesTyped /\ TracksMade
      /\ CallersTyped /\ KeysOnce /\ DescriptorsIndexed /\ ListsOnce /\ TracksTyped
      /\ created \subseteq Tracks /\ pubs \subseteq SIDs
  BY DEF ServedInv, MapsInv, IInv, TracksTyped, MessagesTyped
<1>1. CASE CallerStep \/ ResendStep
  <2>1. UNCHANGED <<created, unpublished, jobs, pubs, link, sid>>
    BY <1>1 DEF CallerStep, ResendStep, Subscribe, SubscribeFailed, Return, Timeout, Withdrawn,
         Close, releaseHandle, resendSubscription, trackVars, sfuVars, handlerVars, linkVars
  <2> QED BY <1>0, <1>1, <2>1, OutboxFrom DEF StrayPublished, Published, Restored
<1>2. ASSUME NEW t \in Tracks, Send(t) PROVE StrayPublished'
  <2>1. /\ UNCHANGED <<created, unpublished, jobs, pubs, link, sid>>
        /\ \A u \in Tracks : outbox'[u] \in {None, outbox[u]}
    BY <1>0, <1>2 DEF Send, trackVars, sfuVars, handlerVars, linkVars, CallersTyped
  <2> QED BY <1>0, <2>1 DEF StrayPublished, Published, Restored
<1>3. ASSUME NEW t \in Tracks, outbox[t] # None
      PROVE  t \in created /\ outbox[t].sid \in SIDs /\ Heard(outbox[t].sid)
             /\ Key[outbox[t].sid] = Key[sid[t]] /\ Meta[outbox[t].sid] = Meta[sid[t]]
  BY <1>0, <1>3 DEF TracksMade, Heard
<1>4. ASSUME UNCHANGED <<created, unpublished, sid, outbox, jobs, link>>, pubs' \subseteq pubs
      PROVE  StrayPublished'
  BY <1>0, <1>4 DEF StrayPublished, Published, Restored
<1>5. CASE Receive
  <2>1. CASE \E h \in Handles, s \in SIDs : HandleSubscriberHandles(h, s)
    <3>1. UNCHANGED <<created, unpublished, sid, outbox, jobs, link, pubs>>
      BY <1>5, <2>1, Received DEF HandleSubscriberHandles, activate, trackVars, sfuVars, linkVars
    <3> QED BY <1>4, <3>1
  <2>2. ASSUME NEW k \in Keys, NEW listed \in SUBSET SIDs, About(1, k),
               \A s \in listed : Key[s] = k, Relisted(Reader, {k}, listed)
        PROVE  StrayPublished'
    <3>1. fromSFU # <<>> /\ UNCHANGED <<jobs, link, pubs, outbox>>
      BY <1>5, <2>2, Received DEF sfuVars, linkVars, Relisted
    <3> SUFFICES ASSUME link # "closed", NEW t \in Tracks, outbox[t] # None,
                        outbox[t].sid # sid'[t], outbox[t].sid \in pubs
                 PROVE  /\ t \in Published'
                        /\ \A i \in 1..Len(jobs) : Restored(i) =>
                             sid'[t] \in jobs[i].listed \/ outbox[t].sid \in jobs[i].listed
      BY <3>1 DEF StrayPublished, Restored
    <3>2. Key[sid[t]] # k
      <4>1. 1 \in 1..Len(fromSFU) BY <1>0, <3>1, LenProperties, EmptySeq DEF ListsOnce
      <4>2. ~About(1, Key[outbox[t].sid]) BY <1>0, <1>3, <4>1 DEF NewsLast
      <4> QED BY <1>3, <2>2, <4>2
    <3>3. t \in created BY <1>3
    <3>4. sid'[t] = sid[t] BY <2>2, <3>2, <3>3 DEF Relisted
    <3>5. /\ t \in Published
          /\ \A i \in 1..Len(jobs) : Restored(i) =>
               sid[t] \in jobs[i].listed \/ outbox[t].sid \in jobs[i].listed
      BY <1>0, <3>4 DEF StrayPublished
    <3>6. t \notin Ended BY <2>2, <3>2, <3>5 DEF Relisted
    <3>7. t \in Published' BY <2>2, <3>5, <3>6 DEF Relisted, Published, Ended
    <3> QED BY <3>4, <3>5, <3>7
  <2> QED BY <1>5, <2>1, <2>2, Received
<1>6. CASE Restore
  <2>1. CASE ResendSubscriptionUpdates
    <3>1. /\ UNCHANGED <<created, unpublished, sid, outbox, link, pubs>>
          /\ jobs # <<>> /\ jobs' = Tail(jobs)
      BY <1>6, <2>1, RestoredJob DEF ResendSubscriptionUpdates, trackVars, sfuVars, linkVars
    <3>2. \A i \in 1..Len(jobs') : i + 1 \in 1..Len(jobs) /\ jobs'[i] = jobs[i + 1]
      BY <1>0, <3>1, TailItems DEF ListsOnce
    <3> QED BY <1>0, <3>1, <3>2 DEF StrayPublished, Published, Restored
  <2>2. ASSUME NEW keys, NEW listed \in SUBSET SIDs, Restored(1), jobs[1].listed = listed,
               \A s \in listed : Key[s] \in keys, Relisted(Restorer, keys, listed)
        PROVE  StrayPublished'
    <3>1. /\ jobs # <<>> /\ jobs' = Tail(jobs) /\ UNCHANGED <<link, pubs, outbox>>
      BY <1>6, <2>2, RestoredJob DEF sfuVars, linkVars, Relisted
    <3>2. /\ \A i \in 1..Len(jobs') : i + 1 \in 1..Len(jobs) /\ jobs'[i] = jobs[i + 1]
          /\ 1 \in 1..Len(jobs)
      BY <1>0, <3>1, TailItems DEF ListsOnce
    <3>3. \A i \in 1..Len(jobs') : jobs'[i].type # "resend" => jobs'[i].listed = listed
      BY <1>0, <2>2, <3>2 DEF OneListing, Restored
    <3> SUFFICES ASSUME link # "closed", NEW t \in Tracks, outbox[t] # None,
                        outbox[t].sid # sid'[t], outbox[t].sid \in pubs
                 PROVE  t \in Published' /\ sid'[t] \in listed
      BY <3>1, <3>3 DEF StrayPublished, Restored
    <3>4. t \in created BY <1>3
    <3>5. t \in Published /\ sid'[t] \in listed
      <4>1. CASE sid'[t] # sid[t] BY <2>2, <3>4, <4>1 DEF Relisted
      <4>2. CASE sid'[t] = sid[t]
        <5>1. t \in Published /\ (sid[t] \in listed \/ outbox[t].sid \in listed)
          BY <1>0, <2>2, <3>2, <4>2 DEF StrayPublished
        <5>2. ASSUME outbox[t].sid \in listed PROVE FALSE
          <6> DEFINE s == outbox[t].sid
          <6>1. s \in SIDs /\ Key[s] = Key[sid[t]] /\ Meta[s] = Meta[sid[t]] BY <1>3
          <6>2. descriptors[s] # None => sid[t] = s
            <7>1. descriptors[s] \in Tracks \cup {None} BY <1>0, <6>1 DEF TracksTyped
            <7>2. descriptors[s] # None =>
                    descriptors[s] \in Published /\ sid[descriptors[s]] = s
              BY <1>0, <6>1, <7>1 DEF DescriptorsIndexed
            <7> QED BY <1>0, <5>1, <6>1, <7>2 DEF KeysOnce
          <6>3. descriptors[s] = None BY <4>2, <6>2
          <6>4. sid'[t] = s BY <2>2, <5>1, <5>2, <6>1, <6>3 DEF Relisted
          <6> QED BY <6>4
        <5> QED BY <4>2, <5>1, <5>2
      <4> QED BY <4>1, <4>2
    <3>6. t \notin Ended BY <2>2, <3>5 DEF Relisted
    <3>7. t \in Published' BY <2>2, <3>5, <3>6 DEF Relisted, Published, Ended
    <3> QED BY <3>5, <3>7
  <2> QED BY <1>6, <2>1, <2>2, RestoredJob
<1>7. CASE Shutdown BY <1>7 DEF Shutdown, StrayPublished
<1>8. ASSUME NEW r \in SIDs, SFUPublish(r) PROVE StrayPublished'
  <2>1. /\ UNCHANGED <<created, unpublished, sid, outbox, jobs, link>>
        /\ r \notin used /\ \A s \in pubs' : s = r \/ s \in pubs
    BY <1>8 DEF SFUPublish, SFUUnchanged, trackVars, handlerVars, linkVars
  <2>2. \A t \in Tracks : outbox[t] # None => outbox[t].sid # r
    BY <1>0, <1>3, <2>1 DEF UsedFirst
  <2> QED BY <1>0, <2>1, <2>2 DEF StrayPublished, Published, Restored
<1>9. ASSUME NEW r \in SIDs, SFUUnpublish(r) PROVE StrayPublished'
  BY <1>4, <1>9 DEF SFUUnpublish, SFUUnchanged, trackVars, handlerVars, linkVars
<1>10. CASE SFUServe
  BY <1>4, <1>10 DEF SFUServe, SFUUnchanged, trackVars, handlerVars, linkVars
<1>11. CASE LinkFails
  BY <1>0, <1>11 DEF LinkFails, StrayPublished, Published, Restored, trackVars, handlerVars, sfuVars
<1>12. CASE Restart
  <2>1. /\ UNCHANGED <<created, unpublished, sid, outbox, pubs>> /\ link # "closed"
        /\ \A i \in 1..Len(jobs') : jobs'[i].type # "resend" => jobs'[i].listed = pubs
    BY <1>12 DEF Restart, trackVars
  <2> QED BY <1>0, <2>1 DEF StrayPublished, Published, Restored
<1>13. CASE UNCHANGED vars
  BY <1>4, <1>13 DEF vars, trackVars, handlerVars, sfuVars, linkVars
<1> QED
  BY <1>1, <1>2, <1>5, <1>6, <1>7, <1>8, <1>9, <1>10, <1>11, <1>12, <1>13
     DEF Next, CallerStep, ResendStep

\* A wanted subscription stays asked for: the others' updates are not about
\* the SID, unless one of its own former tracks has them.
LEMMA AskedStep ==
  ASSUME TracksAssumption, IInv, MapsInv, ServedInv, [Next]_vars PROVE Asked'
<1>0. /\ Asked /\ StrayPublished /\ OneListing /\ UsedFirst /\ RoutesTyped /\ TracksMade
      /\ CallersTyped /\ KeysOnce /\ ListsOnce /\ created \subseteq Tracks /\ pubs \subseteq SIDs
      /\ Published \subseteq created /\ assigned \in [SIDs -> Handles \cup {None}]
      /\ None \notin Handles
  BY Distinct DEF ServedInv, MapsInv, IInv, TracksTyped, MessagesTyped, Published
<1> DEFINE Wanted(t) == /\ subscription[t] # "none" /\ sid[t] \in pubs
                        /\ \A u \in unpublished : sid[u] # sid[t]
           Sure(t) == \/ \E g \in Handlers : t \in todo[g]
                      \/ outbox[t] # None /\ outbox[t].sid = sid[t]
                      \/ LastAsks(sid[t], TRUE)
                      \/ ~Mentioned(sid[t]) /\ assigned[sid[t]] # None
<1>1. link = "up" /\ jobs = <<>> => \A t \in Published : Wanted(t) => Sure(t)
  BY <1>0 DEF Asked
\* The SFU and the requests to it are as they were.
<1>2. ASSUME UNCHANGED <<toSFU, assigned, sid, pubs, created, unpublished>>,
             link' = "up" /\ jobs' = <<>> => link = "up" /\ jobs = <<>>,
             \A t \in Published : subscription'[t] # "none" =>
               \/ \E g \in Handlers : t \in todo'[g]
               \/ outbox'[t] # None /\ outbox'[t].sid = sid[t]
               \/ /\ subscription[t] # "none"
                  /\ \A g \in Handlers : t \notin todo[g]
                  /\ outbox[t] = None \/ outbox[t].sid # sid[t]
      PROVE  Asked'
  BY <1>1, <1>2 DEF Asked, Published, LastAsks, Mentioned
<1>3. ASSUME NEW c \in Callers, NEW t \in Tracks, Subscribe(c, t) PROVE Asked'
  <2>1. /\ UNCHANGED <<toSFU, assigned, sid, pubs, created, unpublished, link, jobs, todo>>
        /\ \/ UNCHANGED <<subscription, outbox>>
           \/ /\ subscription' = [subscription EXCEPT ![t] = "pending"] /\ outbox[t] = None
              /\ outbox' = [outbox EXCEPT ![t] = [by |-> c, sid |-> sid[t], subscribe |-> TRUE]]
    BY <1>3 DEF Subscribe, SubscribeFirst, SubscribePending, SubscribeActive, Queue, sfuVars,
                handlerVars, linkVars
  <2>2. [by |-> c, sid |-> sid[t], subscribe |-> TRUE] # None /\ t \in created
    <3>1. t \in created BY <1>3 DEF Subscribe, Published
    <3>2. [by |-> c, sid |-> sid[t], subscribe |-> TRUE] \in Requests
      BY <1>0, <3>1 DEF Requests, TracksMade
    <3> QED BY <3>1, <3>2, Distinct
  <2>3. CASE UNCHANGED <<subscription, outbox>>
    BY <1>2, <2>1, <2>3
  <2>4. CASE /\ subscription' = [subscription EXCEPT ![t] = "pending"]
             /\ outbox' = [outbox EXCEPT ![t] = [by |-> c, sid |-> sid[t], subscribe |-> TRUE]]
    <3>1. outbox'[t] # None /\ outbox'[t].sid = sid[t]
      <4>1. outbox'[t] = [by |-> c, sid |-> sid[t], subscribe |-> TRUE]
        BY <1>0, <2>4 DEF CallersTyped
      <4> QED BY <2>2, <4>1
    <3>2. \A u \in Tracks : u # t => subscription'[u] = subscription[u] /\ outbox'[u] = outbox[u]
      BY <1>0, <2>4 DEF CallersTyped
    <3>3. \A u \in Published : subscription'[u] # "none" =>
               \/ \E g \in Handlers : u \in todo'[g]
               \/ outbox'[u] # None /\ outbox'[u].sid = sid[u]
               \/ /\ subscription[u] # "none"
                  /\ \A g \in Handlers : u \notin todo[g]
                  /\ outbox[u] = None \/ outbox[u].sid # sid[u]
      BY <1>0, <2>1, <3>1, <3>2
    <3> QED BY <1>2, <2>1, <3>3
  <2> QED BY <2>1, <2>3, <2>4
<1>4. ASSUME NEW c \in Callers, Timeout(c) \/ Close(c) PROVE Asked'
  <2> DEFINE t == target[c]
  <2>1. /\ UNCHANGED <<toSFU, assigned, sid, pubs, created, unpublished, link, jobs, todo>>
        /\ \/ UNCHANGED <<subscription, outbox>>
           \/ /\ subscription' = [subscription EXCEPT ![t] = "none"]
              /\ outbox' = [outbox EXCEPT ![t] = [by |-> c, sid |-> sid[t], subscribe |-> FALSE]]
    BY <1>4 DEF Timeout, Close, Queue, sfuVars, handlerVars, linkVars
  <2> HIDE DEF t
  <2>2. \A u \in Tracks :
          \/ subscription'[u] = subscription[u] /\ outbox'[u] = outbox[u]
          \/ subscription'[u] = "none"
    BY <1>0, <2>1 DEF CallersTyped
  <2>3. \A u \in Published : subscription'[u] # "none" =>
               \/ \E g \in Handlers : u \in todo'[g]
               \/ outbox'[u] # None /\ outbox'[u].sid = sid[u]
               \/ /\ subscription[u] # "none"
                  /\ \A g \in Handlers : u \notin todo[g]
                  /\ outbox[u] = None \/ outbox[u].sid # sid[u]
    BY <1>0, <2>1, <2>2
  <2> QED BY <1>2, <2>1, <2>3
<1>5. ASSUME NEW c \in Callers,
             SubscribeFailed(c) \/ Return(c) \/ Withdrawn(c) \/ releaseHandle(c)
      PROVE  Asked'
  <2>1. UNCHANGED <<toSFU, assigned, sid, pubs, created, unpublished, link, jobs, todo, outbox>>
    BY <1>5 DEF SubscribeFailed, Return, Withdrawn, releaseHandle, trackVars, sfuVars, handlerVars,
                linkVars
  <2>2. \A u \in Tracks : subscription[u] = "none" => subscription'[u] = "none"
    BY <1>0, <1>5 DEF SubscribeFailed, Return, Withdrawn, releaseHandle, trackVars, CallersTyped
  <2> QED BY <1>0, <1>2, <2>1, <2>2
<1>6. ASSUME NEW t \in Tracks, NEW g \in Handlers, resendSubscription(g, t) PROVE Asked'
  <2>1. /\ UNCHANGED <<toSFU, assigned, sid, pubs, created, unpublished, link, jobs, subscription>>
        /\ t \in todo[g] /\ todo' = [todo EXCEPT ![g] = @ \ {t}] /\ t \in created
        /\ IF subscription[t] # "none"
           THEN /\ outbox[t] = None
                /\ outbox' = [outbox EXCEPT ![t] = [by |-> g, sid |-> sid[t], subscribe |-> TRUE]]
           ELSE UNCHANGED outbox
    BY <1>0, <1>6 DEF resendSubscription, Queue, trackVars, sfuVars, linkVars, TracksMade
  <2>2. \A u \in Tracks, f \in Handlers : u # t /\ u \in todo[f] => u \in todo'[f]
    BY <1>0, <2>1 DEF RoutesTyped
  <2>3. \A u \in Tracks : u # t => outbox'[u] = outbox[u]
    BY <1>0, <2>1 DEF CallersTyped
  <2>4. subscription[t] # "none" => outbox'[t] # None /\ outbox'[t].sid = sid[t]
    <3>1. [by |-> g, sid |-> sid[t], subscribe |-> TRUE] # None
      <4>1. [by |-> g, sid |-> sid[t], subscribe |-> TRUE] \in Requests
        BY <1>0, <2>1 DEF Requests, TracksMade
      <4> QED BY <4>1, Distinct
    <3>2. subscription[t] # "none" =>
            outbox'[t] = [by |-> g, sid |-> sid[t], subscribe |-> TRUE]
      BY <1>0, <2>1 DEF CallersTyped
    <3> QED BY <3>1, <3>2
  <2>5. \A u \in Published : subscription'[u] # "none" =>
               \/ \E f \in Handlers : u \in todo'[f]
               \/ outbox'[u] # None /\ outbox'[u].sid = sid[u]
               \/ /\ subscription[u] # "none"
                  /\ \A f \in Handlers : u \notin todo[f]
                  /\ outbox[u] = None \/ outbox[u].sid # sid[u]
    BY <1>0, <2>1, <2>2, <2>3, <2>4
  <2> QED BY <1>2, <2>1, <2>5
\* Sent, the track's own update asks, and no other one is about its SID.
<1>7. ASSUME NEW t \in Tracks, Send(t) PROVE Asked'
  <2>1. /\ UNCHANGED <<assigned, sid, pubs, created, unpublished, link, jobs, todo, subscription>>
        /\ outbox[t] # None /\ outbox' = [outbox EXCEPT ![t] = None]
        /\ link = "up" => toSFU' = Append(toSFU, [sid |-> outbox[t].sid,
                                                  subscribe |-> outbox[t].subscribe])
    BY <1>7 DEF Send, trackVars, sfuVars, handlerVars, linkVars
  <2>2. outbox[t].sid \in SIDs /\ outbox[t].subscribe \in BOOLEAN /\ t \in created
    BY <1>0, <2>1 DEF CallersTyped, Requests, TracksMade
  <2>3. PICK r \in SIDs, b \in BOOLEAN : r = outbox[t].sid /\ b = outbox[t].subscribe
    BY <2>2
  <2> SUFFICES ASSUME link = "up", jobs = <<>>, NEW u \in Published, Wanted(u),
                      NEW s \in SIDs, s = sid[u]
               PROVE  \/ \E g \in Handlers : u \in todo[g]
                      \/ outbox'[u] # None /\ outbox'[u].sid = s
                      \/ LastAsks(s, TRUE)'
                      \/ ~Mentioned(s)' /\ assigned[s] # None
    BY ZenonT(40), <1>0, <2>1 DEF Asked, Published, LastAsks, Mentioned
  <2>4. \/ \E g \in Handlers : u \in todo[g]
        \/ outbox[u] # None /\ outbox[u].sid = s
        \/ LastAsks(s, TRUE)
        \/ ~Mentioned(s) /\ assigned[s] # None
    BY <1>1
  <2>5. /\ LastAsks(r, b)'
        /\ \A q \in SIDs, x \in BOOLEAN : q # r /\ LastAsks(q, x) => LastAsks(q, x)'
        /\ \A q \in SIDs : q # r /\ Mentioned(q)' => Mentioned(q)
    BY <1>0, <2>1, <2>3, AsksSent
  <2>6. CASE r # s
    <3>1. outbox[u] # None /\ outbox[u].sid = s => outbox'[u] = outbox[u]
      BY <1>0, <2>1, <2>3, <2>6 DEF CallersTyped
    <3>2. LastAsks(s, TRUE) => LastAsks(s, TRUE)' BY <2>5, <2>6
    <3>3. Mentioned(s)' => Mentioned(s) BY <2>5, <2>6
    <3> QED BY <2>4, <3>1, <3>2, <3>3
  <2>7. CASE r = s
    <3>1. t = u
      <4>1. Key[sid[t]] = Key[sid[u]] BY ZenonT(40), <1>0, <2>1, <2>3, <2>7 DEF TracksMade
      <4>2. CASE sid[t] = sid[u]
        <5>1. t \notin unpublished BY <4>2
        <5> QED BY <1>0, <2>2, <4>1, <5>1 DEF KeysOnce, Published
      <4>3. CASE sid[t] # sid[u]
        <5>1. t \in Published BY <1>0, <2>1, <2>3, <2>7, <4>3 DEF StrayPublished
        <5> QED BY <1>0, <4>1, <5>1 DEF KeysOnce
      <4> QED BY <4>2, <4>3
    <3>2. b = TRUE BY <1>0, <2>1, <2>3, <3>1 DEF TracksMade
    <3> QED BY <2>5, <2>7, <3>2
  <2> QED BY <2>6, <2>7
\* A track that gets another SID is resent.
<1>8. CASE Receive
  <2>1. fromSFU # <<>> /\ Free(Reader) /\ UNCHANGED <<jobs, link, pubs, assigned, toSFU>>
    BY <1>8, Received DEF sfuVars, linkVars
  <2>2. ASSUME NEW h \in Handles, NEW s \in SIDs, HandleSubscriberHandles(h, s) PROVE Asked'
    <3>1. UNCHANGED <<created, unpublished, sid, outbox, todo>>
      BY <2>2 DEF HandleSubscriberHandles, activate, trackVars
    <3>2. \A u \in Tracks : subscription[u] = "none" => subscription'[u] = "none"
      BY <1>0, <2>2 DEF HandleSubscriberHandles, activate, trackVars, CallersTyped
    <3> QED BY <1>0, <1>2, <2>1, <3>1, <3>2
  <2>3. ASSUME NEW keys, NEW listed, Relisted(Reader, keys, listed) PROVE Asked'
    <3> SUFFICES ASSUME link = "up", jobs = <<>>, NEW u \in Published',
                        subscription'[u] # "none", sid'[u] \in pubs,
                        \A w \in unpublished' : sid'[w] # sid'[u]
                 PROVE  \/ \E g \in Handlers : u \in todo'[g]
                        \/ outbox[u] # None /\ outbox[u].sid = sid'[u]
                        \/ LastAsks(sid'[u], TRUE)
                        \/ ~Mentioned(sid'[u]) /\ assigned[sid'[u]] # None
      <4>1. outbox' = outbox BY <2>3 DEF Relisted
      <4> QED BY <2>1, <4>1 DEF Asked, LastAsks, Mentioned
    <3>1. u \in created' /\ u \notin unpublished' /\ u \in Tracks
      BY <2>3 DEF Published, Relisted
    <3>2. subscription[u] # "none" BY <2>3, <3>1 DEF Relisted
    <3>3. u \in created BY <1>0, <3>1, <3>2 DEF TracksMade
    <3>4. u \in Published BY <2>3, <3>1, <3>3 DEF Relisted, Published
    <3>5. Reader \in Handlers BY DEF Handlers
    <3>6. CASE sid'[u] # sid[u] BY <2>3, <3>2, <3>3, <3>5, <3>6 DEF Relisted
    <3>7. CASE sid'[u] = sid[u]
      <4>1. \A w \in unpublished : sid'[w] = sid[w] /\ w \in unpublished'
        BY <1>0, <2>3 DEF Relisted, RoutesTyped, Published
      <4>2. Wanted(u) BY <3>2, <3>7, <4>1
      <4>3. Sure(u) BY <1>1, <3>4, <4>2
      <4>4. todo[Reader] = {} BY <2>1 DEF Free
      <4>5. \A g \in Handlers : u \in todo[g] => u \in todo'[g]
        BY <2>3, <4>4 DEF Relisted
      <4> QED BY <3>7, <4>3, <4>5
    <3> QED BY <3>6, <3>7
  <2> QED BY <1>8, <2>2, <2>3, Received
\* OnRestarted ends with a resend of everything.
<1>9. CASE Restore
  <2>1. jobs # <<>> /\ jobs' = Tail(jobs) BY <1>9, RestoredJob
  <2>2. CASE jobs' # <<>> BY <2>2 DEF Asked
  <2>3. CASE jobs' = <<>>
    <3>1. Len(jobs) = 1
      <4>1. jobs \in Seq(Restores) /\ Len(Tail(jobs)) = 0
        BY <1>0, <2>1, <2>3, EmptySeq DEF ListsOnce
      <4>2. Len(Tail(jobs)) = Len(jobs) - 1 /\ Len(jobs) \in Nat BY <2>1, <4>1, TailItems
      <4> QED BY <4>1, <4>2
    <3>2. ~Restored(1) BY <1>0, <2>1, <3>1 DEF OneListing, Restored
    <3>3. ResendSubscriptionUpdates BY <1>9, <3>2, RestoredJob
    <3>4. UNCHANGED <<created, unpublished>> /\ todo'[Restorer] = Published
      BY <1>0, <3>3 DEF ResendSubscriptionUpdates, trackVars, RoutesTyped, Handlers
    <3>5. Restorer \in Handlers BY DEF Handlers
    <3> QED BY <3>4, <3>5 DEF Asked, Published
  <2> QED BY <2>2, <2>3
<1>10. CASE Shutdown BY <1>10 DEF Shutdown, Asked
<1>11. ASSUME NEW r \in SIDs, SFUPublish(r) PROVE Asked'
  <2>1. /\ UNCHANGED <<toSFU, link, jobs, todo, outbox, created, unpublished, sid, subscription>>
        /\ r \notin used /\ pubs' = {s \in pubs : Key[s] # Key[r]} \cup {r}
        /\ assigned' = [s \in SIDs |-> IF Key[s] = Key[r] THEN None ELSE assigned[s]]
    BY <1>11 DEF SFUPublish, SFUUnchanged, trackVars, handlerVars, linkVars
  <2>2. \A t \in created : sid[t] # r BY <1>0, <1>11, <2>1 DEF UsedFirst, Heard
  <2>3. \A t \in Published : sid[t] \in pubs' =>
          sid[t] \in pubs /\ assigned'[sid[t]] = assigned[sid[t]]
    BY <1>0, <2>1, <2>2
  <2> QED BY <1>1, <2>1, <2>3 DEF Asked, Published, LastAsks, Mentioned
<1>12. ASSUME NEW r \in SIDs, SFUUnpublish(r) PROVE Asked'
  <2>1. /\ UNCHANGED <<toSFU, link, jobs, todo, outbox, created, unpublished, sid, subscription>>
        /\ pubs' = pubs \ {r} /\ assigned' = [assigned EXCEPT ![r] = None]
    BY <1>12 DEF SFUUnpublish, SFUUnchanged, trackVars, handlerVars, linkVars
  <2>2. \A t \in Published : sid[t] \in pubs' =>
          sid[t] \in pubs /\ assigned'[sid[t]] = assigned[sid[t]]
    BY <1>0, <2>1
  <2> QED BY <1>1, <2>1, <2>2 DEF Asked, Published, LastAsks, Mentioned
<1>13. CASE SFUServe
  <2> DEFINE q == Head(toSFU)
  <2>1. /\ UNCHANGED <<pubs, link, jobs, todo, outbox, created, unpublished, sid, subscription>>
        /\ toSFU # <<>> /\ toSFU' = Tail(toSFU)
    BY <1>13 DEF SFUServe, SFUUnchanged, trackVars, handlerVars, linkVars
  <2>2. /\ \A s \in SIDs : s # q.sid => assigned'[s] = assigned[s]
        /\ q.sid \in pubs /\ q.subscribe => assigned'[q.sid] # None
    <3>1. CASE q.sid \notin pubs BY <1>13, <3>1 DEF SFUServe
    <3>2. CASE q.sid \in pubs /\ ~q.subscribe BY <1>0, <1>13, <3>2 DEF SFUServe
    <3>3. CASE q.sid \in pubs /\ q.subscribe
      <4>1. PICK h \in (IF assigned[q.sid] = None THEN FreeHandles ELSE {assigned[q.sid]}) :
              assigned' = [assigned EXCEPT ![q.sid] = h]
        BY <1>13, <3>3 DEF SFUServe
      <4>2. q.sid \in SIDs BY <1>0, <3>3
      <4>3. h \in Handles BY <1>0, <4>1, <4>2 DEF FreeHandles
      <4> QED BY <1>0, <4>1, <4>2, <4>3
    <3> QED BY <3>1, <3>2, <3>3
  <2> HIDE DEF q
  <2>3. /\ \A s \in SIDs, x \in BOOLEAN : LastAsks(s, x) =>
              \/ LastAsks(s, x)'
              \/ ~Mentioned(s)' /\ q.sid = s /\ q.subscribe = x
        /\ \A s \in SIDs : Mentioned(s)' => Mentioned(s)
        /\ \A s \in SIDs : ~Mentioned(s) => q.sid # s
    BY <1>0, <2>1, AsksServed DEF q
  <2> SUFFICES ASSUME link = "up", jobs = <<>>, NEW u \in Published, Wanted(u),
                      NEW s \in SIDs, s = sid[u]
               PROVE  \/ \E g \in Handlers : u \in todo[g]
                      \/ outbox[u] # None /\ outbox[u].sid = s
                      \/ LastAsks(s, TRUE)'
                      \/ ~Mentioned(s)' /\ assigned'[s] # None
    <3>1. UNCHANGED <<pubs, link, jobs, todo, outbox, created, unpublished, sid, subscription>>
      BY <2>1
    <3>2. \A u \in Published : sid[u] \in SIDs BY <1>0 DEF TracksMade
    <3> QED BY <3>1, <3>2 DEF Asked, Published, LastAsks, Mentioned
  <2>4. /\ \/ \E g \in Handlers : u \in todo[g]
           \/ outbox[u] # None /\ outbox[u].sid = s
           \/ LastAsks(s, TRUE)
           \/ ~Mentioned(s) /\ assigned[s] # None
        /\ s \in pubs
    BY <1>1
  <2>5. CASE LastAsks(s, TRUE) BY <2>2, <2>3, <2>4, <2>5
  <2>6. CASE ~Mentioned(s) /\ assigned[s] # None BY <2>2, <2>3, <2>6
  <2> QED BY <2>4, <2>5, <2>6
<1>14. CASE LinkFails BY <1>14 DEF LinkFails, Asked
<1>15. CASE Restart BY <1>15 DEF Restart, Asked
<1>16. CASE UNCHANGED vars
  BY <1>0, <1>2, <1>16 DEF vars, trackVars, handlerVars, sfuVars, linkVars
<1> QED
  BY <1>3, <1>4, <1>5, <1>6, <1>7, <1>8, <1>9, <1>10, <1>11, <1>12, <1>13, <1>14, <1>15, <1>16
     DEF Next

LEMMA ServedInit == ASSUME TracksAssumption PROVE Init => ServedInv
<1> SUFFICES ASSUME Init PROVE ServedInv OBVIOUS
<1> USE DEF Init
<1> QED
  BY DEF ServedInv, UsedFirst, NewsLast, OneListing, StrayPublished, Asked, Heard, Mentioned,
         Published

LEMMA ServedStep ==
  ASSUME TracksAssumption PROVE IInv /\ MapsInv /\ ServedInv /\ [Next]_vars => ServedInv'
  BY UsedFirstStep, NewsLastStep, OneListingStep, StrayPublishedStep, AskedStep DEF ServedInv

\* The SFU serves every subscription the client wants once nothing is under
\* way, through any number of restarts.
THEOREM SubscriptionsReachSFU ==
  ASSUME TracksAssumption PROVE Spec => []SubscriptionReachesSFU
<1>1. Init => IInv /\ MapsInv /\ ServedInv BY InitInv, MapsInit, ServedInit
<1>2. IInv /\ MapsInv /\ ServedInv /\ [Next]_vars => (IInv /\ MapsInv /\ ServedInv)'
  BY StepInv, MapsStep, ServedStep
<1>3. IInv /\ ServedInv => SubscriptionReachesSFU
  <2> SUFFICES ASSUME IInv, Asked, Quiet PROVE SubscriptionReachesSFU
    BY DEF ServedInv, SubscriptionReachesSFU
  <2>1. \A s, b : ~LastAsks(s, b) BY DEF Quiet, LastAsks
  <2>2. \A t \in Published : outbox[t] = None BY DEF Quiet, Published, IInv, TracksTyped
  <2> QED BY <2>1, <2>2 DEF Asked, Quiet, SubscriptionReachesSFU
<1> QED BY <1>1, <1>2, <1>3, PTL DEF Spec

-----------------------------------------------------------------------------
(* The first session: the client and the SFU agree.                        *)

First == FirstSession /\ NewsOnce /\ SIDsOnce /\ PubsFollow /\ TakenBack

LEMMA Core ==
  ASSUME TracksAssumption, IInv, MapsInv, ServedInv
  PROVE  /\ UsedFirst /\ RoutesTyped /\ TracksMade /\ CallersTyped /\ KeysOnce /\ ListsOnce
         /\ TracksTyped /\ MessagesTyped /\ Kept
         /\ created \subseteq Tracks /\ pubs \subseteq SIDs /\ Published \subseteq created
         /\ assigned \in [SIDs -> Handles \cup {None}] /\ None \notin Handles
         /\ OneEach(pubs) /\ fromSFU \in Seq(Listings)
  BY Distinct DEF ServedInv, MapsInv, IInv, TracksTyped, MessagesTyped, Published, ListsOnce

\* The first session goes on from itself, and no caller fails in it.
LEMMA FirstGoesOn ==
  ASSUME TracksAssumption, IInv, MapsInv, ServedInv, FirstInv, [Next]_vars, FirstSession'
  PROVE  /\ First /\ ~Shutdown /\ ~LinkFails /\ ~Restart /\ ~Restore
         /\ jobs = <<>> /\ jobs' = <<>>
         /\ \A c \in Callers : pc[c] # "failed" /\ pc'[c] # "failed"
<1>1. restarts \in Nat BY Core DEF RoutesTyped
<1>2. ~Shutdown /\ ~LinkFails BY DEF Shutdown, LinkFails, FirstSession
<1>3. ~Restart BY <1>1 DEF Restart, FirstSession
<1>4. UNCHANGED <<link, restarts>>
  BY <1>2, <1>3 DEF Next, vars, linkVars, Subscribe, SubscribeFailed, Return, Timeout, Withdrawn,
       Close, releaseHandle, resendSubscription, Receive, Restore, Send, SFUServe, SFUPublish,
       SFUUnpublish
<1>5. /\ First /\ jobs = <<>> /\ \A c \in Callers : pc[c] # "failed"
  BY <1>4 DEF FirstInv, FirstSession, First
<1>6. ~Restore BY <1>5 DEF Restore
<1>7. UNCHANGED jobs
  BY <1>2, <1>3, <1>6 DEF Next, vars, handlerVars, Subscribe, SubscribeFailed, Return, Timeout,
       Withdrawn, Close, releaseHandle, resendSubscription, Receive, Send, SFUServe, SFUPublish,
       SFUUnpublish, SFUUnchanged
<1>8. ASSUME NEW c \in Callers PROVE pc'[c] # "failed"
  <2>1. pc \in [Callers -> Labels] /\ pc[c] # "failed" BY <1>5, Core DEF CallersTyped
  <2>2. ASSUME NEW t \in Tracks, Send(t) PROVE pc'[c] # "failed"
    <3>1. pc' = IF outbox[t].by \in Callers
                THEN [pc EXCEPT ![outbox[t].by] = AfterSend(@, FALSE)] ELSE pc
      BY <1>5, <2>2 DEF Send, First, FirstSession
    <3>2. outbox[t].by \in Callers => pc[outbox[t].by] \in Sending
      BY <2>2, Core DEF Send, Kept, SenderSends
    <3> QED BY <2>1, <3>1, <3>2 DEF AfterSend, Sending
  <2>3. ASSUME NEW d \in Callers, NEW t \in Tracks, Subscribe(d, t) PROVE pc'[c] # "failed"
    BY <2>1, <2>3 DEF Subscribe, SubscribeFirst, SubscribePending, SubscribeActive, Goto
  <2>4. ASSUME NEW d \in Callers, SubscribeFailed(d) \/ Return(d) \/ Timeout(d) \/ Withdrawn(d)
                                  \/ Close(d) \/ releaseHandle(d)
        PROVE  pc'[c] # "failed"
    BY <2>1, <2>4 DEF SubscribeFailed, Return, Timeout, Withdrawn, Close, releaseHandle, Goto
  <2>5. CASE UNCHANGED pc BY <2>1, <2>5
  <2>6. CASE Receive
    BY <2>1, <2>6 DEF Receive, handlePublicationUpdates, HandleSubscriberHandles
  <2>7. ASSUME NEW t \in Tracks, NEW g \in Handlers, resendSubscription(g, t) PROVE UNCHANGED pc
    BY <2>7 DEF resendSubscription, callerVars
  <2>8. ASSUME NEW s \in SIDs, SFUPublish(s) \/ SFUUnpublish(s) PROVE UNCHANGED pc
    BY <2>8 DEF SFUPublish, SFUUnpublish, SFUUnchanged, callerVars
  <2>9. CASE SFUServe BY <2>1, <2>9 DEF SFUServe, SFUUnchanged, callerVars
  <2>10. CASE UNCHANGED vars BY <2>1, <2>10 DEF vars, callerVars
  <2> QED
    BY <1>2, <1>3, <1>6, <2>2, <2>3, <2>4, <2>5, <2>6, <2>7, <2>8, <2>9, <2>10 DEF Next
<1> QED BY <1>2, <1>3, <1>5, <1>6, <1>7, <1>8

\* The SFU serves a SID that it is asked about.
LEMMA AssignedFrom ==
  ASSUME TracksAssumption, IInv, MapsInv, ServedInv, [Next]_vars, NEW s \in SIDs,
         assigned'[s] # None
  PROVE  assigned[s] # None \/ Mentioned(s)
<1>1. CASE UNCHANGED assigned BY <1>1
<1>2. ASSUME NEW r \in SIDs, SFUPublish(r) \/ SFUUnpublish(r) PROVE assigned[s] # None
  BY <1>2, Core DEF SFUPublish, SFUUnpublish
<1>3. CASE SFUServe
  <2>1. toSFU # <<>> BY <1>3 DEF SFUServe
  <2>2. Head(toSFU) = toSFU[1] /\ 1 \in 1..Len(toSFU)
    BY <2>1, Core, HeadTailProperties, LenProperties, EmptySeq DEF RoutesTyped
  <2>3. s = Head(toSFU).sid \/ assigned'[s] = assigned[s] BY <1>3, Core DEF SFUServe
  <2> QED BY <2>2, <2>3 DEF Mentioned
<1>4. CASE Restart BY <1>4 DEF Restart
<1> QED
  BY <1>1, <1>2, <1>3, <1>4 DEF Next, vars, sfuVars, Subscribe, SubscribeFailed, Return, Timeout,
       Withdrawn, Close, releaseHandle, resendSubscription, Receive, Restore, Shutdown, Send,
       LinkFails

LEMMA NewsOnceStep ==
  ASSUME TracksAssumption, IInv, MapsInv, ServedInv, FirstInv, [Next]_vars, FirstSession'
  PROVE  NewsOnce'
<1>0. NewsOnce /\ UsedFirst /\ ~Restore /\ fromSFU \in Seq(Listings) /\ pubs \subseteq used
  BY Core, FirstGoesOn DEF First, RoutesTyped
<1> DEFINE Fresh(s) == ~Heard(s) /\ ~Mentioned(s) /\ assigned[s] = None
\* What was not heard of stays so, unless its listing is received.
<1>1. ASSUME NEW s \in SIDs, Fresh(s), ~(Receive /\ fromSFU # <<>> /\ Lists(1, s)) PROVE Fresh(s)'
  BY <1>0, <1>1, HeardFrom, MentionedFrom, AssignedFrom
<1>2. Receive => Len(fromSFU') = Len(fromSFU) - 1 /\ Len(fromSFU) \in Nat
  BY <1>0, Received, TailItems
<1>3. ASSUME NEW i \in 1..Len(fromSFU'), NEW s \in SIDs, Lists(i, s)'
      PROVE  Fresh(s)' /\ \A j \in 1..Len(fromSFU') : Lists(j, s)' => i = j
  <2>1. CASE fromSFU' = fromSFU
    <3>1. Len(fromSFU) \in Nat BY <1>0, LenProperties
    <3>2. ~Receive BY <1>2, <2>1, <3>1
    <3> QED BY <1>0, <1>1, <1>3, <2>1, <3>2 DEF NewsOnce, Lists
  <2>2. CASE fromSFU' = <<>> BY <1>3, <2>2
  <2>3. CASE Receive /\ fromSFU # <<>> /\ fromSFU' = Tail(fromSFU)
    <3>1. /\ \A j \in 1..Len(fromSFU') : j + 1 \in 1..Len(fromSFU) /\ fromSFU'[j] = fromSFU[j + 1]
          /\ 1 \in 1..Len(fromSFU)
      BY <1>0, <2>3, TailItems
    <3>2. Lists(i + 1, s) /\ i + 1 \in 1..Len(fromSFU) BY <1>3, <3>1 DEF Lists
    <3>3. Fresh(s) /\ ~Lists(1, s)
      <4>1. i + 1 # 1 BY <1>3
      <4> QED BY <1>0, <3>1, <3>2, <4>1 DEF NewsOnce
    <3>4. ASSUME NEW j \in 1..Len(fromSFU'), Lists(j, s)' PROVE i = j
      <4>1. Lists(j + 1, s) /\ j + 1 \in 1..Len(fromSFU) BY <3>1, <3>4 DEF Lists
      <4>2. i + 1 = j + 1 BY <1>0, <3>2, <4>1 DEF NewsOnce
      <4> QED BY <1>3, <3>4, <4>2
    <3> QED BY <1>1, <3>3, <3>4
  <2>4. ASSUME NEW m, fromSFU' = Append(fromSFU, m),
               \/ m.type # "update"
               \/ \E r \in SIDs : m.listed \subseteq {r} /\ (r \in m.listed => r \notin used)
        PROVE  Fresh(s)' /\ \A j \in 1..Len(fromSFU') : Lists(j, s)' => i = j
    <3>0. PICK n \in Nat : n = Len(fromSFU) BY <1>0, LenProperties
    <3>1. /\ Len(fromSFU') = n + 1 /\ fromSFU'[n + 1] = m
          /\ \A j \in 1..n : fromSFU'[j] = fromSFU[j]
      BY <1>0, <2>4, <3>0, AppendItems
    <3>2. ~Receive BY <1>2, <3>0, <3>1
    <3>3. Lists(n + 1, s)' => s \notin used BY <2>4, <3>1 DEF Lists
    <3>4. \A j \in 1..n : Lists(j, s)' => Lists(j, s) /\ s \in used
      BY <1>0, <3>0, <3>1 DEF Lists, UsedFirst
    <3>5. \A j \in 1..Len(fromSFU') : j \in 1..n \/ j = n + 1 BY <3>1
    <3>6. CASE i \in 1..n
      <4>1. Fresh(s) /\ \A j \in 1..n : Lists(j, s) => i = j
        BY <1>0, <1>3, <3>0, <3>4, <3>6 DEF NewsOnce
      <4> QED BY <1>1, <1>3, <3>2, <3>3, <3>4, <3>5, <3>6, <4>1
    <3>7. CASE i = n + 1
      <4>1. s \notin used BY <1>3, <3>3, <3>7
      <4>2. Fresh(s) BY <1>0, <4>1 DEF UsedFirst
      <4> QED BY <1>1, <3>2, <3>4, <3>5, <3>7, <4>1, <4>2
    <3> QED BY <3>5, <3>6, <3>7
  <2>5. ASSUME NEW r \in SIDs, SFUPublish(r) \/ SFUUnpublish(r),
               fromSFU' = Append(fromSFU, Update(Key[r], IF r \in pubs' THEN {r} ELSE {}))
        PROVE  Fresh(s)' /\ \A j \in 1..Len(fromSFU') : Lists(j, s)' => i = j
    <3>1. r \in pubs' => r \notin used BY <2>5 DEF SFUPublish, SFUUnpublish
    <3>2. PICK m : m = Update(Key[r], IF r \in pubs' THEN {r} ELSE {}) OBVIOUS
    <3>3. m.listed = IF r \in pubs' THEN {r} ELSE {} BY <3>2 DEF Update
    <3>4. m.listed \subseteq {r} /\ (r \in m.listed => r \notin used) BY <3>1, <3>3
    <3>5. fromSFU' = Append(fromSFU, m) BY <2>5, <3>2
    <3> HIDE DEF Fresh
    <3> QED BY <2>4, <3>4, <3>5
  <2> HIDE DEF Fresh
  <2> QED BY <2>1, <2>2, <2>3, <2>4, <2>5, NewsFrom
<1> QED BY <1>3 DEF NewsOnce

\* A track gets only a SID that is new to the client.
LEMMA FreshSID ==
  ASSUME TracksAssumption, IInv, MapsInv, NewsOnce, fromSFU # <<>>,
         NEW k, NEW listed \in SUBSET SIDs, About(1, k), fromSFU[1].listed = listed,
         NEW s \in listed
  PROVE  ~Heard(s) /\ ~Mentioned(s) /\ assigned[s] = None
<1>1. 1 \in 1..Len(fromSFU) BY LenProperties, EmptySeq DEF MapsInv, ListsOnce
<1> QED BY <1>1 DEF NewsOnce, Lists, About

LEMMA SIDsOnceStep ==
  ASSUME TracksAssumption, IInv, MapsInv, ServedInv, FirstInv, [Next]_vars, FirstSession'
  PROVE  SIDsOnce'
<1>0. SIDsOnce /\ NewsOnce /\ KeysOnce /\ ~Restore /\ ~Shutdown /\ ~LinkFails /\ ~Restart
      /\ TracksMade /\ CallersTyped /\ created \subseteq Tracks
  BY Core, FirstGoesOn DEF First
<1>1. CASE CallerStep \/ ResendStep BY <1>0, <1>1, OutboxFrom DEF SIDsOnce
<1>2. ASSUME UNCHANGED <<created, sid>>, \A t \in Tracks : outbox'[t] \in {None, outbox[t]}
      PROVE  SIDsOnce'
  BY <1>0, <1>2 DEF SIDsOnce
<1>3. ASSUME NEW t \in Tracks, Send(t) PROVE SIDsOnce'
  BY <1>0, <1>2, <1>3 DEF Send, trackVars, CallersTyped
<1>4. CASE SFUStep \/ UNCHANGED vars
  BY <1>0, <1>2, <1>4 DEF SFUStep, SFUPublish, SFUUnpublish, SFUServe, SFUUnchanged, trackVars, vars
<1>5. CASE Receive
  <2>1. ASSUME NEW h, NEW r, HandleSubscriberHandles(h, r) PROVE SIDsOnce'
    BY <1>2, <2>1 DEF HandleSubscriberHandles, activate, trackVars
  <2>2. ASSUME NEW k \in Keys, NEW listed \in SUBSET SIDs, About(1, k), fromSFU[1].listed = listed,
               Relisted(Reader, {k}, listed)
        PROVE  SIDsOnce'
    <3>1. \A s \in listed : ~Heard(s) BY <1>0, <1>5, <2>2, FreshSID, Received
    <3>2. \A t \in created' : \/ t \in created /\ sid'[t] = sid[t]
                              \/ sid'[t] \in listed
      BY <2>2 DEF Relisted
    <3>3. ASSUME NEW t \in created', NEW u \in created', sid'[t] = sid'[u] PROVE t = u
      <4>1. CASE sid'[t] \notin listed BY <1>0, <3>2, <3>3, <4>1 DEF SIDsOnce
      <4>2. CASE sid'[t] \in listed
        <5>1. \A w \in {t, u} : w \notin created \/ sid'[w] # sid[w]
          BY <3>1, <3>3, <4>2 DEF Heard
        <5>2. \A w \in {t, u} : w \in created =>
                w \in Published /\ Key[sid'[w]] = Key[sid[w]]
          BY <2>2, <5>1 DEF Relisted
        <5>3. CASE t \in created /\ u \in created BY <1>0, <3>3, <5>2, <5>3 DEF KeysOnce
        <5>4. CASE t \notin created \/ u \notin created
          BY <2>2, <3>3, <5>2, <5>4 DEF Relisted
        <5> QED BY <5>3, <5>4
      <4> QED BY <4>1, <4>2
    <3>4. ASSUME NEW t \in Tracks, NEW u \in created', outbox'[t] # None, outbox'[t].sid = sid'[u]
          PROVE  t = u
      <4>1. outbox' = outbox BY <2>2 DEF Relisted
      <4>2. sid'[u] \notin listed BY <3>1, <3>4, <4>1 DEF Heard
      <4> QED BY <1>0, <3>2, <3>4, <4>1, <4>2 DEF SIDsOnce
    <3> QED BY <3>3, <3>4 DEF SIDsOnce
  <2> QED BY <1>5, <2>1, <2>2, Received
<1> QED BY <1>0, <1>1, <1>3, <1>4, <1>5 DEF Next, CallerStep, ResendStep, SFUStep

LEMMA PubsFollowStep ==
  ASSUME TracksAssumption, IInv, MapsInv, ServedInv, FirstInv, [Next]_vars, FirstSession'
  PROVE  PubsFollow'
<1>0. /\ PubsFollow /\ ~Restore /\ ~Shutdown /\ ~LinkFails /\ ~Restart /\ link = "up"
      /\ TracksMade /\ fromSFU \in Seq(Listings) /\ OneEach(pubs) /\ Published \subseteq created
  BY Core, FirstGoesOn DEF First, FirstSession
<1> DEFINE Last(i, k) == About(i, k) /\ \A j \in 1..Len(fromSFU) : j > i => ~About(j, k)
           Silent(k) == \A i \in 1..Len(fromSFU) : ~About(i, k)
           Ours(k) == OfKey({sid[t] : t \in Published}, k)
<1>1. /\ \A i \in 1..Len(fromSFU), k \in Keys : Last(i, k) => fromSFU[i].listed = OfKey(pubs, k)
      /\ \A k \in Keys : Silent(k) => Ours(k) = OfKey(pubs, k)
  BY <1>0 DEF PubsFollow
<1> SUFFICES ASSUME NEW k \in Keys
             PROVE  /\ \A i \in 1..Len(fromSFU') : Last(i, k)' =>
                         fromSFU'[i].listed = OfKey(pubs', k)
                    /\ Silent(k)' => Ours(k)' = OfKey(pubs', k)
  BY DEF PubsFollow
<1> DEFINE Goal == /\ \A i \in 1..Len(fromSFU') : Last(i, k)' =>
                        fromSFU'[i].listed = OfKey(pubs', k)
                   /\ Silent(k)' => Ours(k)' = OfKey(pubs', k)
<1> SUFFICES Goal OBVIOUS
<1>2. ASSUME UNCHANGED <<created, unpublished, sid>> PROVE Ours(k)' = Ours(k)
  BY <1>2 DEF Published, OfKey
<1>3. ASSUME UNCHANGED <<fromSFU, pubs, created, unpublished, sid>> PROVE Goal
  <2>1. Ours(k)' = Ours(k) BY <1>2, <1>3
  <2> HIDE DEF Ours
  <2> QED BY <1>1, <1>3, <2>1 DEF About
\* A message about something else comes last.
<1>4. ASSUME NEW m, fromSFU' = Append(fromSFU, m), m.type # "update" \/ m.key # k,
             OfKey(pubs', k) = OfKey(pubs, k), UNCHANGED <<created, unpublished, sid>>
      PROVE  Goal
  <2>1. PICK n \in Nat : n = Len(fromSFU) BY <1>0, LenProperties
  <2>2. /\ Len(fromSFU') = n + 1 /\ fromSFU'[n + 1] = m
        /\ \A j \in 1..n : fromSFU'[j] = fromSFU[j]
        /\ \A j \in 1..Len(fromSFU') : j \in 1..n \/ j = n + 1
    BY <1>0, <1>4, <2>1, AppendItems
  <2>3. ~About(n + 1, k)' BY <1>4, <2>2 DEF About
  <2>4. \A j \in 1..n : About(j, k)' <=> About(j, k) BY <2>2 DEF About
  <2>5. Silent(k)' => Silent(k) BY <2>1, <2>2, <2>4
  <2>6. Ours(k)' = Ours(k) BY <1>2, <1>4
  <2>7. ASSUME NEW i \in 1..Len(fromSFU'), Last(i, k)'
        PROVE  fromSFU'[i].listed = OfKey(pubs', k)
    <3>1. i \in 1..n BY <2>2, <2>3, <2>7
    <3>2. Last(i, k) BY <2>1, <2>2, <2>4, <2>7, <3>1
    <3> QED BY <1>1, <1>4, <2>1, <2>2, <3>1, <3>2
  <2> HIDE DEF Ours, Silent, Last
  <2> QED BY <1>1, <1>4, <2>5, <2>6, <2>7
<1>5. ASSUME NEW s \in SIDs, SFUPublish(s) \/ SFUUnpublish(s) PROVE Goal
  <2>1. /\ UNCHANGED <<created, unpublished, sid>>
        /\ \E m : /\ m = Update(Key[s], pubs' \cap {s})
                  /\ fromSFU' = Append(fromSFU, m)
        /\ pubs' = (IF SFUPublish(s) THEN {r \in pubs : Key[r] # Key[s]} \cup {s} ELSE pubs \ {s})
        /\ ~SFUPublish(s) => s \in pubs
    <3>1. CASE SFUPublish(s)
      <4>1. pubs' \cap {s} = {s} BY <3>1 DEF SFUPublish
      <4> QED BY <1>0, <3>1, <4>1 DEF SFUPublish, Tell, SFUUnchanged, trackVars
    <3>2. CASE SFUUnpublish(s) /\ ~SFUPublish(s)
      <4>1. pubs' \cap {s} = {} BY <3>2 DEF SFUUnpublish
      <4> QED BY <1>0, <3>2, <4>1 DEF SFUUnpublish, Tell, SFUUnchanged, trackVars
    <3> QED BY <1>5, <3>1, <3>2
  <2>2. PICK m : m = Update(Key[s], pubs' \cap {s}) /\ fromSFU' = Append(fromSFU, m) BY <2>1
  <2>3. m.type = "update" /\ m.key = Key[s] /\ m.listed = pubs' \cap {s} BY <2>2 DEF Update
  <2>4. CASE Key[s] # k
    <3>1. OfKey(pubs', k) = OfKey(pubs, k) BY <2>1, <2>4 DEF OfKey
    <3> QED BY <1>4, <2>1, <2>2, <2>3, <2>4, <3>1
  <2>5. CASE Key[s] = k
    <3>1. PICK n \in Nat : n = Len(fromSFU) BY <1>0, LenProperties
    <3>2. /\ Len(fromSFU') = n + 1 /\ fromSFU'[n + 1] = m
          /\ \A j \in 1..Len(fromSFU') : j \in 1..n \/ j = n + 1
      BY <1>0, <2>2, <3>1, AppendItems
    <3>3. About(n + 1, k)' /\ n + 1 \in 1..Len(fromSFU') BY <2>3, <2>5, <3>2 DEF About
    <3>4. \A i \in 1..Len(fromSFU') : Last(i, k)' => i = n + 1 BY <3>2, <3>3
    <3>5. OfKey(pubs', k) = pubs' \cap {s} BY <1>0, <2>1, <2>5 DEF OfKey, OneEach
    <3> QED BY <2>3, <3>2, <3>3, <3>4, <3>5
  <2> QED BY <2>4, <2>5
<1>6. CASE Receive
  <2>1. /\ UNCHANGED pubs /\ fromSFU # <<>> /\ fromSFU' = Tail(fromSFU)
    BY <1>6, Received DEF sfuVars
  <2>2. PICK n \in Nat : n = Len(fromSFU) BY <1>0, LenProperties
  <2>3. /\ Len(fromSFU') = n - 1 /\ n > 0 /\ 1 \in 1..n
        /\ \A i \in 1..Len(fromSFU') : i + 1 \in 1..n /\ fromSFU'[i] = fromSFU[i + 1]
        /\ \A i \in 1..n : i = 1 \/ i - 1 \in 1..Len(fromSFU')
    BY <1>0, <2>1, <2>2, TailItems
  <2>4. \A i \in 1..Len(fromSFU') : About(i, k)' <=> About(i + 1, k) BY <2>3 DEF About
  <2>5. ASSUME NEW i \in 1..Len(fromSFU'), Last(i, k)'
        PROVE  fromSFU'[i].listed = OfKey(pubs', k)
    <3>1. i + 1 \in 1..Len(fromSFU) /\ fromSFU'[i] = fromSFU[i + 1] BY <2>2, <2>3
    <3>2. About(i + 1, k) BY <2>4, <2>5
    <3>3. ASSUME NEW j \in 1..Len(fromSFU), j > i + 1 PROVE ~About(j, k)
      <4>1. j - 1 \in 1..Len(fromSFU') /\ j - 1 > i /\ (j - 1) + 1 = j
        BY <2>2, <2>3, <2>5, <3>3
      <4> QED BY <2>4, <2>5, <4>1
    <3> QED BY <1>1, <2>1, <3>1, <3>2, <3>3
  <2>6. Silent(k)' => \A i \in 1..n : i = 1 \/ ~About(i, k)
    <3> SUFFICES ASSUME Silent(k)', NEW i \in 1..n, i # 1 PROVE ~About(i, k) OBVIOUS
    <3>1. i - 1 \in 1..Len(fromSFU') /\ (i - 1) + 1 = i BY <2>3
    <3> QED BY <2>4, <3>1
  <2>7. CASE \E h \in Handles, s \in SIDs :
               fromSFU[1].type = "handles" /\ HandleSubscriberHandles(h, s)
    <3>1. UNCHANGED <<created, unpublished, sid>> /\ ~About(1, k)
      BY <2>7 DEF HandleSubscriberHandles, activate, trackVars, About
    <3>2. Ours(k)' = Ours(k) BY <1>2, <3>1
    <3>3. Silent(k)' => Silent(k) BY <2>2, <2>6, <3>1
    <3> HIDE DEF Ours, Silent, Last
    <3> QED BY <1>1, <2>1, <2>5, <3>2, <3>3
  <2>8. ASSUME NEW q \in Keys, NEW listed \in SUBSET SIDs, About(1, q), fromSFU[1].listed = listed,
               \A s \in listed : Key[s] = q, Relisted(Reader, {q}, listed)
        PROVE  Silent(k)' => Ours(k)' = OfKey(pubs', k)
    <3>1. \A t \in created : Key[sid'[t]] = Key[sid[t]] BY <2>8 DEF Relisted
    <3>2. \A t \in created' : (t \in created /\ sid'[t] = sid[t]) \/ sid'[t] \in listed
      BY <2>8 DEF Relisted
    <3>3. \A t \in Published' : t \in Published \/ t \in created' \ created
      BY <2>8 DEF Relisted, Published
    <3>4. CASE k = q
      <4>1. Silent(k)' => listed = OfKey(pubs, k)
        BY <1>1, <2>2, <2>3, <2>6, <2>8, <3>4
      <4>2. \A s \in listed : \E t \in Published' : sid'[t] = s BY <2>8 DEF Relisted
      <4>3. ASSUME NEW t \in Published', Key[sid'[t]] = k PROVE sid'[t] \in listed
        <5>1. CASE t \in Published
          <6>1. t \notin Ended BY <4>3 DEF Ended, Published
          <6>2. Key[sid[t]] \in {q} BY <1>0, <3>1, <3>4, <4>3, <5>1
          <6> QED BY <2>8, <5>1, <6>1, <6>2 DEF Relisted
        <5>2. CASE t \in created' \ created BY <3>2, <5>2
        <5> QED BY <3>3, <4>3, <5>1, <5>2
      <4>4. Ours(k)' = listed BY <2>8, <3>4, <4>2, <4>3 DEF OfKey
      <4> QED BY <2>1, <4>1, <4>4
    <3>5. CASE k # q
      <4>1. Silent(k)' => Silent(k)
        <5>1. ~About(1, k) BY <2>8, <3>5 DEF About
        <5> QED BY <2>2, <2>6, <5>1
      <4>2. ASSUME NEW t \in Published', Key[sid'[t]] = k
            PROVE  t \in Published /\ sid'[t] = sid[t]
        <5>1. t \in created' BY <4>2 DEF Published
        <5>2. sid'[t] \notin listed BY <2>8, <3>5, <4>2
        <5>3. t \in created /\ sid'[t] = sid[t] BY <3>2, <5>1, <5>2
        <5> QED BY <3>3, <4>2, <5>3
      <4>3. ASSUME NEW t \in Published, Key[sid[t]] = k
            PROVE  t \in Published' /\ sid'[t] = sid[t]
        <5>1. t \in created BY <1>0
        <5>2. sid'[t] \notin listed BY <2>8, <3>1, <3>5, <4>3, <5>1
        <5>3. t \notin Ended BY <2>8, <3>5, <4>3 DEF Relisted
        <5> QED BY <2>8, <3>2, <4>3, <5>1, <5>2, <5>3 DEF Relisted, Published, Ended
      <4>4. Ours(k)' = Ours(k) BY <4>2, <4>3 DEF OfKey
      <4> HIDE DEF Ours, Silent, Last
      <4> QED BY <1>1, <2>1, <4>1, <4>4
    <3> QED BY <3>4, <3>5
  <2> HIDE DEF Ours, Silent, Last
  <2> QED BY <1>6, <2>5, <2>7, <2>8, Received
<1>7. CASE CallerStep \/ ResendStep \/ (\E t \in Tracks : Send(t)) \/ UNCHANGED vars
  <2>1. UNCHANGED <<fromSFU, pubs, created, unpublished, sid>>
    BY <1>7 DEF CallerStep, ResendStep, Subscribe, SubscribeFailed, Return, Timeout, Withdrawn,
         Close, releaseHandle, resendSubscription, Send, vars, trackVars, sfuVars
  <2> HIDE DEF Goal
  <2> QED BY <1>3, <2>1
<1>8. CASE SFUServe
  <2>1. UNCHANGED <<pubs, created, unpublished, sid>>
    BY <1>8 DEF SFUServe, SFUUnchanged, trackVars
  <2>2. UNCHANGED fromSFU \/ \E m : fromSFU' = Append(fromSFU, m) /\ m.type # "update"
    <3>1. CASE UNCHANGED fromSFU BY <3>1
    <3>2. CASE ~UNCHANGED fromSFU
      <4>1. PICK h : fromSFU' = Append(fromSFU, [type |-> "handles", handle |-> h,
                                                 sid |-> Head(toSFU).sid])
        BY <1>8, <3>2 DEF SFUServe
      <4>2. [type |-> "handles", handle |-> h, sid |-> Head(toSFU).sid].type # "update" OBVIOUS
      <4> QED BY <4>1, <4>2
    <3> QED BY <3>1, <3>2
  <2> HIDE DEF Goal
  <2> QED BY <1>3, <1>4, <2>1, <2>2
<1> HIDE DEF Goal
<1> QED BY <1>0, <1>5, <1>6, <1>7, <1>8 DEF Next, CallerStep, ResendStep

LEMMA TakenBackStep ==
  ASSUME TracksAssumption, IInv, MapsInv, ServedInv, FirstInv, [Next]_vars, FirstSession'
  PROVE  TakenBack'
<1>0. /\ TakenBack /\ NewsOnce /\ SIDsOnce /\ UsedFirst /\ RoutesTyped /\ TracksMade /\ CallersTyped
      /\ ~Restore /\ ~Shutdown /\ ~LinkFails /\ ~Restart /\ link = "up"
      /\ created \subseteq Tracks /\ Published \subseteq created
      /\ assigned \in [SIDs -> Handles \cup {None}] /\ None \notin Requests
      /\ \A t \in created : sid[t] \in SIDs
      /\ \A c \in Callers : pc[c] # "failed"
  BY Core, FirstGoesOn, Distinct DEF First, FirstSession, TracksMade
<1> DEFINE Own(t) == outbox[t] # None /\ outbox[t].sid = sid[t]
           Off(s) == LastAsks(s, FALSE) \/ (~Mentioned(s) /\ assigned[s] = None)
           Back(t) == IF Own(t) THEN ~outbox[t].subscribe ELSE Off(sid[t])
<1>1. \A t \in Published : subscription[t] = "none" => Back(t) BY <1>0 DEF TakenBack
<1> SUFFICES ASSUME NEW t \in Published', subscription'[t] = "none" PROVE Back(t)'
  BY DEF TakenBack
\* What was not wanted before is taken back as it was, or more.
<1>2. ASSUME UNCHANGED <<toSFU, sid>>, t \in Published, subscription[t] = "none",
             outbox'[t] = outbox[t], assigned'[sid[t]] \in {None, assigned[sid[t]]}
      PROVE  Back(t)'
  BY <1>1, <1>2 DEF LastAsks, Mentioned
<1>3. ASSUME NEW u \in created, NEW by, UNCHANGED sid, t \in created,
             outbox' = [outbox EXCEPT ![u] = [by |-> by, sid |-> sid[u], subscribe |-> FALSE]],
             t = u, by \in Callers
      PROVE  Back(t)'
  <2>1. outbox'[t] = [by |-> by, sid |-> sid[t], subscribe |-> FALSE]
    BY <1>0, <1>3 DEF CallersTyped
  <2>2. [by |-> by, sid |-> sid[t], subscribe |-> FALSE] \in Requests BY <1>0, <1>3 DEF Requests
  <2>3. outbox'[t] # None BY <1>0, <2>1, <2>2
  <2>4. outbox'[t].sid = sid[t] /\ outbox'[t].subscribe = FALSE BY <2>1
  <2>5. sid'[t] = sid[t] BY <1>3
  <2> QED BY <2>3, <2>4, <2>5
<1>4. ASSUME NEW c \in Callers, NEW u \in Tracks, Subscribe(c, u) PROVE Back(t)'
  <2>1. /\ UNCHANGED <<created, unpublished, toSFU, sid, assigned>>
        /\ \/ UNCHANGED <<subscription, outbox>>
           \/ /\ subscription' = [subscription EXCEPT ![u] = "pending"]
              /\ \E r : outbox' = [outbox EXCEPT ![u] = r]
    BY <1>4 DEF Subscribe, SubscribeFirst, SubscribePending, SubscribeActive, Queue, sfuVars
  <2>2. t \in Published /\ t \in Tracks BY <1>0, <2>1 DEF Published
  <2>3. subscription[t] = "none" /\ outbox'[t] = outbox[t]
    BY <1>0, <2>1, <2>2 DEF CallersTyped
  <2> HIDE DEF Back
  <2> QED BY <1>2, <2>1, <2>2, <2>3
<1>5. ASSUME NEW c \in Callers, Timeout(c) \/ Close(c) PROVE Back(t)'
  <2> DEFINE u == target[c]
  <2>1. /\ UNCHANGED <<created, unpublished, toSFU, sid, assigned>> /\ u \in created
        /\ \/ UNCHANGED <<subscription, outbox>>
           \/ /\ subscription' = [subscription EXCEPT ![u] = "none"]
              /\ outbox' = [outbox EXCEPT ![u] = [by |-> c, sid |-> sid[u], subscribe |-> FALSE]]
    BY <1>0, <1>5 DEF Timeout, Close, Queue, sfuVars, TracksMade
  <2> HIDE DEF u
  <2>2. t \in Published /\ t \in created /\ t \in Tracks BY <1>0, <2>1 DEF Published
  <2>3. CASE subscription' = subscription /\ outbox' = outbox
    <3> HIDE DEF Back
    <3> QED BY <1>2, <2>1, <2>2, <2>3
  <2>4. CASE /\ subscription' = [subscription EXCEPT ![u] = "none"]
             /\ outbox' = [outbox EXCEPT ![u] = [by |-> c, sid |-> sid[u], subscribe |-> FALSE]]
    <3> HIDE DEF Back
    <3>1. CASE t = u BY <1>3, <2>1, <2>2, <2>4, <3>1
    <3>2. CASE t # u
      <4>1. subscription[t] = "none" /\ outbox'[t] = outbox[t]
        BY <1>0, <2>2, <2>4, <3>2 DEF CallersTyped
      <4> QED BY <1>2, <2>1, <2>2, <4>1
    <3> QED BY <3>1, <3>2
  <2> QED BY <2>1, <2>3, <2>4
<1>6. ASSUME NEW c \in Callers,
             SubscribeFailed(c) \/ Return(c) \/ Withdrawn(c) \/ releaseHandle(c)
      PROVE  Back(t)'
  <2>1. UNCHANGED <<created, unpublished, toSFU, sid, assigned, outbox, subscription>>
    BY <1>0, <1>6 DEF SubscribeFailed, Return, Withdrawn, releaseHandle, trackVars, sfuVars
  <2> HIDE DEF Back
  <2> QED BY <1>2, <2>1 DEF Published
<1>7. ASSUME NEW u \in Tracks, NEW g \in Handlers, resendSubscription(g, u) PROVE Back(t)'
  <2>1. /\ UNCHANGED <<created, unpublished, toSFU, sid, assigned, subscription>>
        /\ UNCHANGED outbox \/ /\ subscription[u] # "none"
                               /\ \E r : outbox' = [outbox EXCEPT ![u] = r]
    BY <1>7 DEF resendSubscription, Queue, trackVars, sfuVars
  <2>2. t \in Published /\ t \in Tracks BY <1>0, <2>1 DEF Published
  <2>3. outbox'[t] = outbox[t] BY <1>0, <2>1, <2>2 DEF CallersTyped
  <2> HIDE DEF Back
  <2> QED BY <1>2, <2>1, <2>2, <2>3
\* No other track's update is about the SID.
<1>8. ASSUME NEW u \in Tracks, Send(u) PROVE Back(t)'
  <2>1. /\ UNCHANGED <<created, unpublished, sid, assigned, subscription>>
        /\ outbox[u] # None /\ outbox' = [outbox EXCEPT ![u] = None]
        /\ toSFU' = Append(toSFU, [sid |-> outbox[u].sid, subscribe |-> outbox[u].subscribe])
    BY <1>0, <1>8 DEF Send, trackVars, sfuVars
  <2>2. t \in Published /\ t \in created /\ t \in Tracks /\ Back(t)
    BY <1>0, <1>1, <2>1 DEF Published
  <2>3. outbox[u].sid \in SIDs /\ outbox[u].subscribe \in BOOLEAN
    BY <1>0, <2>1 DEF CallersTyped, Requests, TracksMade
  <2>4. PICK r \in SIDs, b \in BOOLEAN : r = outbox[u].sid /\ b = outbox[u].subscribe
    BY <2>3
  <2>5. PICK s \in SIDs : s = sid[t] BY <1>0, <2>2
  <2>6. /\ LastAsks(r, b)'
        /\ \A q \in SIDs, x \in BOOLEAN : q # r /\ LastAsks(q, x) => LastAsks(q, x)'
        /\ \A q \in SIDs : q # r /\ Mentioned(q)' => Mentioned(q)
    BY <1>0, <2>1, <2>4, AsksSent
  <2>7. r # s /\ Off(s) => Off(s)' BY <2>1, <2>6
  <2>8. CASE t = u
    <3>1. ~Own(t)' BY <1>0, <2>1, <2>2, <2>8 DEF CallersTyped
    <3>2. r = s => b = FALSE BY <2>1, <2>2, <2>4, <2>5, <2>8
    <3>3. r # s => Off(s) BY <2>2, <2>4, <2>5, <2>8
    <3>4. Off(s)' BY <2>6, <2>7, <3>2, <3>3
    <3> QED BY <2>1, <2>5, <3>1, <3>4
  <2>9. CASE t # u
    <3>1. outbox'[t] = outbox[t] BY <1>0, <2>1, <2>2, <2>9 DEF CallersTyped
    <3>2. r # s BY <1>0, <2>1, <2>2, <2>4, <2>5, <2>9 DEF SIDsOnce
    <3>3. CASE Own(t) BY <2>1, <2>2, <3>1, <3>3
    <3>4. CASE ~Own(t) BY <2>1, <2>2, <2>5, <2>7, <3>1, <3>2, <3>4
    <3> QED BY <3>3, <3>4
  <2> QED BY <2>8, <2>9
\* A SID that is new to the client is not served yet.
<1>9. CASE Receive
  <2>1. fromSFU # <<>> /\ UNCHANGED <<assigned, toSFU>> BY <1>9, Received DEF sfuVars
  <2>2. ASSUME NEW h \in Handles, NEW s \in SIDs, HandleSubscriberHandles(h, s) PROVE Back(t)'
    <3>1. UNCHANGED <<created, unpublished, sid, outbox>>
      BY <2>2 DEF HandleSubscriberHandles, activate, trackVars
    <3>2. t \in Published /\ t \in Tracks BY <1>0, <3>1 DEF Published
    <3>3. subscription[t] = "none"
      BY <1>0, <2>2, <3>2 DEF HandleSubscriberHandles, activate, trackVars, CallersTyped
    <3> HIDE DEF Back
    <3> QED BY <1>2, <2>1, <3>1, <3>2, <3>3
  <2>3. ASSUME NEW k \in Keys, NEW listed \in SUBSET SIDs, About(1, k), fromSFU[1].listed = listed,
               Relisted(Reader, {k}, listed)
        PROVE  Back(t)'
    <3>1. outbox' = outbox /\ t \in created' /\ t \in Tracks BY <2>3 DEF Relisted, Published
    <3>2. CASE sid'[t] \in listed /\ ~(t \in created /\ sid'[t] = sid[t])
      <4>1. ~Heard(sid'[t]) /\ ~Mentioned(sid'[t]) /\ assigned[sid'[t]] = None
        BY <1>0, <2>1, <2>3, <3>2, FreshSID
      <4>2. ~Own(t)' BY <3>1, <4>1 DEF Heard
      <4> QED BY <2>1, <4>1, <4>2 DEF Mentioned
    <3>3. CASE t \in created /\ sid'[t] = sid[t]
      <4>1. t \in Published /\ subscription[t] = "none"
        BY <2>3, <3>1, <3>3 DEF Relisted, Published, Ended
      <4>2. Back(t) BY <1>1, <4>1
      <4> QED BY <2>1, <3>1, <3>3, <4>2 DEF Mentioned, LastAsks
    <3> QED BY <2>3, <3>1, <3>2, <3>3 DEF Relisted
  <2> QED BY <1>9, <2>2, <2>3, Received
<1>10. ASSUME NEW r \in SIDs, SFUPublish(r) \/ SFUUnpublish(r) PROVE Back(t)'
  <2>1. /\ UNCHANGED <<created, unpublished, toSFU, sid, outbox, subscription>>
        /\ \A s \in SIDs : assigned'[s] \in {None, assigned[s]}
    BY <1>0, <1>10 DEF SFUPublish, SFUUnpublish, SFUUnchanged, trackVars
  <2>2. t \in Published /\ sid[t] \in SIDs BY <1>0, <2>1 DEF Published
  <2> HIDE DEF Back
  <2> QED BY <1>2, <2>1, <2>2
<1>11. CASE SFUServe
  <2> DEFINE q == Head(toSFU)
  <2>1. /\ UNCHANGED <<created, unpublished, sid, outbox, subscription>>
        /\ toSFU # <<>> /\ toSFU' = Tail(toSFU)
    BY <1>11 DEF SFUServe, SFUUnchanged, trackVars
  <2>2. /\ \A s \in SIDs : s # q.sid => assigned'[s] = assigned[s]
        /\ \A s \in SIDs : s = q.sid /\ ~q.subscribe => assigned'[s] = None
    <3>1. CASE q.sid \notin pubs BY <1>0, <1>11, <3>1 DEF SFUServe, UsedFirst
    <3>2. CASE q.sid \in pubs /\ ~q.subscribe BY <1>0, <1>11, <3>2 DEF SFUServe
    <3>3. CASE q.sid \in pubs /\ q.subscribe BY <1>0, <1>11, <3>3 DEF SFUServe
    <3> QED BY <3>1, <3>2, <3>3
  <2> HIDE DEF q
  <2>3. /\ \A s \in SIDs, x \in BOOLEAN : LastAsks(s, x) =>
              \/ LastAsks(s, x)'
              \/ ~Mentioned(s)' /\ q.sid = s /\ q.subscribe = x
        /\ \A s \in SIDs : Mentioned(s)' => Mentioned(s)
        /\ \A s \in SIDs : ~Mentioned(s) => q.sid # s
    BY <1>0, <2>1, AsksServed DEF q
  <2>4. t \in Published /\ t \in created /\ Back(t) BY <1>0, <1>1, <2>1 DEF Published
  <2>5. PICK s \in SIDs : s = sid[t] BY <1>0, <2>4
  <2>6. CASE Own(t) BY <2>1, <2>4, <2>6
  <2>7. CASE ~Own(t)
    <3>1. Off(s) BY <2>4, <2>5, <2>7
    <3>2. LastAsks(s, FALSE) => Off(s)' BY <2>2, <2>3
    <3>3. ~Mentioned(s) /\ assigned[s] = None => Off(s)' BY <2>2, <2>3
    <3> QED BY <2>1, <2>5, <2>7, <3>1, <3>2, <3>3
  <2> QED BY <2>6, <2>7
<1>12. CASE UNCHANGED vars
  <2>1. UNCHANGED <<created, unpublished, toSFU, sid, assigned, outbox, subscription>>
    BY <1>12 DEF vars, trackVars, sfuVars
  <2> HIDE DEF Back
  <2> QED BY <1>2, <2>1 DEF Published
<1> HIDE DEF Back
<1> QED
  BY <1>0, <1>4, <1>5, <1>6, <1>7, <1>8, <1>9, <1>10, <1>11, <1>12 DEF Next

LEMMA FirstStep ==
  ASSUME TracksAssumption
  PROVE  IInv /\ MapsInv /\ ServedInv /\ FirstInv /\ [Next]_vars => FirstInv'
BY FirstGoesOn, NewsOnceStep, SIDsOnceStep, PubsFollowStep, TakenBackStep DEF FirstInv

LEMMA FirstInit == ASSUME TracksAssumption PROVE Init => FirstInv
<1> SUFFICES ASSUME Init PROVE FirstInv OBVIOUS
<1> USE DEF Init
<1>1. NewsOnce /\ SIDsOnce BY DEF NewsOnce, SIDsOnce
<1>2. PubsFollow BY DEF PubsFollow, OfKey, Published
<1>3. TakenBack BY DEF TakenBack, Published
<1> QED BY <1>1, <1>2, <1>3 DEF FirstInv

\* Every entry of the manager's maps is right, and in the first session the
\* SFU and the client agree once nothing is under way.
THEOREM RoutesAlwaysAgree == ASSUME TracksAssumption PROVE Spec => []RoutesAgree
<1> DEFINE Inv == IInv /\ MapsInv /\ ServedInv /\ FirstInv
<1>1. Init => Inv BY InitInv, MapsInit, ServedInit, FirstInit
<1>2. Inv /\ [Next]_vars => Inv' BY StepInv, MapsStep, ServedStep, FirstStep
<1>3. Inv => RoutesAgree
  <2> SUFFICES ASSUME Inv PROVE RoutesAgree OBVIOUS
  <2>1. TypeOK BY MapsTyped
  <2>2. DescriptorsIndexed /\ RouteOwned BY DEF MapsInv
  <2>3. ASSUME Quiet, restarts = 0 PROVE {sid[t] : t \in Published} = pubs
    <3>1. PubsFollow BY <2>3 DEF FirstInv, FirstSession, Quiet
    <3>2. \A i \in 1..Len(fromSFU) : FALSE BY <2>3 DEF Quiet
    <3>3. \A k \in Keys : OfKey({sid[t] : t \in Published}, k) = OfKey(pubs, k)
      BY <3>1, <3>2 DEF PubsFollow
    <3>4. pubs \subseteq SIDs /\ \A t \in Published : sid[t] \in SIDs BY Core DEF TracksMade
    <3>5. \A s \in SIDs : Key[s] \in Keys BY DEF Keys
    <3>6. ASSUME NEW s \in SIDs PROVE s \in {sid[t] : t \in Published} <=> s \in pubs
      BY <3>3, <3>5 DEF OfKey
    <3> QED BY <3>4, <3>6
  <2>4. ASSUME Quiet, restarts = 0, NEW t \in Published, assigned[sid[t]] # None
        PROVE  subscription[t] # "none"
    <3>1. TakenBack BY <2>4 DEF FirstInv, FirstSession, Quiet
    <3>2. outbox[t] = None /\ ~LastAsks(sid[t], FALSE)
      BY <2>4, Core DEF Quiet, LastAsks
    <3> QED BY <2>4, <3>1, <3>2 DEF TakenBack
  <2> QED BY <2>1, <2>2, <2>3, <2>4 DEF RoutesAgree, Agreement
<1> QED BY <1>1, <1>2, <1>3, PTL DEF Spec
=============================================================================
