------------------------- MODULE PublisherNegotiation -------------------------
(***************************************************************************)
(* The publisher's PCTransport (transport.go) as the engine drives it:     *)
(* offers, their answers, remote ICE candidates, and the ICE restart that  *)
(* follows a resume of the signal connection.                              *)
(*                                                                         *)
(* createAndSendOffer and SetRemoteDescription hold the transport's lock,  *)
(* and each is a step.  They run on the debounce timer, on goroutines of   *)
(* their own, on the recovery worker and on the signal readers; after a    *)
(* resume the reader of the old connection may still be at work.           *)
(***************************************************************************)
EXTENDS Naturals, Sequences, FiniteSets

CONSTANTS
  PublishInJoin,     \* is the first offer part of the join request?
  BadCandidates,     \* may pion refuse a candidate?
  MaxChanges, MaxOffers, MaxCandidates, MaxResumes  \* bounds

NegotiationAssumption ==
  /\ PublishInJoin \in BOOLEAN /\ BadCandidates \in BOOLEAN
  /\ {MaxChanges, MaxOffers, MaxCandidates, MaxResumes} \subseteq Nat

VARIABLES
  want,       \* changes of the tracks and data channels to be negotiated
  pc,         \* the peer connection: signalling and gathering state, local and remote description
  transport,  \* renegotiate, restartAfterGathering
  candidates, \* pendingCandidates, and those pion was given
  timer,      \* the debounced Negotiate is due
  spawned,    \* goroutines about to call createAndSendOffer
  gatherer,   \* the goroutine of a completed gathering
  worker,     \* "restart": resumed and about to offer an ICE restart; "reconnect": that failed,
              \* and a full reconnect will replace this peer connection
  joining,    \* PublishInJoin: the offer of the join is not yet set
  offers,     \* offers made so far
  toSFU, fromSFU, link, resumes, \* the signal connection
  readers,    \* the reader of each signal connection: what it is handling
  sfu,        \* SFU: the last offer it took, candidates it sent
  asked,      \* the resume whose ICE restart was last asked for
  overtaken,  \* a plain offer went out while an ICE restart waited for the gathering
  latest,     \* the resume after which the latest offer was made
  refused,    \* pion refused an ICE restart, and no offer was made since
  crossed     \* an answer may have been taken for that of another offer

linkVars == <<toSFU, fromSFU, link, resumes>>
offerGhosts == <<overtaken, latest, crossed, refused>>
ghosts == <<asked, offerGhosts>>
vars == <<want, pc, transport, candidates, timer, spawned, gatherer, worker, joining, offers,
          linkVars, readers, sfu, ghosts>>

Offers == 0 .. MaxOffers
NoMessage == [type |-> "none"]
Links == 0 .. MaxResumes
Offered == [n |-> 0, want |-> 0, ice |-> 0]

TypeOK ==
  /\ want \in 0 .. MaxChanges /\ offers \in Offers /\ asked \in Links
  /\ pc \in [sig : {"stable", "have-local-offer"}, gather : {"new", "gathering", "complete"},
             local : Offers, remote : Offers]
  /\ transport \in [renegotiate : BOOLEAN, restartAfterGathering : BOOLEAN]
  /\ candidates \in [pending : SUBSET (1 .. MaxCandidates), added : SUBSET (1 .. MaxCandidates)]
  /\ timer \in BOOLEAN /\ spawned \in 0 .. MaxOffers /\ gatherer \in BOOLEAN
  /\ worker \in {"idle", "restart", "reconnect"} /\ joining \in BOOLEAN
  /\ overtaken \in BOOLEAN /\ latest \in Links /\ {crossed, refused} \subseteq BOOLEAN
  /\ link \in {"up", "down"} /\ resumes \in Links
  /\ \A r \in Links : readers[r].type \in {"none", "answer", "candidate", "queue"}
  /\ sfu \in [n : Offers, want : 0 .. MaxChanges, ice : Links, sent : 0 .. MaxCandidates]

Init ==
  /\ want = 0 /\ timer \in BOOLEAN /\ spawned = 0 /\ gatherer = FALSE /\ worker = "idle"
  /\ pc = [sig |-> "stable", gather |-> "new", local |-> 0, remote |-> 0]
  /\ transport = [renegotiate |-> FALSE, restartAfterGathering |-> FALSE]
  /\ candidates = [pending |-> {}, added |-> {}]
  /\ joining = PublishInJoin
  /\ offers = IF PublishInJoin THEN 1 ELSE 0
  /\ toSFU = IF PublishInJoin THEN <<[Offered EXCEPT !.n = 1]>> ELSE <<>>
  /\ fromSFU = <<>> /\ link = "up" /\ resumes = 0
  /\ readers = [r \in Links |-> NoMessage]
  /\ sfu = [n |-> 0, want |-> 0, ice |-> 0, sent |-> 0]
  /\ asked = 0 /\ overtaken = FALSE /\ latest = 0 /\ crossed = FALSE /\ refused = FALSE

-----------------------------------------------------------------------------
(* createAndSendOffer                                                      *)

Gathering == pc.gather = "gathering"

\* The local description is set and the offer sent, if the connection is up.
SendOffer(iceRestart) ==
  LET n == offers + 1 IN
  /\ offers < MaxOffers /\ offers' = n
  /\ pc' = [pc EXCEPT !.sig = "have-local-offer", !.local = n,
                      !.gather = IF iceRestart \/ @ = "new" THEN "gathering" ELSE @]
  /\ transport' = [transport EXCEPT !.restartAfterGathering = FALSE]
  /\ toSFU' = IF link = "up"
              THEN Append(toSFU, [n |-> n, want |-> want, ice |-> IF iceRestart THEN asked' ELSE 0])
              ELSE toSFU
  /\ overtaken' = (overtaken \/ (~iceRestart /\ transport.restartAfterGathering))
  /\ latest' = resumes
  /\ crossed' = (crossed \/ (iceRestart /\ pc.sig = "have-local-offer" /\ latest = resumes))
  /\ refused' = FALSE

\* An outstanding offer is replaced by taking the answer in force again.  If there has
\* been none, pion refuses the local description; CreateOffer may have restarted the gathering.
Refuses == pc.sig = "have-local-offer" /\ pc.remote = 0
Refuse ==
  /\ \E gather \in {pc.gather, "gathering"} : pc' = [pc EXCEPT !.gather = gather]
  /\ refused' = TRUE
  /\ UNCHANGED <<transport, offers, toSFU, overtaken, latest, crossed>>

\* Mutant: an ICE restart during the gathering is dropped.
createAndSendOffer_Drop(iceRestart) ==
  CASE iceRestart /\ Gathering -> UNCHANGED <<transport, pc, offers, toSFU, offerGhosts>>
    [] iceRestart /\ ~Gathering /\ Refuses -> Refuse
    [] ~iceRestart /\ pc.sig = "have-local-offer" ->
         /\ transport' = [transport EXCEPT !.renegotiate = TRUE]
         /\ UNCHANGED <<pc, offers, toSFU, offerGhosts>>
    [] OTHER -> SendOffer(iceRestart)

\* An ICE restart waits for the gathering under way; an offer waits for the
\* answer to the previous one, unless it restarts ICE.
createAndSendOffer(iceRestart) ==
  CASE iceRestart /\ Gathering ->
         /\ transport' = [transport EXCEPT !.restartAfterGathering = TRUE]
         /\ UNCHANGED <<pc, offers, toSFU, offerGhosts>>
    [] iceRestart /\ ~Gathering /\ Refuses -> Refuse
    [] ~iceRestart /\ pc.sig = "have-local-offer" ->
         /\ transport' = [transport EXCEPT !.renegotiate = TRUE]
         /\ UNCHANGED <<pc, offers, toSFU, offerGhosts>>
    [] OTHER -> SendOffer(iceRestart)

\* A change of the tracks, and Negotiate.
Change ==
  /\ want < MaxChanges
  /\ want' = want + 1
  /\ timer' = TRUE
  /\ UNCHANGED <<pc, transport, candidates, spawned, gatherer, worker, joining, offers, linkVars,
                 readers, sfu, ghosts>>

Negotiate ==
  /\ timer /\ timer' = FALSE
  /\ UNCHANGED asked
  /\ createAndSendOffer(FALSE)
  /\ UNCHANGED <<want, candidates, spawned, gatherer, worker, joining, fromSFU, link, resumes,
                 readers, sfu>>

Renegotiate ==
  /\ spawned > 0 /\ spawned' = spawned - 1
  /\ UNCHANGED asked
  /\ createAndSendOffer(FALSE)
  /\ UNCHANGED <<want, candidates, timer, gatherer, worker, joining, fromSFU, link, resumes,
                 readers, sfu>>

\* pion: gathering completes, and its handler starts a goroutine.
GatheringCompletes ==
  /\ Gathering /\ ~gatherer
  /\ pc' = [pc EXCEPT !.gather = "complete"]
  /\ gatherer' = TRUE
  /\ UNCHANGED <<want, transport, candidates, timer, spawned, worker, joining, offers, linkVars,
                 readers, sfu, ghosts>>

onICEGatheringStateChange ==
  /\ gatherer /\ gatherer' = FALSE
  /\ UNCHANGED asked
  /\ IF transport.restartAfterGathering
     THEN createAndSendOffer(TRUE)
     ELSE UNCHANGED <<pc, transport, offers, toSFU, offerGhosts>>
  /\ UNCHANGED <<want, candidates, timer, spawned, worker, joining, fromSFU, link, resumes,
                 readers, sfu>>

\* OnJoinResponse: the reader is started before the offer of the join is set.
SetLocalOffer ==
  /\ joining /\ joining' = FALSE
  /\ pc' = [pc EXCEPT !.sig = "have-local-offer", !.local = 1, !.gather = "gathering"]
  /\ UNCHANGED <<want, transport, candidates, timer, spawned, gatherer, worker, offers, linkVars,
                 readers, sfu, ghosts>>

-----------------------------------------------------------------------------
(* The signal readers: OnAnswer, OnTrickle.                                *)

Read ==
  /\ link = "up" /\ fromSFU # <<>> /\ readers[resumes] = NoMessage
  /\ readers' = [readers EXCEPT ![resumes] = Head(fromSFU)]
  /\ fromSFU' = Tail(fromSFU)
  /\ UNCHANGED <<want, pc, transport, candidates, timer, spawned, gatherer, worker, joining, offers,
                 toSFU, link, resumes, sfu, ghosts>>

Handled(r) ==
  /\ readers' = [readers EXCEPT ![r] = NoMessage]
  /\ crossed' = (crossed \/ r # resumes)

\* Mutant: no renegotiation after the answer.
Settle_Not ==
  /\ candidates' = [pending |-> {}, added |-> candidates.added \cup candidates.pending]
  /\ UNCHANGED <<transport, spawned>>

\* Mutant: the queued candidates are forgotten.
Settle_Keeps ==
  /\ transport' = [transport EXCEPT !.renegotiate = FALSE]
  /\ spawned' = spawned + IF transport.renegotiate THEN 1 ELSE 0
  /\ UNCHANGED candidates

\* pendingCandidates are added before a renegotiation is started.
Settle ==
  /\ candidates' = [pending |-> {}, added |-> candidates.added \cup candidates.pending]
  /\ transport' = [transport EXCEPT !.renegotiate = FALSE]
  /\ spawned' = spawned + IF transport.renegotiate THEN 1 ELSE 0

\* An answer is taken when an offer is outstanding, whichever it answers.
SetRemoteDescription(r) ==
  /\ readers[r].type = "answer"
  /\ Handled(r)
  /\ IF pc.sig = "have-local-offer"
     THEN /\ pc' = [pc EXCEPT !.sig = "stable", !.remote = readers[r].n]
          /\ \/ Settle
             \/ /\ BadCandidates /\ candidates.pending # {}
                /\ UNCHANGED <<candidates, transport, spawned>>
     ELSE UNCHANGED <<pc, candidates, transport, spawned>>
  /\ UNCHANGED <<want, timer, gatherer, worker, joining, offers, linkVars, sfu, asked, overtaken, latest, refused>>

\* AddICECandidate looks at the remote description first and takes the lock
\* after that.
AddICECandidate(r) ==
  /\ readers[r].type = "candidate"
  /\ IF pc.remote = 0
     THEN readers' = [readers EXCEPT ![r].type = "queue"] /\ UNCHANGED <<candidates, crossed>>
     ELSE Handled(r) /\ candidates' = [candidates EXCEPT !.added = @ \cup {readers[r].n}]
  /\ UNCHANGED <<want, pc, transport, timer, spawned, gatherer, worker, joining, offers, linkVars,
                 sfu, asked, overtaken, latest, refused>>

QueueCandidate(r) ==
  /\ readers[r].type = "queue"
  /\ candidates' = [candidates EXCEPT !.pending = @ \cup {readers[r].n}]
  /\ Handled(r)
  /\ UNCHANGED <<want, pc, transport, timer, spawned, gatherer, worker, joining, offers, linkVars,
                 sfu, asked, overtaken, latest, refused>>

-----------------------------------------------------------------------------
(* The signal connection fails and is resumed, with an ICE restart.        *)

LinkFails ==
  /\ link = "up" /\ resumes < MaxResumes
  /\ link' = "down" /\ toSFU' = <<>> /\ fromSFU' = <<>>
  /\ worker' = IF worker = "restart" THEN "idle" ELSE worker
  /\ UNCHANGED <<want, pc, transport, candidates, timer, spawned, gatherer, joining, offers,
                 resumes, readers, sfu, ghosts>>

Resume ==
  /\ link = "down" /\ ~joining /\ worker = "idle"
  /\ link' = "up" /\ resumes' = resumes + 1
  /\ worker' = IF offers > 0 THEN "restart" ELSE "idle"
  /\ UNCHANGED <<want, pc, transport, candidates, timer, spawned, gatherer, joining, offers, toSFU,
                 fromSFU, readers, sfu, ghosts>>

RestartICE ==
  /\ worker = "restart"
  /\ worker' = IF Refuses /\ ~Gathering THEN "reconnect" ELSE "idle"
  /\ asked' = resumes
  /\ createAndSendOffer(TRUE)
  /\ UNCHANGED <<want, candidates, timer, spawned, gatherer, joining, fromSFU, link, resumes,
                 readers, sfu>>

-----------------------------------------------------------------------------
(* The SFU answers every offer, and sends candidates once it has one.      *)

Answer ==
  /\ link = "up" /\ toSFU # <<>>
  /\ LET o == Head(toSFU) IN
     /\ sfu' = [sfu EXCEPT !.n = o.n, !.want = o.want, !.ice = IF o.ice = 0 THEN @ ELSE o.ice]
     /\ fromSFU' = Append(fromSFU, [type |-> "answer", n |-> o.n])
  /\ toSFU' = Tail(toSFU)
  /\ UNCHANGED <<want, pc, transport, candidates, timer, spawned, gatherer, worker, joining, offers,
                 link, resumes, readers, ghosts>>

Trickle ==
  /\ link = "up" /\ sfu.n > 0 /\ sfu.sent < MaxCandidates
  /\ sfu' = [sfu EXCEPT !.sent = @ + 1]
  /\ fromSFU' = Append(fromSFU, [type |-> "candidate", n |-> sfu.sent + 1])
  /\ UNCHANGED <<want, pc, transport, candidates, timer, spawned, gatherer, worker, joining, offers,
                 toSFU, link, resumes, readers, ghosts>>

-----------------------------------------------------------------------------
Next ==
  \/ Change \/ Negotiate \/ Renegotiate \/ GatheringCompletes \/ onICEGatheringStateChange
  \/ SetLocalOffer \/ Read
  \/ \E r \in Links : SetRemoteDescription(r) \/ AddICECandidate(r) \/ QueueCandidate(r)
  \/ LinkFails \/ Resume \/ RestartICE \/ Answer \/ Trickle

Spec == Init /\ [][Next]_vars

-----------------------------------------------------------------------------
Quiet ==
  /\ link = "up" /\ toSFU = <<>> /\ fromSFU = <<>> /\ ~joining /\ worker = "idle"
  /\ ~timer /\ spawned = 0 /\ ~gatherer /\ ~Gathering
  /\ \A r \in Links : readers[r] = NoMessage

\* Negotiation converges: when nothing is under way no offer is waiting for an
\* answer, and the SFU has been offered the latest tracks; unless the goroutine of
\* the gathering was refused its ICE restart, and nothing was offered since.
Converged == Quiet /\ ~refused => pc.sig = "stable" /\ sfu.want = want

\* The ICE restart a resume asked for reaches the SFU, unless it was refused, or
\* a plain offer went out while it waited for the gathering: SendOffer clears
\* the flag then.
RestartReachesSFU == Quiet /\ ~overtaken /\ ~refused => sfu.ice = asked

\* The answer in force is the one to the latest offer, and every candidate
\* received is handed to pion in the end.  Answer ids are not compared
\* (engine.go 1703), so this needs the reader of an old connection to be done
\* before a resume, and no ICE restart to replace an offer made since.
AnswersMatch ==
  ~crossed => /\ (pc.sig = "stable" /\ ~joining) => pc.remote = pc.local
              /\ (Quiet /\ pc.remote # 0) => candidates.pending = {}

\* An ICE restart put off until the gathering is over ("restarting ICE after ICE
\* gathering", transport.go 284) takes place.
RestartTakesPlace == Quiet /\ ~overtaken => sfu.ice = asked /\ pc.sig = "stable"
=============================================================================
