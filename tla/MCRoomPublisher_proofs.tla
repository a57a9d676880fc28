------------------------ MODULE MCRoomPublisher_proofs ------------------------
(***************************************************************************)
(* The publisher's side of a room, for every value of the constants: the   *)
(* negotiation of its peer connection, and the tracks published over it.   *)
(* As in MCRoom_proofs, an invariant of the component that runs is one of  *)
(* the composition.                                                        *)
(***************************************************************************)
EXTENDS MCRoom, SequenceTheorems, WellFoundedInduction, TLAPS

-----------------------------------------------------------------------------
(* The publisher's negotiation.                                            *)

NegLinks == 0 .. MaxResumes
Answers == [type : {"answer"}, n : 1 .. MaxOffers]
Trickled == [type : {"candidate"}, n : 1 .. MaxCandidates]
HeldByReader ==
  {PN!NoMessage} \cup Answers \cup [type : {"candidate", "queue"}, n : 1 .. MaxCandidates]
OffersToSFU == [n : 1 .. MaxOffers, want : 0 .. MaxChanges, ice : NegLinks]

Outstanding == negotiatePc.sig = "have-local-offer"
Answering == readers[negotiateResumes].type = "answer"
OfferAt(i) == i \in 1 .. Len(negotiateToSFU)
AnswerAt(i) == i \in 1 .. Len(negotiateFromSFU) /\ negotiateFromSFU[i].type = "answer"

NegotiationTyped ==
  /\ PN!TypeOK /\ ~joining /\ ~BadCandidates
  /\ negotiateToSFU \in Seq(OffersToSFU) /\ negotiateFromSFU \in Seq(Answers \cup Trickled)
  /\ readers \in [NegLinks -> HeldByReader]
  /\ \A r \in NegLinks : r > negotiateResumes => readers[r] = PN!NoMessage

\* How far the session is: what there can be before the first offer, without
\* a connection, and between the places of the ICE restart.
NegotiationPhases ==
  /\ negotiateLink = "down" =>
       /\ negotiateToSFU = <<>> /\ negotiateFromSFU = <<>>
       /\ worker # "restart" /\ negotiateResumes < MaxResumes
  /\ offers = 0 =>
       /\ negotiateAsked = 0 /\ negotiateSfu.ice = 0 /\ negotiateToSFU = <<>>
       /\ ~Outstanding /\ spawned = 0 /\ (negotiateWant = 0 \/ timer)
  /\ spawned + (IF Outstanding THEN 1 ELSE 0) <= offers
  /\ latest <= negotiateResumes
  /\ worker \in {"restart", "reconnect"} => offers > 0 /\ negotiateResumes > 0
  /\ transport.restartAfterGathering =>
       negotiateAsked > 0 /\ (negotiatePc.gather = "gathering" \/ gatherer \/ negotiateRefused)
  /\ transport.renegotiate => Outstanding

\* A new offer with an ICE restart is still to come, or another peer connection.
Redone ==
  \/ negotiateLink = "down" /\ offers > 0
  \/ worker \in {"restart", "reconnect"}
  \/ transport.restartAfterGathering

\* The outstanding offer is answered, or made again.
OfferAnswered ==
  Outstanding =>
    \/ Redone \/ negotiateToSFU # <<>>
    \/ \E i \in 1 .. Len(negotiateFromSFU) : AnswerAt(i)
    \/ \E r \in NegLinks : readers[r].type = "answer"

\* The last offer has the latest tracks, or one that has them will be made.
LatestOffered ==
  \/ Redone \/ timer \/ spawned > 0 \/ transport.renegotiate
  \/ negotiateToSFU # <<>> /\ negotiateToSFU[Len(negotiateToSFU)].want = negotiateWant
  \/ negotiateToSFU = <<>> /\ negotiateSfu.want = negotiateWant

\* The last offer that restarts ICE is of the last resume that asked for it.
LastRestart(i) ==
  /\ negotiateAsked # 0 /\ negotiateToSFU[i].ice = negotiateAsked
  /\ \A j \in 1 .. Len(negotiateToSFU) : j > i => negotiateToSFU[j].ice = 0
NoRestart == \A i \in 1 .. Len(negotiateToSFU) : negotiateToSFU[i].ice = 0
RestartOffered ==
  ~negotiateOvertaken =>
    \/ Redone
    \/ \E i \in 1 .. Len(negotiateToSFU) : LastRestart(i)
    \/ NoRestart /\ negotiateSfu.ice = negotiateAsked

\* At most one offer of this connection is unanswered: the latest.
OneInFlight ==
  ~negotiateCrossed =>
    /\ \A i \in 1 .. Len(negotiateToSFU) :
         /\ i = 1 /\ negotiateToSFU[i].n = negotiatePc.local
         /\ Outstanding /\ latest = negotiateResumes
         /\ ~Answering /\ \A k \in 1 .. Len(negotiateFromSFU) : ~AnswerAt(k)
    /\ \A k \in 1 .. Len(negotiateFromSFU) : AnswerAt(k) =>
         /\ negotiateFromSFU[k].n = negotiatePc.local
         /\ Outstanding /\ latest = negotiateResumes /\ ~Answering
         /\ \A m \in 1 .. Len(negotiateFromSFU) : AnswerAt(m) => m = k
    /\ Answering => /\ readers[negotiateResumes].n = negotiatePc.local
                    /\ Outstanding /\ latest = negotiateResumes
    /\ ~Outstanding => negotiatePc.remote = negotiatePc.local
    /\ negotiatePc.remote # 0 =>
         candidates.pending = {} /\ readers[negotiateResumes].type # "queue"

NegotiationInv ==
  /\ NegotiationTyped /\ NegotiationPhases
  /\ OfferAnswered /\ LatestOffered /\ RestartOffered /\ OneInFlight

LEMMA OneMore == \A a, b \in Nat : a <= b => a + 1 <= b + 1 /\ b + 1 # 0 /\ a + 0 <= b
OBVIOUS

LEMMA HeadTaken ==
  ASSUME NEW S, NEW s \in Seq(S), s # <<>>
  PROVE  /\ Len(s) \in Nat /\ Len(s) > 0 /\ Head(s) = s[1] /\ Head(s) \in S
         /\ Tail(s) \in Seq(S) /\ Len(Tail(s)) = Len(s) - 1
         /\ \A i \in 1 .. Len(s) - 1 : Tail(s)[i] = s[i + 1] /\ i + 1 \in 1 .. Len(s)
         /\ \A i \in 1 .. Len(s) :
              i = 1 \/ (i - 1 \in 1 .. Len(s) - 1 /\ Tail(s)[i - 1] = s[i])
<1>1. PICK n \in Nat : n = Len(s) BY LenProperties
<1>2. /\ n > 0 /\ Head(s) = s[1] /\ Head(s) \in S /\ Tail(s) \in Seq(S)
      /\ Len(Tail(s)) = n - 1 /\ \A i \in 1 .. n - 1 : Tail(s)[i] = s[i + 1]
  BY <1>1, HeadTailProperties, EmptySeq
<1> QED BY <1>1, <1>2

LEMMA LastAdded ==
  ASSUME NEW S, NEW s \in Seq(S), NEW e \in S
  PROVE  /\ Len(s) \in Nat /\ Append(s, e) \in Seq(S) /\ Len(Append(s, e)) = Len(s) + 1
         /\ Append(s, e)[Len(s) + 1] = e
         /\ \A i \in 1 .. Len(s) : Append(s, e)[i] = s[i] /\ i \in 1 .. Len(s) + 1
         /\ \A i \in 1 .. Len(s) + 1 : i = Len(s) + 1 \/ i \in 1 .. Len(s)
<1>1. PICK n \in Nat : n = Len(s) BY LenProperties
<1> QED BY <1>1, AppendProperties

LEMMA NegotiationFacts ==
  ASSUME NegotiationTyped
  PROVE  /\ MaxChanges \in Nat /\ MaxOffers \in Nat /\ MaxCandidates \in Nat /\ MaxResumes \in Nat
         /\ negotiateWant \in 0 .. MaxChanges /\ offers \in 0 .. MaxOffers
         /\ negotiateAsked \in NegLinks /\ latest \in NegLinks /\ negotiateResumes \in NegLinks
         /\ spawned \in 0 .. MaxOffers
         /\ negotiatePc \in [sig : {"stable", "have-local-offer"},
                             gather : {"new", "gathering", "complete"},
                             local : 0 .. MaxOffers, remote : 0 .. MaxOffers]
         /\ transport \in [renegotiate : BOOLEAN, restartAfterGathering : BOOLEAN]
         /\ candidates \in [pending : SUBSET (1 .. MaxCandidates),
                            added : SUBSET (1 .. MaxCandidates)]
         /\ timer \in BOOLEAN /\ gatherer \in BOOLEAN /\ worker \in {"idle", "restart", "reconnect"}
         /\ joining = FALSE /\ negotiateOvertaken \in BOOLEAN /\ negotiateCrossed \in BOOLEAN
         /\ negotiateRefused \in BOOLEAN /\ negotiateLink \in {"up", "down"}
         /\ negotiateSfu \in [n : 0 .. MaxOffers, want : 0 .. MaxChanges, ice : NegLinks,
                              sent : 0 .. MaxCandidates]
<1>1. PN!NegotiationAssumption BY Bounds
<1> QED
  BY <1>1 DEF PN!NegotiationAssumption, NegotiationTyped, PN!TypeOK, PN!Links, PN!Offers, NegLinks

\* The types again, from their parts.
LEMMA NegotiationTypes ==
  ASSUME NegotiationTyped,
         negotiateWant' \in 0 .. MaxChanges, offers' \in 0 .. MaxOffers,
         negotiateAsked' \in NegLinks, latest' \in NegLinks, negotiateResumes' \in NegLinks,
         spawned' \in 0 .. MaxOffers,
         negotiatePc' \in [sig : {"stable", "have-local-offer"},
                           gather : {"new", "gathering", "complete"},
                           local : 0 .. MaxOffers, remote : 0 .. MaxOffers],
         transport' \in [renegotiate : BOOLEAN, restartAfterGathering : BOOLEAN],
         candidates' \in [pending : SUBSET (1 .. MaxCandidates),
                          added : SUBSET (1 .. MaxCandidates)],
         timer' \in BOOLEAN, gatherer' \in BOOLEAN, worker' \in {"idle", "restart", "reconnect"},
         joining' = FALSE, negotiateOvertaken' \in BOOLEAN, negotiateCrossed' \in BOOLEAN,
         negotiateRefused' \in BOOLEAN, negotiateLink' \in {"up", "down"},
         negotiateSfu' \in [n : 0 .. MaxOffers, want : 0 .. MaxChanges, ice : NegLinks,
                            sent : 0 .. MaxCandidates],
         negotiateToSFU' \in Seq(OffersToSFU), negotiateFromSFU' \in Seq(Answers \cup Trickled),
         readers' \in [NegLinks -> HeldByReader],
         \A r \in NegLinks : r > negotiateResumes' => readers'[r] = PN!NoMessage
  PROVE  NegotiationTyped'
<1>1. \A r \in NegLinks : readers'[r].type \in {"none", "answer", "candidate", "queue"}
  BY DEF HeldByReader, Answers, PN!NoMessage
<1>2. joining' \in BOOLEAN /\ ~joining' OBVIOUS
<1>3. PN!TypeOK'
  BY <1>1, <1>2 DEF PN!TypeOK, PN!Links, PN!Offers, NegLinks
<1> QED BY <1>2, <1>3 DEF NegotiationTyped

LEMMA NegotiationInit == ASSUME ~PublishInJoin, ~BadCandidates PROVE Init => NegotiationInv
<1> SUFFICES ASSUME PN!Init PROVE NegotiationInv BY DEF Init
<1> USE DEF PN!Init
<1>1. PN!NegotiationAssumption BY Bounds
<1>2. /\ joining = FALSE /\ offers = 0 /\ negotiateToSFU = <<>> /\ negotiateFromSFU = <<>>
      /\ readers = [r \in NegLinks |-> PN!NoMessage]
      /\ 0 \in 0 .. MaxOffers /\ 0 \in 0 .. MaxChanges /\ 0 \in 0 .. MaxCandidates /\ 0 \in NegLinks
  BY <1>1 DEF PN!NegotiationAssumption, PN!Links, NegLinks
<1>3. PN!TypeOK
  <2>1. \A r \in NegLinks : readers[r].type = "none" BY <1>2 DEF PN!NoMessage
  <2> QED BY <1>2, <2>1 DEF PN!TypeOK, PN!Links, PN!Offers, NegLinks
<1>4. NegotiationTyped
  <2>1. readers \in [NegLinks -> HeldByReader] BY <1>2 DEF HeldByReader
  <2> QED BY <1>2, <1>3, <2>1, EmptySeq DEF NegotiationTyped
<1>5. NegotiationPhases BY <1>2, <1>4, NegotiationFacts DEF NegotiationPhases, Outstanding, NegLinks
<1>6. readers[negotiateResumes].type = "none" BY <1>2 DEF PN!NoMessage
<1> QED
  BY <1>2, <1>4, <1>5, <1>6
  DEF NegotiationInv, OfferAnswered, LatestOffered, RestartOffered, NoRestart, OneInFlight,
      Outstanding, Answering

\* createAndSendOffer, whoever calls it.
LEMMA NegotiationOffered ==
  ASSUME NegotiationInv, NEW ice \in BOOLEAN, PN!createAndSendOffer(ice),
         UNCHANGED <<negotiateWant, candidates, joining, negotiateFromSFU, negotiateLink,
                     negotiateResumes, readers, negotiateSfu>>,
         negotiateAsked' \in NegLinks,
         ice => negotiateAsked' # 0 /\ offers > 0 /\ UNCHANGED <<timer, spawned>>,
         ~ice => UNCHANGED <<negotiateAsked, worker, gatherer>>,
         timer' \in BOOLEAN, spawned' \in Nat, spawned' <= spawned,
         worker' \in {"idle", "reconnect", worker}, gatherer' \in {FALSE, gatherer},
         worker' = "reconnect" => worker \in {"restart", "reconnect"},
         ice /\ PN!Refuses => PN!Gathering \/ worker' = "reconnect" \/ transport.restartAfterGathering
  PROVE  NegotiationInv'
<1>0. /\ NegotiationTyped /\ NegotiationPhases /\ OfferAnswered /\ LatestOffered
      /\ RestartOffered /\ OneInFlight
  BY DEF NegotiationInv
<1>1. PICK n \in Nat : n = Len(negotiateToSFU) BY <1>0, LenProperties DEF NegotiationTyped
<1>2. /\ transport.restartAfterGathering \in BOOLEAN /\ transport.renegotiate \in BOOLEAN
      /\ negotiatePc.sig \in {"stable", "have-local-offer"}
      /\ negotiateOvertaken \in BOOLEAN /\ negotiateCrossed \in BOOLEAN
      /\ negotiateLink \in {"up", "down"} /\ MaxOffers \in Nat
      /\ offers \in 0 .. MaxOffers /\ spawned \in 0 .. MaxOffers /\ spawned' \in 0 .. MaxOffers
      /\ negotiateResumes \in NegLinks /\ negotiateAsked \in Nat /\ negotiateAsked' \in Nat
      /\ latest \in Nat /\ negotiateResumes \in Nat
  BY <1>0, NegotiationFacts DEF NegLinks
<1>3. CASE ice /\ PN!Gathering
  <2>1. /\ transport' = [transport EXCEPT !.restartAfterGathering = TRUE]
        /\ UNCHANGED <<negotiatePc, offers, negotiateToSFU, negotiateOvertaken, latest,
                       negotiateCrossed, negotiateRefused>>
        /\ negotiatePc.gather = "gathering"
    BY <1>3 DEF PN!createAndSendOffer, PN!offerGhosts, PN!Gathering
  <2>2. /\ transport'.restartAfterGathering = TRUE
        /\ transport'.renegotiate = transport.renegotiate
        /\ transport' \in [renegotiate : BOOLEAN, restartAfterGathering : BOOLEAN]
    BY <1>0, <2>1, NegotiationFacts
  <2>3. NegotiationTyped'
    <3>1. worker' \in {"idle", "restart", "reconnect"} /\ gatherer' \in BOOLEAN BY <1>0, NegotiationFacts
    <3>2. \A r \in NegLinks : r > negotiateResumes' => readers'[r] = PN!NoMessage
      BY <1>0 DEF NegotiationTyped
    <3>3. /\ readers' \in [NegLinks -> HeldByReader]
          /\ negotiateToSFU' \in Seq(OffersToSFU)
          /\ negotiateFromSFU' \in Seq(Answers \cup Trickled)
      BY <1>0, <2>1 DEF NegotiationTyped
    <3> QED BY <1>0, <1>2, <2>1, <2>2, <3>1, <3>2, <3>3, NegotiationFacts, NegotiationTypes
  <2>4. NegotiationPhases'
    BY <1>0, <1>2, <1>3, <2>1, <2>2 DEF NegotiationPhases, Outstanding
  <2>5. Redone' BY <2>2 DEF Redone
  <2>6. OneInFlight' BY <1>0, <2>1 DEF OneInFlight, Outstanding, Answering, AnswerAt
  <2> QED
    BY <2>3, <2>4, <2>5, <2>6 DEF NegotiationInv, OfferAnswered, LatestOffered, RestartOffered
<1>4. CASE ~ice /\ Outstanding
  <2>1. /\ transport' = [transport EXCEPT !.renegotiate = TRUE]
        /\ UNCHANGED <<negotiatePc, offers, negotiateToSFU, negotiateOvertaken, latest,
                       negotiateCrossed, negotiateRefused, negotiateAsked, worker, gatherer>>
    BY <1>4 DEF PN!createAndSendOffer, PN!offerGhosts, Outstanding
  <2>2. /\ transport'.renegotiate = TRUE
        /\ transport'.restartAfterGathering = transport.restartAfterGathering
        /\ transport' \in [renegotiate : BOOLEAN, restartAfterGathering : BOOLEAN]
    BY <1>0, <2>1, NegotiationFacts
  <2>3. NegotiationTyped'
    <3>1. \A r \in NegLinks : r > negotiateResumes' => readers'[r] = PN!NoMessage
      BY <1>0 DEF NegotiationTyped
    <3>2. /\ readers' \in [NegLinks -> HeldByReader]
          /\ negotiateToSFU' \in Seq(OffersToSFU)
          /\ negotiateFromSFU' \in Seq(Answers \cup Trickled)
      BY <1>0, <2>1 DEF NegotiationTyped
    <3> QED BY <1>0, <1>2, <2>1, <2>2, <3>1, <3>2, NegotiationFacts, NegotiationTypes
  <2>4. NegotiationPhases'
    BY <1>0, <1>2, <1>4, <2>1, <2>2 DEF NegotiationPhases, Outstanding
  <2>5. Redone' <=> Redone BY <2>1, <2>2 DEF Redone
  <2>6. OfferAnswered' BY <1>0, <2>1, <2>5 DEF OfferAnswered, Outstanding, AnswerAt
  <2>7. LatestOffered' BY <2>2 DEF LatestOffered
  <2>8. RestartOffered' BY <1>0, <2>1, <2>5 DEF RestartOffered, LastRestart, NoRestart
  <2>9. OneInFlight' BY <1>0, <2>1 DEF OneInFlight, Outstanding, Answering, AnswerAt
  <2> QED BY <2>3, <2>4, <2>6, <2>7, <2>8, <2>9 DEF NegotiationInv
<1>5. CASE ice /\ ~PN!Gathering /\ PN!Refuses
  <2>1. /\ negotiatePc' = [negotiatePc EXCEPT !.gather = negotiatePc'.gather]
        /\ negotiatePc'.gather \in {negotiatePc.gather, "gathering"} /\ negotiateRefused' = TRUE
        /\ UNCHANGED <<transport, offers, negotiateToSFU, negotiateOvertaken, latest,
                       negotiateCrossed>>
    <3>1. negotiatePc \in [sig : {"stable", "have-local-offer"},
                           gather : {"new", "gathering", "complete"},
                           local : 0 .. MaxOffers, remote : 0 .. MaxOffers]
      BY <1>0, NegotiationFacts
    <3> QED BY <1>5, <3>1 DEF PN!createAndSendOffer, PN!Refuse
  <2>2. /\ negotiatePc' \in [sig : {"stable", "have-local-offer"},
                             gather : {"new", "gathering", "complete"},
                             local : 0 .. MaxOffers, remote : 0 .. MaxOffers]
        /\ negotiatePc'.sig = negotiatePc.sig /\ negotiatePc'.local = negotiatePc.local
        /\ negotiatePc'.remote = negotiatePc.remote
    BY <1>0, <2>1, NegotiationFacts
  <2>3. NegotiationTyped'
    <3>1. /\ worker' \in {"idle", "restart", "reconnect"} /\ gatherer' \in BOOLEAN
          /\ negotiateRefused' \in BOOLEAN
      BY <1>0, <2>1, NegotiationFacts
    <3>2. /\ \A r \in NegLinks : r > negotiateResumes => readers[r] = PN!NoMessage
          /\ readers' \in [NegLinks -> HeldByReader]
          /\ negotiateToSFU' \in Seq(OffersToSFU)
          /\ negotiateFromSFU' \in Seq(Answers \cup Trickled)
      BY <1>0, <2>1 DEF NegotiationTyped
    <3> QED BY <1>0, <1>2, <2>1, <2>2, <3>1, <3>2, NegotiationFacts, NegotiationTypes
  <2>4. NegotiationPhases' BY <1>0, <1>2, <1>5, <2>1, <2>2 DEF NegotiationPhases, Outstanding
  <2>5. Redone' BY <1>5, <2>1 DEF Redone
  <2>6. OneInFlight' BY <1>0, <2>1, <2>2 DEF OneInFlight, Outstanding, Answering, AnswerAt
  <2> QED
    BY <2>3, <2>4, <2>5, <2>6 DEF NegotiationInv, OfferAnswered, LatestOffered, RestartOffered
<1>6. CASE ~(ice /\ PN!Gathering) /\ ~(~ice /\ Outstanding) /\ ~(ice /\ ~PN!Gathering /\ PN!Refuses)
  <2> DEFINE o == [n |-> offers + 1, want |-> negotiateWant,
                   ice |-> IF ice THEN negotiateAsked' ELSE 0]
  <2>1. PN!SendOffer(ice)
    BY <1>6 DEF PN!createAndSendOffer, Outstanding
  <2>2. /\ offers < MaxOffers /\ offers' = offers + 1
        /\ negotiatePc' = [negotiatePc EXCEPT !.sig = "have-local-offer", !.local = offers + 1,
                             !.gather = IF ice \/ @ = "new" THEN "gathering" ELSE @]
        /\ transport' = [transport EXCEPT !.restartAfterGathering = FALSE]
        /\ negotiateToSFU' = IF negotiateLink = "up" THEN Append(negotiateToSFU, o)
                                                     ELSE negotiateToSFU
        /\ negotiateOvertaken' = (negotiateOvertaken
                                  \/ (~ice /\ transport.restartAfterGathering))
        /\ latest' = negotiateResumes
        /\ negotiateCrossed' = (negotiateCrossed
                                \/ (ice /\ Outstanding /\ latest = negotiateResumes))
        /\ negotiateRefused' = FALSE
    BY <2>1 DEF PN!SendOffer, Outstanding
  <2>3. /\ transport'.restartAfterGathering = FALSE
        /\ transport'.renegotiate = transport.renegotiate
        /\ transport' \in [renegotiate : BOOLEAN, restartAfterGathering : BOOLEAN]
        /\ negotiatePc'.sig = "have-local-offer" /\ negotiatePc'.local = offers + 1
        /\ negotiatePc'.remote = negotiatePc.remote
        /\ negotiatePc' \in [sig : {"stable", "have-local-offer"},
                             gather : {"new", "gathering", "complete"},
                             local : 0 .. MaxOffers, remote : 0 .. MaxOffers]
        /\ negotiateOvertaken' \in BOOLEAN /\ negotiateCrossed' \in BOOLEAN
    <3>1. offers + 1 \in 0 .. MaxOffers BY <1>2, <2>2
    <3>2. /\ negotiatePc \in [sig : {"stable", "have-local-offer"},
                              gather : {"new", "gathering", "complete"},
                              local : 0 .. MaxOffers, remote : 0 .. MaxOffers]
          /\ transport \in [renegotiate : BOOLEAN, restartAfterGathering : BOOLEAN]
      BY <1>0, NegotiationFacts
    <3> QED BY <1>2, <2>2, <3>1, <3>2
  <2>4. o \in OffersToSFU /\ o.n = offers + 1 /\ o.want = negotiateWant
        /\ o.ice = IF ice THEN negotiateAsked' ELSE 0
    <3>1. offers + 1 \in 1 .. MaxOffers BY <1>2, <2>2
    <3>2. (IF ice THEN negotiateAsked' ELSE 0) \in NegLinks
      BY <1>0, NegotiationFacts DEF NegLinks
    <3>3. negotiateWant \in 0 .. MaxChanges BY <1>0, NegotiationFacts
    <3> QED BY <3>1, <3>2, <3>3 DEF OffersToSFU
  <2> HIDE DEF o
  <2>5. /\ negotiateToSFU' \in Seq(OffersToSFU)
        /\ negotiateLink = "up" => /\ Len(negotiateToSFU') = n + 1 /\ negotiateToSFU'[n + 1] = o
                                   /\ \A i \in 1 .. n : negotiateToSFU'[i] = negotiateToSFU[i]
                                   /\ negotiateToSFU' # <<>>
        /\ negotiateLink = "down" => negotiateToSFU' = negotiateToSFU
    <3>1. CASE negotiateLink = "up"
      <4>1. negotiateToSFU' = Append(negotiateToSFU, o) BY <2>2, <3>1
      <4>2. /\ negotiateToSFU' \in Seq(OffersToSFU) /\ Len(negotiateToSFU') = n + 1
            /\ negotiateToSFU'[n + 1] = o
            /\ \A i \in 1 .. n : negotiateToSFU'[i] = negotiateToSFU[i]
        BY <1>0, <1>1, <2>4, <4>1, AppendProperties DEF NegotiationTyped
      <4> QED BY <3>1, <4>1, <4>2, EmptySeq
    <3> QED BY <1>0, <1>2, <2>2, <3>1 DEF NegotiationTyped
  <2>6. NegotiationTyped'
    <3>1. \A r \in NegLinks : r > negotiateResumes' => readers'[r] = PN!NoMessage
      BY <1>0 DEF NegotiationTyped
    <3>2. /\ readers' \in [NegLinks -> HeldByReader]
          /\ negotiateFromSFU' \in Seq(Answers \cup Trickled)
      BY <1>0 DEF NegotiationTyped
    <3>3. /\ worker' \in {"idle", "restart", "reconnect"} /\ gatherer' \in BOOLEAN
          /\ negotiateRefused' \in BOOLEAN
      BY <1>0, <2>2, NegotiationFacts
    <3>4. offers' \in 0 .. MaxOffers /\ latest' \in NegLinks BY <1>2, <2>2
    <3> QED BY <1>0, <1>2, <2>3, <2>5, <3>1, <3>2, <3>3, <3>4, NegotiationFacts, NegotiationTypes
  <2>7. offers' = offers + 1 /\ latest' = negotiateResumes /\ Outstanding'
    BY <2>2, <2>3 DEF Outstanding
  <2>8. NegotiationPhases'
    <3>1. negotiateLink = "down" => negotiateToSFU' = <<>>
      BY <1>0, <2>5 DEF NegotiationPhases
    <3>2. spawned <= offers
      BY <1>0, <1>2 DEF NegotiationPhases, Outstanding
    <3>3. spawned' + (IF Outstanding' THEN 1 ELSE 0) <= offers' /\ offers' # 0
      <4>1. /\ spawned' + 1 <= offers + 1 /\ offers + 1 # 0
            /\ offers' = offers + 1
        <5>1. spawned' <= offers /\ offers \in Nat /\ spawned' \in Nat BY <1>2, <3>2
        <5> QED BY <2>7, <5>1, OneMore, Zenon
      <4>2. (IF Outstanding' THEN 1 ELSE 0) = 1 BY <2>7
      <4> QED BY <4>1, <4>2, Zenon
    <3>4. latest' <= negotiateResumes' BY <1>2, <2>7
    <3>5. worker' \in {"restart", "reconnect"} => offers' > 0 /\ negotiateResumes' > 0
      BY <1>0, <1>2, <2>7 DEF NegotiationPhases
    <3> QED BY <1>0, <2>3, <2>7, <3>1, <3>3, <3>4, <3>5 DEF NegotiationPhases
  <2>9. negotiateLink = "down" => Redone' BY <1>2, <2>7 DEF Redone
  <2>10. OfferAnswered' /\ LatestOffered'
    BY <1>1, <1>2, <2>4, <2>5, <2>9 DEF OfferAnswered, LatestOffered
  <2>11. RestartOffered'
    <3> SUFFICES ASSUME ~negotiateOvertaken', negotiateLink = "up"
                 PROVE  \/ Redone' \/ \E i \in 1 .. Len(negotiateToSFU') : LastRestart(i)'
                        \/ NoRestart' /\ negotiateSfu'.ice = negotiateAsked'
      BY <1>2, <2>9 DEF RestartOffered
    <3>1. Len(negotiateToSFU') = n + 1 /\ n + 1 \in 1 .. n + 1 BY <1>1, <2>5
    <3>2. CASE ice
      <4>1. LastRestart(n + 1)'
        BY <2>4, <2>5, <3>1, <3>2 DEF LastRestart
      <4> QED BY <3>1, <4>1
    <3>3. CASE ~ice
      <4>1. /\ ~negotiateOvertaken /\ ~transport.restartAfterGathering
            /\ negotiateAsked' = negotiateAsked /\ worker' = worker
        BY <1>2, <2>2, <3>3
      <4>2. negotiateToSFU'[n + 1].ice = 0 BY <2>4, <2>5, <3>3
      <4>3. Redone => Redone' BY <2>7, <4>1 DEF Redone
      <4>4. ASSUME NEW i \in 1 .. n, LastRestart(i) PROVE LastRestart(i)' /\ i \in 1 .. n + 1
        BY <1>1, <2>5, <3>1, <4>1, <4>2, <4>4 DEF LastRestart
      <4>5. NoRestart => NoRestart' BY <1>1, <2>5, <3>1, <4>2 DEF NoRestart
      <4> QED BY <1>0, <1>1, <3>1, <4>1, <4>3, <4>4, <4>5 DEF RestartOffered
    <3> QED BY <3>2, <3>3
  <2>12. OneInFlight'
    <3> SUFFICES ASSUME ~negotiateCrossed' PROVE OneInFlight' BY DEF OneInFlight
    <3>1. ~negotiateCrossed /\ (~Outstanding \/ latest # negotiateResumes)
      BY <1>2, <1>6, <2>2
    <3>2. /\ n = 0 /\ ~Answering /\ \A k \in 1 .. Len(negotiateFromSFU) : ~AnswerAt(k)
          /\ negotiatePc.remote # 0 =>
               candidates.pending = {} /\ readers[negotiateResumes].type # "queue"
      <4>1. n > 0 => 1 \in 1 .. n BY <1>1
      <4> QED BY <1>0, <1>1, <3>1, <4>1 DEF OneInFlight
    <3>3. Len(negotiateToSFU') = IF negotiateLink = "up" THEN 1 ELSE 0
      <4>1. negotiateLink = "down" => negotiateToSFU' = negotiateToSFU BY <2>5
      <4>2. negotiateLink = "up" => Len(negotiateToSFU') = n + 1 BY <2>5
      <4>3. CASE negotiateLink = "up" BY <3>2, <4>2, <4>3
      <4>4. CASE negotiateLink = "down" BY <1>1, <3>2, <4>1, <4>4
      <4> QED BY <1>2, <4>3, <4>4
    <3>4. /\ ~Answering' /\ \A k \in 1 .. Len(negotiateFromSFU') : ~AnswerAt(k)'
          /\ negotiatePc'.remote # 0 =>
               candidates'.pending = {} /\ readers'[negotiateResumes'].type # "queue"
      BY <2>3, <3>2 DEF Answering, AnswerAt
    <3>5. \A i \in 1 .. Len(negotiateToSFU') :
            i = 1 /\ negotiateToSFU'[i].n = negotiatePc'.local
      BY <1>2, <2>3, <2>4, <2>5, <3>2, <3>3
    <3> QED BY <2>7, <3>4, <3>5 DEF OneInFlight
  <2> QED BY <2>6, <2>8, <2>10, <2>11, <2>12 DEF NegotiationInv
<1> QED BY <1>3, <1>4, <1>5, <1>6

\* What asks for offers: changes, the timer, answers, the gathering, a resume.
LEMMA NegotiationAsks ==
  ASSUME NegotiationInv,
         \/ PN!Change \/ PN!Negotiate \/ PN!Renegotiate \/ PN!GatheringCompletes
         \/ PN!onICEGatheringStateChange \/ PN!SetLocalOffer \/ PN!RestartICE
  PROVE  NegotiationInv'
<1>0. /\ NegotiationTyped /\ NegotiationPhases /\ OfferAnswered /\ LatestOffered
      /\ RestartOffered /\ OneInFlight
  BY DEF NegotiationInv
<1>1. /\ negotiateWant \in 0 .. MaxChanges /\ MaxChanges \in Nat /\ MaxOffers \in Nat
      /\ spawned \in 0 .. MaxOffers /\ negotiateAsked \in NegLinks /\ negotiateResumes \in NegLinks
      /\ timer \in BOOLEAN /\ worker \in {"idle", "restart", "reconnect"} /\ gatherer \in BOOLEAN
      /\ transport.restartAfterGathering \in BOOLEAN
      /\ offers \in 0 .. MaxOffers /\ NegLinks \subseteq Nat
  BY <1>0, NegotiationFacts DEF NegLinks
<1>2. /\ \A r \in NegLinks : r > negotiateResumes => readers[r] = PN!NoMessage
      /\ readers \in [NegLinks -> HeldByReader] /\ negotiateToSFU \in Seq(OffersToSFU)
      /\ negotiateFromSFU \in Seq(Answers \cup Trickled)
  BY <1>0 DEF NegotiationTyped
<1>3. CASE PN!Change
  <2>1. /\ negotiateWant < MaxChanges /\ negotiateWant' = negotiateWant + 1 /\ timer' = TRUE
        /\ UNCHANGED <<negotiatePc, transport, candidates, spawned, gatherer, worker, joining,
                       offers, negotiateToSFU, negotiateFromSFU, negotiateLink, negotiateResumes,
                       readers, negotiateSfu, negotiateAsked, negotiateOvertaken, latest,
                       negotiateCrossed, negotiateRefused>>
    BY <1>3 DEF PN!Change, PN!linkVars, PN!ghosts, PN!offerGhosts
  <2>2. NegotiationTyped'
    <3>1. negotiateWant' \in 0 .. MaxChanges BY <1>1, <2>1
    <3> QED BY <1>0, <1>2, <2>1, <3>1, NegotiationFacts, NegotiationTypes
  <2>3. NegotiationPhases' BY <1>0, <2>1 DEF NegotiationPhases, Outstanding
  <2>4. Redone' <=> Redone BY <2>1 DEF Redone
  <2>5. OfferAnswered' BY <1>0, <2>1, <2>4 DEF OfferAnswered, Outstanding, AnswerAt
  <2>6. LatestOffered' BY <2>1 DEF LatestOffered
  <2>7. RestartOffered' BY <1>0, <2>1, <2>4 DEF RestartOffered, LastRestart, NoRestart
  <2>8. OneInFlight' BY <1>0, <2>1 DEF OneInFlight, Outstanding, Answering, AnswerAt
  <2> QED BY <2>2, <2>3, <2>5, <2>6, <2>7, <2>8 DEF NegotiationInv
<1>4. CASE PN!Negotiate
  <2>1. /\ timer' = FALSE /\ PN!createAndSendOffer(FALSE)
        /\ UNCHANGED <<negotiateAsked, negotiateWant, candidates, spawned, gatherer, worker,
                       joining, negotiateFromSFU, negotiateLink, negotiateResumes, readers,
                       negotiateSfu>>
    BY <1>4 DEF PN!Negotiate
  <2>2. spawned' \in Nat /\ spawned' <= spawned BY <1>1, <2>1
  <2> QED BY <1>1, <2>1, <2>2, NegotiationOffered
<1>5. CASE PN!Renegotiate
  <2>1. /\ spawned > 0 /\ spawned' = spawned - 1 /\ PN!createAndSendOffer(FALSE)
        /\ UNCHANGED <<negotiateAsked, negotiateWant, candidates, timer, gatherer, worker,
                       joining, negotiateFromSFU, negotiateLink, negotiateResumes, readers,
                       negotiateSfu>>
    BY <1>5 DEF PN!Renegotiate
  <2>2. spawned' \in Nat /\ spawned' <= spawned BY <1>1, <2>1
  <2> QED BY <1>1, <2>1, <2>2, NegotiationOffered
<1>6. CASE PN!GatheringCompletes
  <2>1. /\ negotiatePc' = [negotiatePc EXCEPT !.gather = "complete"] /\ gatherer' = TRUE
        /\ UNCHANGED <<negotiateWant, transport, candidates, timer, spawned, worker, joining,
                       offers, negotiateToSFU, negotiateFromSFU, negotiateLink, negotiateResumes,
                       readers, negotiateSfu, negotiateAsked, negotiateOvertaken, latest,
                       negotiateCrossed, negotiateRefused>>
    BY <1>6 DEF PN!GatheringCompletes, PN!linkVars, PN!ghosts, PN!offerGhosts
  <2>2. /\ negotiatePc' \in [sig : {"stable", "have-local-offer"},
                             gather : {"new", "gathering", "complete"},
                             local : 0 .. MaxOffers, remote : 0 .. MaxOffers]
        /\ negotiatePc'.sig = negotiatePc.sig /\ negotiatePc'.local = negotiatePc.local
        /\ negotiatePc'.remote = negotiatePc.remote
    <3>1. negotiatePc \in [sig : {"stable", "have-local-offer"},
                           gather : {"new", "gathering", "complete"},
                           local : 0 .. MaxOffers, remote : 0 .. MaxOffers]
      BY <1>0, NegotiationFacts
    <3> QED BY <2>1, <3>1
  <2>3. NegotiationTyped' BY <1>0, <1>2, <2>1, <2>2, NegotiationFacts, NegotiationTypes
  <2>4. NegotiationPhases' BY <1>0, <2>1, <2>2 DEF NegotiationPhases, Outstanding
  <2>5. Redone' <=> Redone BY <2>1 DEF Redone
  <2>6. OfferAnswered' BY <1>0, <2>1, <2>2, <2>5 DEF OfferAnswered, Outstanding, AnswerAt
  <2>7. LatestOffered' BY <1>0, <2>1, <2>5 DEF LatestOffered
  <2>8. RestartOffered' BY <1>0, <2>1, <2>5 DEF RestartOffered, LastRestart, NoRestart
  <2>9. OneInFlight' BY <1>0, <2>1, <2>2 DEF OneInFlight, Outstanding, Answering, AnswerAt
  <2> QED BY <2>3, <2>4, <2>6, <2>7, <2>8, <2>9 DEF NegotiationInv
<1>7. CASE PN!onICEGatheringStateChange
  <2>1. /\ gatherer' = FALSE
        /\ UNCHANGED <<negotiateAsked, negotiateWant, candidates, timer, spawned, worker, joining,
                       negotiateFromSFU, negotiateLink, negotiateResumes, readers, negotiateSfu>>
        /\ IF transport.restartAfterGathering
           THEN PN!createAndSendOffer(TRUE)
           ELSE UNCHANGED <<negotiatePc, transport, offers, negotiateToSFU, negotiateOvertaken,
                            latest, negotiateCrossed, negotiateRefused>>
    BY <1>7 DEF PN!onICEGatheringStateChange, PN!offerGhosts
  <2>2. CASE transport.restartAfterGathering
    <3>1. negotiateAsked # 0 /\ offers > 0 BY <1>0, <1>1, <2>2 DEF NegotiationPhases
    <3>2. spawned' \in Nat /\ spawned' <= spawned BY <1>1, <2>1
    <3> QED BY <1>1, <2>1, <2>2, <3>1, <3>2, NegotiationOffered
  <2>3. CASE ~transport.restartAfterGathering
    <3>1. UNCHANGED <<negotiatePc, transport, offers, negotiateToSFU, negotiateOvertaken, latest,
                      negotiateCrossed, negotiateRefused>>
      BY <2>1, <2>3
    <3>2. NegotiationTyped'
      <4>1. PN!TypeOK' BY <1>0, <2>1, <3>1, Zenon DEF NegotiationTyped, PN!TypeOK
      <4> QED BY <1>0, <2>1, <3>1, <4>1 DEF NegotiationTyped
    <3>3. NegotiationPhases' BY <1>0, <2>1, <2>3, <3>1 DEF NegotiationPhases, Outstanding
    <3>4. Redone' <=> Redone BY <2>1, <3>1 DEF Redone
    <3>5. OfferAnswered' BY <1>0, <2>1, <3>1, <3>4 DEF OfferAnswered, Outstanding, AnswerAt
    <3>6. LatestOffered' BY <1>0, <2>1, <3>1, <3>4 DEF LatestOffered
    <3>7. RestartOffered' BY <1>0, <2>1, <3>1, <3>4 DEF RestartOffered, LastRestart, NoRestart
    <3>8. OneInFlight' BY <1>0, <2>1, <3>1 DEF OneInFlight, Outstanding, Answering, AnswerAt
    <3> QED BY <3>2, <3>3, <3>5, <3>6, <3>7, <3>8 DEF NegotiationInv
  <2> QED BY <1>1, <2>2, <2>3
<1>8. CASE PN!SetLocalOffer
  BY <1>0, <1>8 DEF PN!SetLocalOffer, NegotiationTyped
<1>9. CASE PN!RestartICE
  <2>1. /\ worker = "restart" /\ negotiateAsked' = negotiateResumes
        /\ worker' = IF PN!Refuses /\ ~PN!Gathering THEN "reconnect" ELSE "idle"
        /\ PN!createAndSendOffer(TRUE)
        /\ UNCHANGED <<negotiateWant, candidates, timer, spawned, gatherer, joining,
                       negotiateFromSFU, negotiateLink, negotiateResumes, readers, negotiateSfu>>
    BY <1>9 DEF PN!RestartICE
  <2>2. negotiateAsked' # 0 /\ offers > 0 BY <1>0, <1>1, <2>1 DEF NegotiationPhases
  <2>3. spawned' \in Nat /\ spawned' <= spawned BY <1>1, <2>1
  <2> QED BY <1>1, <2>1, <2>2, <2>3, NegotiationOffered
<1> QED BY <1>3, <1>4, <1>5, <1>6, <1>7, <1>8, <1>9

\* The signal connection fails, and comes back.
LEMMA NegotiationResumes ==
  ASSUME NegotiationInv, PN!LinkFails \/ PN!Resume
  PROVE  NegotiationInv'
<1>0. /\ NegotiationTyped /\ NegotiationPhases /\ OfferAnswered /\ LatestOffered
      /\ RestartOffered /\ OneInFlight
  BY DEF NegotiationInv
<1>1. /\ negotiateResumes \in NegLinks /\ latest \in NegLinks /\ offers \in 0 .. MaxOffers
      /\ MaxResumes \in Nat /\ MaxOffers \in Nat /\ NegLinks \subseteq Nat
      /\ negotiateWant \in Nat
  BY <1>0, NegotiationFacts DEF NegLinks
<1>2. /\ \A r \in NegLinks : r > negotiateResumes => readers[r] = PN!NoMessage
      /\ readers \in [NegLinks -> HeldByReader] /\ negotiateToSFU \in Seq(OffersToSFU)
      /\ negotiateFromSFU \in Seq(Answers \cup Trickled)
  BY <1>0 DEF NegotiationTyped
<1>3. Len(negotiateToSFU) \in Nat /\ Len(negotiateFromSFU) \in Nat BY <1>2, LenProperties
<1>4. CASE PN!LinkFails
  <2>1. /\ negotiateResumes < MaxResumes /\ negotiateLink' = "down"
        /\ negotiateToSFU' = <<>> /\ negotiateFromSFU' = <<>>
        /\ worker' = IF worker = "restart" THEN "idle" ELSE worker
        /\ UNCHANGED <<negotiateWant, negotiatePc, transport, candidates, timer, spawned, gatherer,
                       joining, offers, negotiateResumes, readers, negotiateSfu, negotiateAsked,
                       negotiateOvertaken, latest, negotiateCrossed, negotiateRefused>>
    BY <1>4 DEF PN!LinkFails, PN!ghosts, PN!offerGhosts
  <2>2. /\ negotiateToSFU' \in Seq(OffersToSFU) /\ negotiateFromSFU' \in Seq(Answers \cup Trickled)
        /\ Len(negotiateToSFU') = 0 /\ Len(negotiateFromSFU') = 0
    BY <2>1, EmptySeq
  <2>3. NegotiationTyped' BY <1>0, <1>2, <2>1, <2>2, NegotiationFacts, NegotiationTypes
  <2>4. NegotiationPhases' BY <1>0, <2>1 DEF NegotiationPhases, Outstanding
  <2>5. CASE offers > 0
    <3>1. Redone' BY <2>1, <2>5 DEF Redone
    <3> QED
      <4>1. OneInFlight' BY <1>0, <2>1, <2>2 DEF OneInFlight, Outstanding, Answering, AnswerAt
      <4> QED BY <2>3, <2>4, <3>1, <4>1
              DEF NegotiationInv, OfferAnswered, LatestOffered, RestartOffered
  <2>6. CASE offers = 0
    <3>1. /\ ~Outstanding /\ negotiateAsked = 0 /\ negotiateSfu.ice = 0 /\ negotiateToSFU = <<>>
          /\ negotiateWant = 0 \/ timer
      BY <1>0, <2>6 DEF NegotiationPhases
    <3>2. OfferAnswered' BY <2>1, <3>1 DEF OfferAnswered, Outstanding
    <3>3. RestartOffered' BY <2>1, <2>2, <3>1 DEF RestartOffered, NoRestart
    <3>4. LatestOffered'
      <4>1. LatestOffered' \/ timer \/ negotiateSfu.want = negotiateWant
        <5>1. ~Redone \/ worker \in {"restart", "reconnect"} \/ transport.restartAfterGathering
          BY <2>6 DEF Redone
        <5>2. ~Redone BY <1>0, <1>1, <2>6, <3>1, <5>1 DEF NegotiationPhases
        <5>3. spawned = 0 /\ ~transport.renegotiate BY <1>0, <2>6 DEF NegotiationPhases
        <5> QED BY <1>0, <1>1, <2>6, <3>1, <5>2, <5>3 DEF LatestOffered
      <4> QED BY <2>1, <4>1 DEF LatestOffered
    <3>5. OneInFlight' BY <1>0, <2>1, <2>2 DEF OneInFlight, Outstanding, Answering, AnswerAt
    <3> QED BY <2>3, <2>4, <3>2, <3>3, <3>4, <3>5 DEF NegotiationInv
  <2> QED BY <1>1, <2>5, <2>6
<1>5. CASE PN!Resume
  <2>1. /\ negotiateLink = "down" /\ negotiateLink' = "up" /\ worker = "idle"
        /\ negotiateResumes' = negotiateResumes + 1
        /\ worker' = IF offers > 0 THEN "restart" ELSE "idle"
        /\ UNCHANGED <<negotiateWant, negotiatePc, transport, candidates, timer, spawned, gatherer,
                       joining, offers, negotiateToSFU, negotiateFromSFU, readers, negotiateSfu,
                       negotiateAsked, negotiateOvertaken, latest, negotiateCrossed, negotiateRefused>>
    BY <1>5 DEF PN!Resume, PN!ghosts, PN!offerGhosts
  <2>2. /\ negotiateToSFU = <<>> /\ negotiateFromSFU = <<>> /\ negotiateResumes < MaxResumes
        /\ latest <= negotiateResumes
    BY <1>0, <2>1 DEF NegotiationPhases
  <2>3. /\ negotiateResumes' \in NegLinks /\ readers[negotiateResumes'] = PN!NoMessage
        /\ \A r \in NegLinks : r > negotiateResumes' => readers'[r] = PN!NoMessage
        /\ latest # negotiateResumes' /\ latest <= negotiateResumes' /\ negotiateResumes' > 0
    BY <1>1, <1>2, <2>1, <2>2 DEF NegLinks
  <2>4. NegotiationTyped' BY <1>0, <1>2, <2>1, <2>3, NegotiationFacts, NegotiationTypes
  <2>5. NegotiationPhases' BY <1>0, <1>1, <2>1, <2>3 DEF NegotiationPhases, Outstanding
  <2>6. Redone => Redone' BY <1>1, <2>1, <2>2 DEF Redone
  <2>7. Len(negotiateToSFU') = 0 /\ Len(negotiateFromSFU') = 0 BY <2>1, <2>2
  <2>8. OfferAnswered' BY <1>0, <2>1, <2>2, <2>6, <2>7 DEF OfferAnswered, Outstanding, AnswerAt
  <2>9. LatestOffered' BY <1>0, <2>1, <2>2, <2>6 DEF LatestOffered
  <2>10. RestartOffered' BY <1>0, <2>1, <2>6 DEF RestartOffered, LastRestart, NoRestart
  <2>11. OneInFlight'
    <3>1. ~Answering' /\ readers'[negotiateResumes'].type # "queue"
      BY <2>1, <2>3 DEF Answering, PN!NoMessage
    <3> QED BY <1>0, <2>1, <2>2, <2>7, <3>1 DEF OneInFlight, Outstanding, AnswerAt
  <2> QED BY <2>4, <2>5, <2>8, <2>9, <2>10, <2>11 DEF NegotiationInv
<1> QED BY <1>4, <1>5

\* The readers of the signal connections.
LEMMA NegotiationReads ==
  ASSUME NegotiationInv,
         \/ PN!Read
         \/ \E r \in NegLinks :
              PN!SetRemoteDescription(r) \/ PN!AddICECandidate(r) \/ PN!QueueCandidate(r)
  PROVE  NegotiationInv'
<1>0. /\ NegotiationTyped /\ NegotiationPhases /\ OfferAnswered /\ LatestOffered
      /\ RestartOffered /\ OneInFlight
  BY DEF NegotiationInv
<1>1. /\ negotiateResumes \in NegLinks /\ offers \in 0 .. MaxOffers /\ spawned \in 0 .. MaxOffers
      /\ MaxOffers \in Nat /\ NegLinks \subseteq Nat /\ negotiateCrossed \in BOOLEAN
      /\ negotiatePc \in [sig : {"stable", "have-local-offer"},
                          gather : {"new", "gathering", "complete"},
                          local : 0 .. MaxOffers, remote : 0 .. MaxOffers]
      /\ transport \in [renegotiate : BOOLEAN, restartAfterGathering : BOOLEAN]
      /\ candidates \in [pending : SUBSET (1 .. MaxCandidates), added : SUBSET (1 .. MaxCandidates)]
  BY <1>0, NegotiationFacts DEF NegLinks
<1>2. /\ \A r \in NegLinks : r > negotiateResumes => readers[r] = PN!NoMessage
      /\ readers \in [NegLinks -> HeldByReader] /\ negotiateToSFU \in Seq(OffersToSFU)
      /\ negotiateFromSFU \in Seq(Answers \cup Trickled) /\ ~BadCandidates
  BY <1>0 DEF NegotiationTyped
<1>3. \A r \in NegLinks : readers[r].type # "none" => r <= negotiateResumes
  BY <1>1, <1>2 DEF PN!NoMessage
<1>4. PN!NoMessage \in HeldByReader /\ PN!NoMessage.type = "none"
  BY DEF HeldByReader, PN!NoMessage
<1>5. CASE PN!Read
  <2>1. /\ negotiateFromSFU # <<>> /\ readers[negotiateResumes] = PN!NoMessage
        /\ readers' = [readers EXCEPT ![negotiateResumes] = Head(negotiateFromSFU)]
        /\ negotiateFromSFU' = Tail(negotiateFromSFU)
        /\ UNCHANGED <<negotiateWant, negotiatePc, transport, candidates, timer, spawned, gatherer,
                       worker, joining, offers, negotiateToSFU, negotiateLink, negotiateResumes,
                       negotiateSfu, negotiateAsked, negotiateOvertaken, latest,
                       negotiateCrossed, negotiateRefused>>
        /\ negotiateLink = "up"
    BY <1>5 DEF PN!Read, PN!ghosts, PN!offerGhosts
  <2>2. PICK n \in Nat : n = Len(negotiateFromSFU) BY <1>2, LenProperties
  <2>3. PICK m : m = Head(negotiateFromSFU) OBVIOUS
  <2>4. /\ n > 0 /\ m = negotiateFromSFU[1] /\ m \in Answers \cup Trickled
        /\ negotiateFromSFU' \in Seq(Answers \cup Trickled) /\ Len(negotiateFromSFU') = n - 1
        /\ \A i \in 1 .. n - 1 : negotiateFromSFU'[i] = negotiateFromSFU[i + 1] /\ i + 1 \in 1 .. n
        /\ \A i \in 1 .. n : i = 1 \/ (i - 1 \in 1 .. n - 1
                                       /\ negotiateFromSFU'[i - 1] = negotiateFromSFU[i])
    BY <1>2, <2>1, <2>2, <2>3, HeadTaken
  <2>5. /\ m \in HeldByReader /\ m.type \in {"answer", "candidate"}
        /\ readers' \in [NegLinks -> HeldByReader] /\ readers'[negotiateResumes] = m
        /\ \A r \in NegLinks : r # negotiateResumes => readers'[r] = readers[r]
    <3>1. m \in HeldByReader /\ m.type \in {"answer", "candidate"}
      BY <2>4 DEF HeldByReader, Answers, Trickled
    <3> QED BY <1>1, <1>2, <2>1, <2>3, <3>1
  <2>6. NegotiationTyped'
    <3>1. \A r \in NegLinks : r > negotiateResumes => readers'[r] = PN!NoMessage
      BY <1>1, <1>2, <2>5
    <3> QED BY <1>0, <1>2, <2>1, <2>4, <2>5, <3>1, NegotiationFacts, NegotiationTypes
  <2>7. NegotiationPhases' BY <1>0, <2>1 DEF NegotiationPhases, Outstanding
  <2>8. Redone' <=> Redone BY <2>1 DEF Redone
  <2>9. OfferAnswered'
    <3>1. ASSUME NEW i \in 1 .. n, AnswerAt(i)
          PROVE  \/ \E j \in 1 .. n - 1 : AnswerAt(j)'
                 \/ readers'[negotiateResumes].type = "answer"
      <4>1. CASE i = 1 BY <2>4, <2>5, <3>1, <4>1 DEF AnswerAt
      <4>2. CASE i # 1
        <5>1. i - 1 \in 1 .. n - 1 /\ negotiateFromSFU'[i - 1] = negotiateFromSFU[i]
          BY <2>4, <4>2
        <5>2. AnswerAt(i - 1)' BY <2>4, <3>1, <5>1 DEF AnswerAt
        <5> QED BY <5>1, <5>2
      <4> QED BY <4>1, <4>2
    <3>2. ASSUME NEW r \in NegLinks, readers[r].type = "answer"
          PROVE  readers'[r].type = "answer"
      BY <1>4, <2>1, <2>5, <3>2
    <3> QED BY <1>0, <1>1, <2>1, <2>2, <2>4, <2>8, <3>1, <3>2 DEF OfferAnswered, Outstanding
  <2>10. LatestOffered' BY <1>0, <2>1, <2>8 DEF LatestOffered
  <2>11. RestartOffered' BY <1>0, <2>1, <2>8 DEF RestartOffered, LastRestart, NoRestart
  <2>12. OneInFlight'
    <3> SUFFICES ASSUME ~negotiateCrossed PROVE OneInFlight' BY <2>1 DEF OneInFlight
    <3>1. Answering' => AnswerAt(1) /\ m.n = negotiateFromSFU[1].n
      BY <2>1, <2>2, <2>4, <2>5 DEF Answering, AnswerAt
    <3>2. ASSUME NEW k \in 1 .. n - 1, AnswerAt(k)'
          PROVE  /\ AnswerAt(k + 1) /\ k + 1 \in 1 .. n /\ k + 1 # 1
                 /\ negotiateFromSFU'[k] = negotiateFromSFU[k + 1]
      BY <2>2, <2>4, <3>2 DEF AnswerAt
    <3>3. ~Answering BY <1>4, <2>1 DEF Answering
    <3>4. ASSUME NEW i \in 1 .. Len(negotiateToSFU)
          PROVE  /\ i = 1 /\ negotiateToSFU[i].n = negotiatePc.local
                 /\ Outstanding /\ latest = negotiateResumes
                 /\ ~Answering' /\ \A k \in 1 .. n - 1 : ~AnswerAt(k)'
      <4>1. 1 \in 1 .. n BY <2>4
      <4>2. \A k \in 1 .. n : ~AnswerAt(k) BY <1>0, <2>2 DEF OneInFlight
      <4> QED BY <1>0, <3>1, <3>2, <4>1, <4>2 DEF OneInFlight
    <3>5. ASSUME NEW k \in 1 .. n - 1, AnswerAt(k)'
          PROVE  /\ negotiateFromSFU'[k].n = negotiatePc.local /\ Outstanding
                 /\ latest = negotiateResumes /\ ~Answering'
                 /\ \A j \in 1 .. n - 1 : AnswerAt(j)' => j = k
      <4>1. AnswerAt(k + 1) /\ k + 1 \in 1 .. n /\ k + 1 # 1
        BY <3>2, <3>5
      <4>2. \A j \in 1 .. n : AnswerAt(j) => j = k + 1 BY <1>0, <2>2, <4>1 DEF OneInFlight
      <4>3. 1 \in 1 .. n BY <2>4
      <4>4. ~Answering' BY <3>1, <4>1, <4>2, <4>3
      <4>5. ASSUME NEW j \in 1 .. n - 1, AnswerAt(j)' PROVE j = k
        <5>1. AnswerAt(j + 1) /\ j + 1 \in 1 .. n BY <3>2, <4>5
        <5>2. j + 1 = k + 1 BY <4>2, <5>1
        <5> QED BY <5>2
      <4>6. /\ negotiateFromSFU[k + 1].n = negotiatePc.local /\ Outstanding
            /\ latest = negotiateResumes
        BY <1>0, <2>2, <4>1 DEF OneInFlight
      <4> QED BY <3>2, <3>5, <4>4, <4>5, <4>6
    <3>6. Answering' => m.n = negotiatePc.local /\ Outstanding /\ latest = negotiateResumes
      <4>1. 1 \in 1 .. n BY <2>4
      <4> QED BY <1>0, <2>2, <3>1, <4>1 DEF OneInFlight
    <3>7. /\ ~Outstanding => negotiatePc.remote = negotiatePc.local
          /\ negotiatePc.remote # 0 => candidates.pending = {}
          /\ readers'[negotiateResumes].type # "queue"
      BY <1>0, <2>5 DEF OneInFlight
    <3>8. Outstanding' <=> Outstanding BY <2>1 DEF Outstanding
    <3> QED
      BY <2>1, <2>4, <2>5, <3>4, <3>5, <3>6, <3>7, <3>8 DEF OneInFlight
  <2> QED BY <2>6, <2>7, <2>9, <2>10, <2>11, <2>12 DEF NegotiationInv
\* A reader that is done with its message.
<1>6. ASSUME NEW r \in NegLinks, readers[r].type # "none",
             readers' = [readers EXCEPT ![r] = PN!NoMessage]
      PROVE  /\ readers' \in [NegLinks -> HeldByReader] /\ readers'[r].type = "none"
             /\ \A q \in NegLinks : q # r => readers'[q] = readers[q]
             /\ \A q \in NegLinks : q > negotiateResumes => readers'[q] = PN!NoMessage
  BY <1>2, <1>4, <1>6
<1>7. ASSUME NEW r \in NegLinks, PN!SetRemoteDescription(r) PROVE NegotiationInv'
  <2>1. /\ readers[r].type = "answer" /\ readers' = [readers EXCEPT ![r] = PN!NoMessage]
        /\ negotiateCrossed' = (negotiateCrossed \/ r # negotiateResumes)
        /\ UNCHANGED <<negotiateWant, timer, gatherer, worker, joining, offers, negotiateToSFU,
                       negotiateFromSFU, negotiateLink, negotiateResumes, negotiateSfu,
                       negotiateAsked, negotiateOvertaken, latest, negotiateRefused>>
    BY <1>7 DEF PN!SetRemoteDescription, PN!Handled, PN!linkVars
  <2>2. /\ readers' \in [NegLinks -> HeldByReader] /\ readers'[r].type = "none"
        /\ \A q \in NegLinks : q # r => readers'[q] = readers[q]
        /\ \A q \in NegLinks : q > negotiateResumes => readers'[q] = PN!NoMessage
    BY <1>6, <2>1
  <2>3. readers[r] \in Answers BY <1>2, <2>1 DEF HeldByReader, PN!NoMessage
  <2>4. CASE Outstanding
    <3>1. /\ negotiatePc' = [negotiatePc EXCEPT !.sig = "stable", !.remote = readers[r].n]
          /\ candidates' = [pending |-> {}, added |-> candidates.added \cup candidates.pending]
          /\ transport' = [transport EXCEPT !.renegotiate = FALSE]
          /\ spawned' = spawned + IF transport.renegotiate THEN 1 ELSE 0
      BY <1>2, <1>7, <2>4 DEF PN!SetRemoteDescription, PN!Settle, Outstanding
    <3>2. readers[r].n \in 1 .. MaxOffers /\ readers[r].n \in 0 .. MaxOffers
      BY <1>1, <2>3 DEF Answers
    <3>3. /\ negotiatePc' \in [sig : {"stable", "have-local-offer"},
                               gather : {"new", "gathering", "complete"},
                               local : 0 .. MaxOffers, remote : 0 .. MaxOffers]
          /\ negotiatePc'.sig = "stable" /\ negotiatePc'.local = negotiatePc.local
          /\ negotiatePc'.remote = readers[r].n /\ negotiatePc'.gather = negotiatePc.gather
      BY <1>1, <3>1, <3>2
    <3>4. /\ transport' \in [renegotiate : BOOLEAN, restartAfterGathering : BOOLEAN]
          /\ transport'.renegotiate = FALSE
          /\ transport'.restartAfterGathering = transport.restartAfterGathering
          /\ candidates' \in [pending : SUBSET (1 .. MaxCandidates),
                              added : SUBSET (1 .. MaxCandidates)]
          /\ candidates'.pending = {}
      BY <1>1, <3>1
    <3>5. /\ spawned' \in 0 .. MaxOffers /\ spawned' <= offers
          /\ spawned > 0 \/ transport.renegotiate => spawned' > 0
          /\ offers > 0
      <4>1. spawned + 1 <= offers BY <1>0, <2>4 DEF NegotiationPhases
      <4> QED BY <1>1, <3>1, <4>1
    <3>6. ~Outstanding' BY <3>3 DEF Outstanding
    <3>7. NegotiationTyped'
      <4>1. negotiateCrossed' \in BOOLEAN BY <1>1, <2>1
      <4> QED BY <1>0, <1>2, <2>1, <2>2, <3>3, <3>4, <3>5, <4>1, NegotiationFacts, NegotiationTypes
    <3>8. NegotiationPhases'
      <4>1. (IF Outstanding' THEN 1 ELSE 0) = 0 BY <3>6
      <4>2. spawned' + 0 <= offers'
        <5>1. spawned' \in Nat /\ offers \in Nat /\ spawned' <= offers BY <1>1, <3>5
        <5> QED BY <2>1, <5>1, OneMore, Zenon
      <4>3. spawned' + (IF Outstanding' THEN 1 ELSE 0) <= offers' BY <4>1, <4>2, Zenon
      <4>4. offers' # 0 BY <1>1, <2>1, <3>5
      <4> QED BY <1>0, <2>1, <3>3, <3>4, <4>3, <4>4 DEF NegotiationPhases
    <3>9. Redone' <=> Redone BY <2>1, <3>4 DEF Redone
    <3>10. OfferAnswered' BY <3>6 DEF OfferAnswered
    <3>11. LatestOffered' BY <1>0, <2>1, <3>5, <3>9 DEF LatestOffered
    <3>12. RestartOffered' BY <1>0, <2>1, <3>9 DEF RestartOffered, LastRestart, NoRestart
    <3>13. OneInFlight'
      <4> SUFFICES ASSUME ~negotiateCrossed' PROVE OneInFlight' BY DEF OneInFlight
      <4>1. ~negotiateCrossed /\ r = negotiateResumes /\ Answering
        BY <1>1, <2>1 DEF Answering
      <4>2. /\ \A i \in 1 .. Len(negotiateToSFU) : FALSE
            /\ \A k \in 1 .. Len(negotiateFromSFU) : ~AnswerAt(k)
            /\ readers[r].n = negotiatePc.local
        BY <1>0, <4>1 DEF OneInFlight
      <4>3. ~Answering' /\ readers'[negotiateResumes'].type # "queue"
        BY <2>1, <2>2, <4>1 DEF Answering
      <4> QED BY <2>1, <3>3, <3>4, <4>2, <4>3 DEF OneInFlight, AnswerAt
    <3> QED BY <3>7, <3>8, <3>10, <3>11, <3>12, <3>13 DEF NegotiationInv
  <2>5. CASE ~Outstanding
    <3>1. UNCHANGED <<negotiatePc, candidates, transport, spawned>>
      BY <1>7, <2>5 DEF PN!SetRemoteDescription, Outstanding
    <3>2. NegotiationTyped'
      <4>1. negotiateCrossed' \in BOOLEAN BY <1>1, <2>1
      <4> QED BY <1>0, <1>2, <2>1, <2>2, <3>1, <4>1, NegotiationFacts, NegotiationTypes
    <3>3. NegotiationPhases' BY <1>0, <2>1, <3>1 DEF NegotiationPhases, Outstanding
    <3>4. Redone' <=> Redone BY <2>1, <3>1 DEF Redone
    <3>5. OfferAnswered' BY <2>5, <3>1 DEF OfferAnswered, Outstanding
    <3>6. LatestOffered' BY <1>0, <2>1, <3>1, <3>4 DEF LatestOffered
    <3>7. RestartOffered' BY <1>0, <2>1, <3>4 DEF RestartOffered, LastRestart, NoRestart
    <3>8. negotiateCrossed' BY <1>0, <2>1, <2>5 DEF OneInFlight, Answering
    <3> QED BY <3>2, <3>3, <3>5, <3>6, <3>7, <3>8 DEF NegotiationInv, OneInFlight
  <2> QED BY <2>4, <2>5
\* A reader that has a candidate.
<1>8. ASSUME NEW r \in NegLinks, readers[r].type \in {"candidate", "queue"},
             readers' \in [NegLinks -> HeldByReader],
             readers'[r].type \in {"none", "queue"},
             \A q \in NegLinks : q # r => readers'[q] = readers[q],
             \A q \in NegLinks : q > negotiateResumes => readers'[q] = PN!NoMessage,
             candidates' \in [pending : SUBSET (1 .. MaxCandidates),
                              added : SUBSET (1 .. MaxCandidates)],
             negotiateCrossed' \in BOOLEAN, negotiateCrossed => negotiateCrossed',
             \/ negotiateCrossed'
             \/ negotiatePc.remote = 0
             \/ candidates'.pending = candidates.pending /\ readers'[r].type = "none",
             UNCHANGED <<negotiateWant, negotiatePc, transport, timer, spawned, gatherer, worker,
                         joining, offers, negotiateToSFU, negotiateFromSFU, negotiateLink,
                         negotiateResumes, negotiateSfu, negotiateAsked, negotiateOvertaken,
                         latest, negotiateRefused>>
      PROVE  NegotiationInv'
  <2>1. NegotiationTyped' BY <1>0, <1>2, <1>8, NegotiationFacts, NegotiationTypes
  <2>2. NegotiationPhases' BY <1>0, <1>8 DEF NegotiationPhases, Outstanding
  <2>3. Redone' <=> Redone BY <1>8 DEF Redone
  <2>4. \A q \in NegLinks : readers'[q].type = "answer" <=> readers[q].type = "answer" BY <1>8
  <2>5. OfferAnswered' BY <1>0, <1>8, <2>3, <2>4 DEF OfferAnswered, Outstanding, AnswerAt
  <2>6. LatestOffered' BY <1>0, <1>8, <2>3 DEF LatestOffered
  <2>7. RestartOffered' BY <1>0, <1>8, <2>3 DEF RestartOffered, LastRestart, NoRestart
  <2>8. OneInFlight'
    <3> SUFFICES ASSUME ~negotiateCrossed' PROVE OneInFlight' BY DEF OneInFlight
    <3>1. Answering' <=> Answering BY <1>1, <1>8, <2>4 DEF Answering
    <3>2. Answering => readers'[negotiateResumes] = readers[negotiateResumes]
      BY <1>1, <1>8 DEF Answering
    <3>3. negotiatePc.remote # 0 =>
            candidates'.pending = {} /\ readers'[negotiateResumes].type # "queue"
      BY <1>0, <1>1, <1>8 DEF OneInFlight
    <3> QED BY <1>0, <1>8, <3>1, <3>2, <3>3 DEF OneInFlight, Outstanding, AnswerAt
  <2> QED BY <2>1, <2>2, <2>5, <2>6, <2>7, <2>8 DEF NegotiationInv
<1>9. ASSUME NEW r \in NegLinks, PN!AddICECandidate(r) PROVE NegotiationInv'
  <2>1. /\ readers[r].type = "candidate"
        /\ UNCHANGED <<negotiateWant, negotiatePc, transport, timer, spawned, gatherer, worker,
                       joining, offers, negotiateToSFU, negotiateFromSFU, negotiateLink,
                       negotiateResumes, negotiateSfu, negotiateAsked, negotiateOvertaken,
                       latest, negotiateRefused>>
    BY <1>9 DEF PN!AddICECandidate, PN!linkVars
  <2>2. readers[r] \in [type : {"candidate", "queue"}, n : 1 .. MaxCandidates]
    BY <1>2, <2>1 DEF HeldByReader, PN!NoMessage, Answers
  <2>3. CASE negotiatePc.remote = 0
    <3>1. /\ readers' = [readers EXCEPT ![r] = [readers[r] EXCEPT !.type = "queue"]]
          /\ UNCHANGED <<candidates, negotiateCrossed>>
      BY <1>9, <2>3 DEF PN!AddICECandidate
    <3>2. PICK m : m = [readers[r] EXCEPT !.type = "queue"] OBVIOUS
    <3>3. m \in HeldByReader /\ m.type = "queue" BY <2>2, <3>2 DEF HeldByReader
    <3>4. /\ readers' \in [NegLinks -> HeldByReader] /\ readers'[r].type = "queue"
          /\ \A q \in NegLinks : q # r => readers'[q] = readers[q]
      BY <1>2, <3>1, <3>2, <3>3
    <3>5. \A q \in NegLinks : q > negotiateResumes => readers'[q] = PN!NoMessage
      BY <1>2, <1>4, <2>1, <3>4
    <3> QED BY <1>1, <1>8, <2>1, <2>3, <3>1, <3>4, <3>5
  <2>4. CASE negotiatePc.remote # 0
    <3>1. /\ readers' = [readers EXCEPT ![r] = PN!NoMessage]
          /\ negotiateCrossed' = (negotiateCrossed \/ r # negotiateResumes)
          /\ candidates' = [candidates EXCEPT !.added = @ \cup {readers[r].n}]
      BY <1>9, <2>4 DEF PN!AddICECandidate, PN!Handled
    <3>2. candidates' \in [pending : SUBSET (1 .. MaxCandidates),
                           added : SUBSET (1 .. MaxCandidates)]
          /\ candidates'.pending = candidates.pending
      <4>1. readers[r].n \in 1 .. MaxCandidates BY <2>2
      <4> QED BY <1>1, <3>1, <4>1
    <3>3. negotiateCrossed' \in BOOLEAN /\ (negotiateCrossed => negotiateCrossed') BY <1>1, <3>1
    <3> QED BY <1>6, <1>8, <2>1, <3>1, <3>2, <3>3
  <2> QED BY <2>3, <2>4
<1>10. ASSUME NEW r \in NegLinks, PN!QueueCandidate(r) PROVE NegotiationInv'
  <2>1. /\ readers[r].type = "queue" /\ readers' = [readers EXCEPT ![r] = PN!NoMessage]
        /\ negotiateCrossed' = (negotiateCrossed \/ r # negotiateResumes)
        /\ candidates' = [candidates EXCEPT !.pending = @ \cup {readers[r].n}]
        /\ UNCHANGED <<negotiateWant, negotiatePc, transport, timer, spawned, gatherer, worker,
                       joining, offers, negotiateToSFU, negotiateFromSFU, negotiateLink,
                       negotiateResumes, negotiateSfu, negotiateAsked, negotiateOvertaken,
                       latest, negotiateRefused>>
    BY <1>10 DEF PN!QueueCandidate, PN!Handled, PN!linkVars
  <2>2. readers[r].n \in 1 .. MaxCandidates
    BY <1>2, <2>1 DEF HeldByReader, PN!NoMessage, Answers
  <2>3. candidates' \in [pending : SUBSET (1 .. MaxCandidates),
                         added : SUBSET (1 .. MaxCandidates)]
    BY <1>1, <2>1, <2>2
  <2>4. negotiateCrossed' \in BOOLEAN /\ (negotiateCrossed => negotiateCrossed') BY <1>1, <2>1
  <2>5. negotiateCrossed' \/ negotiatePc.remote = 0
    BY <1>0, <2>1 DEF OneInFlight
  <2> QED BY <1>6, <1>8, <2>1, <2>3, <2>4, <2>5
<1> QED BY <1>5, <1>7, <1>9, <1>10

\* The SFU answers, and sends its candidates.
LEMMA NegotiationServed ==
  ASSUME NegotiationInv, PN!Answer \/ PN!Trickle
  PROVE  NegotiationInv'
<1>0. /\ NegotiationTyped /\ NegotiationPhases /\ OfferAnswered /\ LatestOffered
      /\ RestartOffered /\ OneInFlight
  BY DEF NegotiationInv
<1>1. /\ negotiateSfu \in [n : 0 .. MaxOffers, want : 0 .. MaxChanges, ice : NegLinks,
                           sent : 0 .. MaxCandidates]
      /\ MaxOffers \in Nat /\ MaxCandidates \in Nat
  BY <1>0, NegotiationFacts
<1>2. /\ \A r \in NegLinks : r > negotiateResumes => readers[r] = PN!NoMessage
      /\ readers \in [NegLinks -> HeldByReader] /\ negotiateToSFU \in Seq(OffersToSFU)
      /\ negotiateFromSFU \in Seq(Answers \cup Trickled)
  BY <1>0 DEF NegotiationTyped
<1>3. PICK n \in Nat : n = Len(negotiateToSFU) BY <1>2, LenProperties
<1>4. PICK k \in Nat : k = Len(negotiateFromSFU) BY <1>2, LenProperties
<1>5. CASE PN!Answer
  <2>1. PICK o : o = Head(negotiateToSFU) OBVIOUS
  <2>2. PICK m : m = [type |-> "answer", n |-> o.n] OBVIOUS
  <2>3. /\ negotiateLink = "up" /\ negotiateToSFU # <<>>
        /\ negotiateSfu' = [negotiateSfu EXCEPT !.n = o.n, !.want = o.want,
                                                !.ice = IF o.ice = 0 THEN @ ELSE o.ice]
        /\ negotiateFromSFU' = Append(negotiateFromSFU, m)
        /\ negotiateToSFU' = Tail(negotiateToSFU)
        /\ UNCHANGED <<negotiateWant, negotiatePc, transport, candidates, timer, spawned, gatherer,
                       worker, joining, offers, negotiateLink, negotiateResumes, readers,
                       negotiateAsked, negotiateOvertaken, latest, negotiateCrossed, negotiateRefused>>
    BY <1>5, <2>1, <2>2 DEF PN!Answer, PN!ghosts, PN!offerGhosts
  <2>4. /\ n > 0 /\ o = negotiateToSFU[1] /\ o \in OffersToSFU
        /\ negotiateToSFU' \in Seq(OffersToSFU) /\ Len(negotiateToSFU') = n - 1
        /\ \A i \in 1 .. n - 1 : negotiateToSFU'[i] = negotiateToSFU[i + 1] /\ i + 1 \in 1 .. n
        /\ \A i \in 1 .. n : i = 1 \/ (i - 1 \in 1 .. n - 1
                                       /\ negotiateToSFU'[i - 1] = negotiateToSFU[i])
    BY <1>2, <1>3, <2>1, <2>3, HeadTaken
  <2>5. m \in Answers /\ m.type = "answer" /\ m.n = o.n
    BY <2>2, <2>4 DEF Answers, OffersToSFU
  <2>6. /\ negotiateFromSFU' \in Seq(Answers \cup Trickled)
        /\ Len(negotiateFromSFU') = k + 1 /\ negotiateFromSFU'[k + 1] = m
        /\ k + 1 \in 1 .. k + 1
        /\ \A i \in 1 .. k : negotiateFromSFU'[i] = negotiateFromSFU[i] /\ i \in 1 .. k + 1
        /\ \A i \in 1 .. k + 1 : i = k + 1 \/ i \in 1 .. k
    <3>1. m \in Answers \cup Trickled BY <2>5
    <3> QED BY <1>2, <1>4, <2>3, <3>1, LastAdded
  <2>7. /\ negotiateSfu' \in [n : 0 .. MaxOffers, want : 0 .. MaxChanges, ice : NegLinks,
                              sent : 0 .. MaxCandidates]
        /\ negotiateSfu'.want = o.want
        /\ negotiateSfu'.ice = IF o.ice = 0 THEN negotiateSfu.ice ELSE o.ice
    <3>1. o.n \in 0 .. MaxOffers /\ o.want \in 0 .. MaxChanges /\ o.ice \in NegLinks
      BY <1>1, <2>4 DEF OffersToSFU
    <3>2. PICK ice : ice = IF o.ice = 0 THEN negotiateSfu.ice ELSE o.ice OBVIOUS
    <3>3. ice \in NegLinks BY <1>1, <3>1, <3>2
    <3>4. negotiateSfu' = [negotiateSfu EXCEPT !.n = o.n, !.want = o.want, !.ice = ice]
      BY <2>3, <3>2
    <3> QED BY <1>1, <3>1, <3>2, <3>3, <3>4
  <2>8. NegotiationTyped'
    BY SMTT(30), <1>0, <1>2, <2>3, <2>4, <2>6, <2>7, NegotiationFacts, NegotiationTypes
  <2>9. NegotiationPhases' BY <1>0, <2>3 DEF NegotiationPhases, Outstanding
  <2>10. Redone' <=> Redone BY <2>3 DEF Redone
  <2>11. OfferAnswered'
    <3>1. AnswerAt(k + 1)' BY <2>5, <2>6 DEF AnswerAt
    <3> QED BY <2>6, <3>1 DEF OfferAnswered
  <2>12. LatestOffered'
    <3> SUFFICES ASSUME negotiateToSFU[n].want = negotiateWant PROVE LatestOffered'
      BY <1>0, <1>3, <2>3, <2>10 DEF LatestOffered
    <3>1. CASE n = 1
      <4>1. negotiateToSFU' = <<>> BY <2>4, <3>1, EmptySeq
      <4> QED BY <2>3, <2>4, <2>7, <3>1, <4>1 DEF LatestOffered
    <3>2. CASE n # 1
      <4>1. n - 1 \in 1 .. n - 1 /\ negotiateToSFU'[n - 1] = negotiateToSFU[n]
        BY <2>4, <3>2
      <4>2. negotiateToSFU' # <<>> BY <2>4, <3>2, EmptySeq
      <4> QED BY <2>3, <2>4, <4>1, <4>2 DEF LatestOffered
    <3> QED BY <3>1, <3>2
  <2>13. RestartOffered'
    <3> SUFFICES ASSUME ~negotiateOvertaken, ~Redone
                 PROVE  \/ \E i \in 1 .. n - 1 : LastRestart(i)'
                        \/ NoRestart' /\ negotiateSfu'.ice = negotiateAsked'
      BY <2>3, <2>4, <2>10 DEF RestartOffered
    <3>1. ASSUME NEW i \in 1 .. n, LastRestart(i), i # 1
          PROVE  i - 1 \in 1 .. n - 1 /\ LastRestart(i - 1)'
      <4>1. i - 1 \in 1 .. n - 1 /\ negotiateToSFU'[i - 1] = negotiateToSFU[i]
        BY <2>4, <3>1
      <4>2. ASSUME NEW j \in 1 .. n - 1, j > i - 1 PROVE negotiateToSFU'[j].ice = 0
        <5>1. j + 1 \in 1 .. n /\ j + 1 > i /\ negotiateToSFU'[j] = negotiateToSFU[j + 1]
          BY <2>4, <4>2
        <5> QED BY <1>3, <3>1, <5>1 DEF LastRestart
      <4> QED BY <2>3, <2>4, <3>1, <4>1, <4>2 DEF LastRestart
    <3>2. ASSUME \A j \in 1 .. n : j > 1 => negotiateToSFU[j].ice = 0 PROVE NoRestart'
      <4>1. ASSUME NEW j \in 1 .. n - 1 PROVE negotiateToSFU'[j].ice = 0
        <5>1. j + 1 \in 1 .. n /\ j + 1 > 1 /\ negotiateToSFU'[j] = negotiateToSFU[j + 1]
          BY <2>4
        <5> QED BY <3>2, <5>1
      <4> QED BY <2>4, <4>1 DEF NoRestart
    <3>3. ASSUME NEW i \in 1 .. n, LastRestart(i)
          PROVE  \/ \E j \in 1 .. n - 1 : LastRestart(j)'
                 \/ NoRestart' /\ negotiateSfu'.ice = negotiateAsked'
      <4>1. CASE i = 1
        <5>1. o.ice = negotiateAsked /\ o.ice # 0 BY <2>4, <3>3, <4>1 DEF LastRestart
        <5>2. NoRestart' BY <1>3, <3>2, <3>3, <4>1 DEF LastRestart
        <5> QED BY <2>3, <2>7, <5>1, <5>2
      <4> QED BY <3>1, <3>3, <4>1
    <3>4. ASSUME NoRestart, negotiateSfu.ice = negotiateAsked
          PROVE  NoRestart' /\ negotiateSfu'.ice = negotiateAsked'
      <4>1. 1 \in 1 .. n BY <2>4
      <4>2. o.ice = 0 BY <1>3, <2>4, <3>4, <4>1 DEF NoRestart
      <4> QED BY <1>3, <2>3, <2>7, <3>2, <3>4, <4>2 DEF NoRestart
    <3> QED BY <1>0, <1>3, <3>3, <3>4 DEF RestartOffered
  <2>14. OneInFlight'
    <3> SUFFICES ASSUME ~negotiateCrossed PROVE OneInFlight' BY <2>3 DEF OneInFlight
    <3>1. /\ 1 \in 1 .. n /\ n \in 1 .. n BY <2>4
    <3>2. /\ n = 1 /\ o.n = negotiatePc.local /\ Outstanding /\ latest = negotiateResumes
          /\ ~Answering /\ \A j \in 1 .. k : ~AnswerAt(j)
      BY <1>0, <1>3, <1>4, <2>4, <3>1 DEF OneInFlight
    <3>3. /\ Outstanding' /\ ~Answering' BY <2>3, <3>2 DEF Outstanding, Answering
    <3>4. \A j \in 1 .. k + 1 : AnswerAt(j)' => j = k + 1
      BY <1>4, <2>6, <3>2 DEF AnswerAt
    <3>5. Len(negotiateToSFU') = 0 BY <2>4, <3>2
    <3>6. negotiatePc.remote # 0 =>
            candidates.pending = {} /\ readers[negotiateResumes].type # "queue"
      BY <1>0 DEF OneInFlight
    <3>7. ASSUME NEW j \in 1 .. k + 1, AnswerAt(j)'
          PROVE  /\ negotiateFromSFU'[j].n = negotiatePc'.local
                 /\ \A i \in 1 .. k + 1 : AnswerAt(i)' => i = j
      BY <2>3, <2>5, <2>6, <3>2, <3>4, <3>7
    <3>8. \A i \in 1 .. Len(negotiateToSFU') : FALSE BY <3>5
    <3>9. latest' = negotiateResumes' BY <2>3, <3>2
    <3>10. negotiatePc'.remote # 0 =>
             candidates'.pending = {} /\ readers'[negotiateResumes'].type # "queue"
      BY <2>3, <3>6
    <3>11. \A j \in 1 .. Len(negotiateFromSFU') : AnswerAt(j)' =>
             /\ negotiateFromSFU'[j].n = negotiatePc'.local
             /\ \A i \in 1 .. Len(negotiateFromSFU') : AnswerAt(i)' => i = j
      BY <2>6, <3>7
    <3> QED BY <3>3, <3>8, <3>9, <3>10, <3>11 DEF OneInFlight
  <2> QED BY <2>8, <2>9, <2>11, <2>12, <2>13, <2>14 DEF NegotiationInv
<1>6. CASE PN!Trickle
  <2>1. PICK m : m = [type |-> "candidate", n |-> negotiateSfu.sent + 1] OBVIOUS
  <2>2. /\ negotiateLink = "up" /\ negotiateSfu.sent < MaxCandidates
        /\ negotiateSfu' = [negotiateSfu EXCEPT !.sent = @ + 1]
        /\ negotiateFromSFU' = Append(negotiateFromSFU, m)
        /\ UNCHANGED <<negotiateWant, negotiatePc, transport, candidates, timer, spawned, gatherer,
                       worker, joining, offers, negotiateToSFU, negotiateLink, negotiateResumes,
                       readers, negotiateAsked, negotiateOvertaken, latest, negotiateCrossed, negotiateRefused>>
    BY <1>6, <2>1 DEF PN!Trickle, PN!ghosts, PN!offerGhosts
  <2>3. negotiateSfu.sent + 1 \in 1 .. MaxCandidates
        /\ negotiateSfu.sent + 1 \in 0 .. MaxCandidates
    BY <1>1, <2>2
  <2>4. m \in Answers \cup Trickled /\ m.type = "candidate" BY <2>1, <2>3 DEF Trickled
  <2>5. /\ negotiateFromSFU' \in Seq(Answers \cup Trickled)
        /\ Len(negotiateFromSFU') = k + 1 /\ negotiateFromSFU'[k + 1] = m
        /\ \A i \in 1 .. k : negotiateFromSFU'[i] = negotiateFromSFU[i] /\ i \in 1 .. k + 1
        /\ \A i \in 1 .. k + 1 : i = k + 1 \/ i \in 1 .. k
    BY <1>2, <1>4, <2>2, <2>4, LastAdded
  <2>6. /\ negotiateSfu' \in [n : 0 .. MaxOffers, want : 0 .. MaxChanges, ice : NegLinks,
                              sent : 0 .. MaxCandidates]
        /\ negotiateSfu'.want = negotiateSfu.want /\ negotiateSfu'.ice = negotiateSfu.ice
    BY <1>1, <2>2, <2>3
  <2>7. NegotiationTyped'
    BY SMTT(30), <1>0, <1>2, <2>2, <2>5, <2>6, NegotiationFacts, NegotiationTypes
  <2>8. NegotiationPhases' BY <1>0, <2>2, <2>6 DEF NegotiationPhases, Outstanding
  <2>9. Redone' <=> Redone BY <2>2 DEF Redone
  <2>10. /\ \A j \in 1 .. k + 1 : AnswerAt(j)' => j \in 1 .. k /\ AnswerAt(j)
         /\ \A j \in 1 .. k : AnswerAt(j) => AnswerAt(j)' /\ j \in 1 .. k + 1
    BY <1>4, <2>4, <2>5 DEF AnswerAt
  <2>11. OfferAnswered' BY <1>0, <1>4, <2>2, <2>5, <2>9, <2>10 DEF OfferAnswered, Outstanding
  <2>12. LatestOffered' BY <1>0, <2>2, <2>6, <2>9 DEF LatestOffered
  <2>13. RestartOffered' BY <1>0, <2>2, <2>6, <2>9 DEF RestartOffered, LastRestart, NoRestart
  <2>14. OneInFlight'
    BY <1>0, <1>4, <2>2, <2>5, <2>10 DEF OneInFlight, Outstanding, Answering
  <2> QED BY <2>7, <2>8, <2>11, <2>12, <2>13, <2>14 DEF NegotiationInv
<1> QED BY <1>5, <1>6

LEMMA NegotiationStep == NegotiationInv /\ [Next]_vars => NegotiationInv'
<1>1. NegotiationInv /\ PN!Next => NegotiationInv'
  BY NegotiationAsks, NegotiationResumes, NegotiationReads, NegotiationServed
  DEF PN!Next, PN!Links, NegLinks
<1>2. NegotiationInv /\ UNCHANGED negotiateVars => NegotiationInv'
  BY DEF negotiateVars, NegotiationInv, NegotiationTyped, PN!TypeOK, NegotiationPhases,
         OfferAnswered, LatestOffered, RestartOffered, OneInFlight, Redone, Outstanding,
         Answering, AnswerAt, LastRestart, NoRestart
<1> QED BY <1>1, <1>2 DEF Next, vars

LEMMA NegotiationQuiet == NegotiationInv => NegotiationConverges
<1> SUFFICES ASSUME NegotiationInv
             PROVE  PN!TypeOK /\ PN!Converged /\ PN!RestartReachesSFU /\ PN!AnswersMatch
  BY DEF NegotiationConverges
<1>0. /\ NegotiationTyped /\ NegotiationPhases /\ OfferAnswered /\ LatestOffered
      /\ RestartOffered /\ OneInFlight
  BY DEF NegotiationInv
<1>1. negotiateToSFU \in Seq(OffersToSFU) /\ negotiateFromSFU \in Seq(Answers \cup Trickled)
  BY <1>0 DEF NegotiationTyped
<1>2. /\ negotiatePc.sig \in {"stable", "have-local-offer"} /\ spawned \in Nat
      /\ transport.restartAfterGathering \in BOOLEAN
  BY <1>0, NegotiationFacts
<1>3. ASSUME PN!Quiet, ~negotiateRefused
      PROVE  /\ ~Outstanding /\ negotiateSfu.want = negotiateWant
             /\ ~negotiateOvertaken => negotiateSfu.ice = negotiateAsked
  <2>1. /\ negotiateLink = "up" /\ Len(negotiateToSFU) = 0 /\ Len(negotiateFromSFU) = 0
        /\ negotiateToSFU = <<>> /\ worker = "idle" /\ ~timer /\ spawned = 0 /\ ~gatherer
        /\ negotiatePc.gather # "gathering"
        /\ \A r \in NegLinks : readers[r].type # "answer"
    BY <1>3 DEF PN!Quiet, PN!Gathering, PN!Links, NegLinks, PN!NoMessage
  <2>2. ~Redone BY <1>0, <1>3, <2>1 DEF Redone, NegotiationPhases
  <2>3. ~Outstanding BY <1>0, <2>1, <2>2 DEF OfferAnswered
  <2>4. ~transport.renegotiate BY <1>0, <2>3 DEF NegotiationPhases
  <2> QED BY <1>0, <1>2, <2>1, <2>2, <2>3, <2>4 DEF LatestOffered, RestartOffered
<1>4. PN!TypeOK BY <1>0 DEF NegotiationTyped
<1>5. PN!Converged BY <1>2, <1>3 DEF PN!Converged, Outstanding
<1>6. PN!RestartReachesSFU BY <1>3 DEF PN!RestartReachesSFU
<1>7. PN!AnswersMatch BY <1>0 DEF PN!AnswersMatch, OneInFlight, Outstanding
<1> QED BY <1>4, <1>5, <1>6, <1>7

\* However changes, timers, answers, gathering and resumes interleave: when nothing is
\* under way the SFU was offered the latest tracks and no offer waits for an answer, unless
\* pion refused the last ICE restart; the SFU got the ICE restart of the last resume, unless
\* it was refused or a plain offer overtook it; and the answer taken is the one to the latest
\* offer, unless answers crossed (transport.go 461-514).  The two constants switch off what
\* README section 6 reports.
THEOREM NegotiationAlwaysConverges ==
  ASSUME ~PublishInJoin, ~BadCandidates
  PROVE  Spec => []NegotiationConverges
<1>1. Init => NegotiationInv BY NegotiationInit
<1> QED BY <1>1, NegotiationStep, NegotiationQuiet, PTL DEF Spec

-----------------------------------------------------------------------------
(* The tracks published, over full reconnects.                             *)

\* Of a queue of messages: the attempts those of a type are about, whether there
\* is one message of the type about each, and the tracks of the last offer (those
\* of an earlier one when there is none).
Sids(s, type) == {s[i].sid : i \in {j \in 1 .. Len(s) : s[j].type = type}}
Once(s, type) == \A i, j \in 1 .. Len(s) :
  s[i].type = type /\ s[j].type = type /\ s[i].sid = s[j].sid => i = j
IsLast(s, i) == s[i].type = "offer" /\ \A j \in 1 .. Len(s) : j > i => s[j].type # "offer"
LastOffer(s, set) ==
  IF \E i \in 1 .. Len(s) : IsLast(s, i)
  THEN s[CHOOSE i \in 1 .. Len(s) : IsLast(s, i)].set ELSE set
\* An offer has the attempt k if one before it, or the tracks offered, had it.
Grows(s, set, k) ==
  \A j \in 1 .. Len(s) : s[j].type = "offer" =>
    /\ k \in set => k \in s[j].set
    /\ \A i \in 1 .. Len(s) : s[i].type = "offer" /\ i < j /\ k \in s[i].set => k \in s[j].set

\* Where an attempt's request is: on its way, answered, or about to be withdrawn.
Requested == Sids(publishToSFU, "add")
Accepted == Sids(publishFromSFU, "published")
Gone == Sids(publishFromSFU, "unpublished")

InCall(p) == publishProc[p].at \notin {"idle", "republish"}
Active(p) == publishProc[p].at \in {"register", "send", "wait", "add"}
Unsent(p) == publishProc[p].at \in {"register", "send"}
Current(p) == Active(p) /\ publishProc[p].session = publishSession
WaitsFor(p, k) == publishProc[p].at = "wait" /\ publishProc[p].k = k

Made == 1 .. attempts
AddRequests(own) ==
  {[type |-> "add", sid |-> k, cid |-> own[k], set |-> {}] : k \in Made}
OfferRequests == [type : {"offer"}, sid : {LP!None}, cid : {LP!None}, set : SUBSET Made]
Replies(own) ==
  {[type |-> t, sid |-> k, cid |-> own[k]] : t \in {"published", "unpublished"}, k \in Made}
\* A publication, or a track of the SFU, is an attempt's, with its track.
Publications(own) == {[sid |-> k, cid |-> own[k]] : k \in Made}
Places == {"idle", "register", "send", "wait", "add", "unregister", "republish"}

CallersTyped ==
  publishProc \in [LP!Procs -> [at : Places, k : 0 .. MaxAttempts, cid : Cids \cup {LP!None},
                                session : 0 .. MaxRestarts]]

PublishTyped(own) ==
  /\ attempts \in 0 .. MaxAttempts /\ publishSession \in 0 .. MaxRestarts
  /\ own \in [LP!Attempts -> Cids \cup {LP!None}] /\ \A k \in Made : own[k] \in Cids
  /\ CallersTyped
  /\ \A p \in LP!Procs :
       /\ publishProc[p].at = "idle" => publishProc[p] = LP!Rest
       /\ InCall(p) => /\ publishProc[p].k \in Made /\ publishProc[p].cid = own[publishProc[p].k]
                       /\ publishProc[p].session <= publishSession
  /\ chan \in [LP!Attempts -> 0 .. MaxAttempts]
  /\ \A k \in LP!Attempts : chan[k] # LP!None => chan[k] = k /\ k \in Made
  /\ listeners \in [Cids -> 0 .. MaxAttempts] /\ \A c \in Cids : listeners[c] <= attempts
  /\ publishReader \in [to : 0 .. MaxAttempts, sid : 0 .. attempts]
  /\ publishReader.to \in {LP!None, publishReader.sid}
  /\ publishPubs \subseteq Publications(own)
  /\ publishSfu \in [tracks : SUBSET Publications(own), offered : SUBSET Made]
  /\ publishSenders \subseteq Made /\ negotiate \in BOOLEAN /\ todo \subseteq Cids
  /\ publishToSFU \in Seq(AddRequests(own) \cup OfferRequests)
  /\ publishFromSFU \in Seq(Replies(own))
  /\ Len(publishToSFU) <= MaxInFlight /\ Len(publishFromSFU) <= MaxInFlight
  /\ publishLink \in {"up", "down"} /\ publishWanted \subseteq Cids /\ publishLost \subseteq Cids

PublishPhases ==
  /\ publishLink = "down" =>
       /\ publishToSFU = <<>> /\ publishFromSFU = <<>>
       /\ publishProc[Worker] = LP!Rest /\ publishSession < MaxRestarts
  /\ publishProc[Worker] = LP!Rest => todo = {}

\* An attempt is in one place: before its request, asked for, answered, with the
\* reader, or in its channel.
OnePlace ==
  /\ Once(publishToSFU, "add") /\ Once(publishFromSFU, "published")
  /\ \A p \in LP!Procs : Unsent(p) =>
       /\ publishProc[p].k \notin Requested \cup Accepted
       /\ publishReader.to # publishProc[p].k /\ chan[publishProc[p].k] = LP!None
  /\ \A k \in Requested : k \notin Accepted
  /\ \A k \in Requested \cup Accepted : publishReader.to # k /\ chan[k] = LP!None
  /\ publishReader.to # LP!None => chan[publishReader.to] = LP!None

\* A track's listener is that of its attempt, until the attempt gave up.
Listening(own) ==
  /\ \A p \in LP!Procs : publishProc[p].at = "send" =>
       listeners[publishProc[p].cid] \in {LP!None, publishProc[p].k}
  /\ \A k \in Requested \cup Accepted : listeners[own[k]] \in {LP!None, k}

\* A track is published, being published, or yet to republish, and once.
OneHolder ==
  /\ \A p, q \in LP!Procs : Active(p) /\ Active(q) /\ publishProc[p].cid = publishProc[q].cid => p = q
  /\ \A t \in publishPubs, p \in LP!Procs : Active(p) => publishProc[p].cid # t.cid
  /\ \A t, u \in publishPubs : t.cid = u.cid => t = u
  /\ \A c \in todo : /\ \A p \in LP!Procs : Active(p) => publishProc[p].cid # c
                     /\ \A t \in publishPubs : t.cid # c

\* Somebody waits for an answer under way, or its track is given up.
Awaited(own) ==
  \A k \in Requested \cup Accepted :
    /\ own[k] \notin todo
    /\ \A p \in LP!Procs : publishProc[p].at = "register" => publishProc[p].cid # own[k]
    /\ own[k] \in publishLost \/ \E p \in LP!Procs : WaitsFor(p, k)

WantedHeld ==
  \A c \in Cids \ publishLost :
    c \in publishWanted <=> \/ \E t \in publishPubs : t.cid = c
                            \/ c \in todo
                            \/ Active(Worker) /\ publishProc[Worker].cid = c

HaveSenders ==
  /\ \A t \in publishPubs : t.cid \notin publishLost => t.sid \in publishSenders
  /\ \A p \in LP!Procs : Current(p) => publishProc[p].k \in publishSenders
  /\ \A k \in publishSenders : Grows(publishToSFU, publishSfu.offered, k)

Offered(k) == negotiate \/ k \in LastOffer(publishToSFU, publishSfu.offered)
Forwarded(own, k) == LP!pub(k, own[k]) \in publishSfu.tracks \/ k \in Gone
Withdrawn == negotiate \/ LastOffer(publishToSFU, publishSfu.offered) \subseteq publishSenders
\* What the SFU has, the participant has published or is about to.
Expected(t) ==
  t.sid \in publishSenders /\ t.cid \notin publishLost =>
    \/ t \in publishPubs
    \/ \E p \in LP!Procs : publishProc[p].at \in {"wait", "add"} /\ publishProc[p].k = t.sid
\* What is published is offered and forwarded; what is being published will be
\* offered, and is forwarded once it is answered.
Kept(own, t) == t.cid \notin publishLost => Forwarded(own, t.sid) /\ Offered(t.sid)
AnsweredFor(p) ==
  \/ publishProc[p].at = "add" \/ publishReader.to = publishProc[p].k
  \/ chan[publishProc[p].k] # LP!None \/ publishProc[p].k \in Accepted
Underway(own, p) ==
  Current(p) /\ publishProc[p].cid \notin publishLost =>
    /\ publishProc[p].at \in {"wait", "add"} /\ publishProc[p].cid \notin Simulcast =>
         Offered(publishProc[p].k)
    /\ AnsweredFor(p) => Forwarded(own, publishProc[p].k)

ServedUp(own) ==
  publishLink = "up" =>
    /\ Withdrawn
    /\ \A t \in publishSfu.tracks : Expected(t)
    /\ \A t \in publishPubs : Kept(own, t)
    /\ \A p \in LP!Procs : Underway(own, p)

PublishInvOf(own) ==
  /\ PublishTyped(own) /\ PublishPhases /\ OnePlace /\ Listening(own) /\ OneHolder
  /\ Awaited(own) /\ WantedHeld /\ HaveSenders /\ ServedUp(own)

\* The track each attempt publishes is fixed when the attempt is made.
PublishInv == \E own \in [LP!Attempts -> Cids \cup {LP!None}] : PublishInvOf(own)

LEMMA NoMessages ==
  ASSUME NEW type, NEW set, NEW k
  PROVE  /\ Sids(<<>>, type) = {} /\ Once(<<>>, type)
         /\ LastOffer(<<>>, set) = set /\ Grows(<<>>, set, k)
<1>1. Len(<<>>) = 0 BY EmptySeq
<1> QED BY <1>1 DEF Sids, Once, LastOffer, Grows

LEMMA SidsAdded ==
  ASSUME NEW S, NEW s \in Seq(S), NEW e \in S, NEW type
  PROVE  /\ e.type # type => Sids(Append(s, e), type) = Sids(s, type)
         /\ e.type = type => Sids(Append(s, e), type) = Sids(s, type) \cup {e.sid}
         /\ Once(s, type) /\ (e.type = type => e.sid \notin Sids(s, type)) =>
              Once(Append(s, e), type)
<1>1. PICK n \in Nat : n = Len(s) BY LenProperties
<1>2. PICK m : m = Append(s, e) OBVIOUS
<1>3. /\ Len(m) = n + 1 /\ m[n + 1] = e
      /\ \A i \in 1 .. n : m[i] = s[i] /\ i \in 1 .. n + 1
      /\ \A i \in 1 .. n + 1 : i = n + 1 \/ i \in 1 .. n
  BY <1>1, <1>2, LastAdded
<1>4. n + 1 \in 1 .. n + 1 OBVIOUS
<1>5. \A k : k \in Sids(s, type) <=> \E i \in 1 .. n : s[i].type = type /\ s[i].sid = k
  BY <1>1 DEF Sids
<1>6. \A k : k \in Sids(m, type) <=> \E i \in 1 .. n + 1 : m[i].type = type /\ m[i].sid = k
  BY <1>3 DEF Sids
<1>7. \A k : k \in Sids(m, type) <=> k \in Sids(s, type) \/ (e.type = type /\ e.sid = k)
  <2>1. ASSUME NEW k, k \in Sids(m, type) PROVE k \in Sids(s, type) \/ (e.type = type /\ e.sid = k)
    BY <1>3, <1>5, <1>6, <2>1
  <2>2. ASSUME NEW k, k \in Sids(s, type) PROVE k \in Sids(m, type) BY <1>3, <1>5, <1>6, <2>2
  <2>3. e.type = type => e.sid \in Sids(m, type) BY <1>3, <1>4, <1>6
  <2> QED BY <2>1, <2>2, <2>3
<1>8. ASSUME Once(s, type), e.type = type => e.sid \notin Sids(s, type)
      PROVE  Once(m, type)
  <2> SUFFICES ASSUME NEW i \in 1 .. n + 1, NEW j \in 1 .. n + 1,
                      m[i].type = type, m[j].type = type, m[i].sid = m[j].sid
               PROVE  i = j
    BY <1>3 DEF Once
  <2> QED BY <1>1, <1>3, <1>5, <1>8 DEF Once
<1> QED BY <1>2, <1>7, <1>8

LEMMA SidsTaken ==
  ASSUME NEW S, NEW s \in Seq(S), s # <<>>, NEW type
  PROVE  /\ Head(s).type # type => Sids(Tail(s), type) = Sids(s, type)
         /\ Head(s).type = type => /\ Head(s).sid \in Sids(s, type)
                                   /\ Sids(s, type) = Sids(Tail(s), type) \cup {Head(s).sid}
                                   /\ Once(s, type) => Head(s).sid \notin Sids(Tail(s), type)
         /\ Once(s, type) => Once(Tail(s), type)
<1>1. PICK n \in Nat : n = Len(s) BY LenProperties
<1>2. PICK m : m = Tail(s) OBVIOUS
<1>3. PICK e : e = Head(s) OBVIOUS
<1>4. /\ Len(m) = n - 1 /\ s[1] = e /\ n > 0
      /\ \A i \in 1 .. n - 1 : m[i] = s[i + 1] /\ i + 1 \in 1 .. n
      /\ \A i \in 1 .. n : i = 1 \/ (i - 1 \in 1 .. n - 1 /\ m[i - 1] = s[i])
  BY <1>1, <1>2, <1>3, HeadTaken
<1>5. \A k : k \in Sids(s, type) <=> \E i \in 1 .. n : s[i].type = type /\ s[i].sid = k
  BY <1>1 DEF Sids
<1>6. \A k : k \in Sids(m, type) <=> \E i \in 1 .. n - 1 : m[i].type = type /\ m[i].sid = k
  BY <1>4 DEF Sids
<1>7. 1 \in 1 .. n BY <1>4
<1>8. \A k : k \in Sids(s, type) <=> k \in Sids(m, type) \/ (e.type = type /\ e.sid = k)
  <2>1. ASSUME NEW k, k \in Sids(s, type) PROVE k \in Sids(m, type) \/ (e.type = type /\ e.sid = k)
    <3>1. PICK i \in 1 .. n : s[i].type = type /\ s[i].sid = k BY <1>5, <2>1
    <3>2. CASE i = 1 BY <1>4, <3>1, <3>2
    <3>3. CASE i # 1
      <4>1. i - 1 \in 1 .. n - 1 /\ m[i - 1] = s[i] BY <1>4, <3>3
      <4> QED BY <1>6, <3>1, <4>1
    <3> QED BY <3>2, <3>3
  <2>2. ASSUME NEW k, k \in Sids(m, type) PROVE k \in Sids(s, type)
    <3>1. PICK i \in 1 .. n - 1 : m[i].type = type /\ m[i].sid = k BY <1>6, <2>2
    <3>2. i + 1 \in 1 .. n /\ m[i] = s[i + 1] BY <1>4
    <3> QED BY <1>5, <3>1, <3>2
  <2>3. e.type = type => e.sid \in Sids(s, type) BY <1>4, <1>5, <1>7
  <2> QED BY <2>1, <2>2, <2>3
<1>9. Once(s, type) => Once(m, type)
  <2> SUFFICES ASSUME Once(s, type), NEW i \in 1 .. n - 1, NEW j \in 1 .. n - 1,
                      m[i].type = type, m[j].type = type, m[i].sid = m[j].sid
               PROVE  i = j
    BY <1>4 DEF Once
  <2>1. i + 1 \in 1 .. n /\ j + 1 \in 1 .. n /\ m[i] = s[i + 1] /\ m[j] = s[j + 1] BY <1>4
  <2>2. i + 1 = j + 1 BY <1>1, <2>1 DEF Once
  <2> QED BY <2>2
<1>10. ASSUME Once(s, type), e.type = type, e.sid \in Sids(m, type) PROVE FALSE
  <2>1. PICK i \in 1 .. n - 1 : m[i].type = type /\ m[i].sid = e.sid BY <1>6, <1>10
  <2>2. i + 1 \in 1 .. n /\ s[i + 1] = m[i] BY <1>4
  <2>3. i + 1 = 1 BY <1>1, <1>4, <1>7, <1>10, <2>1, <2>2 DEF Once
  <2> QED BY <2>3
<1> QED BY <1>2, <1>3, <1>8, <1>9, <1>10

LEMMA TheLastOffer ==
  ASSUME NEW S, NEW s \in Seq(S), NEW set
  PROVE  /\ \A i \in 1 .. Len(s) : IsLast(s, i) => LastOffer(s, set) = s[i].set
         /\ (\A i \in 1 .. Len(s) : s[i].type # "offer") => LastOffer(s, set) = set
<1>1. PICK n \in Nat : n = Len(s) BY LenProperties
<1>2. ASSUME NEW i \in 1 .. n, IsLast(s, i) PROVE LastOffer(s, set) = s[i].set
  <2>1. PICK j : j = CHOOSE h \in 1 .. n : IsLast(s, h) OBVIOUS
  <2>2. j \in 1 .. n /\ IsLast(s, j) BY <1>2, <2>1
  <2>3. i = j BY <1>1, <1>2, <2>2 DEF IsLast
  <2> QED BY <1>1, <1>2, <2>1, <2>3 DEF LastOffer
<1> QED BY <1>1, <1>2 DEF LastOffer, IsLast

LEMMA LeastMember ==
  ASSUME NEW S \in SUBSET Nat, S # {}
  PROVE  \E x \in S : \A y \in S : x <= y
<1>1. \E x \in S : \A y \in S : ~(<<y, x>> \in OpToRel(<, Nat))
  BY WFMin, NatLessThanWellFounded
<1>2. \A x, y \in S : <<y, x>> \in OpToRel(<, Nat) <=> y < x
  <2> SUFFICES ASSUME NEW x \in S, NEW y \in S PROVE <<y, x>> \in OpToRel(<, Nat) <=> y < x
    OBVIOUS
  <2>1. x \in Nat /\ y \in Nat /\ <<y, x>> \in Nat \X Nat OBVIOUS
  <2> QED BY <2>1 DEF OpToRel
<1>3. \A x, y \in S : ~(y < x) => x <= y OBVIOUS
<1> QED BY <1>1, <1>2, <1>3

\* There is a last offer, or none.
LEMMA SomeOffer ==
  ASSUME NEW S, NEW s \in Seq(S)
  PROVE  \/ \A i \in 1 .. Len(s) : s[i].type # "offer"
         \/ \E i \in 1 .. Len(s) : IsLast(s, i)
<1>1. PICK n \in Nat : n = Len(s) BY LenProperties
<1> DEFINE After == {n - i : i \in {j \in 1 .. n : s[j].type = "offer"}}
<1>2. ASSUME NEW i \in 1 .. n, s[i].type = "offer" PROVE \E j \in 1 .. n : IsLast(s, j)
  <2>1. After \in SUBSET Nat /\ After # {} BY <1>2
  <2>2. PICK x \in After : \A y \in After : x <= y BY <2>1, LeastMember
  <2>3. PICK j \in 1 .. n : s[j].type = "offer" /\ x = n - j BY <2>2
  <2>4. ASSUME NEW h \in 1 .. n, h > j, s[h].type = "offer" PROVE FALSE
    <3>1. n - h \in After BY <2>4
    <3>2. n - j <= n - h BY <2>2, <2>3, <3>1
    <3> QED BY <2>4, <3>2
  <2> QED BY <1>1, <2>3, <2>4 DEF IsLast
<1> QED BY <1>1, <1>2

LEMMA OfferAdded ==
  ASSUME NEW S, NEW s \in Seq(S), NEW e \in S, NEW set
  PROVE  /\ LastOffer(Append(s, e), set) = IF e.type = "offer" THEN e.set ELSE LastOffer(s, set)
         /\ \A k : Grows(s, set, k) /\ (e.type = "offer" => k \in e.set) =>
                     Grows(Append(s, e), set, k)
<1>1. PICK n \in Nat : n = Len(s) BY LenProperties
<1>2. PICK m : m = Append(s, e) OBVIOUS
<1>3. /\ m \in Seq(S) /\ Len(m) = n + 1 /\ m[n + 1] = e /\ n + 1 \in 1 .. n + 1
      /\ \A i \in 1 .. n : m[i] = s[i] /\ i \in 1 .. n + 1
      /\ \A i \in 1 .. n + 1 : i = n + 1 \/ i \in 1 .. n
  BY <1>1, <1>2, LastAdded
<1>4. ASSUME e.type = "offer" PROVE LastOffer(m, set) = e.set
  <2>1. IsLast(m, n + 1) BY <1>3, <1>4 DEF IsLast
  <2>2. LastOffer(m, set) = m[n + 1].set BY <1>3, <2>1, TheLastOffer
  <2> QED BY <1>3, <2>2
<1>5. ASSUME e.type # "offer" PROVE LastOffer(m, set) = LastOffer(s, set)
  <2>1. CASE \A i \in 1 .. n : s[i].type # "offer"
    <3>1. \A i \in 1 .. n + 1 : m[i].type # "offer" BY <1>3, <1>5, <2>1
    <3>2. LastOffer(m, set) = set BY <1>3, <3>1, TheLastOffer
    <3>3. LastOffer(s, set) = set BY <1>1, <2>1, TheLastOffer
    <3> QED BY <3>2, <3>3
  <2>2. ASSUME NEW i \in 1 .. n, IsLast(s, i)
        PROVE  LastOffer(m, set) = LastOffer(s, set)
    <3>1. IsLast(m, i) BY <1>1, <1>3, <1>5, <2>2 DEF IsLast
    <3> QED BY <1>1, <1>3, <2>2, <3>1, TheLastOffer
  <2>3. \/ \A i \in 1 .. n : s[i].type # "offer"
        \/ \E i \in 1 .. n : IsLast(s, i)
    BY <1>1, SomeOffer
  <2> QED BY <2>1, <2>2, <2>3
<1>6. ASSUME NEW k, Grows(s, set, k), e.type = "offer" => k \in e.set
      PROVE  Grows(m, set, k)
  <2> SUFFICES ASSUME NEW j \in 1 .. n + 1, m[j].type = "offer"
               PROVE  /\ k \in set => k \in m[j].set
                      /\ \A i \in 1 .. n + 1 :
                           m[i].type = "offer" /\ i < j /\ k \in m[i].set => k \in m[j].set
    BY <1>3 DEF Grows
  <2>1. CASE j = n + 1 BY <1>3, <1>6, <2>1
  <2>2. CASE j \in 1 .. n
    <3>1. \A i \in 1 .. n + 1 : i < j => i \in 1 .. n BY <2>2
    <3> QED BY <1>1, <1>3, <1>6, <2>2, <3>1 DEF Grows
  <2> QED BY <1>3, <2>1, <2>2
<1> QED BY <1>2, <1>4, <1>5, <1>6

LEMMA OfferTaken ==
  ASSUME NEW S, NEW s \in Seq(S), s # <<>>, NEW set, NEW now,
         now = IF Head(s).type = "offer" THEN Head(s).set ELSE set
  PROVE  /\ LastOffer(Tail(s), now) = LastOffer(s, set)
         /\ \A k : Grows(s, set, k) => Grows(Tail(s), now, k) /\ (k \in set => k \in now)
<1>1. PICK n \in Nat : n = Len(s) BY LenProperties
<1>2. PICK m : m = Tail(s) OBVIOUS
<1>3. PICK e : e = Head(s) OBVIOUS
<1>4. /\ m \in Seq(S) /\ Len(m) = n - 1 /\ s[1] = e /\ n > 0 /\ 1 \in 1 .. n
      /\ \A i \in 1 .. n - 1 : m[i] = s[i + 1] /\ i + 1 \in 1 .. n
      /\ \A i \in 1 .. n : i = 1 \/ (i - 1 \in 1 .. n - 1 /\ m[i - 1] = s[i])
  BY <1>1, <1>2, <1>3, HeadTaken
<1>5. ASSUME NEW i \in 1 .. n - 1, IsLast(m, i)
      PROVE  LastOffer(m, now) = LastOffer(s, set)
  <2>1. IsLast(s, i + 1)
    <3>1. ASSUME NEW j \in 1 .. n, j > i + 1 PROVE s[j].type # "offer"
      <4>1. j - 1 \in 1 .. n - 1 /\ m[j - 1] = s[j] /\ j - 1 > i BY <1>4, <3>1
      <4> QED BY <1>4, <1>5, <4>1 DEF IsLast
    <3> QED BY <1>1, <1>4, <1>5, <3>1 DEF IsLast
  <2> QED BY <1>1, <1>4, <1>5, <2>1, TheLastOffer
<1>6. ASSUME \A i \in 1 .. n - 1 : m[i].type # "offer"
      PROVE  LastOffer(m, now) = LastOffer(s, set)
  <2>1. LastOffer(m, now) = now BY <1>4, <1>6, TheLastOffer
  <2>2. \A j \in 1 .. n : j > 1 => s[j].type # "offer"
    <3>1. \A j \in 1 .. n : j = 1 \/ s[j].type # "offer" BY <1>4, <1>6
    <3> QED BY <3>1
  <2>3. CASE e.type = "offer"
    <3>1. IsLast(s, 1) BY <1>1, <1>4, <2>2, <2>3 DEF IsLast
    <3>2. LastOffer(s, set) = e.set BY <1>1, <1>4, <3>1, TheLastOffer
    <3> QED BY <1>3, <2>1, <2>3, <3>2
  <2>4. CASE e.type # "offer"
    <3>1. \A j \in 1 .. n : s[j].type # "offer" BY <1>4, <2>2, <2>4
    <3>2. LastOffer(s, set) = set BY <1>1, <3>1, TheLastOffer
    <3> QED BY <1>3, <2>1, <2>4, <3>2
  <2> QED BY <2>3, <2>4
<1>7. LastOffer(m, now) = LastOffer(s, set)
  <2>1. \/ \A i \in 1 .. n - 1 : m[i].type # "offer"
        \/ \E i \in 1 .. n - 1 : IsLast(m, i)
    BY <1>4, SomeOffer
  <2> QED BY <1>5, <1>6, <2>1
<1>8. ASSUME NEW k, Grows(s, set, k) PROVE Grows(m, now, k) /\ (k \in set => k \in now)
  <2>1. k \in set => k \in now BY <1>1, <1>3, <1>4, <1>8 DEF Grows
  <2> SUFFICES ASSUME NEW j \in 1 .. n - 1, m[j].type = "offer"
               PROVE  /\ k \in now => k \in m[j].set
                      /\ \A i \in 1 .. n - 1 :
                           m[i].type = "offer" /\ i < j /\ k \in m[i].set => k \in m[j].set
    BY <1>4, <2>1 DEF Grows
  <2>2. j + 1 \in 1 .. n /\ m[j] = s[j + 1] /\ 1 < j + 1 BY <1>4
  <2>3. /\ k \in set => k \in m[j].set
        /\ \A i \in 1 .. n : s[i].type = "offer" /\ i < j + 1 /\ k \in s[i].set => k \in m[j].set
    BY <1>1, <1>8, <2>2 DEF Grows
  <2>4. ASSUME NEW i \in 1 .. n - 1, m[i].type = "offer", i < j, k \in m[i].set
        PROVE  k \in m[j].set
    <3>1. i + 1 \in 1 .. n /\ m[i] = s[i + 1] /\ i + 1 < j + 1 BY <1>4, <2>4
    <3> QED BY <2>3, <2>4, <3>1
  <2>5. k \in now => k \in m[j].set BY <1>3, <1>4, <2>2, <2>3
  <2> QED BY <2>4, <2>5
<1> QED BY <1>2, <1>7, <1>8

LEMMA PublishBounds ==
  /\ MaxAttempts \in Nat /\ MaxRestarts \in Nat /\ MaxInFlight \in Nat /\ MaxInFlight # 0
  /\ Simulcast \subseteq Cids /\ Worker \in LP!Procs /\ LP!Attempts = 1 .. MaxAttempts
  /\ LP!None = 0 /\ LP!Rest = [at |-> "idle", k |-> 0, cid |-> 0, session |-> 0]
BY Bounds DEF LP!PublicationsAssumption, LP!Procs, LP!Attempts, LP!None, LP!Rest

LEMMA PublishParts ==
  ASSUME NEW own, PublishInvOf(own)
  PROVE  /\ PublishTyped(own) /\ PublishPhases /\ OnePlace /\ Listening(own) /\ OneHolder
         /\ Awaited(own) /\ WantedHeld /\ HaveSenders /\ ServedUp(own)
BY DEF PublishInvOf

\* What the messages under way are about.
LEMMA PublishMessages ==
  ASSUME NEW own, PublishTyped(own)
  PROVE  /\ Requested \subseteq Made /\ Accepted \subseteq Made /\ Gone \subseteq Made
         /\ \A k \in Made : own[k] \in Cids /\ k \in LP!Attempts /\ k # 0
<1>1. /\ publishToSFU \in Seq(AddRequests(own) \cup OfferRequests)
      /\ publishFromSFU \in Seq(Replies(own))
  BY DEF PublishTyped
<1>2. \A i \in 1 .. Len(publishToSFU) : publishToSFU[i] \in AddRequests(own) \cup OfferRequests
  BY <1>1, ElementOfSeq
<1>3. \A i \in 1 .. Len(publishFromSFU) : publishFromSFU[i] \in Replies(own)
  BY <1>1, ElementOfSeq
<1>4. Requested \subseteq Made BY <1>2 DEF Requested, Sids, AddRequests, OfferRequests
<1>5. Accepted \subseteq Made /\ Gone \subseteq Made BY <1>3 DEF Accepted, Gone, Sids, Replies
<1>6. \A k \in Made : own[k] \in Cids /\ k \in LP!Attempts /\ k # 0
  <2>1. attempts \in 0 .. MaxAttempts /\ \A k \in Made : own[k] \in Cids BY DEF PublishTyped
  <2>2. MaxAttempts \in Nat /\ LP!Attempts = 1 .. MaxAttempts BY PublishBounds
  <2> QED BY <2>1, <2>2 DEF Made
<1> QED BY <1>4, <1>5, <1>6

\* The queues stay, and what the SFU was told.
QueuesSame(own) ==
  /\ Requested' = Requested /\ Accepted' = Accepted /\ Gone' = Gone /\ Made' = Made
  /\ OfferRequests' = OfferRequests /\ AddRequests(own)' = AddRequests(own)
  /\ Replies(own)' = Replies(own) /\ Publications(own)' = Publications(own)
  /\ Once(publishToSFU, "add")' = Once(publishToSFU, "add")
  /\ Once(publishFromSFU, "published")' = Once(publishFromSFU, "published")
  /\ LastOffer(publishToSFU, publishSfu.offered)' = LastOffer(publishToSFU, publishSfu.offered)
  /\ \A k : Grows(publishToSFU, publishSfu.offered, k)' = Grows(publishToSFU, publishSfu.offered, k)

LEMMA PublishQuiet ==
  ASSUME NEW own, UNCHANGED <<publishToSFU, publishFromSFU, attempts>>,
         publishSfu'.offered = publishSfu.offered
  PROVE  QueuesSame(own)
<1>1. /\ Requested' = Requested /\ Accepted' = Accepted /\ Gone' = Gone /\ Made' = Made
  BY DEF Requested, Accepted, Gone, Made, Sids
<1>2. /\ OfferRequests' = OfferRequests /\ AddRequests(own)' = AddRequests(own)
      /\ Replies(own)' = Replies(own) /\ Publications(own)' = Publications(own)
  BY <1>1 DEF AddRequests, OfferRequests, Replies, Publications
<1>3. /\ Once(publishToSFU, "add")' = Once(publishToSFU, "add")
      /\ Once(publishFromSFU, "published")' = Once(publishFromSFU, "published")
  BY DEF Once
<1>4. /\ LastOffer(publishToSFU, publishSfu.offered)' = LastOffer(publishToSFU, publishSfu.offered)
      /\ \A k : Grows(publishToSFU, publishSfu.offered, k)'
                   = Grows(publishToSFU, publishSfu.offered, k)
  BY DEF LastOffer, Grows, IsLast
<1> QED BY <1>1, <1>2, <1>3, <1>4 DEF QueuesSame

\* A caller that goes from one place to another.
Moves(p, at) ==
  /\ publishProc'[p].at = at /\ publishProc'[p].k = publishProc[p].k
  /\ publishProc'[p].cid = publishProc[p].cid
  /\ publishProc'[p].session = publishProc[p].session
  /\ \A q \in LP!Procs : q # p => publishProc'[q] = publishProc[q]

LEMMA PublishMoves ==
  ASSUME NEW own, PublishTyped(own), NEW p \in LP!Procs, NEW at \in Places,
         publishProc' = [publishProc EXCEPT ![p].at = at]
  PROVE  CallersTyped' /\ Moves(p, at)
<1>1. publishProc \in [LP!Procs -> [at : Places, k : 0 .. MaxAttempts, cid : Cids \cup {LP!None},
                                    session : 0 .. MaxRestarts]]
  BY DEF PublishTyped, CallersTyped
<1>2. publishProc'[p] = [publishProc[p] EXCEPT !.at = at] BY <1>1
<1>3. CallersTyped' BY <1>1 DEF CallersTyped
<1> QED BY <1>1, <1>2, <1>3 DEF Moves

\* What is known of a caller's attempt.
LEMMA PublishCaller ==
  ASSUME NEW own, PublishTyped(own), NEW p \in LP!Procs, InCall(p)
  PROVE  /\ publishProc[p].k \in Made /\ publishProc[p].k \in LP!Attempts
         /\ publishProc[p].k # 0 /\ attempts \in Nat
         /\ publishProc[p].cid = own[publishProc[p].k] /\ publishProc[p].cid \in Cids
         /\ publishProc[p].session <= publishSession
<1>1. /\ publishProc[p].k \in Made /\ publishProc[p].cid = own[publishProc[p].k]
      /\ publishProc[p].session <= publishSession
  BY DEF PublishTyped
<1>2. attempts \in Nat BY PublishBounds DEF PublishTyped
<1> QED BY <1>1, <1>2, PublishMessages

LEMMA PublishRegisters ==
  ASSUME NEW own, PublishInvOf(own), NEW p \in LP!Procs, LP!RegisterTrackPublishedListener(p)
  PROVE  PublishInvOf(own)'
<1>0. /\ PublishTyped(own) /\ PublishPhases /\ OnePlace /\ Listening(own) /\ OneHolder
      /\ Awaited(own) /\ WantedHeld /\ HaveSenders /\ ServedUp(own)
  BY PublishParts
<1>1. PICK c : c = publishProc[p].cid OBVIOUS
<1>2. PICK k : k = publishProc[p].k OBVIOUS
<1>3. /\ publishProc[p].at = "register" /\ listeners' = [listeners EXCEPT ![c] = k]
      /\ publishProc' = [publishProc EXCEPT ![p].at = "send"]
      /\ UNCHANGED <<attempts, chan, publishPubs, publishSenders, negotiate, todo, publishReader,
                     publishSfu, publishToSFU, publishFromSFU, publishLink, publishSession,
                     publishWanted, publishLost>>
  BY <1>1, <1>2 DEF LP!RegisterTrackPublishedListener, LP!Goto, LP!linkVars, LP!ghosts
<1>4. QueuesSame(own) BY <1>3, PublishQuiet
<1>5. k \in Made /\ c = own[k] /\ c \in Cids /\ attempts \in Nat
  BY <1>0, <1>1, <1>2, <1>3, PublishCaller DEF InCall
<1>6. CallersTyped' /\ Moves(p, "send") BY <1>0, <1>3, PublishMoves DEF Places
<1>7. \A q \in LP!Procs : /\ Active(q)' <=> Active(q)
                          /\ Unsent(q)' <=> Unsent(q)
                          /\ InCall(q)' <=> InCall(q)
                          /\ Current(q)' <=> Current(q)
                          /\ \A h : WaitsFor(q, h)' <=> WaitsFor(q, h)
                          /\ publishProc'[q].k = publishProc[q].k
                          /\ publishProc'[q].cid = publishProc[q].cid
                          /\ publishProc'[q].session = publishProc[q].session
                          /\ publishProc'[q].at # "send" => publishProc'[q].at = publishProc[q].at
  BY <1>1, <1>2, <1>3, <1>6 DEF Moves, Active, Unsent, InCall, Current, WaitsFor
<1>8. /\ listeners' \in [Cids -> 0 .. MaxAttempts] /\ listeners'[c] = k
      /\ \A d \in Cids : listeners'[d] \in {k, listeners[d]} /\ listeners'[d] <= attempts
  BY <1>0, <1>3, <1>5, PublishBounds DEF PublishTyped, Made
<1>9. PublishTyped(own)' BY <1>0, <1>3, <1>4, <1>6, <1>7, <1>8 DEF PublishTyped, QueuesSame, Moves
<1>10. PublishPhases' BY <1>0, <1>3, <1>6, PublishBounds DEF PublishPhases, Moves
<1>11. OnePlace' BY <1>0, <1>3, <1>4, <1>7 DEF OnePlace, QueuesSame
<1>12. Listening(own)'
  BY <1>0, <1>1, <1>2, <1>3, <1>4, <1>5, <1>6, <1>7, <1>8, PublishMessages DEF Listening, OneHolder, Awaited, Active, QueuesSame, Moves
<1>13. OneHolder' BY <1>0, <1>3, <1>7 DEF OneHolder
<1>14. Awaited(own)' BY <1>0, <1>3, <1>4, <1>7 DEF Awaited, QueuesSame
<1>15. WantedHeld' BY <1>0, <1>3, <1>7, PublishBounds DEF WantedHeld
<1>16. HaveSenders' BY <1>0, <1>3, <1>4, <1>7 DEF HaveSenders, QueuesSame
<1>17. ServedUp(own)'
  BY <1>0, <1>3, <1>4, <1>7 DEF ServedUp, Withdrawn, Expected, Kept, Underway, AnsweredFor, Forwarded, Offered, QueuesSame
<1> QED BY <1>9, <1>10, <1>11, <1>12, <1>13, <1>14, <1>15, <1>16, <1>17 DEF PublishInvOf

\* A caller gives its track up: no answer came, or the request was not sent.
LEMMA PublishGivesUp ==
  ASSUME NEW own, PublishInvOf(own), NEW p \in LP!Procs,
         publishProc[p].at \in {"send", "wait"},
         publishProc' = [publishProc EXCEPT ![p].at = "unregister"],
         publishLost' = publishLost \cup {publishProc[p].cid},
         UNCHANGED <<attempts, chan, listeners, publishPubs, publishSenders, negotiate, todo,
                     publishReader, publishSfu, publishToSFU, publishFromSFU, publishLink,
                     publishSession, publishWanted>>
  PROVE  PublishInvOf(own)'
<1>0. /\ PublishTyped(own) /\ PublishPhases /\ OnePlace /\ Listening(own) /\ OneHolder
      /\ Awaited(own) /\ WantedHeld /\ HaveSenders /\ ServedUp(own)
  BY PublishParts
<1>1. PICK c : c = publishProc[p].cid OBVIOUS
<1>2. /\ publishProc[p].at \in {"send", "wait"} /\ publishLost' = publishLost \cup {c}
      /\ UNCHANGED <<attempts, chan, listeners, publishPubs, publishSenders, negotiate, todo,
                     publishReader, publishSfu, publishToSFU, publishFromSFU, publishLink,
                     publishSession, publishWanted>>
  BY <1>1
<1>3. QueuesSame(own) BY <1>2, PublishQuiet
<1>4. /\ publishProc[p].k \in Made /\ c = own[publishProc[p].k] /\ c \in Cids
      /\ publishProc[p].session <= publishSession
  BY <1>0, <1>1, <1>2, PublishCaller DEF InCall
<1>5. CallersTyped' /\ Moves(p, "unregister") BY <1>0, PublishMoves DEF Places
<1>6. \A q \in LP!Procs : /\ Active(q)' => Active(q) /\ q # p /\ publishProc'[q] = publishProc[q]
                          /\ Unsent(q)' => Unsent(q)
                          /\ InCall(q)' => InCall(q)
                          /\ Current(q)' => Current(q)
                          /\ q # p /\ Active(q) => Active(q)'
                          /\ \A h : WaitsFor(q, h) => WaitsFor(q, h)' \/ (q = p /\ h = publishProc[p].k)
                          /\ publishProc'[q].k = publishProc[q].k
                          /\ publishProc'[q].cid = publishProc[q].cid
                          /\ publishProc'[q].session = publishProc[q].session
                          /\ q = p \/ publishProc'[q] = publishProc[q]
  BY <1>1, <1>2, <1>5 DEF Moves, Active, Unsent, InCall, Current, WaitsFor
<1>7. PublishTyped(own)'
  <2>1. \A q \in LP!Procs :
          /\ publishProc'[q].at = "idle" => publishProc'[q] = LP!Rest
          /\ InCall(q)' => /\ publishProc'[q].k \in Made /\ publishProc'[q].cid = own[publishProc'[q].k]
                           /\ publishProc'[q].session <= publishSession
    BY SMTT(30), <1>0, <1>1, <1>4, <1>5, <1>6 DEF PublishTyped, Moves
  <2> QED BY <1>0, <1>2, <1>3, <1>4, <1>5, <2>1 DEF PublishTyped, QueuesSame, Moves
<1>8. PublishPhases' BY <1>0, <1>2, <1>5, PublishBounds DEF PublishPhases, Moves
<1>9. OnePlace' BY <1>0, <1>2, <1>3, <1>6 DEF OnePlace, QueuesSame
<1>10. Listening(own)'
  BY <1>0, <1>2, <1>3, <1>5 DEF Listening, QueuesSame, Moves
<1>11. OneHolder' BY <1>0, <1>2, <1>6 DEF OneHolder
<1>12. Awaited(own)'
  BY <1>0, <1>2, <1>3, <1>4, <1>5, <1>6 DEF Awaited, QueuesSame, Moves
<1>13. WantedHeld' BY <1>0, <1>1, <1>2, <1>6, PublishBounds DEF WantedHeld
<1>14. HaveSenders' BY <1>0, <1>2, <1>3, <1>6 DEF HaveSenders, QueuesSame
<1>15. ServedUp(own)'
  <2> SUFFICES ASSUME publishLink = "up" PROVE ServedUp(own)' BY <1>2 DEF ServedUp
  <2>1. Withdrawn' BY <1>0, <1>2, <1>3 DEF ServedUp, Withdrawn, QueuesSame
  <2>2. \A t \in publishSfu.tracks : Expected(t)'
    <3>1. \A t \in publishSfu.tracks : t.cid = own[t.sid] BY <1>0 DEF PublishTyped, Publications
    <3> QED BY <1>0, <1>2, <1>4, <1>6, <3>1 DEF ServedUp, Expected
  <2>3. \A t \in publishPubs : Kept(own, t)'
    BY <1>0, <1>2, <1>3 DEF ServedUp, Kept, Forwarded, Offered, QueuesSame
  <2>4. \A q \in LP!Procs : Underway(own, q)'
    BY <1>0, <1>2, <1>3, <1>6 DEF ServedUp, Underway, Current, AnsweredFor, Forwarded, Offered, QueuesSame
  <2> QED BY <1>2, <2>1, <2>2, <2>3, <2>4 DEF ServedUp
<1> QED BY <1>7, <1>8, <1>9, <1>10, <1>11, <1>12, <1>13, <1>14, <1>15 DEF PublishInvOf

\* A caller is done with its attempt, or the worker with all of them.
Rests(p) ==
  /\ publishProc[p].at \in {"unregister", "republish"}
  /\ publishProc'[p] \in {LP!Rest, [LP!Rest EXCEPT !.at = "republish"]}
  /\ p = Worker /\ publishProc'[p] = LP!Rest => todo = {}
  /\ \A q \in LP!Procs : q # p => publishProc'[q] = publishProc[q]
Dropped ==
  /\ listeners' \in [Cids -> 0 .. MaxAttempts]
  /\ \A d \in Cids : listeners'[d] \in {LP!None, listeners[d]}

LEMMA PublishRests ==
  ASSUME NEW own, PublishInvOf(own), NEW p \in LP!Procs, Rests(p), Dropped, CallersTyped',
         publishLost' \subseteq Cids, publishLost \subseteq publishLost',
         UNCHANGED <<attempts, chan, publishPubs, publishSenders, negotiate, todo, publishReader,
                     publishSfu, publishToSFU, publishFromSFU, publishLink, publishSession,
                     publishWanted>>
  PROVE  PublishInvOf(own)'
<1>0. /\ PublishTyped(own) /\ PublishPhases /\ OnePlace /\ Listening(own) /\ OneHolder
      /\ Awaited(own) /\ WantedHeld /\ HaveSenders /\ ServedUp(own)
  BY PublishParts
<1>2. PICK r : r = publishProc'[p] OBVIOUS
<1>3. /\ publishProc[p].at \in {"unregister", "republish"}
      /\ UNCHANGED <<attempts, chan, publishPubs, publishSenders, negotiate, todo, publishReader,
                     publishSfu, publishToSFU, publishFromSFU, publishLink, publishSession,
                     publishWanted>>
  BY DEF Rests
<1>4. QueuesSame(own) BY <1>3, PublishQuiet
<1>6. /\ r.at \in {"idle", "republish"} /\ (r.at = "idle" => r = LP!Rest)
      /\ (p = Worker /\ r = LP!Rest => todo = {})
  BY <1>2, PublishBounds DEF Rests
<1>7. /\ CallersTyped'
      /\ publishProc'[p] = r /\ \A q \in LP!Procs : q # p => publishProc'[q] = publishProc[q]
  BY <1>2 DEF Rests
<1>8. \A q \in LP!Procs : /\ Active(q)' <=> Active(q)
                          /\ Unsent(q)' <=> Unsent(q)
                          /\ InCall(q)' => InCall(q)
                          /\ Current(q)' <=> Current(q)
                          /\ \A h : WaitsFor(q, h)' <=> WaitsFor(q, h)
                          /\ InCall(q)' => q # p
                          /\ Active(q) \/ Unsent(q) \/ Current(q) => q # p
  BY <1>3, <1>6, <1>7 DEF Active, Unsent, InCall, Current, WaitsFor
<1>9. /\ listeners' \in [Cids -> 0 .. MaxAttempts]
      /\ \A d \in Cids : listeners'[d] \in {LP!None, listeners[d]} /\ listeners'[d] <= attempts
  BY <1>0, PublishBounds DEF PublishTyped, Dropped
<1>10. publishLost' \subseteq Cids /\ publishLost \subseteq publishLost'
  OBVIOUS
<1>11. PublishTyped(own)'
  <2>1. \A q \in LP!Procs :
          /\ publishProc'[q].at = "idle" => publishProc'[q] = LP!Rest
          /\ InCall(q)' => /\ publishProc'[q].k \in Made /\ publishProc'[q].cid = own[publishProc'[q].k]
                           /\ publishProc'[q].session <= publishSession
    BY <1>0, <1>6, <1>7, <1>8 DEF PublishTyped
  <2> QED BY <1>0, <1>3, <1>4, <1>7, <1>9, <1>10, <2>1 DEF PublishTyped, QueuesSame
<1>12. PublishPhases' BY <1>0, <1>3, <1>6, <1>7, PublishBounds DEF PublishPhases
<1>13. OnePlace' BY <1>0, <1>3, <1>4, <1>7, <1>8 DEF OnePlace, QueuesSame
<1>14. Listening(own)'
  BY <1>0, <1>3, <1>4, <1>6, <1>7, <1>9, PublishMessages, PublishCaller DEF Listening, QueuesSame, InCall
<1>15. OneHolder' BY <1>0, <1>3, <1>7, <1>8 DEF OneHolder
<1>16. Awaited(own)' BY <1>0, <1>3, <1>4, <1>6, <1>7, <1>8, <1>10 DEF Awaited, QueuesSame
<1>17. WantedHeld' BY <1>0, <1>3, <1>7, <1>8, <1>10, PublishBounds DEF WantedHeld
<1>18. HaveSenders' BY <1>0, <1>3, <1>4, <1>7, <1>8, <1>10 DEF HaveSenders, QueuesSame
<1>19. ServedUp(own)'
  <2> SUFFICES ASSUME publishLink = "up" PROVE ServedUp(own)' BY <1>3 DEF ServedUp
  <2>1. Withdrawn' BY <1>0, <1>3, <1>4 DEF ServedUp, Withdrawn, QueuesSame
  <2>2. \A t \in publishSfu.tracks : Expected(t)'
    BY <1>0, <1>3, <1>7, <1>10 DEF ServedUp, Expected
  <2>3. \A t \in publishPubs : Kept(own, t)'
    BY <1>0, <1>3, <1>4, <1>10 DEF ServedUp, Kept, Forwarded, Offered, QueuesSame
  <2>4. \A q \in LP!Procs : Underway(own, q)'
    BY <1>0, <1>3, <1>4, <1>7, <1>8, <1>10 DEF ServedUp, Underway, AnsweredFor, Forwarded, Offered, QueuesSame
  <2> QED BY <1>3, <2>1, <2>2, <2>3, <2>4 DEF ServedUp
<1> QED BY <1>11, <1>12, <1>13, <1>14, <1>15, <1>16, <1>17, <1>18, <1>19 DEF PublishInvOf

LEMMA PublishAnswered ==
  ASSUME NEW own, PublishInvOf(own), NEW p \in LP!Procs, LP!Answered(p)
  PROVE  PublishInvOf(own)'
<1>0. /\ PublishTyped(own) /\ PublishPhases /\ OnePlace /\ Listening(own) /\ OneHolder
      /\ Awaited(own) /\ WantedHeld /\ HaveSenders /\ ServedUp(own)
  BY PublishParts
<1>1. PICK k : k = publishProc[p].k OBVIOUS
<1>2. publishProc[p].at = "wait" BY DEF LP!Answered
<1>3. /\ k \in Made /\ k \in LP!Attempts /\ k # 0 /\ publishProc[p].cid \in Cids
      /\ publishProc[p].cid = own[k]
  BY <1>0, <1>1, <1>2, PublishCaller DEF InCall
<1>4. chan[k] = k /\ chan[k] # LP!None
  BY <1>0, <1>1, <1>3 DEF LP!Answered, PublishTyped
<1>19. publishProc' = [publishProc EXCEPT ![p].at = "add", ![p].k = k]
  BY <1>1, <1>4 DEF LP!Answered
<1>5. /\ chan' = [chan EXCEPT ![k] = LP!None]
      /\ UNCHANGED <<attempts, listeners, publishPubs, publishSenders, negotiate, todo,
                     publishReader, publishSfu, publishToSFU, publishFromSFU, publishLink,
                     publishSession, publishWanted, publishLost>>
  BY <1>1, <1>4 DEF LP!Answered, LP!linkVars, LP!ghosts
<1>6. QueuesSame(own) BY <1>5, PublishQuiet
<1>7. CallersTyped' /\ Moves(p, "add")
  <2>1. publishProc \in [LP!Procs -> [at : Places, k : 0 .. MaxAttempts, cid : Cids \cup {LP!None},
                                      session : 0 .. MaxRestarts]]
    BY <1>0 DEF PublishTyped, CallersTyped
  <2>2. publishProc'[p] = [publishProc[p] EXCEPT !.at = "add", !.k = k] BY <1>19, <2>1
  <2>3. k \in 0 .. MaxAttempts BY <1>3, PublishBounds
  <2>4. publishProc[p] \in [at : Places, k : 0 .. MaxAttempts, cid : Cids \cup {LP!None},
                            session : 0 .. MaxRestarts]
    BY <2>1
  <2>5. /\ publishProc'[p].at = "add" /\ publishProc'[p].k = publishProc[p].k
        /\ publishProc'[p].cid = publishProc[p].cid
        /\ publishProc'[p].session = publishProc[p].session
        /\ publishProc'[p] \in [at : Places, k : 0 .. MaxAttempts, cid : Cids \cup {LP!None},
                                session : 0 .. MaxRestarts]
    BY <1>1, <2>2, <2>3, <2>4 DEF Places
  <2> QED BY <1>19, <2>1, <2>5 DEF Moves, CallersTyped
<1>8. \A q \in LP!Procs : /\ Active(q)' <=> Active(q)
                          /\ Unsent(q)' <=> Unsent(q)
                          /\ Unsent(q) => q # p
                          /\ InCall(q)' <=> InCall(q)
                          /\ Current(q)' <=> Current(q)
                          /\ publishProc'[q].k = publishProc[q].k
                          /\ publishProc'[q].cid = publishProc[q].cid
                          /\ publishProc'[q].session = publishProc[q].session
  BY <1>1, <1>2, <1>5, <1>7 DEF Moves, Active, Unsent, InCall, Current
<1>9. /\ chan' \in [LP!Attempts -> 0 .. MaxAttempts]
      /\ \A h \in LP!Attempts : chan'[h] \in {LP!None, chan[h]}
      /\ k \notin Requested \cup Accepted /\ chan'[k] = LP!None
      /\ \A h \in LP!Attempts : h # k => chan'[h] = chan[h]
  BY <1>0, <1>3, <1>4, <1>5, PublishBounds DEF PublishTyped, OnePlace
<1>10. PublishTyped(own)'
  <2>1. \A q \in LP!Procs :
          /\ publishProc'[q].at = "idle" => publishProc'[q] = LP!Rest
          /\ InCall(q)' => /\ publishProc'[q].k \in Made /\ publishProc'[q].cid = own[publishProc'[q].k]
                           /\ publishProc'[q].session <= publishSession
    BY <1>0, <1>7, <1>8 DEF PublishTyped, Moves
  <2>2. \A h \in LP!Attempts : chan'[h] # LP!None => chan'[h] = h /\ h \in Made
    BY <1>0, <1>9 DEF PublishTyped
  <2> QED BY <1>0, <1>5, <1>6, <1>7, <1>9, <2>1, <2>2 DEF PublishTyped, QueuesSame
<1>11. PublishPhases' BY <1>0, <1>2, <1>5, <1>7, PublishBounds DEF PublishPhases, Moves
<1>12. OnePlace'
  <2>1. \A h \in Made : h \in LP!Attempts BY <1>0, PublishMessages
  <2>2. \A q \in LP!Procs : Unsent(q) => publishProc[q].k \in LP!Attempts
    BY <1>0, PublishCaller DEF Unsent, InCall
  <2>3. publishReader.to # LP!None => publishReader.to \in LP!Attempts
    BY <1>0, PublishBounds DEF PublishTyped
  <2> QED BY <1>0, <1>5, <1>6, <1>8, <1>9, <2>1, <2>2, <2>3, PublishMessages DEF OnePlace, QueuesSame
<1>13. Listening(own)' BY <1>0, <1>5, <1>6, <1>7 DEF Listening, QueuesSame, Moves
<1>14. OneHolder' BY <1>0, <1>5, <1>8 DEF OneHolder
<1>15. Awaited(own)'
  <2>1. \A q \in LP!Procs : \A h : WaitsFor(q, h) => WaitsFor(q, h)' \/ h = k
    BY <1>1, <1>7 DEF Moves, WaitsFor
  <2> QED BY <1>0, <1>2, <1>5, <1>6, <1>7, <1>9, <2>1 DEF Awaited, QueuesSame, Moves
<1>16. WantedHeld' BY <1>0, <1>5, <1>8, PublishBounds DEF WantedHeld
<1>17. HaveSenders' BY <1>0, <1>5, <1>6, <1>8 DEF HaveSenders, QueuesSame
<1>18. ServedUp(own)'
  <2> SUFFICES ASSUME publishLink = "up" PROVE ServedUp(own)' BY <1>5 DEF ServedUp
  <2>1. Withdrawn' BY <1>0, <1>5, <1>6 DEF ServedUp, Withdrawn, QueuesSame
  <2>2. \A t \in publishSfu.tracks : Expected(t)'
    BY <1>0, <1>5, <1>7 DEF ServedUp, Expected, Moves
  <2>3. \A t \in publishPubs : Kept(own, t)'
    BY <1>0, <1>5, <1>6 DEF ServedUp, Kept, Forwarded, Offered, QueuesSame
  <2>4. Underway(own, p)'
    BY <1>0, <1>1, <1>2, <1>4, <1>5, <1>6, <1>8
    DEF ServedUp, Underway, AnsweredFor, Forwarded, Offered, QueuesSame
  <2>5. ASSUME NEW q \in LP!Procs, q # p PROVE Underway(own, q)'
    <3>1. Active(q) => publishProc[q].k \in LP!Attempts BY <1>0, PublishCaller DEF Active, InCall
    <3>2. AnsweredFor(q)' /\ Current(q) => AnsweredFor(q)
      BY <1>5, <1>6, <1>7, <1>9, <2>5, <3>1 DEF AnsweredFor, Current, QueuesSame, Moves
    <3> QED BY <1>0, <1>5, <1>6, <1>7, <1>8, <2>5, <3>2 DEF ServedUp, Underway, Forwarded, Offered, QueuesSame, Moves
  <2> QED BY <1>5, <2>1, <2>2, <2>3, <2>4, <2>5 DEF ServedUp
<1> QED BY <1>10, <1>11, <1>12, <1>13, <1>14, <1>15, <1>16, <1>17, <1>18 DEF PublishInvOf

LEMMA PublishEnds ==
  ASSUME NEW own, PublishInvOf(own), NEW p \in LP!Procs,
         \/ LP!TimesOut(p) \/ LP!UnregisterTrackPublishedListener(p)
         \/ LP!Republished \/ (LP!SendAddTrack(p) /\ publishLink = "down")
  PROVE  PublishInvOf(own)'
<1>0. PublishTyped(own) /\ PublishPhases BY PublishParts
<1>1. CASE LP!TimesOut(p)
  BY <1>1, PublishGivesUp DEF LP!TimesOut, LP!Goto, LP!clientVars, LP!linkVars
<1>2. CASE LP!SendAddTrack(p) /\ publishLink = "down"
  BY <1>2, PublishGivesUp DEF LP!SendAddTrack, LP!Send, LP!Goto
<1>3. CASE LP!UnregisterTrackPublishedListener(p)
  <2> DEFINE r == IF p = Worker THEN [LP!Rest EXCEPT !.at = "republish"] ELSE LP!Rest
  <2>1. /\ publishProc[p].at = "unregister" /\ publishProc' = [publishProc EXCEPT ![p] = r]
        /\ listeners' = [listeners EXCEPT ![publishProc[p].cid] = LP!None]
        /\ publishLost' \in {publishLost, publishLost \cup {publishProc[p].cid}}
        /\ UNCHANGED <<attempts, chan, publishPubs, publishSenders, negotiate, todo, publishReader,
                       publishSfu, publishToSFU, publishFromSFU, publishLink, publishSession,
                       publishWanted>>
    BY <1>3 DEF LP!UnregisterTrackPublishedListener, LP!Done, LP!linkVars
  <2>2. publishProc[p].cid \in Cids BY <1>0, <2>1, PublishCaller DEF InCall
  <2>3. r \in {LP!Rest, [LP!Rest EXCEPT !.at = "republish"]} /\ (p = Worker => r # LP!Rest)
    BY PublishBounds
  <2>4. Dropped
    <3>1. listeners \in [Cids -> 0 .. MaxAttempts] /\ LP!None \in 0 .. MaxAttempts
      BY <1>0, PublishBounds DEF PublishTyped
    <3> QED BY <2>1, <2>2, <3>1 DEF Dropped
  <2>5. publishLost' \subseteq Cids /\ publishLost \subseteq publishLost'
    BY <1>0, <2>1, <2>2 DEF PublishTyped
  <2>6. Rests(p) /\ CallersTyped'
    BY <1>0, <2>1, <2>3, PublishBounds DEF Rests, PublishTyped, CallersTyped, Places
  <2> QED BY <2>1, <2>4, <2>5, <2>6, PublishRests
<1>4. CASE LP!Republished
  <2>1. /\ publishProc[Worker].at = "republish" /\ todo = {}
        /\ publishProc' = [publishProc EXCEPT ![Worker] = LP!Rest]
        /\ UNCHANGED <<attempts, chan, listeners, publishPubs, publishSenders, negotiate, todo,
                       publishReader, publishSfu, publishToSFU, publishFromSFU, publishLink,
                       publishSession, publishWanted, publishLost>>
    BY <1>4 DEF LP!Republished, LP!clientVars, LP!linkVars, LP!ghosts
  <2>2. publishLost' \subseteq Cids /\ publishLost \subseteq publishLost'
    BY <1>0, <2>1 DEF PublishTyped
  <2>3. Dropped BY <1>0, <2>1 DEF Dropped, PublishTyped
  <2>4. Worker \in LP!Procs BY PublishBounds
  <2>5. Rests(Worker) /\ CallersTyped'
    BY <1>0, <2>1, <2>4, PublishBounds DEF Rests, PublishTyped, CallersTyped, Places
  <2> QED BY <2>1, <2>2, <2>3, <2>4, <2>5, PublishRests
<1> QED BY <1>1, <1>2, <1>3, <1>4

LEMMA PublishSends ==
  ASSUME NEW own, PublishInvOf(own), NEW p \in LP!Procs, LP!SendAddTrack(p), publishLink = "up"
  PROVE  PublishInvOf(own)'
<1>0. /\ PublishTyped(own) /\ PublishPhases /\ OnePlace /\ Listening(own) /\ OneHolder
      /\ Awaited(own) /\ WantedHeld /\ HaveSenders /\ ServedUp(own)
  BY PublishParts
<1>1. PICK c : c = publishProc[p].cid OBVIOUS
<1>2. PICK k : k = publishProc[p].k OBVIOUS
<1>3. PICK m : m = [type |-> "add", sid |-> k, cid |-> c, set |-> {}] OBVIOUS
<1>4. publishProc' = [publishProc EXCEPT ![p].at = "wait"] BY DEF LP!SendAddTrack, LP!Goto
<1>5. /\ publishProc[p].at = "send" /\ publishToSFU' = Append(publishToSFU, m)
      /\ Len(publishToSFU) < MaxInFlight
      /\ negotiate' = (negotiate \/ (publishProc[p].session = publishSession
                                     /\ TRUE = (c \notin Simulcast)))
      /\ publishLost' \in {publishLost, publishLost \cup {c}}
      /\ UNCHANGED <<attempts, chan, listeners, publishPubs, publishSenders, todo, publishReader,
                     publishSfu, publishFromSFU, publishLink, publishSession, publishWanted>>
  BY <1>1, <1>2, <1>3 DEF LP!SendAddTrack, LP!Send, LP!Negotiate
<1>6. k \in Made /\ c = own[k] /\ c \in Cids /\ k # 0
  BY <1>0, <1>1, <1>2, <1>5, PublishCaller DEF InCall
<1>7. CallersTyped' /\ Moves(p, "wait") BY <1>0, <1>4, PublishMoves DEF Places
<1>8. /\ Made' = Made /\ Publications(own)' = Publications(own) /\ Accepted' = Accepted
      /\ Gone' = Gone /\ OfferRequests' = OfferRequests /\ AddRequests(own)' = AddRequests(own)
      /\ Replies(own)' = Replies(own)
      /\ Once(publishFromSFU, "published")' = Once(publishFromSFU, "published")
  BY <1>5 DEF Made, Publications, Accepted, Gone, OfferRequests, AddRequests, Replies, Sids, Once
<1>9. /\ publishToSFU' \in Seq(AddRequests(own) \cup OfferRequests)
      /\ Len(publishToSFU') = Len(publishToSFU) + 1 /\ Len(publishToSFU) \in Nat
      /\ Requested' = Requested \cup {k} /\ Once(publishToSFU', "add")
      /\ LastOffer(publishToSFU', publishSfu'.offered) = LastOffer(publishToSFU, publishSfu.offered)
      /\ \A h : Grows(publishToSFU, publishSfu.offered, h) => Grows(publishToSFU', publishSfu'.offered, h)
  <2>1. publishToSFU \in Seq(AddRequests(own) \cup OfferRequests) BY <1>0 DEF PublishTyped
  <2>2. m \in AddRequests(own) \cup OfferRequests /\ m.type = "add" /\ m.sid = k
    BY <1>3, <1>6 DEF AddRequests
  <2>3. /\ publishToSFU' \in Seq(AddRequests(own) \cup OfferRequests)
        /\ Len(publishToSFU') = Len(publishToSFU) + 1 /\ Len(publishToSFU) \in Nat
    BY <1>5, <2>1, <2>2, LastAdded
  <2>4. k \notin Sids(publishToSFU, "add") /\ Once(publishToSFU, "add")
    BY <1>0, <1>2, <1>5 DEF OnePlace, Unsent, Requested
  <2>5. Sids(publishToSFU', "add") = Sids(publishToSFU, "add") \cup {k} /\ Once(publishToSFU', "add")
    <3>1. PICK S : S = AddRequests(own) \cup OfferRequests OBVIOUS
    <3>2. publishToSFU \in Seq(S) /\ m \in S BY <2>1, <2>2, <3>1
    <3>3. Sids(Append(publishToSFU, m), "add") = Sids(publishToSFU, "add") \cup {m.sid}
      BY ONLY <2>2, <3>2, SidsAdded
    <3>4. Once(Append(publishToSFU, m), "add")
      BY ONLY <2>2, <2>4, <3>2, SidsAdded
    <3> QED BY <1>5, <2>2, <3>3, <3>4
  <2>6. Requested' = Sids(publishToSFU', "add") BY DEF Requested, Sids
  <2>7. /\ LastOffer(publishToSFU', publishSfu'.offered) = LastOffer(publishToSFU, publishSfu.offered)
        /\ \A h : Grows(publishToSFU, publishSfu.offered, h) => Grows(publishToSFU', publishSfu'.offered, h)
    BY <1>5, <2>1, <2>2, OfferAdded
  <2> QED BY <2>3, <2>5, <2>6, <2>7 DEF Requested
<1>10. /\ Once(publishToSFU, "add")' = Once(publishToSFU', "add")
       /\ LastOffer(publishToSFU, publishSfu.offered)' = LastOffer(publishToSFU', publishSfu'.offered)
       /\ \A h : Grows(publishToSFU, publishSfu.offered, h)' = Grows(publishToSFU', publishSfu'.offered, h)
  BY DEF Once, LastOffer, Grows, IsLast
<1>11. \A q \in LP!Procs : /\ Active(q)' <=> Active(q)
                           /\ Unsent(q)' <=> Unsent(q) /\ q # p
                           /\ InCall(q)' <=> InCall(q)
                           /\ Current(q)' <=> Current(q)
                           /\ publishProc'[q].k = publishProc[q].k
                           /\ publishProc'[q].cid = publishProc[q].cid
                           /\ publishProc'[q].session = publishProc[q].session
  BY <1>5, <1>7 DEF Moves, Active, Unsent, InCall, Current
<1>12. Active(p) /\ Unsent(p) BY <1>5 DEF Active, Unsent
<1>13. publishLost' \subseteq Cids /\ publishLost \subseteq publishLost' /\ negotiate' \in BOOLEAN
       /\ (negotiate => negotiate')
  BY <1>0, <1>5, <1>6 DEF PublishTyped
<1>14. PublishTyped(own)'
  <2>1. \A q \in LP!Procs :
          /\ publishProc'[q].at = "idle" => publishProc'[q] = LP!Rest
          /\ InCall(q)' => /\ publishProc'[q].k \in Made /\ publishProc'[q].cid = own[publishProc'[q].k]
                           /\ publishProc'[q].session <= publishSession
    BY <1>0, <1>7, <1>11 DEF PublishTyped, Moves
  <2>2. Len(publishToSFU') <= MaxInFlight BY <1>5, <1>9, PublishBounds
  <2> QED BY <1>0, <1>5, <1>7, <1>8, <1>9, <1>13, <2>1, <2>2 DEF PublishTyped
<1>15. PublishPhases' BY <1>0, <1>5, <1>7, PublishBounds DEF PublishPhases, Moves
<1>16. OnePlace'
  <2>1. \A q \in LP!Procs : Unsent(q)' => publishProc[q].k # k
    <3>1. \A q \in LP!Procs : Unsent(q)' => Active(q) /\ q # p /\ publishProc[q].cid = own[publishProc[q].k]
      BY <1>0, <1>11, PublishCaller DEF Active, Unsent, InCall
    <3> QED BY <1>0, <1>1, <1>6, <1>12, <3>1 DEF OneHolder
  <2>2. k \notin Accepted /\ publishReader.to # k /\ chan[k] = LP!None
    BY <1>0, <1>2, <1>12 DEF OnePlace
  <2> QED BY <1>0, <1>5, <1>8, <1>9, <1>10, <1>11, <2>1, <2>2 DEF OnePlace
<1>17. Listening(own)'
  BY <1>0, <1>1, <1>2, <1>5, <1>6, <1>7, <1>8, <1>9 DEF Listening, Moves
<1>18. OneHolder' BY <1>0, <1>5, <1>11 DEF OneHolder
<1>19. Awaited(own)'
  <2>1. WaitsFor(p, k)' BY <1>2, <1>7 DEF WaitsFor, Moves
  <2>2. \A q \in LP!Procs : publishProc'[q].at = "register" => publishProc[q].at = "register" /\ q # p
    BY <1>7 DEF Moves
  <2>3. own[k] \notin todo /\ \A q \in LP!Procs : publishProc'[q].at = "register" => publishProc'[q].cid # own[k]
    <3>1. own[k] \notin todo BY <1>0, <1>1, <1>6, <1>12 DEF OneHolder
    <3>2. \A q \in LP!Procs : publishProc[q].at = "register" => Active(q) BY DEF Active
    <3>3. \A q \in LP!Procs : Active(q) /\ q # p => publishProc[q].cid # own[k]
      BY <1>0, <1>1, <1>6, <1>12 DEF OneHolder
    <3> QED BY <1>11, <2>2, <3>1, <3>2, <3>3
  <2>4. \A q \in LP!Procs : \A h : WaitsFor(q, h) => WaitsFor(q, h)'
    BY <1>5, <1>7 DEF WaitsFor, Moves
  <2> QED BY <1>0, <1>5, <1>8, <1>9, <1>11, <1>13, <2>1, <2>2, <2>3, <2>4 DEF Awaited
<1>20. WantedHeld' BY <1>0, <1>5, <1>11, <1>13, PublishBounds DEF WantedHeld
<1>21. HaveSenders' BY <1>0, <1>5, <1>9, <1>10, <1>11, <1>13 DEF HaveSenders
<1>22. ServedUp(own)'
  <2>1. Withdrawn' BY <1>0, <1>5, <1>9, <1>10, <1>13 DEF ServedUp, Withdrawn
  <2>2. \A t \in publishSfu.tracks : Expected(t)'
    BY <1>0, <1>5, <1>7, <1>13 DEF ServedUp, Expected, Moves
  <2>3. \A h : (Offered(h) => Offered(h)') /\ (Forwarded(own, h)' <=> Forwarded(own, h))
    BY <1>5, <1>8, <1>9, <1>10, <1>13 DEF Offered, Forwarded
  <2>4. \A t \in publishPubs : Kept(own, t)'
    BY <1>0, <1>5, <1>13, <2>3 DEF ServedUp, Kept
  <2>5. Underway(own, p)'
    <3>1. ~AnsweredFor(p)'
      BY <1>0, <1>2, <1>5, <1>7, <1>8, <1>12 DEF AnsweredFor, Moves, OnePlace
    <3>2. Current(p)' /\ c \notin Simulcast => negotiate'
      BY <1>5, <1>11 DEF Current
    <3> QED BY <1>1, <1>11, <3>1, <3>2 DEF Underway, Offered
  <2>6. ASSUME NEW q \in LP!Procs, q # p PROVE Underway(own, q)'
    <3>1. AnsweredFor(q)' <=> AnsweredFor(q) BY <1>5, <1>7, <1>8, <2>6 DEF AnsweredFor, Moves
    <3> QED BY <1>0, <1>5, <1>7, <1>11, <1>13, <2>3, <2>6, <3>1 DEF ServedUp, Underway, Moves
  <2> QED BY <1>5, <2>1, <2>2, <2>4, <2>5, <2>6 DEF ServedUp
<1> QED BY <1>14, <1>15, <1>16, <1>17, <1>18, <1>19, <1>20, <1>21, <1>22 DEF PublishInvOf

LEMMA PublishAdds ==
  ASSUME NEW own, PublishInvOf(own), NEW p \in LP!Procs, LP!addPublication(p)
  PROVE  PublishInvOf(own)'
<1>0. /\ PublishTyped(own) /\ PublishPhases /\ OnePlace /\ Listening(own) /\ OneHolder
      /\ Awaited(own) /\ WantedHeld /\ HaveSenders /\ ServedUp(own)
  BY PublishParts
<1>1. PICK c : c = publishProc[p].cid OBVIOUS
<1>2. PICK k : k = publishProc[p].k OBVIOUS
<1>3. PICK t : t = LP!pub(k, c) OBVIOUS
<1>4. publishProc[p].at = "add" BY DEF LP!addPublication
<1>5. k \in Made /\ c = own[k] /\ c \in Cids
  BY <1>0, <1>1, <1>2, <1>4, PublishCaller DEF InCall
<1>6. t \in Publications(own) /\ t.sid = k /\ t.cid = c /\ t = LP!pub(k, own[k])
  BY <1>3, <1>5 DEF LP!pub, Publications
<1>7. \A u \in publishPubs : u.cid = own[u.sid] BY <1>0 DEF PublishTyped, Publications
<1>8. Active(p) /\ ~Unsent(p) BY <1>4 DEF Active, Unsent
<1>9. \A u \in publishPubs : u.sid # k /\ u.cid # c
  <2>1. \A u \in publishPubs : u.cid # c BY <1>0, <1>1, <1>8 DEF OneHolder
  <2> QED BY <1>5, <1>7, <2>1
<1>10. CallersTyped' /\ Moves(p, "unregister")
  BY <1>0, PublishMoves DEF LP!addPublication, LP!Goto, Places
<1>11. /\ publishPubs' = publishPubs \cup {t} /\ publishWanted' = publishWanted \cup {c}
       /\ negotiate' = (negotiate \/ (publishProc[p].session = publishSession
                                      /\ FALSE = (c \notin Simulcast)))
       /\ publishLost' = IF publishProc[p].session = publishSession THEN publishLost
                                                                   ELSE publishLost \cup {c}
       /\ UNCHANGED <<attempts, chan, listeners, publishSenders, todo, publishReader, publishSfu,
                      publishToSFU, publishFromSFU, publishLink, publishSession>>
  BY <1>1, <1>2, <1>3, <1>9 DEF LP!addPublication, LP!Negotiate, LP!linkVars
<1>12. QueuesSame(own) BY <1>11, PublishQuiet
<1>13. \A q \in LP!Procs : /\ Active(q)' <=> Active(q) /\ q # p
                           /\ Unsent(q)' <=> Unsent(q)
                           /\ InCall(q)' => InCall(q)
                           /\ Current(q)' <=> Current(q) /\ q # p
                           /\ publishProc'[q].k = publishProc[q].k
                           /\ publishProc'[q].cid = publishProc[q].cid
                           /\ publishProc'[q].session = publishProc[q].session
  BY <1>4, <1>10, <1>11 DEF Moves, Active, Unsent, InCall, Current
<1>14. publishLost' \subseteq Cids /\ publishLost \subseteq publishLost' /\ negotiate' \in BOOLEAN
       /\ (negotiate => negotiate') /\ (c \notin publishLost' => Current(p))
  BY <1>0, <1>5, <1>8, <1>11 DEF PublishTyped, Current
<1>15. PublishTyped(own)'
  <2>1. \A q \in LP!Procs :
          /\ publishProc'[q].at = "idle" => publishProc'[q] = LP!Rest
          /\ InCall(q)' => /\ publishProc'[q].k \in Made /\ publishProc'[q].cid = own[publishProc'[q].k]
                           /\ publishProc'[q].session <= publishSession
    BY <1>0, <1>10, <1>13 DEF PublishTyped, Moves
  <2>2. publishPubs' \subseteq Publications(own) /\ publishWanted' \subseteq Cids
    BY <1>0, <1>5, <1>6, <1>11 DEF PublishTyped
  <2> QED BY <1>0, <1>10, <1>11, <1>12, <1>14, <2>1, <2>2 DEF PublishTyped, QueuesSame
<1>16. PublishPhases' BY <1>0, <1>4, <1>10, <1>11, PublishBounds DEF PublishPhases, Moves
<1>17. OnePlace' BY <1>0, <1>11, <1>12, <1>13 DEF OnePlace, QueuesSame
<1>18. Listening(own)' BY <1>0, <1>10, <1>11, <1>12 DEF Listening, QueuesSame, Moves
<1>19. OneHolder'
  <2>1. \A q \in LP!Procs : Active(q) /\ q # p => publishProc[q].cid # c
    BY <1>0, <1>1, <1>8 DEF OneHolder
  <2>2. c \notin todo BY <1>0, <1>1, <1>8 DEF OneHolder
  <2>3. \A d \in todo : (\A q \in LP!Procs : Active(q) => publishProc[q].cid # d)
                        /\ \A u \in publishPubs : u.cid # d
    BY <1>0 DEF OneHolder
  <2>4. \A d \in todo' : (\A q \in LP!Procs : Active(q)' => publishProc'[q].cid # d)
                         /\ \A u \in publishPubs' : u.cid # d
    BY <1>6, <1>11, <1>13, <2>2, <2>3
  <2>5. \A u \in publishPubs', q \in LP!Procs : Active(q)' => publishProc'[q].cid # u.cid
    BY <1>0, <1>6, <1>11, <1>13, <2>1 DEF OneHolder
  <2>6. \A u, v \in publishPubs' : u.cid = v.cid => u = v
    BY <1>0, <1>6, <1>9, <1>11 DEF OneHolder
  <2>7. \A q, r \in LP!Procs : Active(q)' /\ Active(r)' /\ publishProc'[q].cid = publishProc'[r].cid => q = r
    BY <1>0, <1>13 DEF OneHolder
  <2> QED BY <2>4, <2>5, <2>6, <2>7 DEF OneHolder
<1>20. Awaited(own)'
  <2>1. \A q \in LP!Procs : \A h : WaitsFor(q, h) => WaitsFor(q, h)'
    BY <1>4, <1>10 DEF WaitsFor, Moves
  <2> QED BY <1>0, <1>10, <1>11, <1>12, <1>14, <2>1 DEF Awaited, QueuesSame, Moves
<1>21. WantedHeld'
  <2> SUFFICES ASSUME NEW d \in Cids, d \notin publishLost'
               PROVE  d \in publishWanted' <=> \/ \E u \in publishPubs' : u.cid = d
                                               \/ d \in todo
                                               \/ Active(Worker)' /\ publishProc'[Worker].cid = d
    BY <1>11 DEF WantedHeld
  <2>1. CASE d = c BY <1>6, <1>11, <2>1
  <2>2. CASE d # c
    <3>1. (\E u \in publishPubs' : u.cid = d) <=> \E u \in publishPubs : u.cid = d
      BY <1>6, <1>11, <2>2
    <3>2. Active(Worker)' /\ publishProc'[Worker].cid = d <=> Active(Worker) /\ publishProc[Worker].cid = d
      BY <1>1, <1>13, <2>2, PublishBounds
    <3> QED BY <1>0, <1>11, <1>14, <2>2, <3>1, <3>2 DEF WantedHeld
  <2> QED BY <2>1, <2>2
<1>22. HaveSenders'
  <2>1. \A u \in publishPubs' : u.cid \notin publishLost' => u.sid \in publishSenders
    BY <1>0, <1>2, <1>6, <1>11, <1>14 DEF HaveSenders
  <2> QED BY <1>0, <1>11, <1>12, <1>13, <2>1 DEF HaveSenders, QueuesSame
<1>23. ServedUp(own)'
  <2> SUFFICES ASSUME publishLink = "up" PROVE ServedUp(own)' BY <1>11 DEF ServedUp
  <2>1. Withdrawn' BY <1>0, <1>11, <1>12, <1>14 DEF ServedUp, Withdrawn, QueuesSame
  <2>2. ASSUME NEW u \in publishSfu.tracks PROVE Expected(u)'
    <3>1. u = LP!pub(u.sid, own[u.sid])
      BY <1>0, <2>2 DEF PublishTyped, Publications, LP!pub
    <3>2. u.sid = k => u \in publishPubs' BY <1>6, <1>11, <3>1
    <3> QED BY <1>0, <1>2, <1>10, <1>11, <1>14, <2>2, <3>2 DEF ServedUp, Expected, Moves
  <2>3. \A h : (Offered(h) => Offered(h)') /\ (Forwarded(own, h)' <=> Forwarded(own, h))
    BY <1>11, <1>12, <1>14 DEF Offered, Forwarded, QueuesSame
  <2>4. \A u \in publishPubs : Kept(own, u)'
    BY <1>0, <1>11, <1>14, <2>3 DEF ServedUp, Kept
  <2>5. Kept(own, t)'
    <3> SUFFICES ASSUME c \notin publishLost' PROVE Forwarded(own, k)' /\ Offered(k)'
      BY <1>6 DEF Kept
    <3>1. Current(p) /\ c \notin publishLost BY <1>14
    <3>2. AnsweredFor(p) /\ Underway(own, p) BY <1>0, <1>4 DEF AnsweredFor, ServedUp
    <3>3. Forwarded(own, k) BY <1>1, <1>2, <3>1, <3>2 DEF Underway
    <3>4. CASE c \notin Simulcast BY <1>1, <1>2, <1>4, <2>3, <3>1, <3>2, <3>3, <3>4 DEF Underway
    <3>5. CASE c \in Simulcast BY <1>11, <2>3, <3>1, <3>3, <3>5 DEF Offered, Current
    <3> QED BY <3>4, <3>5
  <2>6. ASSUME NEW q \in LP!Procs PROVE Underway(own, q)'
    <3>1. q # p => (AnsweredFor(q)' <=> AnsweredFor(q))
      BY <1>10, <1>11, <1>12, <2>6 DEF AnsweredFor, Moves, QueuesSame
    <3> QED BY <1>0, <1>10, <1>13, <1>14, <2>3, <2>6, <3>1 DEF ServedUp, Underway, Moves
  <2> QED BY <1>11, <2>1, <2>2, <2>4, <2>5, <2>6 DEF ServedUp
<1> QED
  BY <1>15, <1>16, <1>17, <1>18, <1>19, <1>20, <1>21, <1>22, <1>23 DEF PublishInvOf

\* A new attempt: AddTrack, whoever calls it.
LEMMA PublishTried ==
  ASSUME NEW own, PublishInvOf(own), NEW p \in LP!Procs, NEW c \in Cids, LP!AddTrack(p, c),
         publishProc[p].at \in {"idle", "republish"},
         \A q \in LP!Procs : Active(q) => publishProc[q].cid # c,
         \A t \in publishPubs : t.cid # c,
         \A h \in Requested \cup Accepted : own[h] # c,
         c \notin todo', todo' \subseteq todo, todo \subseteq todo' \cup {c},
         c \in todo => p = Worker, p = Worker => c \in todo,
         UNCHANGED <<chan, listeners, publishPubs, negotiate, publishReader, publishSfu,
                     publishToSFU, publishFromSFU, publishLink, publishSession,
                     publishWanted, publishLost>>
  PROVE  PublishInv'
<1>0. /\ PublishTyped(own) /\ PublishPhases /\ OnePlace /\ Listening(own) /\ OneHolder
      /\ Awaited(own) /\ WantedHeld /\ HaveSenders /\ ServedUp(own)
  BY PublishParts
<1>1. PICK k : k = attempts + 1 OBVIOUS
<1>2. PICK after : after = [own EXCEPT ![k] = c] OBVIOUS
<1>3. /\ attempts < MaxAttempts /\ attempts' = k /\ publishSenders' = publishSenders \cup {k}
      /\ publishProc' = [publishProc EXCEPT ![p] = [at |-> "register", k |-> k, cid |-> c,
                                                    session |-> publishSession]]
  BY <1>1 DEF LP!AddTrack
<1>4. attempts \in Nat /\ k \in LP!Attempts /\ k \notin Made /\ Made' = Made \cup {k} /\ k # 0
      /\ k \in 1 .. MaxAttempts
  BY <1>0, <1>1, <1>3, PublishBounds DEF PublishTyped, Made
<1>5. /\ own \in [LP!Attempts -> Cids \cup {LP!None}] /\ \A h \in Made : own[h] \in Cids /\ h \in LP!Attempts
      /\ Requested \subseteq Made /\ Accepted \subseteq Made /\ Gone \subseteq Made
  BY <1>0, PublishMessages DEF PublishTyped
<1>6. /\ after \in [LP!Attempts -> Cids \cup {LP!None}] /\ after[k] = c
      /\ \A h \in Made : after[h] = own[h]
  BY <1>2, <1>4, <1>5
<1>7. /\ Publications(own) \subseteq Publications(after)'
      /\ Replies(own) \subseteq Replies(after)'
      /\ AddRequests(own) \cup OfferRequests \subseteq AddRequests(after)' \cup OfferRequests'
  <2>1. Publications(own) \subseteq Publications(after)' BY <1>4, <1>6 DEF Publications
  <2>2. Replies(own) \subseteq Replies(after)' BY <1>4, <1>6 DEF Replies
  <2>3. AddRequests(own) \subseteq AddRequests(after)' BY <1>4, <1>6 DEF AddRequests
  <2>4. OfferRequests \subseteq OfferRequests' BY <1>4 DEF OfferRequests
  <2> QED BY <2>1, <2>2, <2>3, <2>4
<1>8. /\ Requested' = Requested /\ Accepted' = Accepted /\ Gone' = Gone
      /\ Once(publishToSFU, "add")' = Once(publishToSFU, "add")
      /\ Once(publishFromSFU, "published")' = Once(publishFromSFU, "published")
      /\ LastOffer(publishToSFU, publishSfu.offered)' = LastOffer(publishToSFU, publishSfu.offered)
      /\ \A h : Grows(publishToSFU, publishSfu.offered, h)' = Grows(publishToSFU, publishSfu.offered, h)
  BY DEF Requested, Accepted, Gone, Sids, Once, LastOffer, IsLast, Grows
<1>9. /\ publishProc'[p] = [at |-> "register", k |-> k, cid |-> c, session |-> publishSession]
      /\ publishProc'[p].at = "register" /\ publishProc'[p].k = k /\ publishProc'[p].cid = c
      /\ publishProc'[p].session = publishSession
      /\ \A q \in LP!Procs : q # p => publishProc'[q] = publishProc[q]
  BY <1>0, <1>3 DEF PublishTyped, CallersTyped
<1>10. /\ ~Active(p) /\ ~Unsent(p) /\ ~InCall(p) /\ ~Current(p) /\ Active(p)' /\ Unsent(p)'
       /\ \A q \in LP!Procs : q # p => /\ Active(q)' <=> Active(q)
                                       /\ Unsent(q)' <=> Unsent(q)
                                       /\ InCall(q)' <=> InCall(q)
                                       /\ Current(q)' <=> Current(q)
  BY <1>9 DEF Active, Unsent, InCall, Current
<1>11. \A q \in LP!Procs : InCall(q) => publishProc[q].k \in Made
                                        /\ publishProc[q].cid = own[publishProc[q].k]
                                        /\ publishProc[q].session <= publishSession
  BY <1>0 DEF PublishTyped
<1>12. PublishTyped(after)'
  <2>1. CallersTyped'
    <3>1. [at |-> "register", k |-> k, cid |-> c, session |-> publishSession]
            \in [at : Places, k : 0 .. MaxAttempts, cid : Cids \cup {LP!None}, session : 0 .. MaxRestarts]
      BY <1>0, <1>4, PublishBounds DEF PublishTyped, Places
    <3> QED BY <1>0, <1>3, <3>1 DEF PublishTyped, CallersTyped
  <2>2. ASSUME NEW q \in LP!Procs
        PROVE  /\ publishProc'[q].at = "idle" => publishProc'[q] = LP!Rest
               /\ InCall(q)' => /\ publishProc'[q].k \in Made' /\ publishProc'[q].cid = after[publishProc'[q].k]
                                /\ publishProc'[q].session <= publishSession
    <3>1. CASE q = p
      <4>1. publishSession <= publishSession BY <1>0, PublishBounds DEF PublishTyped
      <4> QED BY <1>4, <1>6, <1>9, <3>1, <4>1
    <3>2. CASE q # p BY <1>0, <1>4, <1>6, <1>9, <1>10, <1>11, <3>2 DEF PublishTyped
    <3> QED BY <3>1, <3>2
  <2>3. /\ publishToSFU' \in Seq(AddRequests(after) \cup OfferRequests)'
        /\ publishFromSFU' \in Seq(Replies(after))'
    <3>1. /\ Seq(AddRequests(own) \cup OfferRequests) \subseteq Seq(AddRequests(after)' \cup OfferRequests')
          /\ Seq(Replies(own)) \subseteq Seq(Replies(after)')
      BY <1>7, SeqMonotonic
    <3> QED BY <1>0, <3>1 DEF PublishTyped
  <2>4. /\ attempts' \in 0 .. MaxAttempts /\ \A h \in Made' : after[h] \in Cids
        /\ \A h \in LP!Attempts : chan'[h] # LP!None => chan'[h] = h /\ h \in Made'
        /\ \A d \in Cids : listeners'[d] <= attempts'
    BY <1>0, <1>1, <1>3, <1>4, <1>5, <1>6, PublishBounds DEF PublishTyped
  <2>5. /\ publishReader' \in [to : 0 .. MaxAttempts, sid : 0 .. attempts']
        /\ publishSfu' \in [tracks : SUBSET Publications(after)', offered : SUBSET Made']
        /\ publishPubs' \subseteq Publications(after)' /\ publishSenders' \subseteq Made'
        /\ todo' \subseteq Cids
    <3>1. publishReader \in [to : 0 .. MaxAttempts, sid : 0 .. attempts] BY <1>0 DEF PublishTyped
    <3>2. 0 .. attempts \subseteq 0 .. attempts' BY <1>1, <1>3, <1>4
    <3>3. publishSfu \in [tracks : SUBSET Publications(own), offered : SUBSET Made]
      BY <1>0 DEF PublishTyped
    <3>4. publishPubs \subseteq Publications(own) /\ publishSenders \subseteq Made /\ todo \subseteq Cids
      BY <1>0 DEF PublishTyped
    <3>5. publishReader' \in [to : 0 .. MaxAttempts, sid : 0 .. attempts'] BY <3>1, <3>2
    <3>6. publishSfu' \in [tracks : SUBSET Publications(after)', offered : SUBSET Made']
      BY <1>4, <1>7, <3>3
    <3> QED BY <1>3, <1>4, <1>7, <3>4, <3>5, <3>6
  <2> QED BY <1>0, <1>6, <2>1, <2>2, <2>3, <2>4, <2>5 DEF PublishTyped
<1>13. PublishPhases' BY <1>0, <1>3, <1>9, PublishBounds DEF PublishPhases
<1>14. publishReader.to # k /\ chan[k] = LP!None
  BY <1>0, <1>1, <1>4, PublishBounds DEF PublishTyped
<1>15. OnePlace' BY <1>0, <1>4, <1>5, <1>8, <1>9, <1>10, <1>14 DEF OnePlace
<1>16. Listening(after)' BY <1>0, <1>5, <1>6, <1>8, <1>9 DEF Listening
<1>17. OneHolder' BY <1>0, <1>9, <1>10 DEF OneHolder
<1>18. Awaited(after)'
  <2>1. \A q \in LP!Procs : \A h : WaitsFor(q, h) => WaitsFor(q, h)'
    BY <1>9 DEF WaitsFor
  <2> QED BY <1>0, <1>5, <1>6, <1>8, <1>9, <2>1 DEF Awaited
<1>19. WantedHeld' BY <1>0, <1>9, <1>10, PublishBounds DEF WantedHeld
<1>20. HaveSenders'
  <2>1. Grows(publishToSFU, publishSfu.offered, k)
    <3>1. publishToSFU \in Seq(AddRequests(own) \cup OfferRequests) BY <1>0 DEF PublishTyped
    <3>2. \A i \in 1 .. Len(publishToSFU) : publishToSFU[i] \in AddRequests(own) \cup OfferRequests
      BY <3>1, ElementOfSeq
    <3>3. \A i \in 1 .. Len(publishToSFU) : k \notin publishToSFU[i].set
      BY <1>4, <3>2 DEF AddRequests, OfferRequests
    <3>4. k \notin publishSfu.offered BY <1>0, <1>4 DEF PublishTyped
    <3> QED BY <3>3, <3>4 DEF Grows
  <2> QED BY <1>0, <1>3, <1>8, <1>9, <1>10, <2>1 DEF HaveSenders
<1>21. ServedUp(after)'
  <2> SUFFICES ASSUME publishLink = "up" PROVE ServedUp(after)' BY DEF ServedUp
  <2>1. Withdrawn' BY <1>0, <1>3, <1>8 DEF ServedUp, Withdrawn
  <2>2. ASSUME NEW t \in publishSfu.tracks PROVE Expected(t)'
    <3>1. t.sid # k BY <1>0, <1>4, <2>2 DEF PublishTyped, Publications
    <3>2. \A q \in LP!Procs : publishProc[q].at \in {"wait", "add"} => publishProc'[q] = publishProc[q]
      BY <1>9
    <3> QED BY <1>0, <1>3, <2>2, <3>1, <3>2 DEF ServedUp, Expected
  <2>3. \A h \in Made : (Offered(h) => Offered(h)') /\ (Forwarded(own, h) => Forwarded(after, h)')
    BY <1>6, <1>8 DEF Offered, Forwarded
  <2>4. ASSUME NEW t \in publishPubs PROVE Kept(after, t)'
    <3>1. t.sid \in Made BY <1>0, <2>4 DEF PublishTyped, Publications
    <3> QED BY <1>0, <2>3, <2>4, <3>1 DEF ServedUp, Kept
  <2>5. Underway(after, p)'
    <3>1. ~AnsweredFor(p)' BY <1>4, <1>5, <1>8, <1>9, <1>14 DEF AnsweredFor
    <3> QED BY <1>9, <3>1 DEF Underway
  <2>6. ASSUME NEW q \in LP!Procs, q # p PROVE Underway(after, q)'
    <3>1. AnsweredFor(q)' <=> AnsweredFor(q) BY <1>8, <1>9, <2>6 DEF AnsweredFor
    <3>2. Current(q) => publishProc[q].k \in Made BY <1>11, <2>6 DEF Current, Active, InCall
    <3> QED BY <1>0, <1>9, <1>10, <2>3, <2>6, <3>1, <3>2 DEF ServedUp, Underway
  <2> QED BY <2>1, <2>2, <2>4, <2>5, <2>6 DEF ServedUp
<1>22. PublishInvOf(after)'
  BY <1>12, <1>13, <1>15, <1>16, <1>17, <1>18, <1>19, <1>20, <1>21 DEF PublishInvOf
<1> QED BY <1>6, <1>22 DEF PublishInv

LEMMA PublishCalls ==
  ASSUME NEW own \in [LP!Attempts -> Cids \cup {LP!None}], PublishInvOf(own), ~Retries,
         \/ \E p \in LP!Procs, c \in Cids : LP!PublishTrack(p, c) \/ LP!PublishSimulcastTrack(p, c)
         \/ \E c \in Cids : LP!Republish(c)
  PROVE  PublishInv'
<1>0. /\ PublishTyped(own) /\ PublishPhases /\ OneHolder /\ Awaited(own)
  BY PublishParts
<1>1. ASSUME NEW p \in LP!Procs, NEW c \in Cids,
             LP!PublishTrack(p, c) \/ LP!PublishSimulcastTrack(p, c)
      PROVE  PublishInv'
  <2>1. /\ p # Worker /\ publishProc[p] = LP!Rest /\ LP!Unpublished(c) /\ LP!AddTrack(p, c)
        /\ UNCHANGED <<chan, listeners, publishPubs, negotiate, todo, publishReader, publishSfu,
                       publishToSFU, publishFromSFU, publishLink, publishSession,
                       publishWanted, publishLost>>
    BY <1>1 DEF LP!PublishTrack, LP!PublishSimulcastTrack, LP!prepareTrackPublication,
                LP!prepareSimulcastTrackPublication, LP!linkVars, LP!ghosts
  <2>2. /\ \A q \in LP!Procs : publishProc[q].cid # c
        /\ c \notin todo /\ c \notin publishLost /\ \A t \in publishPubs : t.cid # c
    BY <2>1 DEF LP!Unpublished
  <2>3. publishProc[p].at \in {"idle", "republish"} BY <2>1, PublishBounds
  <2>4. ASSUME NEW h \in Requested \cup Accepted PROVE own[h] # c
    <3>1. own[h] \in publishLost \/ \E q \in LP!Procs : WaitsFor(q, h)
      BY <1>0, <2>4 DEF Awaited
    <3>2. ASSUME NEW q \in LP!Procs, WaitsFor(q, h) PROVE publishProc[q].cid = own[h]
      BY <1>0, <3>2, PublishCaller DEF WaitsFor, InCall
    <3> QED BY <2>2, <3>1, <3>2
  <2> QED BY <2>1, <2>2, <2>3, <2>4, PublishTried
<1>2. ASSUME NEW c \in Cids, LP!Republish(c) PROVE PublishInv'
  <2>1. /\ publishProc[Worker].at = "republish" /\ c \in todo /\ todo' = todo \ {c}
        /\ LP!AddTrack(Worker, c)
        /\ UNCHANGED <<chan, listeners, publishPubs, negotiate, publishReader, publishSfu,
                       publishToSFU, publishFromSFU, publishLink, publishSession,
                       publishWanted, publishLost>>
    BY <1>2 DEF LP!Republish, LP!prepareTrackPublication,
                LP!prepareSimulcastTrackPublication, LP!linkVars, LP!ghosts
  <2>2. /\ \A q \in LP!Procs : Active(q) => publishProc[q].cid # c
        /\ \A t \in publishPubs : t.cid # c
        /\ \A h \in Requested \cup Accepted : own[h] # c
    BY <1>0, <2>1 DEF OneHolder, Awaited
  <2> QED BY <2>1, <2>2, PublishTried, PublishBounds
<1> QED BY <1>1, <1>2

\* A publication is withdrawn, by the application or by the SFU, whose message may
\* be taken from the queue by that.
LEMMA PublishRemoved ==
  ASSUME NEW own, PublishInvOf(own), NEW t \in publishPubs, LP!removed(t),
         UNCHANGED <<publishProc, attempts, chan, listeners, todo, publishReader, publishSfu,
                     publishToSFU, publishLink, publishSession, publishLost>>,
         publishFromSFU' \in Seq(Replies(own)), Len(publishFromSFU') <= Len(publishFromSFU),
         publishLink = "down" => UNCHANGED publishFromSFU,
         Accepted' = Accepted, Once(publishFromSFU', "published"),
         Gone \subseteq Gone' \cup {t.sid}, Gone' \subseteq Gone
  PROVE  PublishInvOf(own)'
<1>0. /\ PublishTyped(own) /\ PublishPhases /\ OnePlace /\ Listening(own) /\ OneHolder
      /\ Awaited(own) /\ WantedHeld /\ HaveSenders /\ ServedUp(own)
  BY PublishParts
<1>1. /\ publishPubs' = publishPubs \ {t} /\ publishSenders' = publishSenders \ {t.sid}
      /\ negotiate' = TRUE /\ publishWanted' = publishWanted \ {t.cid}
  BY DEF LP!removed, LP!unpublish
<1>2. t.cid = own[t.sid] /\ t.sid \in Made
      /\ \A u \in publishPubs : u.cid = own[u.sid]
  BY <1>0 DEF PublishTyped, Publications
<1>3. /\ Made' = Made /\ Requested' = Requested /\ OfferRequests' = OfferRequests
      /\ AddRequests(own)' = AddRequests(own) /\ Replies(own)' = Replies(own)
      /\ Publications(own)' = Publications(own)
      /\ Once(publishToSFU, "add")' = Once(publishToSFU, "add")
      /\ Once(publishFromSFU, "published")' = Once(publishFromSFU', "published")
      /\ LastOffer(publishToSFU, publishSfu.offered)' = LastOffer(publishToSFU, publishSfu.offered)
      /\ \A h : Grows(publishToSFU, publishSfu.offered, h)' = Grows(publishToSFU, publishSfu.offered, h)
  BY DEF Made, Requested, OfferRequests, AddRequests, Replies, Publications, Sids, Once, LastOffer,
         IsLast, Grows
<1>4. \A q \in LP!Procs : /\ Active(q)' <=> Active(q)
                          /\ Unsent(q)' <=> Unsent(q)
                          /\ InCall(q)' <=> InCall(q)
                          /\ Current(q)' <=> Current(q)
                          /\ \A h : WaitsFor(q, h)' <=> WaitsFor(q, h)
                          /\ Active(q) => publishProc[q].cid # t.cid /\ publishProc[q].cid = own[publishProc[q].k]
                          /\ Active(q) => publishProc[q].k # t.sid
  <2>1. \A q \in LP!Procs : Active(q) => publishProc[q].cid # t.cid /\ publishProc[q].cid = own[publishProc[q].k]
    BY <1>0, PublishCaller DEF OneHolder, Active, InCall
  <2> QED BY <1>2, <2>1 DEF Active, Unsent, InCall, Current, WaitsFor
<1>5. \A u \in publishPubs : u # t => u.sid # t.sid /\ u.cid # t.cid
  BY <1>0, <1>2 DEF OneHolder
<1>6. PublishTyped(own)'
  <2>1. Len(publishFromSFU') <= MaxInFlight
    <3>1. Len(publishFromSFU) \in Nat /\ Len(publishFromSFU') \in Nat
      BY <1>0, LenProperties DEF PublishTyped
    <3> QED BY <1>0, <3>1, PublishBounds DEF PublishTyped
  <2>2. CallersTyped' BY <1>0 DEF PublishTyped, CallersTyped
  <2> QED BY <1>0, <1>1, <1>3, <1>4, <2>1, <2>2 DEF PublishTyped
<1>7. PublishPhases' BY <1>0 DEF PublishPhases
<1>8. OnePlace' BY <1>0, <1>3, <1>4 DEF OnePlace
<1>9. Listening(own)' BY <1>0, <1>3 DEF Listening
<1>10. OneHolder' BY <1>0, <1>1, <1>4 DEF OneHolder
<1>11. Awaited(own)' BY <1>0, <1>3, <1>4 DEF Awaited
<1>12. WantedHeld'
  <2> SUFFICES ASSUME NEW d \in Cids, d \notin publishLost
               PROVE  d \in publishWanted' <=> \/ \E u \in publishPubs' : u.cid = d
                                               \/ d \in todo
                                               \/ Active(Worker) /\ publishProc[Worker].cid = d
    BY <1>4, PublishBounds DEF WantedHeld
  <2>1. CASE d = t.cid
    <3>1. d \notin todo /\ ~(Active(Worker) /\ publishProc[Worker].cid = d)
      BY <1>0, <1>4, <2>1, PublishBounds DEF OneHolder
    <3> QED BY <1>1, <1>5, <2>1, <3>1
  <2>2. CASE d # t.cid
    <3>1. (\E u \in publishPubs' : u.cid = d) <=> \E u \in publishPubs : u.cid = d
      BY <1>1, <2>2
    <3> QED BY <1>0, <1>1, <2>2, <3>1 DEF WantedHeld
  <2> QED BY <2>1, <2>2
<1>13. HaveSenders' BY <1>0, <1>1, <1>3, <1>4, <1>5 DEF HaveSenders, Current
<1>14. ServedUp(own)'
  <2> SUFFICES ASSUME publishLink = "up" PROVE ServedUp(own)' BY DEF ServedUp
  <2>1. Withdrawn' /\ \A h : Offered(h)' BY <1>1 DEF Withdrawn, Offered
  <2>2. \A u \in publishSfu.tracks : Expected(u)' BY <1>0, <1>1 DEF ServedUp, Expected
  <2>3. \A h : h # t.sid /\ Forwarded(own, h) => Forwarded(own, h)' BY DEF Forwarded
  <2>4. \A u \in publishPubs' : Kept(own, u)'
    BY <1>0, <1>1, <1>5, <2>1, <2>3 DEF ServedUp, Kept
  <2>5. \A q \in LP!Procs : Underway(own, q)'
    BY <1>0, <1>3, <1>4, <2>1, <2>3 DEF ServedUp, Underway, AnsweredFor, Current
  <2> QED BY <2>1, <2>2, <2>4, <2>5 DEF ServedUp
<1> QED
  BY <1>6, <1>7, <1>8, <1>9, <1>10, <1>11, <1>12, <1>13, <1>14 DEF PublishInvOf

LEMMA PublishUnpublishes ==
  ASSUME NEW own, PublishInvOf(own), NEW p, NEW t \in publishPubs, LP!UnpublishTrack(p, t)
  PROVE  PublishInvOf(own)'
<1>1. /\ LP!removed(t)
      /\ UNCHANGED <<publishProc, attempts, chan, listeners, todo, publishReader, publishSfu,
                     publishToSFU, publishFromSFU, publishLink, publishSession, publishLost>>
  BY DEF LP!UnpublishTrack, LP!linkVars
<1>2. PublishTyped(own) /\ OnePlace BY PublishParts
<1>3. publishFromSFU \in Seq(Replies(own)) /\ Once(publishFromSFU, "published")
  BY <1>2 DEF PublishTyped, OnePlace
<1>4. Len(publishFromSFU) \in Nat BY <1>3, LenProperties
<1>5. Accepted' = Accepted /\ Gone' = Gone BY <1>1 DEF Accepted, Gone, Sids
<1> QED BY <1>1, <1>3, <1>4, <1>5, PublishRemoved

\* The callers stay.
CallersSame ==
  \A q \in LP!Procs : /\ Active(q)' <=> Active(q)
                      /\ Unsent(q)' <=> Unsent(q)
                      /\ InCall(q)' <=> InCall(q)
                      /\ Current(q)' <=> Current(q)
                      /\ \A h : WaitsFor(q, h)' <=> WaitsFor(q, h)

LEMMA PublishIdle ==
  ASSUME UNCHANGED <<publishProc, publishSession>>
  PROVE  CallersSame /\ (CallersTyped => CallersTyped')
BY DEF CallersSame, Active, Unsent, InCall, Current, WaitsFor, CallersTyped

\* What the answers under way say of the tracks, when one is taken from the queue.
LEMMA PublishHeard ==
  ASSUME NEW own, PublishTyped(own), OnePlace, publishFromSFU # <<>>,
         publishFromSFU' = Tail(publishFromSFU), UNCHANGED <<attempts, publishToSFU>>,
         publishSfu'.offered = publishSfu.offered
  PROVE  /\ Head(publishFromSFU) \in Replies(own)
         /\ publishFromSFU' \in Seq(Replies(own)) /\ Len(publishFromSFU') <= Len(publishFromSFU)
         /\ Len(publishFromSFU') <= MaxInFlight
         /\ Once(publishFromSFU, "published")'
         /\ Head(publishFromSFU).type = "published" =>
              /\ Head(publishFromSFU).sid \in Accepted /\ Head(publishFromSFU).sid \notin Accepted'
              /\ Accepted = Accepted' \cup {Head(publishFromSFU).sid} /\ Gone' = Gone
         /\ Head(publishFromSFU).type = "unpublished" =>
              Accepted' = Accepted /\ Gone = Gone' \cup {Head(publishFromSFU).sid}
         /\ Made' = Made /\ Requested' = Requested /\ OfferRequests' = OfferRequests
         /\ AddRequests(own)' = AddRequests(own) /\ Replies(own)' = Replies(own)
         /\ Publications(own)' = Publications(own)
         /\ Once(publishToSFU, "add")' = Once(publishToSFU, "add")
         /\ LastOffer(publishToSFU, publishSfu.offered)' = LastOffer(publishToSFU, publishSfu.offered)
         /\ \A h : Grows(publishToSFU, publishSfu.offered, h)' = Grows(publishToSFU, publishSfu.offered, h)
<1>1. /\ publishFromSFU \in Seq(Replies(own)) /\ Once(publishFromSFU, "published")
      /\ Len(publishFromSFU) <= MaxInFlight
  BY DEF PublishTyped, OnePlace
<1>2. PICK s : s = Tail(publishFromSFU) OBVIOUS
<1>3. PICK m : m = Head(publishFromSFU) OBVIOUS
<1>4. /\ s \in Seq(Replies(own)) /\ m \in Replies(own)
      /\ Len(s) = Len(publishFromSFU) - 1 /\ Len(publishFromSFU) \in Nat
  BY <1>1, <1>2, <1>3, HeadTaken
<1>5. Once(s, "published") BY <1>1, <1>2, SidsTaken
<1>6. Accepted' = Sids(s, "published") /\ Gone' = Sids(s, "unpublished")
      /\ Once(publishFromSFU, "published")' = Once(s, "published")
  BY <1>2 DEF Accepted, Gone, Sids, Once
<1>7. m.type = "published" =>
        /\ m.sid \in Accepted /\ m.sid \notin Accepted'
        /\ Accepted = Accepted' \cup {m.sid} /\ Gone' = Gone
  <2> SUFFICES ASSUME m.type = "published"
               PROVE  /\ m.sid \in Accepted /\ m.sid \notin Accepted'
                      /\ Accepted = Accepted' \cup {m.sid} /\ Gone' = Gone
    OBVIOUS
  <2>1. /\ m.sid \in Sids(publishFromSFU, "published") /\ m.sid \notin Sids(s, "published")
        /\ Sids(publishFromSFU, "published") = Sids(s, "published") \cup {m.sid}
    BY <1>1, <1>2, <1>3, SidsTaken
  <2>2. m.type # "unpublished" OBVIOUS
  <2>3. Sids(s, "unpublished") = Sids(publishFromSFU, "unpublished")
    BY <1>1, <1>2, <1>3, <2>2, SidsTaken
  <2> QED BY <1>6, <2>1, <2>3 DEF Accepted, Gone
<1>8. m.type = "unpublished" => Accepted' = Accepted /\ Gone = Gone' \cup {m.sid}
  <2> SUFFICES ASSUME m.type = "unpublished"
               PROVE  Accepted' = Accepted /\ Gone = Gone' \cup {m.sid}
    OBVIOUS
  <2>1. Sids(publishFromSFU, "unpublished") = Sids(s, "unpublished") \cup {m.sid}
    BY <1>1, <1>2, <1>3, SidsTaken
  <2>2. m.type # "published" OBVIOUS
  <2>3. Sids(s, "published") = Sids(publishFromSFU, "published")
    BY <1>1, <1>2, <1>3, <2>2, SidsTaken
  <2> QED BY <1>6, <2>1, <2>3 DEF Accepted, Gone
<1>9. /\ Made' = Made /\ Requested' = Requested /\ OfferRequests' = OfferRequests
      /\ AddRequests(own)' = AddRequests(own) /\ Replies(own)' = Replies(own)
      /\ Publications(own)' = Publications(own)
      /\ Once(publishToSFU, "add")' = Once(publishToSFU, "add")
      /\ LastOffer(publishToSFU, publishSfu.offered)' = LastOffer(publishToSFU, publishSfu.offered)
      /\ \A h : Grows(publishToSFU, publishSfu.offered, h)' = Grows(publishToSFU, publishSfu.offered, h)
  BY DEF Made, Requested, OfferRequests, AddRequests, Replies, Publications, Sids, Once, LastOffer,
         IsLast, Grows
<1>10. Len(s) <= Len(publishFromSFU) /\ Len(s) <= MaxInFlight BY <1>1, <1>4, PublishBounds
<1> QED BY <1>2, <1>3, <1>4, <1>5, <1>6, <1>7, <1>8, <1>9, <1>10

LEMMA PublishNotified ==
  ASSUME NEW own, PublishInvOf(own), LP!OnLocalTrackPublished
  PROVE  PublishInvOf(own)'
<1>0. /\ PublishTyped(own) /\ PublishPhases /\ OnePlace /\ Listening(own) /\ OneHolder
      /\ Awaited(own) /\ WantedHeld /\ HaveSenders /\ ServedUp(own)
  BY PublishParts
<1>1. PICK k : k = Head(publishFromSFU).sid OBVIOUS
<1>2. /\ publishLink = "up" /\ publishReader.to = LP!None /\ publishFromSFU # <<>>
      /\ Head(publishFromSFU).type = "published" /\ publishFromSFU' = Tail(publishFromSFU)
      /\ publishReader' = [to |-> listeners[Head(publishFromSFU).cid], sid |-> k]
      /\ UNCHANGED <<publishProc, attempts, chan, listeners, publishPubs, publishSenders, negotiate,
                     todo, publishSfu, publishToSFU, publishLink, publishSession, publishWanted,
                     publishLost>>
  BY <1>1 DEF LP!OnLocalTrackPublished, LP!Answer, LP!clientVars, LP!ghosts
<1>3. /\ Head(publishFromSFU) \in Replies(own)
      /\ publishFromSFU' \in Seq(Replies(own))
      /\ Len(publishFromSFU') <= MaxInFlight
      /\ Once(publishFromSFU, "published")'
      /\ k \in Accepted /\ k \notin Accepted'
      /\ Accepted = Accepted' \cup {k} /\ Gone' = Gone
      /\ Made' = Made /\ Requested' = Requested /\ OfferRequests' = OfferRequests
      /\ AddRequests(own)' = AddRequests(own) /\ Replies(own)' = Replies(own)
      /\ Publications(own)' = Publications(own)
      /\ Once(publishToSFU, "add")' = Once(publishToSFU, "add")
      /\ LastOffer(publishToSFU, publishSfu.offered)' = LastOffer(publishToSFU, publishSfu.offered)
      /\ \A h : Grows(publishToSFU, publishSfu.offered, h)' = Grows(publishToSFU, publishSfu.offered, h)
  BY <1>0, <1>1, <1>2, PublishHeard
<1>4. k \in Made /\ Head(publishFromSFU).cid = own[k] /\ own[k] \in Cids /\ k # 0 /\ k \in LP!Attempts
  <2>1. \A m \in Replies(own) : m.sid \in Made /\ m.cid = own[m.sid] BY DEF Replies
  <2>2. k \in Made /\ Head(publishFromSFU).cid = own[k] BY <1>1, <1>3, <2>1
  <2> QED BY <1>0, <2>2, PublishMessages
<1>5. CallersSame /\ CallersTyped'
  BY <1>0, <1>2, PublishIdle DEF PublishTyped
<1>6. /\ publishReader'.to \in {LP!None, k} /\ publishReader'.sid = k
      /\ publishReader' \in [to : 0 .. MaxAttempts, sid : 0 .. attempts]
  <2>1. listeners[own[k]] \in {LP!None, k} BY <1>0, <1>3 DEF Listening
  <2>2. k \in 0 .. attempts /\ k \in 0 .. MaxAttempts /\ LP!None \in 0 .. MaxAttempts
    BY <1>0, <1>4, PublishBounds DEF PublishTyped, Made
  <2> QED BY <1>2, <1>4, <2>1, <2>2
<1>7. PublishTyped(own)' BY <1>0, <1>2, <1>3, <1>5, <1>6 DEF PublishTyped, CallersSame
<1>8. PublishPhases' BY <1>0, <1>2 DEF PublishPhases
<1>9. OnePlace'
  <2>1. \A q \in LP!Procs : Unsent(q) => publishProc[q].k # 0 /\ publishProc[q].k # k
    BY <1>0, <1>3, PublishCaller DEF OnePlace, Unsent, InCall
  <2>2. \A h \in Requested \cup Accepted' : h # k /\ h # 0
    BY <1>0, <1>3, PublishMessages DEF OnePlace
  <2>3. chan[k] = LP!None BY <1>0, <1>3 DEF OnePlace
  <2> QED BY <1>0, <1>2, <1>3, <1>5, <1>6, <2>1, <2>2, <2>3, PublishBounds DEF OnePlace, CallersSame
<1>10. Listening(own)' BY <1>0, <1>2, <1>3 DEF Listening
<1>11. OneHolder' BY <1>0, <1>2, <1>5 DEF OneHolder, CallersSame
<1>12. Awaited(own)' BY <1>0, <1>2, <1>3, <1>5 DEF Awaited, CallersSame
<1>13. WantedHeld' BY <1>0, <1>2, <1>5, PublishBounds DEF WantedHeld, CallersSame
<1>14. HaveSenders' BY <1>0, <1>2, <1>3, <1>5 DEF HaveSenders, CallersSame
<1>15. ServedUp(own)'
  <2>1. Withdrawn' BY <1>0, <1>2, <1>3 DEF ServedUp, Withdrawn
  <2>2. \A t \in publishSfu.tracks : Expected(t)' BY <1>0, <1>2 DEF ServedUp, Expected
  <2>3. \A h : (Offered(h)' <=> Offered(h)) /\ (Forwarded(own, h)' <=> Forwarded(own, h))
    BY <1>2, <1>3 DEF Offered, Forwarded
  <2>4. \A t \in publishPubs : Kept(own, t)' BY <1>0, <1>2, <2>3 DEF ServedUp, Kept
  <2>5. ASSUME NEW q \in LP!Procs PROVE Underway(own, q)'
    <3>1. Current(q) => publishProc[q].k # 0
      BY <1>0, PublishCaller DEF Current, Active, InCall
    <3>2. AnsweredFor(q)' /\ Current(q) => AnsweredFor(q)
      BY <1>2, <1>3, <1>6, <3>1, PublishBounds DEF AnsweredFor
    <3> QED BY <1>0, <1>2, <1>5, <2>3, <3>2 DEF ServedUp, Underway, CallersSame
  <2> QED BY <1>2, <2>1, <2>2, <2>4, <2>5 DEF ServedUp
<1> QED
  BY <1>7, <1>8, <1>9, <1>10, <1>11, <1>12, <1>13, <1>14, <1>15 DEF PublishInvOf

LEMMA PublishDelivers ==
  ASSUME NEW own, PublishInvOf(own), LP!Deliver
  PROVE  PublishInvOf(own)'
<1>0. /\ PublishTyped(own) /\ PublishPhases /\ OnePlace /\ Listening(own) /\ OneHolder
      /\ Awaited(own) /\ WantedHeld /\ HaveSenders /\ ServedUp(own)
  BY PublishParts
<1>1. PICK k : k = publishReader.to OBVIOUS
<1>2. k # 0 /\ publishReader.sid = k /\ k \in Made /\ k \in LP!Attempts /\ k \in 0 .. MaxAttempts
  BY <1>0, <1>1, PublishBounds DEF LP!Deliver, PublishTyped, Made
<1>3. /\ chan' = [chan EXCEPT ![k] = k] /\ publishReader' = [to |-> LP!None, sid |-> LP!None]
      /\ UNCHANGED <<publishProc, attempts, listeners, publishPubs, publishSenders, negotiate,
                     todo, publishSfu, publishToSFU, publishFromSFU, publishLink, publishSession,
                     publishWanted, publishLost>>
  BY <1>1, <1>2 DEF LP!Deliver, LP!linkVars, LP!ghosts
<1>4. QueuesSame(own) BY <1>3, PublishQuiet
<1>5. CallersSame /\ CallersTyped' BY <1>0, <1>3, PublishIdle DEF PublishTyped
<1>6. /\ chan' \in [LP!Attempts -> 0 .. MaxAttempts] /\ chan'[k] = k
      /\ \A h \in LP!Attempts : h # k => chan'[h] = chan[h]
  BY <1>0, <1>2, <1>3 DEF PublishTyped
<1>7. PublishTyped(own)'
  <2>1. publishReader' \in [to : 0 .. MaxAttempts, sid : 0 .. attempts] /\ publishReader'.to = LP!None
    BY <1>0, <1>3, PublishBounds DEF PublishTyped
  <2>2. \A h \in LP!Attempts : chan'[h] # LP!None => chan'[h] = h /\ h \in Made
    BY <1>0, <1>2, <1>6 DEF PublishTyped
  <2> QED BY <1>0, <1>3, <1>4, <1>5, <1>6, <2>1, <2>2 DEF PublishTyped, QueuesSame, CallersSame
<1>8. PublishPhases' BY <1>0, <1>3 DEF PublishPhases
<1>9. \A q \in LP!Procs : Active(q) => publishProc[q].k \in LP!Attempts /\ publishProc[q].k # 0
  BY <1>0, PublishCaller DEF Active, InCall
<1>10. OnePlace'
  <2>1. \A q \in LP!Procs : Unsent(q) => publishProc[q].k # k /\ Active(q)
    BY <1>0, <1>1 DEF OnePlace, Unsent, Active
  <2>2. \A h \in Requested \cup Accepted : h # k /\ h # 0 /\ h \in LP!Attempts
    BY <1>0, <1>1, PublishMessages DEF OnePlace
  <2> QED BY <1>0, <1>3, <1>4, <1>5, <1>6, <1>9, <2>1, <2>2, PublishBounds DEF OnePlace, QueuesSame, CallersSame
<1>11. Listening(own)' BY <1>0, <1>3, <1>4 DEF Listening, QueuesSame
<1>12. OneHolder' BY <1>0, <1>3, <1>5 DEF OneHolder, CallersSame
<1>13. Awaited(own)' BY <1>0, <1>3, <1>4, <1>5 DEF Awaited, CallersSame, QueuesSame
<1>14. WantedHeld' BY <1>0, <1>3, <1>5, PublishBounds DEF WantedHeld, CallersSame
<1>15. HaveSenders' BY <1>0, <1>3, <1>4, <1>5 DEF HaveSenders, CallersSame, QueuesSame
<1>16. ServedUp(own)'
  <2> SUFFICES ASSUME publishLink = "up" PROVE ServedUp(own)' BY <1>3 DEF ServedUp
  <2>1. Withdrawn' BY <1>0, <1>3, <1>4 DEF ServedUp, Withdrawn, QueuesSame
  <2>2. \A t \in publishSfu.tracks : Expected(t)' BY <1>0, <1>3 DEF ServedUp, Expected
  <2>3. \A h : (Offered(h)' <=> Offered(h)) /\ (Forwarded(own, h)' <=> Forwarded(own, h))
    BY <1>3, <1>4 DEF Offered, Forwarded, QueuesSame
  <2>4. \A t \in publishPubs : Kept(own, t)' BY <1>0, <1>3, <2>3 DEF ServedUp, Kept
  <2>5. ASSUME NEW q \in LP!Procs PROVE Underway(own, q)'
    <3>1. AnsweredFor(q)' /\ Current(q) => AnsweredFor(q)
      BY <1>1, <1>3, <1>4, <1>6, <1>9, PublishBounds DEF AnsweredFor, Current, QueuesSame
    <3> QED BY <1>0, <1>3, <1>5, <2>3, <3>1 DEF ServedUp, Underway, CallersSame
  <2> QED BY <1>3, <2>1, <2>2, <2>4, <2>5 DEF ServedUp
<1> QED
  BY <1>7, <1>8, <1>10, <1>11, <1>12, <1>13, <1>14, <1>15, <1>16 DEF PublishInvOf

LEMMA PublishEnded ==
  ASSUME NEW own, PublishInvOf(own), LP!OnLocalTrackUnpublished
  PROVE  PublishInvOf(own)'
<1>0. /\ PublishTyped(own) /\ PublishPhases /\ OnePlace /\ Listening(own) /\ OneHolder
      /\ Awaited(own) /\ WantedHeld /\ HaveSenders /\ ServedUp(own)
  BY PublishParts
<1>1. PICK k : k = Head(publishFromSFU).sid OBVIOUS
<1>2. /\ publishLink = "up" /\ publishFromSFU # <<>>
      /\ Head(publishFromSFU).type = "unpublished" /\ publishFromSFU' = Tail(publishFromSFU)
      /\ UNCHANGED <<publishProc, attempts, chan, listeners, todo, publishReader, publishSfu,
                     publishToSFU, publishLink, publishSession>>
  BY DEF LP!OnLocalTrackUnpublished, LP!Answer
<1>3. /\ Head(publishFromSFU) \in Replies(own)
      /\ publishFromSFU' \in Seq(Replies(own)) /\ Len(publishFromSFU') <= Len(publishFromSFU)
      /\ Len(publishFromSFU') <= MaxInFlight
      /\ Once(publishFromSFU, "published")'
      /\ Accepted' = Accepted /\ Gone = Gone' \cup {k}
      /\ Made' = Made /\ Requested' = Requested /\ OfferRequests' = OfferRequests
      /\ AddRequests(own)' = AddRequests(own) /\ Replies(own)' = Replies(own)
      /\ Publications(own)' = Publications(own)
      /\ Once(publishToSFU, "add")' = Once(publishToSFU, "add")
      /\ LastOffer(publishToSFU, publishSfu.offered)' = LastOffer(publishToSFU, publishSfu.offered)
      /\ \A h : Grows(publishToSFU, publishSfu.offered, h)' = Grows(publishToSFU, publishSfu.offered, h)
  BY <1>0, <1>1, <1>2, PublishHeard
<1>4. CASE \E t \in publishPubs : t.sid = Head(publishFromSFU).sid /\ LP!removed(t) /\ UNCHANGED publishLost
  <2>1. PICK t \in publishPubs : t.sid = k /\ LP!removed(t) /\ UNCHANGED publishLost BY <1>1, <1>4
  <2>2. Once(publishFromSFU', "published")
    <3>1. Once(publishFromSFU, "published")' = Once(publishFromSFU', "published") BY DEF Once
    <3> QED BY <1>3, <3>1
  <2> QED BY <1>2, <1>3, <2>1, <2>2, PublishRemoved
<1>5. CASE ~\E t \in publishPubs : t.sid = Head(publishFromSFU).sid /\ LP!removed(t) /\ UNCHANGED publishLost
  <2>1. /\ \A t \in publishPubs : t.sid # k
        /\ publishLost' = publishLost \cup {d \in Cids : d = Head(publishFromSFU).cid
                                                        /\ \E p \in LP!Procs : publishProc[p].cid = d}
        /\ UNCHANGED <<publishPubs, publishSenders, negotiate, publishWanted>>
    BY <1>1, <1>5 DEF LP!OnLocalTrackUnpublished
  <2>2. k \in Made /\ Head(publishFromSFU).cid = own[k] /\ own[k] \in Cids
    <3>1. \A m \in Replies(own) : m.sid \in Made /\ m.cid = own[m.sid] BY DEF Replies
    <3>2. k \in Made /\ Head(publishFromSFU).cid = own[k] BY <1>1, <1>3, <3>1
    <3> QED BY <1>0, <3>2, PublishMessages
  <2>3. /\ publishLost' \subseteq Cids /\ publishLost \subseteq publishLost'
        /\ \A p \in LP!Procs : publishProc[p].cid = own[k] => own[k] \in publishLost'
    BY <1>0, <2>1, <2>2 DEF PublishTyped
  <2>4. CallersSame /\ CallersTyped' BY <1>0, <1>2, PublishIdle DEF PublishTyped
  <2>5. PublishTyped(own)' BY <1>0, <1>2, <1>3, <2>1, <2>3, <2>4 DEF PublishTyped, CallersSame
  <2>6. PublishPhases' BY <1>0, <1>2 DEF PublishPhases
  <2>7. OnePlace' BY <1>0, <1>2, <1>3, <2>4 DEF OnePlace, CallersSame
  <2>8. Listening(own)' BY <1>0, <1>2, <1>3 DEF Listening
  <2>9. OneHolder' BY <1>0, <1>2, <2>1, <2>4 DEF OneHolder, CallersSame
  <2>10. Awaited(own)' BY <1>0, <1>2, <1>3, <2>3, <2>4 DEF Awaited, CallersSame
  <2>11. WantedHeld' BY <1>0, <1>2, <2>1, <2>3, <2>4, PublishBounds DEF WantedHeld, CallersSame
  <2>12. HaveSenders' BY <1>0, <1>2, <1>3, <2>1, <2>3, <2>4 DEF HaveSenders, CallersSame
  <2>13. ServedUp(own)'
    <3>1. Withdrawn' BY <1>0, <1>2, <1>3, <2>1 DEF ServedUp, Withdrawn
    <3>2. \A t \in publishSfu.tracks : Expected(t)'
      BY <1>0, <1>2, <2>1, <2>3 DEF ServedUp, Expected
    <3>3. \A h : (Offered(h)' <=> Offered(h)) /\ (h # k => (Forwarded(own, h)' <=> Forwarded(own, h)))
      BY <1>2, <1>3, <2>1 DEF Offered, Forwarded
    <3>4. \A t \in publishPubs : Kept(own, t)'
      BY <1>0, <1>2, <2>1, <2>3, <3>3 DEF ServedUp, Kept
    <3>5. ASSUME NEW q \in LP!Procs PROVE Underway(own, q)'
      <4>1. Current(q) /\ publishProc[q].k = k => publishProc[q].cid \in publishLost'
        BY <1>0, <2>3, PublishCaller DEF Current, Active, InCall
      <4>2. AnsweredFor(q)' <=> AnsweredFor(q) BY <1>2, <1>3 DEF AnsweredFor
      <4> QED BY <1>0, <1>2, <2>3, <2>4, <3>3, <4>1, <4>2 DEF ServedUp, Underway, CallersSame
    <3> QED BY <1>2, <2>1, <3>1, <3>2, <3>4, <3>5 DEF ServedUp
  <2> QED
    BY <2>5, <2>6, <2>7, <2>8, <2>9, <2>10, <2>11, <2>12, <2>13 DEF PublishInvOf
<1> QED BY <1>4, <1>5

LEMMA PublishOffers ==
  ASSUME NEW own, PublishInvOf(own), LP!Offer
  PROVE  PublishInvOf(own)'
<1>0. /\ PublishTyped(own) /\ PublishPhases /\ OnePlace /\ Listening(own) /\ OneHolder
      /\ Awaited(own) /\ WantedHeld /\ HaveSenders /\ ServedUp(own)
  BY PublishParts
<1>1. PICK m : m = [type |-> "offer", sid |-> LP!None, cid |-> LP!None, set |-> publishSenders] OBVIOUS
<1>2. /\ publishLink = "up" /\ negotiate' = FALSE
      /\ Len(publishToSFU) < MaxInFlight /\ publishToSFU' = Append(publishToSFU, m)
      /\ UNCHANGED <<publishProc, attempts, chan, listeners, publishPubs, publishSenders, todo,
                     publishReader, publishSfu, publishFromSFU, publishLink, publishSession,
                     publishWanted, publishLost>>
  BY <1>1 DEF LP!Offer, LP!Send, LP!ghosts
<1>3. /\ Made' = Made /\ Publications(own)' = Publications(own) /\ Accepted' = Accepted
      /\ Gone' = Gone /\ OfferRequests' = OfferRequests /\ AddRequests(own)' = AddRequests(own)
      /\ Replies(own)' = Replies(own)
      /\ Once(publishFromSFU, "published")' = Once(publishFromSFU, "published")
  BY <1>2 DEF Made, Publications, Accepted, Gone, OfferRequests, AddRequests, Replies, Sids, Once
<1>4. /\ publishToSFU' \in Seq(AddRequests(own) \cup OfferRequests)
      /\ Len(publishToSFU') <= MaxInFlight
      /\ Requested' = Requested /\ Once(publishToSFU, "add")'
      /\ LastOffer(publishToSFU, publishSfu.offered)' = publishSenders
      /\ \A h \in publishSenders : Grows(publishToSFU, publishSfu.offered, h)'
  <2>1. publishToSFU \in Seq(AddRequests(own) \cup OfferRequests) BY <1>0 DEF PublishTyped
  <2>2. /\ m \in OfferRequests /\ m \in AddRequests(own) \cup OfferRequests
        /\ m.type = "offer" /\ m.type # "add" /\ m.set = publishSenders
    BY <1>0, <1>1 DEF OfferRequests, PublishTyped
  <2>3. PICK S : S = AddRequests(own) \cup OfferRequests OBVIOUS
  <2>4. publishToSFU \in Seq(S) /\ m \in S BY <2>1, <2>2, <2>3
  <2>5. PICK s : s = Append(publishToSFU, m) OBVIOUS
  <2>6. s \in Seq(S) /\ Len(s) = Len(publishToSFU) + 1 /\ Len(publishToSFU) \in Nat
    BY <2>4, <2>5, LastAdded
  <2>7. Sids(s, "add") = Sids(publishToSFU, "add") BY <2>2, <2>4, <2>5, SidsAdded
  <2>8. Once(publishToSFU, "add") => Once(s, "add") BY <2>2, <2>4, <2>5, SidsAdded
  <2>9. LastOffer(s, publishSfu.offered) = publishSenders BY <2>2, <2>4, <2>5, OfferAdded
  <2>10. \A h \in publishSenders : Grows(publishToSFU, publishSfu.offered, h) => Grows(s, publishSfu.offered, h)
    BY <2>2, <2>4, <2>5, OfferAdded
  <2>11. /\ Requested' = Sids(s, "add") /\ Once(publishToSFU, "add")' = Once(s, "add")
         /\ LastOffer(publishToSFU, publishSfu.offered)' = LastOffer(s, publishSfu.offered)
         /\ \A h : Grows(publishToSFU, publishSfu.offered, h)' = Grows(s, publishSfu.offered, h)
    BY <1>2, <2>5 DEF Requested, Sids, Once, LastOffer, IsLast, Grows
  <2>12. Len(s) <= MaxInFlight BY <1>2, <2>6, PublishBounds
  <2>13. publishToSFU' = s BY <1>2, <2>5
  <2> QED
    BY <1>0, <2>3, <2>6, <2>7, <2>8, <2>9, <2>10, <2>11, <2>12, <2>13 DEF Requested, OnePlace, HaveSenders
<1>5. CallersSame /\ CallersTyped' BY <1>0, <1>2, PublishIdle DEF PublishTyped
<1>6. PublishTyped(own)'
  <2>1. \A q \in LP!Procs :
          /\ publishProc'[q].at = "idle" => publishProc'[q] = LP!Rest
          /\ InCall(q)' => /\ publishProc'[q].k \in Made /\ publishProc'[q].cid = own[publishProc'[q].k]
                           /\ publishProc'[q].session <= publishSession
    BY <1>0, <1>2 DEF PublishTyped, InCall
  <2>2. negotiate' \in BOOLEAN BY <1>2
  <2>3. /\ attempts' \in 0 .. MaxAttempts /\ publishSession' \in 0 .. MaxRestarts
        /\ \A k \in LP!Attempts : chan'[k] # LP!None => chan'[k] = k /\ k \in Made
        /\ chan' \in [LP!Attempts -> 0 .. MaxAttempts]
        /\ listeners' \in [Cids -> 0 .. MaxAttempts] /\ \A c \in Cids : listeners'[c] <= attempts'
    BY <1>0, <1>2 DEF PublishTyped
  <2>4. /\ publishReader' \in [to : 0 .. MaxAttempts, sid : 0 .. attempts']
        /\ publishReader'.to \in {LP!None, publishReader'.sid}
        /\ publishPubs' \subseteq Publications(own)
        /\ publishSfu' \in [tracks : SUBSET Publications(own), offered : SUBSET Made]
        /\ publishSenders' \subseteq Made /\ todo' \subseteq Cids
    BY <1>0, <1>2 DEF PublishTyped
  <2>5. publishFromSFU' \in Seq(Replies(own)) /\ Len(publishFromSFU') <= MaxInFlight
    BY <1>0, <1>2 DEF PublishTyped
  <2> QED BY <1>0, <1>2, <1>3, <1>4, <1>5, <2>1, <2>2, <2>3, <2>4, <2>5 DEF PublishTyped
<1>7. PublishPhases' BY <1>0, <1>2 DEF PublishPhases
<1>8. OnePlace' BY <1>0, <1>2, <1>3, <1>4, <1>5 DEF OnePlace, CallersSame
<1>9. Listening(own)' BY <1>0, <1>2, <1>3, <1>4 DEF Listening
<1>10. OneHolder' BY <1>0, <1>2, <1>5 DEF OneHolder, CallersSame
<1>11. Awaited(own)' BY <1>0, <1>2, <1>3, <1>4, <1>5 DEF Awaited, CallersSame
<1>12. WantedHeld' BY <1>0, <1>2, <1>5, PublishBounds DEF WantedHeld, CallersSame
<1>13. HaveSenders' BY <1>0, <1>2, <1>4, <1>5 DEF HaveSenders, CallersSame
<1>14. ServedUp(own)'
  <2>1. Withdrawn' BY <1>2, <1>4 DEF Withdrawn
  <2>2. \A t \in publishSfu.tracks : Expected(t)' BY <1>0, <1>2 DEF ServedUp, Expected
  <2>3. \A h \in publishSenders : Offered(h)' BY <1>4 DEF Offered
  <2>4. \A h : Forwarded(own, h)' <=> Forwarded(own, h) BY <1>2, <1>3 DEF Forwarded
  <2>5. \A t \in publishPubs : Kept(own, t)'
    BY <1>0, <1>2, <2>3, <2>4 DEF ServedUp, Kept, HaveSenders
  <2>6. ASSUME NEW q \in LP!Procs PROVE Underway(own, q)'
    <3>1. AnsweredFor(q)' <=> AnsweredFor(q) BY <1>2, <1>3 DEF AnsweredFor
    <3>2. Current(q) => Offered(publishProc[q].k)' BY <1>0, <1>2, <2>3 DEF HaveSenders
    <3> QED BY <1>0, <1>2, <1>5, <2>4, <3>1, <3>2 DEF ServedUp, Underway, CallersSame
  <2> QED BY <1>2, <2>1, <2>2, <2>5, <2>6 DEF ServedUp
<1> QED
  BY <1>6, <1>7, <1>8, <1>9, <1>10, <1>11, <1>12, <1>13, <1>14 DEF PublishInvOf

\* Nothing is under way on a connection that failed, or just begins.
LEMMA PublishEmpty ==
  ASSUME NEW own, UNCHANGED attempts, publishToSFU' = <<>>, publishFromSFU' = <<>>
  PROVE  /\ Requested' = {} /\ Accepted' = {} /\ Gone' = {} /\ Made' = Made
         /\ OfferRequests' = OfferRequests /\ AddRequests(own)' = AddRequests(own)
         /\ Replies(own)' = Replies(own) /\ Publications(own)' = Publications(own)
         /\ Once(publishToSFU, "add")' /\ Once(publishFromSFU, "published")'
         /\ LastOffer(publishToSFU, publishSfu.offered)' = publishSfu'.offered
         /\ \A h : Grows(publishToSFU, publishSfu.offered, h)'
         /\ publishToSFU' \in Seq(AddRequests(own) \cup OfferRequests)
         /\ publishFromSFU' \in Seq(Replies(own))
         /\ Len(publishToSFU') <= MaxInFlight /\ Len(publishFromSFU') <= MaxInFlight
<1>1. PICK e : e = <<>> OBVIOUS
<1>2. PICK set : set = publishSfu'.offered OBVIOUS
<1>3. /\ Sids(e, "add") = {} /\ Sids(e, "published") = {} /\ Sids(e, "unpublished") = {}
      /\ Once(e, "add") /\ Once(e, "published")
      /\ LastOffer(e, set) = set /\ \A h : Grows(e, set, h)
  BY <1>1, NoMessages
<1>4. /\ Requested' = Sids(e, "add") /\ Accepted' = Sids(e, "published") /\ Gone' = Sids(e, "unpublished")
      /\ Once(publishToSFU, "add")' = Once(e, "add")
      /\ Once(publishFromSFU, "published")' = Once(e, "published")
      /\ LastOffer(publishToSFU, publishSfu.offered)' = LastOffer(e, set)
      /\ \A h : Grows(publishToSFU, publishSfu.offered, h)' = Grows(e, set, h)
  BY <1>1, <1>2 DEF Requested, Accepted, Gone, Sids, Once, LastOffer, IsLast, Grows
<1>5. /\ Made' = Made
      /\ OfferRequests' = OfferRequests /\ AddRequests(own)' = AddRequests(own)
      /\ Replies(own)' = Replies(own) /\ Publications(own)' = Publications(own)
  BY DEF Made, OfferRequests, AddRequests, Replies, Publications
<1>6. /\ publishToSFU' \in Seq(AddRequests(own) \cup OfferRequests)
      /\ publishFromSFU' \in Seq(Replies(own))
      /\ Len(publishToSFU') <= MaxInFlight /\ Len(publishFromSFU') <= MaxInFlight
  BY EmptySeq, PublishBounds
<1> QED BY <1>2, <1>3, <1>4, <1>5, <1>6

LEMMA PublishLinkFails ==
  ASSUME NEW own, PublishInvOf(own), LP!LinkFails
  PROVE  PublishInvOf(own)'
<1>0. /\ PublishTyped(own) /\ PublishPhases /\ OnePlace /\ Listening(own) /\ OneHolder
      /\ Awaited(own) /\ WantedHeld /\ HaveSenders /\ ServedUp(own)
  BY PublishParts
<1>1. /\ publishLink' = "down" /\ publishToSFU' = <<>> /\ publishFromSFU' = <<>>
      /\ publishSession < MaxRestarts /\ publishProc[Worker] = LP!Rest
      /\ UNCHANGED <<publishProc, attempts, chan, listeners, publishPubs, publishSenders, negotiate,
                     todo, publishReader, publishSfu, publishSession, publishWanted, publishLost>>
  BY DEF LP!LinkFails, LP!clientVars, LP!ghosts
<1>2. /\ Requested' = {} /\ Accepted' = {} /\ Gone' = {} /\ Made' = Made
      /\ OfferRequests' = OfferRequests /\ AddRequests(own)' = AddRequests(own)
      /\ Replies(own)' = Replies(own) /\ Publications(own)' = Publications(own)
      /\ Once(publishToSFU, "add")' /\ Once(publishFromSFU, "published")'
      /\ \A h : Grows(publishToSFU, publishSfu.offered, h)'
      /\ publishToSFU' \in Seq(AddRequests(own) \cup OfferRequests)
      /\ publishFromSFU' \in Seq(Replies(own))
      /\ Len(publishToSFU') <= MaxInFlight /\ Len(publishFromSFU') <= MaxInFlight
  BY <1>1, PublishEmpty
<1>3. CallersSame /\ CallersTyped' BY <1>0, <1>1, PublishIdle DEF PublishTyped
<1>4. PublishTyped(own)' BY <1>0, <1>1, <1>2, <1>3 DEF PublishTyped, CallersSame
<1>5. PublishPhases' BY <1>0, <1>1 DEF PublishPhases
<1>6. OnePlace' BY <1>0, <1>1, <1>2, <1>3 DEF OnePlace, CallersSame
<1>7. Listening(own)' BY <1>0, <1>1, <1>2 DEF Listening
<1>8. OneHolder' BY <1>0, <1>1, <1>3 DEF OneHolder, CallersSame
<1>9. Awaited(own)' BY <1>2 DEF Awaited
<1>10. WantedHeld' BY <1>0, <1>1, <1>3, PublishBounds DEF WantedHeld, CallersSame
<1>11. HaveSenders' BY <1>0, <1>1, <1>2, <1>3 DEF HaveSenders, CallersSame
<1>12. ServedUp(own)' BY <1>1 DEF ServedUp
<1> QED
  BY <1>4, <1>5, <1>6, <1>7, <1>8, <1>9, <1>10, <1>11, <1>12 DEF PublishInvOf

LEMMA PublishRestarts ==
  ASSUME NEW own, PublishInvOf(own), LP!republishTracks
  PROVE  PublishInvOf(own)'
<1>0. /\ PublishTyped(own) /\ PublishPhases /\ OnePlace /\ Listening(own) /\ OneHolder
      /\ Awaited(own) /\ WantedHeld /\ HaveSenders /\ ServedUp(own)
  BY PublishParts
<1>1. PICK r : r = [LP!Rest EXCEPT !.at = "republish"] OBVIOUS
<1>2. /\ publishLink = "down" /\ publishReader.to = LP!None
      /\ publishLink' = "up" /\ publishSession' = publishSession + 1
      /\ publishSfu' = [tracks |-> {}, offered |-> {}]
      /\ publishSenders' = {} /\ negotiate' = FALSE
      /\ todo' = {t.cid : t \in publishPubs} /\ publishPubs' = {}
      /\ publishProc' = [publishProc EXCEPT ![Worker] = r]
      /\ UNCHANGED <<attempts, chan, listeners, publishReader, publishToSFU, publishFromSFU,
                     publishWanted, publishLost>>
  BY <1>1 DEF LP!republishTracks, LP!forget, LP!ghosts
<1>3. /\ publishToSFU = <<>> /\ publishFromSFU = <<>> /\ publishProc[Worker] = LP!Rest
      /\ publishSession < MaxRestarts /\ todo = {}
  BY <1>0, <1>2 DEF PublishPhases
<1>4. /\ Requested' = {} /\ Accepted' = {} /\ Gone' = {} /\ Made' = Made
      /\ OfferRequests' = OfferRequests /\ AddRequests(own)' = AddRequests(own)
      /\ Replies(own)' = Replies(own) /\ Publications(own)' = Publications(own)
      /\ Once(publishToSFU, "add")' /\ Once(publishFromSFU, "published")'
      /\ LastOffer(publishToSFU, publishSfu.offered)' = publishSfu'.offered
      /\ publishToSFU' \in Seq(AddRequests(own) \cup OfferRequests)
      /\ publishFromSFU' \in Seq(Replies(own))
      /\ Len(publishToSFU') <= MaxInFlight /\ Len(publishFromSFU') <= MaxInFlight
  BY <1>2, <1>3, PublishEmpty
<1>5. /\ r \in [at : Places, k : 0 .. MaxAttempts, cid : Cids \cup {LP!None}, session : 0 .. MaxRestarts]
      /\ r.at = "republish" /\ r # LP!Rest /\ publishProc[Worker].at = "idle"
  BY <1>1, <1>3, PublishBounds DEF Places
<1>6. /\ CallersTyped' /\ publishProc'[Worker] = r /\ Worker \in LP!Procs
      /\ \A q \in LP!Procs : q # Worker => publishProc'[q] = publishProc[q]
  BY <1>0, <1>2, <1>5, PublishBounds DEF PublishTyped, CallersTyped
<1>7. publishSession + 1 \in 0 .. MaxRestarts /\ publishSession \in Nat
  BY <1>0, <1>3, PublishBounds DEF PublishTyped
<1>8. \A q \in LP!Procs : /\ Active(q)' <=> Active(q)
                          /\ Unsent(q)' <=> Unsent(q)
                          /\ InCall(q)' <=> InCall(q)
                          /\ Active(q) \/ InCall(q) => q # Worker
                          /\ ~Current(q)'
  <2>1. \A q \in LP!Procs : /\ Active(q)' <=> Active(q)
                            /\ Unsent(q)' <=> Unsent(q)
                            /\ InCall(q)' <=> InCall(q)
                            /\ Active(q) \/ InCall(q) => q # Worker
    BY <1>5, <1>6 DEF Active, Unsent, InCall
  <2>2. \A q \in LP!Procs : Active(q) => InCall(q) BY DEF Active, InCall
  <2>3. ASSUME NEW q \in LP!Procs, Active(q) PROVE publishProc'[q].session # publishSession + 1
    <3>1. publishProc[q].session \in 0 .. MaxRestarts BY <1>0 DEF PublishTyped, CallersTyped
    <3>2. publishProc[q].session <= publishSession BY <1>0, <2>2, <2>3 DEF PublishTyped
    <3>3. publishProc'[q] = publishProc[q] BY <1>6, <2>1, <2>3
    <3> QED BY <1>7, <3>1, <3>2, <3>3
  <2> QED BY <1>2, <2>1, <2>3 DEF Current
<1>9. PublishTyped(own)'
  <2>1. ASSUME NEW q \in LP!Procs
        PROVE  /\ publishProc'[q].at = "idle" => publishProc'[q] = LP!Rest
               /\ InCall(q)' => /\ publishProc'[q].k \in Made /\ publishProc'[q].cid = own[publishProc'[q].k]
                                /\ publishProc'[q].session <= publishSession + 1
    <3>1. CASE q = Worker BY <1>5, <1>6, <1>8, <3>1
    <3>2. CASE q # Worker
      <4>1. /\ publishProc[q].at = "idle" => publishProc[q] = LP!Rest
            /\ InCall(q) => /\ publishProc[q].k \in Made /\ publishProc[q].cid = own[publishProc[q].k]
                            /\ publishProc[q].session <= publishSession
            /\ publishProc[q].session \in 0 .. MaxRestarts
        BY <1>0 DEF PublishTyped, CallersTyped
      <4>2. publishProc[q].session <= publishSession => publishProc[q].session <= publishSession + 1
        BY <1>7, <4>1
      <4> QED BY <1>6, <1>8, <3>2, <4>1, <4>2
    <3> QED BY <3>1, <3>2
  <2>2. todo' \subseteq Cids
    BY <1>0, <1>2, PublishMessages DEF PublishTyped, Publications
  <2>3. publishSfu' \in [tracks : SUBSET Publications(own), offered : SUBSET Made] BY <1>2
  <2>4. negotiate' \in BOOLEAN /\ publishLink' \in {"up", "down"} BY <1>2
  <2>5. publishSession' \in 0 .. MaxRestarts /\ publishSession' = publishSession + 1 BY <1>2, <1>7
  <2>6. publishSenders' \subseteq Made /\ publishPubs' \subseteq Publications(own) BY <1>2
  <2>7. /\ attempts' \in 0 .. MaxAttempts
        /\ \A k \in LP!Attempts : chan'[k] # LP!None => chan'[k] = k /\ k \in Made
        /\ chan' \in [LP!Attempts -> 0 .. MaxAttempts]
        /\ listeners' \in [Cids -> 0 .. MaxAttempts] /\ \A c \in Cids : listeners'[c] <= attempts'
    BY <1>0, <1>2 DEF PublishTyped
  <2>8. /\ publishReader' \in [to : 0 .. MaxAttempts, sid : 0 .. attempts']
        /\ publishReader'.to \in {LP!None, publishReader'.sid}
        /\ publishWanted' \subseteq Cids /\ publishLost' \subseteq Cids
    BY <1>0, <1>2 DEF PublishTyped
  <2>9. own \in [LP!Attempts -> Cids \cup {LP!None}] /\ \A k \in Made : own[k] \in Cids
    BY <1>0 DEF PublishTyped
  <2> QED BY <1>4, <1>6, <2>1, <2>2, <2>3, <2>4, <2>5, <2>6, <2>7, <2>8, <2>9 DEF PublishTyped
<1>10. PublishPhases' BY <1>2, <1>5, <1>6 DEF PublishPhases
<1>11. OnePlace'
  <2>1. ASSUME NEW q \in LP!Procs, Unsent(q)'
        PROVE  publishReader'.to # publishProc'[q].k /\ chan'[publishProc'[q].k] = LP!None
    <3>1. Unsent(q) /\ Active(q) BY <1>8, <2>1 DEF Unsent, Active
    <3>2. publishProc'[q] = publishProc[q] BY <1>6, <1>8, <3>1
    <3>3. publishReader.to # publishProc[q].k /\ chan[publishProc[q].k] = LP!None
      BY <1>0, <3>1 DEF OnePlace
    <3> QED BY <1>2, <3>2, <3>3
  <2>2. publishReader'.to # LP!None => chan'[publishReader'.to] = LP!None BY <1>2
  <2> QED BY <1>4, <2>1, <2>2 DEF OnePlace
<1>12. Listening(own)' BY <1>0, <1>2, <1>4, <1>5, <1>6 DEF Listening
<1>13. OneHolder' BY <1>0, <1>2, <1>6, <1>8 DEF OneHolder
<1>14. Awaited(own)' BY <1>4 DEF Awaited
<1>15. WantedHeld'
  <2>1. ~Active(Worker) /\ ~Active(Worker)' BY <1>8, PublishBounds
  <2> QED BY <1>0, <1>2, <1>3, <2>1 DEF WantedHeld
<1>16. HaveSenders' BY <1>2, <1>8 DEF HaveSenders
<1>17. ServedUp(own)'
  <2>1. Withdrawn' BY <1>2, <1>4 DEF Withdrawn
  <2>2. \A q \in LP!Procs : Underway(own, q)' BY <1>8 DEF Underway
  <2> QED BY <1>2, <2>1, <2>2 DEF ServedUp
<1> QED
  BY <1>9, <1>10, <1>11, <1>12, <1>13, <1>14, <1>15, <1>16, <1>17 DEF PublishInvOf
\* What the SFU says.
LEMMA PublishSaid ==
  ASSUME NEW own, PublishTyped(own), OnePlace, NEW m \in Replies(own),
         Len(publishFromSFU) < MaxInFlight, publishFromSFU' = Append(publishFromSFU, m),
         UNCHANGED attempts
  PROVE  /\ publishFromSFU' \in Seq(Replies(own)) /\ Len(publishFromSFU') <= MaxInFlight
         /\ m.type = "published" => Accepted' = Accepted \cup {m.sid} /\ Gone' = Gone
         /\ m.type = "unpublished" => Accepted' = Accepted /\ Gone' = Gone \cup {m.sid}
         /\ (m.type = "published" => m.sid \notin Accepted) => Once(publishFromSFU, "published")'
<1>1. publishFromSFU \in Seq(Replies(own)) /\ Once(publishFromSFU, "published")
  BY DEF PublishTyped, OnePlace
<1>2. PICK s : s = Append(publishFromSFU, m) OBVIOUS
<1>3. s \in Seq(Replies(own)) /\ Len(s) = Len(publishFromSFU) + 1 /\ Len(publishFromSFU) \in Nat
  BY <1>1, <1>2, LastAdded
<1>4. Accepted' = Sids(s, "published") /\ Gone' = Sids(s, "unpublished")
      /\ Once(publishFromSFU, "published")' = Once(s, "published")
  BY <1>2 DEF Accepted, Gone, Sids, Once
<1>5. \A type \in {"published", "unpublished"} :
        /\ m.type # type => Sids(s, type) = Sids(publishFromSFU, type)
        /\ m.type = type => Sids(s, type) = Sids(publishFromSFU, type) \cup {m.sid}
  BY <1>1, <1>2, SidsAdded
<1>6. (m.type = "published" => m.sid \notin Accepted) => Once(s, "published")
  BY <1>1, <1>2, SidsAdded DEF Accepted
<1>7. Len(s) <= MaxInFlight BY <1>3, PublishBounds
<1>8. "published" # "unpublished" OBVIOUS
<1>9. m.type = "published" => Accepted' = Accepted \cup {m.sid} /\ Gone' = Gone
  BY <1>4, <1>5, <1>8 DEF Accepted, Gone
<1>10. m.type = "unpublished" => Accepted' = Accepted /\ Gone' = Gone \cup {m.sid}
  BY <1>4, <1>5, <1>8 DEF Accepted, Gone
<1> QED BY <1>2, <1>3, <1>4, <1>6, <1>7, <1>9, <1>10

\* What the SFU hears.
LEMMA PublishTaken ==
  ASSUME NEW own, PublishTyped(own), OnePlace, publishToSFU # <<>>,
         publishToSFU' = Tail(publishToSFU), UNCHANGED attempts,
         publishSfu'.offered =
           IF Head(publishToSFU).type = "offer" THEN Head(publishToSFU).set ELSE publishSfu.offered
  PROVE  /\ Head(publishToSFU) \in AddRequests(own) \cup OfferRequests
         /\ Made' = Made /\ OfferRequests' = OfferRequests /\ AddRequests(own)' = AddRequests(own)
         /\ Replies(own)' = Replies(own) /\ Publications(own)' = Publications(own)
         /\ publishToSFU' \in Seq(AddRequests(own) \cup OfferRequests)
         /\ Len(publishToSFU') <= MaxInFlight
         /\ Once(publishToSFU, "add")'
         /\ LastOffer(publishToSFU, publishSfu.offered)' = LastOffer(publishToSFU, publishSfu.offered)
         /\ \A h : Grows(publishToSFU, publishSfu.offered, h) =>
              /\ Grows(publishToSFU, publishSfu.offered, h)'
              /\ h \in publishSfu.offered => h \in publishSfu'.offered
         /\ Head(publishToSFU).type # "add" => Requested' = Requested
         /\ Head(publishToSFU).type = "add" =>
              /\ Head(publishToSFU).sid \in Requested /\ Head(publishToSFU).sid \notin Requested'
              /\ Requested = Requested' \cup {Head(publishToSFU).sid}
<1>1. PICK S : S = AddRequests(own) \cup OfferRequests OBVIOUS
<1>2. publishToSFU \in Seq(S) /\ Once(publishToSFU, "add") /\ Len(publishToSFU) <= MaxInFlight
  BY <1>1 DEF PublishTyped, OnePlace
<1>3. PICK s : s = Tail(publishToSFU) OBVIOUS
<1>4. PICK m : m = Head(publishToSFU) OBVIOUS
<1>5. PICK now : now = publishSfu'.offered OBVIOUS
<1>6. /\ s \in Seq(S) /\ m \in S /\ Len(s) = Len(publishToSFU) - 1 /\ Len(publishToSFU) \in Nat
  BY <1>2, <1>3, <1>4, HeadTaken
<1>7. now = IF Head(publishToSFU).type = "offer" THEN Head(publishToSFU).set ELSE publishSfu.offered
  BY <1>5
<1>8. /\ LastOffer(s, now) = LastOffer(publishToSFU, publishSfu.offered)
      /\ \A h : Grows(publishToSFU, publishSfu.offered, h) =>
                  Grows(s, now, h) /\ (h \in publishSfu.offered => h \in now)
  BY <1>2, <1>3, <1>7, OfferTaken
<1>9. /\ Requested' = Sids(s, "add") /\ Once(publishToSFU, "add")' = Once(s, "add")
      /\ LastOffer(publishToSFU, publishSfu.offered)' = LastOffer(s, now)
      /\ \A h : Grows(publishToSFU, publishSfu.offered, h)' = Grows(s, now, h)
  BY <1>3, <1>5 DEF Requested, Sids, Once, LastOffer, IsLast, Grows
<1>10. Once(s, "add") BY <1>2, <1>3, SidsTaken
<1>11. m.type # "add" => Requested' = Requested BY <1>2, <1>3, <1>4, <1>9, SidsTaken DEF Requested
<1>12. m.type = "add" => /\ m.sid \in Requested /\ m.sid \notin Requested'
                         /\ Requested = Requested' \cup {m.sid}
  BY <1>2, <1>3, <1>4, <1>9, SidsTaken DEF Requested
<1>13. /\ Made' = Made /\ OfferRequests' = OfferRequests
       /\ AddRequests(own)' = AddRequests(own) /\ Replies(own)' = Replies(own)
       /\ Publications(own)' = Publications(own)
  BY DEF Made, OfferRequests, AddRequests, Replies, Publications
<1>14. Len(s) <= MaxInFlight BY <1>2, <1>6, PublishBounds
<1> QED BY <1>1, <1>3, <1>4, <1>5, <1>6, <1>8, <1>9, <1>10, <1>11, <1>12, <1>13, <1>14

LEMMA PublishAccepted ==
  ASSUME NEW own, PublishInvOf(own), LP!SFUAdds
  PROVE  PublishInvOf(own)'
<1>0. /\ PublishTyped(own) /\ PublishPhases /\ OnePlace /\ Listening(own) /\ OneHolder
      /\ Awaited(own) /\ WantedHeld /\ HaveSenders /\ ServedUp(own)
  BY PublishParts
<1>1. PICK k : k = Head(publishToSFU).sid OBVIOUS
<1>2. PICK t : t = LP!pub(k, Head(publishToSFU).cid) OBVIOUS
<1>3. PICK m : m = [type |-> "published", sid |-> t.sid, cid |-> t.cid] OBVIOUS
<1>4. /\ publishLink = "up" /\ publishToSFU # <<>> /\ Head(publishToSFU).type = "add"
      /\ publishToSFU' = Tail(publishToSFU)
      /\ Len(publishFromSFU) < MaxInFlight /\ publishFromSFU' = Append(publishFromSFU, m)
      /\ UNCHANGED <<publishProc, attempts, chan, listeners, publishPubs, publishSenders, negotiate,
                     todo, publishReader, publishLink, publishSession, publishWanted, publishLost>>
  BY <1>1, <1>2, <1>3 DEF LP!SFUAdds, LP!Tell, LP!clientVars, LP!ghosts
<1>5. publishSfu \in [tracks : SUBSET Publications(own), offered : SUBSET Made]
  BY <1>0 DEF PublishTyped
<1>6. /\ publishSfu'.offered = publishSfu.offered
      /\ publishSfu'.tracks =
           {u \in publishSfu.tracks : u.cid = t.cid => u.sid \in publishSfu.offered} \cup {t}
      /\ publishSfu' = [tracks |-> publishSfu'.tracks, offered |-> publishSfu.offered]
  BY <1>1, <1>2, <1>5 DEF LP!SFUAdds
<1>7. /\ Head(publishToSFU) \in AddRequests(own) \cup OfferRequests
      /\ Made' = Made /\ OfferRequests' = OfferRequests /\ AddRequests(own)' = AddRequests(own)
      /\ Replies(own)' = Replies(own) /\ Publications(own)' = Publications(own)
      /\ publishToSFU' \in Seq(AddRequests(own) \cup OfferRequests)
      /\ Len(publishToSFU') <= MaxInFlight
      /\ Once(publishToSFU, "add")'
      /\ LastOffer(publishToSFU, publishSfu.offered)' = LastOffer(publishToSFU, publishSfu.offered)
      /\ \A h : Grows(publishToSFU, publishSfu.offered, h) =>
                  Grows(publishToSFU, publishSfu.offered, h)'
      /\ k \in Requested /\ k \notin Requested' /\ Requested = Requested' \cup {k}
  BY <1>0, <1>1, <1>4, <1>6, PublishTaken
<1>8. k \in Made /\ Head(publishToSFU).cid = own[k] /\ own[k] \in Cids /\ k \notin Accepted
  <2>1. \A x \in AddRequests(own) : x.sid \in Made /\ x.cid = own[x.sid] BY DEF AddRequests
  <2>2. \A x \in OfferRequests : x.type # "add" BY DEF OfferRequests
  <2>3. k \in Made /\ Head(publishToSFU).cid = own[k] BY <1>1, <1>4, <1>7, <2>1, <2>2
  <2> QED BY <1>0, <1>7, <2>3, PublishMessages DEF OnePlace
<1>9. t = LP!pub(k, own[k]) /\ t \in Publications(own) /\ t.sid = k /\ t.cid = own[k]
  BY <1>2, <1>8 DEF LP!pub, Publications
<1>10. m \in Replies(own) /\ m.type = "published" /\ m.sid = k
  BY <1>3, <1>8, <1>9 DEF Replies
<1>11. /\ publishFromSFU' \in Seq(Replies(own)) /\ Len(publishFromSFU') <= MaxInFlight
       /\ Accepted' = Accepted \cup {k} /\ Gone' = Gone /\ Once(publishFromSFU, "published")'
  BY <1>0, <1>4, <1>8, <1>10, PublishSaid
<1>12. CallersSame /\ CallersTyped' BY <1>0, <1>4, PublishIdle DEF PublishTyped
<1>13. Requested' \cup Accepted' = Requested \cup Accepted BY <1>7, <1>11
<1>14. PublishTyped(own)'
  <2>1. publishSfu' \in [tracks : SUBSET Publications(own), offered : SUBSET Made]
    BY <1>5, <1>6, <1>9
  <2> QED BY <1>0, <1>4, <1>7, <1>11, <1>12, <2>1 DEF PublishTyped, CallersSame
<1>15. PublishPhases' BY <1>0, <1>4 DEF PublishPhases
<1>16. OnePlace'
  <2>1. \A h \in Requested' : h \notin Accepted' BY <1>0, <1>7, <1>11 DEF OnePlace
  <2> QED BY <1>0, <1>4, <1>7, <1>11, <1>12, <1>13, <2>1 DEF OnePlace, CallersSame
<1>17. Listening(own)' BY <1>0, <1>4, <1>13 DEF Listening
<1>18. OneHolder' BY <1>0, <1>4, <1>12 DEF OneHolder, CallersSame
<1>19. Awaited(own)' BY <1>0, <1>4, <1>12, <1>13 DEF Awaited, CallersSame
<1>20. WantedHeld' BY <1>0, <1>4, <1>12, PublishBounds DEF WantedHeld, CallersSame
<1>21. HaveSenders' BY <1>0, <1>4, <1>7, <1>12 DEF HaveSenders, CallersSame
<1>22. own[k] \in publishLost \/ \E p \in LP!Procs : WaitsFor(p, k) BY <1>0, <1>7 DEF Awaited
<1>23. ServedUp(own)'
  <2>1. Withdrawn' BY <1>0, <1>4, <1>7 DEF ServedUp, Withdrawn
  <2>2. \A h : Offered(h)' <=> Offered(h) BY <1>4, <1>7 DEF Offered
  <2>3. \A u \in publishSfu'.tracks : Expected(u)'
    <3>1. Expected(t)' BY <1>4, <1>9, <1>22 DEF Expected, WaitsFor
    <3>2. \A u \in publishSfu.tracks : Expected(u)' BY <1>0, <1>4 DEF ServedUp, Expected
    <3> QED BY <1>6, <3>1, <3>2
  <2>4. \A h \in Made : own[h] # own[k] /\ Forwarded(own, h) => Forwarded(own, h)'
    BY <1>6, <1>9, <1>11 DEF Forwarded, LP!pub
  <2>5. \A u \in publishPubs : Kept(own, u)'
    <3>1. \A u \in publishPubs : u.sid \in Made /\ u.cid = own[u.sid]
      BY <1>0 DEF PublishTyped, Publications
    <3>2. \A u \in publishPubs : u.cid = own[k] => u.cid \in publishLost
      <4>1. ASSUME NEW p \in LP!Procs, WaitsFor(p, k) PROVE Active(p) /\ publishProc[p].cid = own[k]
        <5>1. InCall(p) /\ Active(p) /\ publishProc[p].k = k BY <4>1 DEF WaitsFor, InCall, Active
        <5> QED BY <1>0, <5>1, PublishCaller
      <4> QED BY <1>0, <1>22, <4>1 DEF OneHolder
    <3> QED BY <1>0, <1>4, <2>2, <2>4, <3>1, <3>2 DEF ServedUp, Kept
  <2>6. ASSUME NEW q \in LP!Procs PROVE Underway(own, q)'
    <3>1. SUFFICES ASSUME Current(q), publishProc[q].cid \notin publishLost
                   PROVE  Underway(own, q)'
      BY <1>4, <1>12 DEF Underway, CallersSame
    <3>2. Active(q) /\ InCall(q) BY <3>1 DEF Current, Active, InCall
    <3>3. publishProc[q].k \in Made /\ publishProc[q].cid = own[publishProc[q].k]
      BY <1>0, <3>2, PublishCaller
    <3>4. CASE publishProc[q].k = k
      <4>1. Forwarded(own, k)' BY <1>6, <1>9 DEF Forwarded
      <4> QED BY <1>0, <1>4, <2>2, <3>1, <3>4, <4>1 DEF ServedUp, Underway
    <3>5. CASE publishProc[q].k # k
      <4>1. own[publishProc[q].k] # own[k]
        <5>1. ASSUME NEW p \in LP!Procs, WaitsFor(p, k), own[publishProc[q].k] = own[k] PROVE FALSE
          <6>1. InCall(p) /\ Active(p) /\ publishProc[p].k = k BY <5>1 DEF WaitsFor, InCall, Active
          <6>2. publishProc[p].cid = own[k] BY <1>0, <6>1, PublishCaller
          <6> QED BY <1>0, <3>2, <3>3, <3>5, <5>1, <6>1, <6>2 DEF OneHolder
        <5> QED BY <1>22, <3>1, <3>3, <5>1
      <4>2. AnsweredFor(q)' <=> AnsweredFor(q) BY <1>4, <1>11, <3>5 DEF AnsweredFor
      <4> QED BY <1>0, <1>4, <2>2, <2>4, <3>1, <3>3, <4>1, <4>2 DEF ServedUp, Underway
    <3> QED BY <3>4, <3>5
  <2> QED BY <1>4, <2>1, <2>3, <2>5, <2>6 DEF ServedUp
<1> QED
  BY <1>14, <1>15, <1>16, <1>17, <1>18, <1>19, <1>20, <1>21, <1>23 DEF PublishInvOf

LEMMA PublishOffered ==
  ASSUME NEW own, PublishInvOf(own), LP!SFUTakesOffer
  PROVE  PublishInvOf(own)'
<1>0. /\ PublishTyped(own) /\ PublishPhases /\ OnePlace /\ Listening(own) /\ OneHolder
      /\ Awaited(own) /\ WantedHeld /\ HaveSenders /\ ServedUp(own)
  BY PublishParts
<1>1. PICK set : set = Head(publishToSFU).set OBVIOUS
<1>2. /\ publishLink = "up" /\ publishToSFU # <<>> /\ Head(publishToSFU).type = "offer"
      /\ publishToSFU' = Tail(publishToSFU)
      /\ publishSfu'.offered = set
      /\ publishSfu'.tracks =
           publishSfu.tracks \ {t \in publishSfu.tracks : t.sid \in publishSfu.offered \ set}
      /\ publishSfu' = [tracks |-> publishSfu'.tracks, offered |-> set]
      /\ UNCHANGED <<publishProc, attempts, chan, listeners, publishPubs, publishSenders, negotiate,
                     todo, publishReader, publishFromSFU, publishLink, publishSession,
                     publishWanted, publishLost>>
  BY <1>1 DEF LP!SFUTakesOffer, LP!clientVars, LP!ghosts
<1>3. publishSfu \in [tracks : SUBSET Publications(own), offered : SUBSET Made]
  BY <1>0 DEF PublishTyped
<1>4. /\ Head(publishToSFU) \in AddRequests(own) \cup OfferRequests
      /\ Made' = Made /\ OfferRequests' = OfferRequests /\ AddRequests(own)' = AddRequests(own)
      /\ Replies(own)' = Replies(own) /\ Publications(own)' = Publications(own)
      /\ publishToSFU' \in Seq(AddRequests(own) \cup OfferRequests)
      /\ Len(publishToSFU') <= MaxInFlight
      /\ Once(publishToSFU, "add")'
      /\ LastOffer(publishToSFU, publishSfu.offered)' = LastOffer(publishToSFU, publishSfu.offered)
      /\ \A h : Grows(publishToSFU, publishSfu.offered, h) =>
           /\ Grows(publishToSFU, publishSfu.offered, h)'
           /\ h \in publishSfu.offered => h \in set
      /\ Requested' = Requested
  BY <1>0, <1>1, <1>2, PublishTaken
<1>5. set \subseteq Made
  <2>1. \A x \in AddRequests(own) : x.type # "offer" BY DEF AddRequests
  <2>2. \A x \in OfferRequests : x.set \subseteq Made BY DEF OfferRequests
  <2> QED BY <1>1, <1>2, <1>4, <2>1, <2>2
<1>6. /\ Accepted' = Accepted /\ Gone' = Gone
      /\ Once(publishFromSFU, "published")' = Once(publishFromSFU, "published")
  BY <1>2 DEF Accepted, Gone, Sids, Once
<1>7. CallersSame /\ CallersTyped' BY <1>0, <1>2, PublishIdle DEF PublishTyped
<1>8. PublishTyped(own)'
  <2>1. publishSfu' \in [tracks : SUBSET Publications(own), offered : SUBSET Made]
    BY <1>2, <1>3, <1>5
  <2> QED BY <1>0, <1>2, <1>4, <1>7, <2>1 DEF PublishTyped, CallersSame
<1>9. PublishPhases' BY <1>0, <1>2 DEF PublishPhases
<1>10. OnePlace' BY <1>0, <1>2, <1>4, <1>6, <1>7 DEF OnePlace, CallersSame
<1>11. Listening(own)' BY <1>0, <1>2, <1>4, <1>6 DEF Listening
<1>12. OneHolder' BY <1>0, <1>2, <1>7 DEF OneHolder, CallersSame
<1>13. Awaited(own)' BY <1>0, <1>2, <1>4, <1>6, <1>7 DEF Awaited, CallersSame
<1>14. WantedHeld' BY <1>0, <1>2, <1>7, PublishBounds DEF WantedHeld, CallersSame
<1>15. HaveSenders' BY <1>0, <1>2, <1>4, <1>7 DEF HaveSenders, CallersSame
<1>16. ServedUp(own)'
  <2>1. Withdrawn' BY <1>0, <1>2, <1>4 DEF ServedUp, Withdrawn
  <2>2. \A t \in publishSfu'.tracks : Expected(t)' BY <1>0, <1>2 DEF ServedUp, Expected
  <2>3. \A h : Offered(h)' <=> Offered(h) BY <1>2, <1>4 DEF Offered
  <2>4. \A h \in publishSenders : Forwarded(own, h) => Forwarded(own, h)'
    <3>1. \A h \in publishSenders : h \in publishSfu.offered => h \in set
      BY <1>0, <1>4 DEF HaveSenders
    <3> QED BY <1>2, <1>6, <3>1 DEF Forwarded, LP!pub
  <2>5. \A t \in publishPubs : Kept(own, t)'
    BY <1>0, <1>2, <2>3, <2>4 DEF ServedUp, Kept, HaveSenders
  <2>6. ASSUME NEW q \in LP!Procs PROVE Underway(own, q)'
    <3>1. Current(q) => publishProc[q].k \in publishSenders BY <1>0 DEF HaveSenders
    <3>2. AnsweredFor(q)' <=> AnsweredFor(q) BY <1>2, <1>6 DEF AnsweredFor
    <3> QED BY <1>0, <1>2, <1>7, <2>3, <2>4, <3>1, <3>2 DEF ServedUp, Underway, CallersSame
  <2> QED BY <1>2, <2>1, <2>2, <2>5, <2>6 DEF ServedUp
<1> QED
  BY <1>8, <1>9, <1>10, <1>11, <1>12, <1>13, <1>14, <1>15, <1>16 DEF PublishInvOf

LEMMA PublishEndsTrack ==
  ASSUME NEW own, PublishInvOf(own), NEW t \in publishSfu.tracks, LP!SFUUnpublishes(t)
  PROVE  PublishInvOf(own)'
<1>0. /\ PublishTyped(own) /\ PublishPhases /\ OnePlace /\ Listening(own) /\ OneHolder
      /\ Awaited(own) /\ WantedHeld /\ HaveSenders /\ ServedUp(own)
  BY PublishParts
<1>1. PICK m : m = [type |-> "unpublished", sid |-> t.sid, cid |-> t.cid] OBVIOUS
<1>2. /\ publishLink = "up"
      /\ Len(publishFromSFU) < MaxInFlight /\ publishFromSFU' = Append(publishFromSFU, m)
      /\ UNCHANGED <<publishProc, attempts, chan, listeners, publishPubs, publishSenders, negotiate,
                     todo, publishReader, publishToSFU, publishLink, publishSession, publishWanted,
                     publishLost>>
  BY <1>1 DEF LP!SFUUnpublishes, LP!Tell, LP!clientVars, LP!ghosts
<1>3. publishSfu \in [tracks : SUBSET Publications(own), offered : SUBSET Made]
  BY <1>0 DEF PublishTyped
<1>4. /\ publishSfu'.offered = publishSfu.offered
      /\ publishSfu'.tracks = publishSfu.tracks \ {t}
      /\ publishSfu' \in [tracks : SUBSET Publications(own), offered : SUBSET Made]
  BY <1>3 DEF LP!SFUUnpublishes
<1>5. t.sid \in Made /\ t.cid = own[t.sid] BY <1>3 DEF Publications
<1>6. m \in Replies(own) /\ m.type = "unpublished" /\ m.sid = t.sid /\ m.type # "published"
  BY <1>1, <1>5 DEF Replies
<1>7. /\ publishFromSFU' \in Seq(Replies(own)) /\ Len(publishFromSFU') <= MaxInFlight
      /\ Accepted' = Accepted /\ Gone' = Gone \cup {t.sid} /\ Once(publishFromSFU, "published")'
  BY <1>0, <1>2, <1>6, PublishSaid
<1>8. /\ Made' = Made /\ Requested' = Requested /\ OfferRequests' = OfferRequests
      /\ AddRequests(own)' = AddRequests(own) /\ Replies(own)' = Replies(own)
      /\ Publications(own)' = Publications(own)
      /\ Once(publishToSFU, "add")' = Once(publishToSFU, "add")
      /\ LastOffer(publishToSFU, publishSfu.offered)' = LastOffer(publishToSFU, publishSfu.offered)
      /\ \A h : Grows(publishToSFU, publishSfu.offered, h)' = Grows(publishToSFU, publishSfu.offered, h)
  BY <1>2, <1>4 DEF Made, Requested, OfferRequests, AddRequests, Replies, Publications, Sids, Once,
                    LastOffer, IsLast, Grows
<1>9. CallersSame /\ CallersTyped' BY <1>0, <1>2, PublishIdle DEF PublishTyped
<1>10. PublishTyped(own)' BY <1>0, <1>2, <1>4, <1>7, <1>8, <1>9 DEF PublishTyped, CallersSame
<1>11. PublishPhases' BY <1>0, <1>2 DEF PublishPhases
<1>12. OnePlace' BY <1>0, <1>2, <1>7, <1>8, <1>9 DEF OnePlace, CallersSame
<1>13. Listening(own)' BY <1>0, <1>2, <1>7, <1>8 DEF Listening
<1>14. OneHolder' BY <1>0, <1>2, <1>9 DEF OneHolder, CallersSame
<1>15. Awaited(own)' BY <1>0, <1>2, <1>7, <1>8, <1>9 DEF Awaited, CallersSame
<1>16. WantedHeld' BY <1>0, <1>2, <1>9, PublishBounds DEF WantedHeld, CallersSame
<1>17. HaveSenders' BY <1>0, <1>2, <1>8, <1>9 DEF HaveSenders, CallersSame
<1>18. ServedUp(own)'
  <2>1. Withdrawn' BY <1>0, <1>2, <1>8 DEF ServedUp, Withdrawn
  <2>2. \A u \in publishSfu'.tracks : Expected(u)' BY <1>0, <1>2, <1>4 DEF ServedUp, Expected
  <2>3. \A h : (Offered(h)' <=> Offered(h)) /\ (Forwarded(own, h) => Forwarded(own, h)')
    BY <1>2, <1>4, <1>7, <1>8 DEF Offered, Forwarded, LP!pub
  <2>4. \A u \in publishPubs : Kept(own, u)' BY <1>0, <1>2, <2>3 DEF ServedUp, Kept
  <2>5. ASSUME NEW q \in LP!Procs PROVE Underway(own, q)'
    <3>1. AnsweredFor(q)' <=> AnsweredFor(q) BY <1>2, <1>7 DEF AnsweredFor
    <3> QED BY <1>0, <1>2, <1>9, <2>3, <3>1 DEF ServedUp, Underway, CallersSame
  <2> QED BY <1>2, <2>1, <2>2, <2>4, <2>5 DEF ServedUp
<1> QED
  BY <1>10, <1>11, <1>12, <1>13, <1>14, <1>15, <1>16, <1>17, <1>18 DEF PublishInvOf

LEMMA PublishInit == Init => PublishInv
<1> SUFFICES ASSUME LP!Init PROVE PublishInv BY DEF Init
<1> USE DEF LP!Init
<1>1. PICK own : own = [k \in LP!Attempts |-> LP!None] OBVIOUS
<1>2. own \in [LP!Attempts -> Cids \cup {LP!None}] BY <1>1
<1>3. PICK e : e = <<>> OBVIOUS
<1>4. publishToSFU = e /\ publishFromSFU = e /\ Made = {} /\ attempts = 0
  BY <1>3 DEF Made
<1>5. /\ Requested = {} /\ Accepted = {} /\ Gone = {}
      /\ Once(publishToSFU, "add") /\ Once(publishFromSFU, "published")
      /\ LastOffer(publishToSFU, publishSfu.offered) = {}
  BY <1>3, <1>4, NoMessages DEF Requested, Accepted, Gone
<1>6. \A q \in LP!Procs : /\ publishProc[q] = LP!Rest /\ publishProc[q].at = "idle"
                          /\ ~InCall(q) /\ ~Active(q) /\ ~Unsent(q) /\ ~Current(q)
  BY PublishBounds DEF InCall, Active, Unsent, Current
<1>7. PublishTyped(own)
  <2>1. /\ attempts \in 0 .. MaxAttempts /\ publishSession \in 0 .. MaxRestarts
        /\ chan \in [LP!Attempts -> 0 .. MaxAttempts] /\ listeners \in [Cids -> 0 .. MaxAttempts]
        /\ \A k \in LP!Attempts : chan[k] = LP!None
        /\ \A c \in Cids : listeners[c] <= attempts
    BY PublishBounds
  <2>2. CallersTyped
    <3>1. LP!Rest \in [at : Places, k : 0 .. MaxAttempts, cid : Cids \cup {LP!None},
                       session : 0 .. MaxRestarts]
      BY PublishBounds DEF Places
    <3> QED BY <3>1 DEF CallersTyped
  <2>3. /\ publishReader \in [to : 0 .. MaxAttempts, sid : 0 .. attempts]
        /\ publishReader.to \in {LP!None, publishReader.sid}
    BY PublishBounds
  <2>4. /\ publishToSFU \in Seq(AddRequests(own) \cup OfferRequests)
        /\ publishFromSFU \in Seq(Replies(own))
        /\ Len(publishToSFU) <= MaxInFlight /\ Len(publishFromSFU) <= MaxInFlight
    BY PublishBounds
  <2>5. publishSfu \in [tracks : SUBSET Publications(own), offered : SUBSET Made] OBVIOUS
  <2> QED BY <1>2, <1>4, <1>6, <2>1, <2>2, <2>3, <2>4, <2>5 DEF PublishTyped
<1>8. PublishPhases BY DEF PublishPhases
<1>9. OnePlace BY <1>5, <1>6 DEF OnePlace
<1>10. Listening(own) BY <1>5, <1>6, PublishBounds DEF Listening
<1>11. OneHolder BY <1>6 DEF OneHolder
<1>12. Awaited(own) BY <1>5 DEF Awaited
<1>13. WantedHeld BY <1>6, PublishBounds DEF WantedHeld
<1>14. HaveSenders BY <1>6 DEF HaveSenders
<1>15. ServedUp(own) BY <1>5, <1>6 DEF ServedUp, Withdrawn, Underway
<1> QED
  BY <1>2, <1>7, <1>8, <1>9, <1>10, <1>11, <1>12, <1>13, <1>14, <1>15 DEF PublishInv, PublishInvOf

LEMMA PublishStep ==
  ASSUME ~Retries
  PROVE  PublishInv /\ [Next]_vars => PublishInv'
<1>1. ASSUME PublishInv, LP!Next PROVE PublishInv'
  <2>1. PICK own \in [LP!Attempts -> Cids \cup {LP!None}] : PublishInvOf(own) BY <1>1 DEF PublishInv
  <2>2. CASE \/ \E p \in LP!Procs, c \in Cids : LP!PublishTrack(p, c) \/ LP!PublishSimulcastTrack(p, c)
             \/ \E c \in Cids : LP!Republish(c)
    BY <2>1, <2>2, PublishCalls
  <2>3. ASSUME NEW p \in LP!Procs,
               \/ LP!RegisterTrackPublishedListener(p) \/ LP!SendAddTrack(p) \/ LP!Answered(p)
               \/ LP!TimesOut(p) \/ LP!addPublication(p) \/ LP!UnregisterTrackPublishedListener(p)
               \/ \E t \in publishPubs : LP!UnpublishTrack(p, t)
        PROVE  PublishInvOf(own)'
    <3>1. publishLink \in {"up", "down"} BY <2>1, PublishParts DEF PublishTyped
    <3> QED BY <2>1, <2>3, <3>1, PublishRegisters, PublishSends, PublishEnds, PublishAnswered,
               PublishAdds, PublishUnpublishes
  <2>4. ASSUME LP!Republished PROVE PublishInvOf(own)' BY <2>1, <2>4, PublishEnds, PublishBounds
  <2>5. ASSUME \/ LP!OnLocalTrackPublished \/ LP!Deliver \/ LP!OnLocalTrackUnpublished
               \/ LP!Offer \/ LP!LinkFails \/ LP!republishTracks
               \/ LP!SFUAdds \/ LP!SFUTakesOffer
               \/ \E t \in publishSfu.tracks : LP!SFUUnpublishes(t)
        PROVE  PublishInvOf(own)'
    BY <2>1, <2>5, PublishNotified, PublishDelivers, PublishEnded, PublishOffers, PublishLinkFails,
       PublishRestarts, PublishAccepted, PublishOffered, PublishEndsTrack
  <2>6. CASE PublishInvOf(own)' BY <2>1, <2>6 DEF PublishInv, LP!Attempts
  <2> QED BY <1>1, <2>2, <2>3, <2>4, <2>5, <2>6 DEF LP!Next
<1>2. ASSUME PublishInv, UNCHANGED publishVars PROVE PublishInv'
  <2>1. PICK own \in [LP!Attempts -> Cids \cup {LP!None}] : PublishInvOf(own) BY <1>2 DEF PublishInv
  <2>2. PublishInvOf(own)' <=> PublishInvOf(own)
    BY <1>2 DEF publishVars, PublishInvOf, PublishTyped, CallersTyped, PublishPhases, OnePlace,
       Listening, OneHolder, Awaited, WantedHeld, HaveSenders, ServedUp, Withdrawn, Expected, Kept,
       Underway, AnsweredFor, Forwarded, Offered, Requested, Accepted, Gone, Sids, Once, IsLast,
       LastOffer, Grows, InCall, Active, Unsent, Current, WaitsFor, Made, AddRequests,
       OfferRequests, Replies, Publications
  <2> QED BY <2>1, <2>2 DEF PublishInv, LP!Attempts
<1> QED BY <1>1, <1>2 DEF Next, vars

LEMMA PublishAgrees == PublishInv => PublicationsAgree
<1> SUFFICES ASSUME PublishInv PROVE LP!TypeOK /\ LP!ReaderFree /\ LP!PublicationsAgree
  BY DEF PublicationsAgree
<1>1. PICK own : PublishInvOf(own) BY DEF PublishInv
<1>2. /\ PublishTyped(own) /\ PublishPhases /\ OnePlace /\ WantedHeld /\ HaveSenders /\ ServedUp(own)
  BY <1>1, PublishParts
<1>3. \A t \in Publications(own) : /\ t \in [sid : LP!Attempts, cid : Cids] /\ t.sid \in Made
                                   /\ t = LP!pub(t.sid, own[t.sid])
  BY <1>2, PublishMessages DEF Publications, LP!pub
<1>4. /\ publishPubs \subseteq Publications(own) /\ publishSfu.tracks \subseteq Publications(own)
      /\ publishSfu.offered \subseteq Made /\ publishSenders \subseteq Made
  BY <1>2 DEF PublishTyped
<1>5. LP!TypeOK
  <2>1. \A p \in LP!Procs : /\ publishProc[p].at \in Places
                            /\ publishProc[p].at = "idle" => publishProc[p] = LP!Rest
    BY <1>2 DEF PublishTyped, CallersTyped
  <2>2. Made \subseteq LP!Attempts BY <1>2, PublishMessages
  <2> QED BY <1>2, <1>3, <1>4, <2>1, <2>2 DEF LP!TypeOK, PublishTyped, Places
<1>6. LP!ReaderFree BY <1>2 DEF LP!ReaderFree, LP!Slot, OnePlace
<1>7. LP!PublicationsAgree
  <2> SUFFICES ASSUME LP!Quiet
               PROVE  /\ {t \in publishPubs : t.cid \notin publishLost}
                           = {t \in LP!published : t.cid \notin publishLost}
                      /\ \A c \in Cids \ publishLost :
                           c \in publishWanted <=> \E t \in publishPubs : t.cid = c
                      /\ \A t \in publishPubs : t.cid \notin publishLost => t.sid \in publishSenders
    BY DEF LP!PublicationsAgree
  <2>1. /\ publishLink = "up" /\ publishToSFU = <<>> /\ publishFromSFU = <<>> /\ ~negotiate
        /\ \A p \in LP!Procs : publishProc[p] = LP!Rest
    BY DEF LP!Quiet
  <2>2. Gone = {} /\ LastOffer(publishToSFU, publishSfu.offered) = publishSfu.offered
    BY <2>1, NoMessages DEF Gone
  <2>3. /\ \A p \in LP!Procs : publishProc[p].at = "idle" /\ ~Active(p)
        /\ todo = {}
    BY <1>2, <2>1, PublishBounds DEF Active, PublishPhases
  <2>4. \A t \in publishPubs : t.cid \notin publishLost => t \in LP!published
    BY <1>2, <1>3, <1>4, <2>1, <2>2 DEF ServedUp, Kept, Forwarded, Offered, LP!published
  <2>5. \A t \in LP!published : t.cid \notin publishLost => t \in publishPubs
    BY <1>2, <2>1, <2>2, <2>3 DEF ServedUp, Withdrawn, Expected, LP!published
  <2>6. \A c \in Cids \ publishLost : c \in publishWanted <=> \E t \in publishPubs : t.cid = c
    BY <1>2, <2>3, PublishBounds DEF WantedHeld
  <2>7. \A t \in publishPubs : t.cid \notin publishLost => t.sid \in publishSenders
    BY <1>2 DEF HaveSenders
  <2> QED BY <2>4, <2>5, <2>6, <2>7
<1> QED BY <1>5, <1>6, <1>7

\* However calls to publish and unpublish, answers, timeouts, offers and full
\* reconnects interleave (localparticipant.go, engine.go): the signal reader never
\* waits on a publisher that gave up, and when nothing is under way the
\* participant and the SFU list the same tracks, each with a sender, and they are
\* those wanted.  The hypothesis: the application does not publish again a track
\* whose publishing failed (README section 6).
THEOREM PublicationsAlwaysAgree ==
  ASSUME ~Retries
  PROVE  Spec => []PublicationsAgree
<1> QED BY PublishInit, PublishStep, PublishAgrees, PTL DEF Spec
=============================================================================
