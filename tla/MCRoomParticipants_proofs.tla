----------------------- MODULE MCRoomParticipants_proofs -----------------------
(***************************************************************************)
(* The remote participants of the room, for every value of the constants:  *)
(* the room ends up with the participants, SIDs and tracks of the SFU, and *)
(* media find their publications.                                          *)
(***************************************************************************)
EXTENDS MCRoomParticipants, FiniteSetTheorems, SequenceTheorems, TLAPS

-----------------------------------------------------------------------------
(* Infos, and where they are.                                              *)

\* Of these infos, those of participant i; and whether each tells of another participant.
Of(infos, i) == {infos[j] : j \in {k \in DOMAIN infos : infos[k].sid[1] = i}}
OnceEach(infos) == \A j, k \in DOMAIN infos : infos[j].sid[1] = infos[k].sid[1] => j = k

News(u, i) == Of(thread[u].infos, i)
Telling(u, i) == News(u, i) # {}
Queued(k, i) == Of(roomUpdates[k].infos, i)
About(k, i) == roomUpdates[k].moved \/ Queued(k, i) # {}
NoneQueued(i) == \A k \in DOMAIN roomUpdates : ~About(k, i)
\* Updater u handles the info of participant i.
Head1(u) == thread[u].infos[1]
Handles(u, i) == thread[u].infos # <<>> /\ Head1(u).sid[1] = i
\* Updater u empties the room of participant o.
Emptying(u) == thread[u].at \in {"remove", "unpublish"} /\ thread[u].old # RP!None
Drops(u, o) ==
  \/ o \in thread[u].leaving
  \/ Emptying(u) /\ thread[u].at = "remove" /\ thread[u].obj = o
InHand(u, i) == Telling(u, i) \/ \E o \in RP!Objects : o[1] = i /\ Drops(u, o)

There(i) == remoteParticipants[i] # RP!None
Part(i) == part[remoteParticipants[i]]

\* x was told no later than y.
Upto(x, y) == x.sid[2] < y.sid[2] \/ (x.sid = y.sid /\ x.version <= y.version)
\* ... and y has those of its tracks that are still published.
Before(x, xtracks, y) == Upto(x, y) /\ xtracks \cap world[y.sid[1]].tracks \subseteq y.tracks
\* The session with that SID is over.
Over(sid) == sid[2] < world[sid[1]].sid[2] \/ world[sid[1]].left
\* The SFU has given out that SID.
Given(sid) ==
  \/ sid[2] < world[sid[1]].sid[2]
  \/ sid = world[sid[1]].sid /\ world[sid[1]].version # 0

-----------------------------------------------------------------------------
(* Types.                                                                  *)

Infos == RP!Info
Told(x) == x \in Infos /\ Upto(x, world[x.sid[1]]) /\ x.version # 0 /\ x.tracks \subseteq used

WorldTyped ==
  /\ used \subseteq Tracks
  /\ \A i \in Identities :
       /\ world[i] \in Infos /\ world[i].sid[1] = i /\ world[i].tracks \subseteq used
       /\ world[i].left => world[i].tracks = {}
       /\ world[i].version = 0 => world[i].left /\ world[i].sid[2] = 1
  /\ \A i, j \in Identities : i # j => world[i].tracks \cap world[j].tracks = {}
  /\ DOMAIN world = Identities

LinkTyped ==
  /\ roomLink \in {"up", "down", "joining"} /\ roomSession \in 0 .. RoomRestarts
  /\ roomOvertaken \subseteq roomCrossed /\ roomCrossed \subseteq Identities
  /\ stranded \subseteq Tracks
  /\ roomLink = "down" => thread["worker"].at = "idle"
  /\ roomLink # "up" => roomUpdates = <<>> /\ thread["worker"].infos = <<>>
  /\ roomLink # "up" => roomSession < RoomRestarts
  /\ roomLink # "joining" => thread["worker"].leaving = {} /\ ~Emptying("worker")

QueueTyped ==
  /\ roomUpdates \in Seq([moved : BOOLEAN, infos : Seq(Infos)]) /\ Len(roomUpdates) <= MaxInFlight
  /\ \A k \in DOMAIN roomUpdates :
       /\ OnceEach(roomUpdates[k].infos)
       /\ ~roomUpdates[k].moved => Len(roomUpdates[k].infos) = 1
       /\ \A j \in DOMAIN roomUpdates[k].infos : Told(roomUpdates[k].infos[j])

Made(o) == o \in RP!Objects /\ o[2] <= made[o[1]]

PartsTyped ==
  /\ made \in [Identities -> 0 .. MaxObjects]
  /\ part \in [RP!Objects -> [sid : RP!Sids \cup {RP!None}, version : Nat,
                              pubs : SUBSET Tracks, attached : SUBSET Tracks]]
  /\ \A o \in RP!Objects :
       /\ part[o].attached \subseteq part[o].pubs
       /\ Made(o) => /\ part[o].sid \in RP!Sids /\ part[o].sid[1] = o[1]
                     /\ Upto(part[o], world[o[1]]) /\ part[o].version # 0
                     /\ part[o].pubs \subseteq used
       /\ ~Made(o) => part[o] = RP!NoPart

RoomTyped ==
  /\ DOMAIN remoteParticipants = Identities
  /\ \A i \in Identities : There(i) => Made(remoteParticipants[i]) /\ remoteParticipants[i][1] = i
  /\ sidToIdentity \subseteq RP!Sids /\ \A s \in sidToIdentity : Given(s)
  /\ sidDefers \in [RP!Sids -> SUBSET Tracks]

Places == {"idle", "look", "leave", "add", "update", "resid", "clear", "run", "remove", "unpublish"}
Applying == {"update", "resid", "clear", "run"}

ThreadTyped(u) ==
  /\ thread[u] \in [at : Places, infos : Seq(Infos), leaving : SUBSET RP!Objects,
                    obj : RP!Objects \cup {RP!None}, old : RP!Objects \cup RP!Sids \cup {RP!None}]
  /\ OnceEach(thread[u].infos) /\ \A j \in DOMAIN thread[u].infos : Told(thread[u].infos[j])
  /\ \A o \in thread[u].leaving : Made(o)

ThreadPlaced(u) ==
  /\ thread[u].at = "idle" => thread[u].infos = <<>>
  /\ thread[u].at = "leave" <=> thread[u].leaving # {} /\ ~Emptying(u)
  /\ thread[u].at \in {"look", "add"} \cup Applying => thread[u].infos # <<>>
  /\ thread[u].at \in {"add"} \cup Applying => ~Head1(u).left
  /\ thread[u].at \in Applying =>
       Made(thread[u].obj) /\ thread[u].obj[1] = Head1(u).sid[1]
  /\ thread[u].at = "resid" => thread[u].old \in RP!Sids /\ thread[u].old[1] = thread[u].obj[1]
  /\ thread[u].at \in {"remove", "unpublish"} =>
       /\ Made(thread[u].obj) /\ thread[u].obj \notin thread[u].leaving
       /\ thread[u].old # RP!None => thread[u].old = thread[u].obj
       /\ thread[u].old = RP!None => /\ thread[u].infos # <<>> /\ Head1(u).left
                                     /\ thread[u].obj[1] = Head1(u).sid[1]
  /\ thread[u].at = "unpublish" => remoteParticipants[thread[u].obj[1]] # thread[u].obj

ThreadsTyped ==
  /\ DOMAIN thread = RP!Updaters
  /\ \A u \in RP!Updaters : ThreadTyped(u) /\ ThreadPlaced(u)

MediaPlaces == {"none", "arrived", "deferring", "deferred", "find", "attach", "poll", "attached",
                "failed"}
Found == {"find", "attach", "poll", "attached"}

MediaTyped ==
  /\ roomMedia \in [Tracks -> [at : MediaPlaces, sid : RP!Sids \cup {RP!None},
                               obj : RP!Objects \cup {RP!None}, session : Nat]]
  /\ \A t \in Tracks : roomMedia[t].at # "none" =>
       /\ t \in used /\ roomMedia[t].sid \in RP!Sids /\ Given(roomMedia[t].sid)
       /\ roomMedia[t].session <= roomSession
       /\ roomMedia[t].at \in Found =>
            roomMedia[t].obj \in RP!Objects /\ roomMedia[t].obj[1] = roomMedia[t].sid[1]
       /\ \A i \in Identities : t \in world[i].tracks => roomMedia[t].sid = world[i].sid
  /\ \A s \in RP!Sids : \A t \in sidDefers[s] :
       roomMedia[t].sid = s /\ roomMedia[t].at \in {"arrived", "deferring", "deferred", "find"}

RoomKinds ==
  /\ WorldTyped /\ LinkTyped /\ QueueTyped /\ PartsTyped /\ RoomTyped /\ ThreadsTyped /\ MediaTyped

-----------------------------------------------------------------------------
(* One updater at a time.                                                  *)

\* No update of participant i has come between, in this session or, before a new one, ever.
Followed(i) == i \notin (IF roomLink = "joining" THEN roomCrossed ELSE roomOvertaken)

\* Then what an updater does with i it does alone, and with the object the room has.
Alone(i) == ~ (Telling("worker", i) /\ InHand("reader", i))

AtPlace(u, i) ==
  Handles(u, i) =>
    /\ thread[u].at \in Applying => remoteParticipants[i] = thread[u].obj
    /\ thread[u].at \in {"add", "unpublish"} => Emptying(u) \/ ~There(i)
    /\ thread[u].at = "remove" /\ ~Emptying(u) => remoteParticipants[i] = thread[u].obj
    /\ thread[u].at \in {"resid", "clear", "run"} =>
         /\ Part(i).sid = Head1(u).sid /\ Part(i).version = Head1(u).version
         /\ Part(i).pubs = Head1(u).tracks
    /\ thread[u].at = "resid" => thread[u].old[2] < Part(i).sid[2]

DropsItsOwn(i) ==
  \A u \in RP!Updaters : \A o \in RP!Objects :
    o[1] = i /\ Drops(u, o) => remoteParticipants[i] \in {o, RP!None}

Sequential(i) ==
  Followed(i) => Alone(i) /\ DropsItsOwn(i) /\ \A u \in RP!Updaters : AtPlace(u, i)

\* The SIDs the room knows of participant i.
Resids(u, i) == Handles(u, i) /\ thread[u].at = "resid"
Renaming(i) == \E u \in RP!Updaters : Resids(u, i)
SidsOf(i) == {s \in sidToIdentity : s[1] = i}
SidsExact(i) ==
  i \notin roomCrossed =>
    /\ ~There(i) => SidsOf(i) = {}
    /\ There(i) => \A s \in SidsOf(i) :
         \/ s = Part(i).sid
         \/ \E u \in RP!Updaters : Resids(u, i) /\ s = thread[u].old

\* Between two connections the room is emptied.
Emptied(i) ==
  roomLink = "joining" /\ i \notin roomOvertaken =>
    /\ ~Telling("reader", i)
    /\ There(i) => Drops("worker", remoteParticipants[i])

-----------------------------------------------------------------------------
(* What is told of a participant, and in which order.                      *)

Live(i) == roomLink = "up" /\ i \notin roomOvertaken

Ordered(i) ==
  /\ There(i) => /\ \A u \in RP!Updaters : \A y \in News(u, i) : Before(Part(i), Part(i).pubs, y)
                 /\ \A k \in DOMAIN roomUpdates : \A y \in Queued(k, i) :
                      Before(Part(i), Part(i).pubs, y)
  /\ \A u \in RP!Updaters : \A x \in News(u, i) :
       \A k \in DOMAIN roomUpdates : \A y \in Queued(k, i) : Before(x, x.tracks, y)
  /\ \A k, l \in DOMAIN roomUpdates : k < l =>
       \A x \in Queued(k, i), y \in Queued(l, i) : Before(x, x.tracks, y)

\* A session that is told to end, or left behind by a move, is over.
Ended(i) ==
  /\ \A u \in RP!Updaters : \A x \in News(u, i) : x.left => Over(x.sid)
  /\ \A k \in DOMAIN roomUpdates : \A x \in Queued(k, i) : x.left => Over(x.sid)
  /\ \A l \in DOMAIN roomUpdates : roomUpdates[l].moved =>
       /\ There(i) => Over(Part(i).sid)
       /\ \A u \in RP!Updaters : \A x \in News(u, i) : Over(x.sid)
       /\ \A k \in DOMAIN roomUpdates : k < l => \A x \in Queued(k, i) : Over(x.sid)
  /\ \A u \in RP!Updaters : \A o \in RP!Objects : o[1] = i /\ Drops(u, o) => Over(part[o].sid)

\* The last word on a participant is as the SFU has it.
Says(infos, i) == IF Of(infos, i) = {} THEN world[i].left ELSE world[i] \in Of(infos, i)
RoomIs(i) ==
  /\ There(i) <=> ~world[i].left
  /\ There(i) => Part(i).sid = world[i].sid /\ Part(i).pubs = world[i].tracks
LastWord(i) ==
  /\ \A k \in DOMAIN roomUpdates :
       About(k, i) /\ (\A l \in DOMAIN roomUpdates : l > k => ~About(l, i)) =>
         Says(roomUpdates[k].infos, i)
  /\ NoneQueued(i) =>
       /\ \A u \in RP!Updaters : InHand(u, i) => Says(thread[u].infos, i)
       /\ (\A u \in RP!Updaters : ~InHand(u, i)) => RoomIs(i)

\* The room knows participants under their SIDs, and no SID newer than what it was told.
Known(i) ==
  /\ There(i) => \/ Part(i).sid \in sidToIdentity \/ Renaming(i)
  /\ \A s \in SidsOf(i) :
       /\ There(i) => s[2] <= Part(i).sid[2]
       /\ \A u \in RP!Updaters : \A y \in News(u, i) : s[2] <= y.sid[2]
       /\ \A k \in DOMAIN roomUpdates : \A y \in Queued(k, i) : s[2] <= y.sid[2]

Follows(i) ==
  /\ i \notin roomOvertaken => Ordered(i)
  /\ Live(i) => Ended(i) /\ LastWord(i) /\ Known(i)

-----------------------------------------------------------------------------
(* Media.                                                                  *)

\* What was found for a session that is not over is what the room has.
FoundRight(t) ==
  LET i == roomMedia[t].sid[1] IN
  roomMedia[t].at \in Found /\ Live(i) /\ ~Over(roomMedia[t].sid) =>
    There(i) /\ roomMedia[t].obj = remoteParticipants[i] /\ Part(i).sid = roomMedia[t].sid

\* Somebody is about to run what waits for participant i.
RunsDefers(i) ==
  \E u \in RP!Updaters :
    Handles(u, i) /\ thread[u].at \in {"clear", "run"} /\ Head1(u).sid = world[i].sid

Served(t, i) ==
  Live(i) /\ t \in world[i].tracks /\ roomMedia[t].session = roomSession /\ t \notin stranded =>
    /\ roomMedia[t].at = "deferred" =>
         /\ t \in sidDefers[world[i].sid]
         /\ world[i].sid \in sidToIdentity => RunsDefers(i)
    /\ roomMedia[t].at = "attached" => There(i) /\ t \in Part(i).attached

ParticipantInv ==
  /\ RoomKinds
  /\ \A i \in Identities : Sequential(i) /\ SidsExact(i) /\ Emptied(i) /\ Follows(i)
  /\ \A t \in Tracks : FoundRight(t) /\ \A i \in Identities : Served(t, i)

LEMMA SameCounts ==
  ASSUME NEW S
  PROVE  RP!Cardinality(S) = Cardinality(S) /\ (RP!IsFiniteSet(S) <=> IsFiniteSet(S))
<1>1. RP!Cardinality(S) = Cardinality(S) BY Zenon DEF RP!Cardinality, Cardinality
<1>2. RP!IsFiniteSet(S) <=> IsFiniteSet(S) BY Zenon DEF RP!IsFiniteSet, IsFiniteSet
<1> QED BY <1>1, <1>2

LEMMA OrderFacts ==
  ASSUME NEW S, IsFiniteSet(S), NEW order \in RP!SetToSeqs(S)
  PROVE  /\ order \in Seq(S) /\ \A x \in S : \E j \in DOMAIN order : order[j] = x
         /\ \A j, k \in DOMAIN order : order[j] = order[k] => j = k
<1> PICK n \in Nat : n = RP!Cardinality(S) BY FS_CardinalityType, SameCounts
<1>2. order \in [1 .. n -> S] /\ \A j, k \in 1 .. n : j # k => order[j] # order[k]
  BY DEF RP!SetToSeqs
<1>3. order \in Injection(1 .. n, S) BY <1>2 DEF Injection, IsInjective
<1>4. IsFiniteSet(1 .. n) /\ Cardinality(1 .. n) = n
  <2>1. 1 \in Int /\ n \in Int OBVIOUS
  <2> QED BY <2>1, FS_Interval
<1>5. Cardinality(S) = n BY SameCounts
<1>6. order \in Surjection(1 .. n, S) BY <1>3, <1>4, <1>5, FS_Injection
<1>7. order \in Seq(S) BY <1>2, SeqDef
<1>8. \A x \in S : \E j \in 1 .. n : order[j] = x BY <1>6 DEF Surjection
<1> QED BY <1>2, <1>7, <1>8

LEMMA PermutationFacts ==
  ASSUME NEW order \in RP!SetToAllKPermutations(Identities)
  PROVE  /\ order \in Seq(Identities)
         /\ \A j, k \in DOMAIN order : order[j] = order[k] => j = k
<1> PICK S \in SUBSET Identities : order \in RP!SetToSeqs(S) BY DEF RP!SetToAllKPermutations
<1>1. IsFiniteSet(Identities) BY RoomBounds, SameCounts DEF RP!RoomAssumption
<1>2. IsFiniteSet(S) BY <1>1, FS_Subset
<1>3. order \in Seq(S) /\ \A j, k \in DOMAIN order : order[j] = order[k] => j = k
  BY <1>2, OrderFacts, Zenon
<1>4. order \in [1 .. Len(order) -> S] BY <1>3, LenProperties
<1>5. order \in [1 .. Len(order) -> Identities] /\ Len(order) \in Nat BY <1>4, <1>3, LenProperties
<1>6. order \in Seq(Identities) BY <1>5, SeqDef
<1> QED BY <1>3, <1>6

-----------------------------------------------------------------------------
(* Sequences of infos.                                                     *)

LEMMA NoInfos == \A i : Of(<<>>, i) = {} /\ OnceEach(<<>>)
  BY DEF Of, OnceEach

LEMMA TailInfos ==
  ASSUME NEW s \in Seq(Infos), s # <<>>, OnceEach(s)
  PROVE  /\ Tail(s) \in Seq(Infos) /\ OnceEach(Tail(s)) /\ Head(s) = s[1] /\ 1 \in DOMAIN s
         /\ \A j \in DOMAIN Tail(s) : j + 1 \in DOMAIN s /\ Tail(s)[j] = s[j + 1]
         /\ \A i : Of(s, i) = IF s[1].sid[1] = i THEN {s[1]} ELSE Of(Tail(s), i)
         /\ Of(Tail(s), s[1].sid[1]) = {}
<1>1. /\ Len(s) \in Nat \ {0} /\ DOMAIN s = 1 .. Len(s) /\ Head(s) = s[1]
      /\ Tail(s) \in Seq(Infos) /\ Len(Tail(s)) = Len(s) - 1
      /\ \A j \in 1 .. Len(s) - 1 : Tail(s)[j] = s[j + 1]
  BY HeadTailProperties, EmptySeq, LenProperties
<1>2. DOMAIN Tail(s) = 1 .. Len(s) - 1 BY <1>1, LenProperties
<1>3. \A j \in DOMAIN Tail(s) : j + 1 \in DOMAIN s /\ Tail(s)[j] = s[j + 1] /\ j \in Int
  BY <1>1, <1>2
<1>4. OnceEach(Tail(s))
  <2> SUFFICES ASSUME NEW j \in DOMAIN Tail(s), NEW k \in DOMAIN Tail(s),
                      Tail(s)[j].sid[1] = Tail(s)[k].sid[1]
               PROVE  j = k
    BY DEF OnceEach
  <2>1. j + 1 = k + 1 BY <1>3 DEF OnceEach
  <2> QED BY <2>1, <1>3
<1>5. \A j \in DOMAIN s : j = 1 \/ (j - 1 \in DOMAIN Tail(s) /\ (j - 1) + 1 = j) BY <1>1, <1>2
<1>6. ASSUME NEW i PROVE Of(s, i) = IF s[1].sid[1] = i THEN {s[1]} ELSE Of(Tail(s), i)
  <2>1. CASE s[1].sid[1] = i
    <3>1. \A j \in DOMAIN s : s[j].sid[1] = i => j = 1 BY <2>1, <1>1 DEF OnceEach
    <3>2. 1 \in DOMAIN s BY <1>1
    <3> QED BY <2>1, <3>1, <3>2 DEF Of
  <2>2. CASE s[1].sid[1] # i
    <3>1. \A x : x \in Of(s, i) <=> \E j \in DOMAIN s : s[j].sid[1] = i /\ x = s[j] BY DEF Of
    <3>2. \A x : x \in Of(Tail(s), i)
                   <=> \E j \in DOMAIN Tail(s) : Tail(s)[j].sid[1] = i /\ x = Tail(s)[j]
      BY DEF Of
    <3>3. ASSUME NEW x \in Of(s, i) PROVE x \in Of(Tail(s), i)
      <4> PICK j \in DOMAIN s : s[j].sid[1] = i /\ x = s[j] BY <3>1
      <4>1. j - 1 \in DOMAIN Tail(s) /\ (j - 1) + 1 = j BY <1>5, <2>2
      <4>2. Tail(s)[j - 1] = s[j] BY <4>1, <1>3
      <4> QED BY <3>2, <4>1, <4>2
    <3>4. ASSUME NEW x \in Of(Tail(s), i) PROVE x \in Of(s, i)
      <4> PICK j \in DOMAIN Tail(s) : Tail(s)[j].sid[1] = i /\ x = Tail(s)[j] BY <3>2
      <4> QED BY <3>1, <1>3
    <3> QED BY <2>2, <3>3, <3>4
  <2> QED BY <2>1, <2>2
<1>7. Of(Tail(s), s[1].sid[1]) = {}
  <2>1. \A j \in DOMAIN Tail(s) : Tail(s)[j].sid[1] # s[1].sid[1]
    <3> SUFFICES ASSUME NEW j \in DOMAIN Tail(s), Tail(s)[j].sid[1] = s[1].sid[1] PROVE FALSE
      OBVIOUS
    <3>1. j + 1 = 1 BY <1>1, <1>3 DEF OnceEach
    <3> QED BY <3>1, <1>2, <1>1
  <2> QED BY <2>1 DEF Of
<1> QED BY <1>1, <1>3, <1>4, <1>6, <1>7

\* An info is in a sequence if it is of its participant.
LEMMA OfInfos ==
  ASSUME NEW s, NEW i, NEW x \in Of(s, i)
  PROVE  \E j \in DOMAIN s : x = s[j] /\ x.sid[1] = i
  BY DEF Of

-----------------------------------------------------------------------------
(* What the updaters' steps do to their threads.                           *)

Becomes(u, at, infos, leaving, obj, old) ==
  /\ DOMAIN thread' = RP!Updaters
  /\ thread'[u] = [at |-> at, infos |-> infos, leaving |-> leaving, obj |-> obj, old |-> old]
  /\ \A v \in RP!Updaters : v # u => thread'[v] = thread[v]

LEMMA StepBecomes ==
  ASSUME ThreadsTyped, NEW u \in RP!Updaters, NEW at, RP!Step(u, at)
  PROVE  Becomes(u, at, thread[u].infos, thread[u].leaving, thread[u].obj, thread[u].old)
  BY DEF RP!Step, ThreadsTyped, ThreadTyped, Becomes

LEMMA StepWithBecomes ==
  ASSUME ThreadsTyped, NEW u \in RP!Updaters, NEW at, NEW o, NEW d, RP!StepWith(u, at, o, d)
  PROVE  Becomes(u, at, thread[u].infos, thread[u].leaving, o, d)
  BY DEF RP!StepWith, ThreadsTyped, ThreadTyped, Becomes

LEMMA ProceedBecomes ==
  ASSUME ThreadsTyped, NEW u \in RP!Updaters, RP!Proceed(u)
  PROVE  LET rest == IF thread[u].at = "unpublish" /\ Emptying(u) THEN thread[u].infos
                     ELSE Tail(thread[u].infos) IN
         Becomes(u, IF thread[u].leaving # {} THEN "leave" ELSE IF rest # <<>> THEN "look" ELSE "idle",
                 rest, thread[u].leaving, RP!None, RP!None)
<1>1. (thread[u].at = "unpublish" /\ thread[u].old # RP!None)
        <=> (thread[u].at = "unpublish" /\ Emptying(u))
  BY DEF Emptying
<1> QED BY <1>1 DEF RP!Proceed, RP!Idle, ThreadsTyped, ThreadTyped, Becomes

LEMMA LeaveBecomes ==
  ASSUME ThreadsTyped, NEW u \in RP!Updaters, NEW o, RP!Leave(u, o)
  PROVE  Becomes(u, "remove", thread[u].infos, thread[u].leaving \ {o}, o, o)
  BY DEF RP!Leave, ThreadsTyped, ThreadTyped, Becomes

-----------------------------------------------------------------------------
(* Types: the updaters.                                                    *)

LEMMA HeadInfo ==
  ASSUME ThreadsTyped, NEW u \in RP!Updaters, thread[u].infos # <<>>
  PROVE  /\ RP!info(u) = Head1(u) /\ Head1(u) \in Infos /\ Told(Head1(u))
         /\ Head1(u).sid[1] \in Identities /\ Head1(u).sid \in RP!Sids
         /\ News(u, Head1(u).sid[1]) = {Head1(u)}
<1>1. thread[u].infos \in Seq(Infos) /\ OnceEach(thread[u].infos)
  BY DEF ThreadsTyped, ThreadTyped
<1>2. 1 \in DOMAIN thread[u].infos /\ Head(thread[u].infos) = thread[u].infos[1]
  BY <1>1, TailInfos
<1>3. Told(Head1(u)) BY <1>2 DEF ThreadsTyped, ThreadTyped, Head1
<1>4. News(u, Head1(u).sid[1]) = {Head1(u)} BY <1>1, TailInfos DEF News, Head1
<1>5. Head1(u).sid \in RP!Sids BY <1>3 DEF Told, Infos, RP!Info
<1> QED BY <1>2, <1>3, <1>4, <1>5 DEF RP!info, Head1, Told, RP!Sids

\* A step of updater u.
Moved(u, at, f, l, o, d) ==
  /\ Becomes(u, at, f, l, o, d)
  /\ at \in Places /\ l \subseteq thread[u].leaving /\ thread[u].at # "idle"
  /\ f = thread[u].infos \/ (thread[u].infos # <<>> /\ f = Tail(thread[u].infos))
  /\ o \in RP!Objects \cup {RP!None} /\ d \in RP!Objects \cup RP!Sids \cup {RP!None}
  /\ at \in {"remove", "unpublish"} /\ d # RP!None => Emptying(u) \/ thread[u].leaving # {}

SameNews ==
  UNCHANGED <<world, used, roomUpdates, roomLink, roomSession, roomOvertaken, roomCrossed>>

LEMMA ThreadMoved ==
  ASSUME RoomKinds, NEW u \in RP!Updaters, NEW at, NEW f, NEW l, NEW o, NEW d,
         Moved(u, at, f, l, o, d), SameNews, \A x \in RP!Objects : Made(x) => Made(x)'
  PROVE  DOMAIN thread' = RP!Updaters /\ \A v \in RP!Updaters : ThreadTyped(v)'
<1> USE DEF Moved, RoomKinds
<1>1. \A x : Told(x)' <=> Told(x) BY DEF SameNews, Told, Upto
<1>2. f \in Seq(Infos) /\ OnceEach(f) /\ \A j \in DOMAIN f : Told(f[j])
  <2>1. CASE f = thread[u].infos BY <2>1 DEF ThreadsTyped, ThreadTyped
  <2>2. CASE thread[u].infos # <<>> /\ f = Tail(thread[u].infos)
    <3>1. thread[u].infos \in Seq(Infos) /\ OnceEach(thread[u].infos)
          /\ \A j \in DOMAIN thread[u].infos : Told(thread[u].infos[j])
      BY DEF ThreadsTyped, ThreadTyped
    <3> QED BY <3>1, <2>2, TailInfos
  <2> QED BY <2>1, <2>2
<1>3. ThreadTyped(u)'
  <2>1. thread'[u] = [at |-> at, infos |-> f, leaving |-> l, obj |-> o, old |-> d]
    BY DEF Becomes
  <2>2. l \subseteq RP!Objects /\ \A x \in l : Made(x)' BY DEF ThreadsTyped, ThreadTyped, Made
  <2> QED BY <2>1, <2>2, <1>1, <1>2 DEF ThreadTyped, OnceEach
<1>4. ASSUME NEW v \in RP!Updaters, v # u PROVE ThreadTyped(v)'
  <2>1. thread'[v] = thread[v] BY <1>4 DEF Becomes
  <2>2. ThreadTyped(v) BY DEF ThreadsTyped
  <2>3. \A x \in thread[v].leaving : Made(x)' BY <2>2 DEF ThreadTyped, Made
  <2> QED BY <2>1, <2>2, <2>3, <1>1 DEF ThreadTyped, OnceEach
<1> QED BY <1>3, <1>4 DEF Becomes

LEMMA WorldMoved ==
  ASSUME RoomKinds, NEW u \in RP!Updaters, NEW at, NEW f, NEW l, NEW o, NEW d,
         Moved(u, at, f, l, o, d), SameNews, stranded' \subseteq Tracks
  PROVE  WorldTyped' /\ LinkTyped' /\ QueueTyped'
<1> USE DEF Moved, RoomKinds, SameNews
<1>1. WorldTyped' BY DEF WorldTyped
<1>2. QueueTyped' BY DEF QueueTyped, Told, Upto, OnceEach
<1>3. LinkTyped'
  <2>1. CASE u # "worker"
    <3>1. thread'["worker"] = thread["worker"] BY <2>1 DEF Becomes, RP!Updaters
    <3> QED BY <3>1 DEF LinkTyped, Emptying
  <2>2. CASE u = "worker"
    <3>1. /\ thread'["worker"].at = at /\ thread'["worker"].infos = f
          /\ thread'["worker"].leaving = l /\ thread'["worker"].old = d
      BY <2>2 DEF Becomes
    <3>2. Emptying("worker")' => at \in {"remove", "unpublish"} /\ d # RP!None
      BY <3>1 DEF Emptying
    <3> QED BY <2>2, <3>1, <3>2 DEF LinkTyped
  <2> QED BY <2>1, <2>2
<1> QED BY <1>1, <1>2, <1>3

\* The other updater is where it was.
LEMMA OtherPlaced ==
  ASSUME RoomKinds, NEW u \in RP!Updaters, NEW v \in RP!Updaters, thread'[v] = thread[v],
         \A x \in RP!Objects : Made(x) => Made(x)',
         \A i \in Identities : \/ remoteParticipants'[i] \in {remoteParticipants[i], RP!None}
                               \/ ~Made(remoteParticipants'[i])
  PROVE  ThreadPlaced(v)'
<1>1. ThreadPlaced(v) /\ ThreadTyped(v) BY DEF RoomKinds, ThreadsTyped
<1>2. thread[v].obj \in RP!Objects => thread[v].obj # RP!None /\ thread[v].obj[1] \in Identities
  BY DEF RP!Objects, RP!None
<1>3. thread[v].at = "unpublish" => remoteParticipants'[thread[v].obj[1]] # thread[v].obj
  BY <1>1, <1>2 DEF ThreadPlaced, Made
<1>4. Made(thread[v].obj) => Made(thread[v].obj)' BY DEF Made
<1> QED BY <1>1, <1>3, <1>4 DEF ThreadPlaced, Emptying, Head1

PartKind == [sid : RP!Sids \cup {RP!None}, version : Nat, pubs : SUBSET Tracks,
             attached : SUBSET Tracks]
PartTyped(o, p) ==
  /\ p \in PartKind /\ p.attached \subseteq p.pubs
  /\ p.sid \in RP!Sids /\ p.sid[1] = o[1] /\ Upto(p, world[o[1]]) /\ p.version # 0
  /\ p.pubs \subseteq used

\* A participant to whom info x is applied.
LEMMA UpdatedPart ==
  ASSUME PartsTyped, NEW o \in RP!Objects, NEW x \in Infos, Told(x), x.sid[1] = o[1]
  PROVE  /\ PartTyped(o, RP!updated(o, x))
         /\ RP!Refused(o, x) => RP!updated(o, x) = part[o]
         /\ ~RP!Refused(o, x) =>
              RP!updated(o, x) = [sid |-> x.sid, version |-> x.version, pubs |-> x.tracks,
                                  attached |-> part[o].attached \cap x.tracks]
         /\ ~Made(o) => ~RP!Refused(o, x)
<1>1. x.sid \in RP!Sids /\ x.version \in Nat /\ x.tracks \subseteq Tracks BY DEF Infos, RP!Info
<1>2. part[o] \in PartKind BY DEF PartsTyped, PartKind
<1>3. ~Made(o) => ~RP!Refused(o, x)
  <2>1. x.sid # RP!None BY <1>1 DEF RP!Sids, RP!None
  <2>2. ~Made(o) => part[o].sid = RP!None BY DEF PartsTyped, RP!NoPart
  <2> QED BY <2>1, <2>2 DEF RP!Refused
<1>4. CASE RP!Refused(o, x)
  <2>1. RP!updated(o, x) = part[o] BY <1>4 DEF RP!updated
  <2>2. Made(o) BY <1>3, <1>4
  <2>3. PartTyped(o, part[o]) BY <1>2, <2>2 DEF PartsTyped, PartTyped
  <2> QED BY <2>1, <2>2, <2>3, <1>4
<1>5. CASE ~RP!Refused(o, x)
  <2>1. RP!updated(o, x) = [sid |-> x.sid, version |-> x.version, pubs |-> x.tracks,
                            attached |-> part[o].attached \cap x.tracks]
    BY <1>5 DEF RP!updated
  <2>2. PICK p : p = RP!updated(o, x) OBVIOUS
  <2>3. /\ p = [sid |-> x.sid, version |-> x.version, pubs |-> x.tracks,
                attached |-> part[o].attached \cap x.tracks]
    BY <2>1, <2>2
  <2>4. p \in PartKind /\ p.attached \subseteq p.pubs BY <2>3, <1>1, <1>2 DEF PartKind
  <2>5. p.sid = x.sid /\ p.version = x.version BY <2>3
  <2>6. Upto(p, world[o[1]]) /\ p.version # 0 /\ p.pubs \subseteq used
    BY <2>3, <2>5 DEF Told, Upto
  <2>7. PartTyped(o, p) BY <2>4, <2>5, <2>6, <1>1 DEF PartTyped
  <2> QED BY <2>1, <2>2, <2>7, <1>5
<1> QED BY <1>3, <1>4, <1>5

\* Changing one participant that is, or comes to be, made.
LEMMA PartChanged ==
  ASSUME RoomKinds, UNCHANGED <<world, used>>, NEW o \in RP!Objects, NEW p, PartTyped(o, p),
         part' = [part EXCEPT ![o] = p], made' \in [Identities -> 0 .. MaxObjects],
         \A x \in RP!Objects : Made(x)' <=> Made(x) \/ x = o
  PROVE  PartsTyped'
<1> USE DEF RoomKinds
<1>1. part \in [RP!Objects -> PartKind] BY DEF PartsTyped, PartKind
<1>2. part' \in [RP!Objects -> PartKind] BY <1>1 DEF PartTyped
<1>3. part'[o] = p /\ \A x \in RP!Objects : x # o => part'[x] = part[x] BY <1>1
<1>4. ASSUME NEW x \in RP!Objects
      PROVE  /\ part'[x].attached \subseteq part'[x].pubs
             /\ Made(x)' => /\ part'[x].sid \in RP!Sids /\ part'[x].sid[1] = x[1]
                            /\ Upto(part'[x], world[x[1]]) /\ part'[x].version # 0
                            /\ part'[x].pubs \subseteq used
             /\ ~Made(x)' => part'[x] = RP!NoPart
  <2>1. CASE x = o BY <2>1, <1>3 DEF PartTyped
  <2>2. CASE x # o
    <3>1. part'[x] = part[x] /\ (Made(x)' <=> Made(x)) BY <2>2, <1>3
    <3> QED BY <3>1 DEF PartsTyped
  <2> QED BY <2>1, <2>2
<1>5. \A x \in RP!Objects : Upto(part[x], world[x[1]])' <=> Upto(part'[x], world[x[1]])
  BY DEF Upto
<1> QED BY <1>2, <1>4, <1>5 DEF PartsTyped, PartKind

\* What is the same when the maps are.
LEMMA SameMaps ==
  ASSUME RoomKinds, UNCHANGED <<world, used, made>>
  PROVE  /\ (\A x : Made(x)' <=> Made(x)) /\ (\A s : Given(s)' <=> Given(s))
         /\ UNCHANGED part => PartsTyped'
         /\ UNCHANGED <<roomMedia, roomSession>>
              /\ (\A s \in RP!Sids : sidDefers'[s] \subseteq sidDefers[s]) => MediaTyped'
<1>1. (\A x : Made(x)' <=> Made(x)) /\ (\A s : Given(s)' <=> Given(s)) BY DEF Made, Given
<1>2. UNCHANGED part => PartsTyped' BY <1>1 DEF RoomKinds, PartsTyped, Upto
<1>3. ASSUME UNCHANGED <<roomMedia, roomSession>>, \A s \in RP!Sids : sidDefers'[s] \subseteq sidDefers[s]
      PROVE  MediaTyped'
  <2>1. MediaTyped BY DEF RoomKinds
  <2> QED BY <1>1, <1>3, <2>1 DEF MediaTyped
<1> QED BY <1>1, <1>2, <1>3

\* The rest of the infos, or of the participants to drop.
LEMMA Proceeded ==
  ASSUME RoomKinds, NEW u \in RP!Updaters, RP!Proceed(u), thread[u].at # "idle",
         thread[u].infos # <<>> \/ (thread[u].at = "unpublish" /\ Emptying(u))
  PROVE  LET rest == IF thread[u].at = "unpublish" /\ Emptying(u) THEN thread[u].infos
                     ELSE Tail(thread[u].infos)
             at == IF thread[u].leaving # {} THEN "leave" ELSE IF rest # <<>> THEN "look" ELSE "idle"
         IN  /\ Moved(u, at, rest, thread[u].leaving, RP!None, RP!None)
             /\ thread'[u] = [at |-> at, infos |-> rest, leaving |-> thread[u].leaving,
                              obj |-> RP!None, old |-> RP!None]
             /\ ThreadPlaced(u)'
<1> DEFINE rest == IF thread[u].at = "unpublish" /\ Emptying(u) THEN thread[u].infos
                   ELSE Tail(thread[u].infos)
           at == IF thread[u].leaving # {} THEN "leave" ELSE IF rest # <<>> THEN "look" ELSE "idle"
<1>1. Becomes(u, at, rest, thread[u].leaving, RP!None, RP!None)
  BY ProceedBecomes DEF RoomKinds
<1>2. thread'[u] = [at |-> at, infos |-> rest, leaving |-> thread[u].leaving,
                    obj |-> RP!None, old |-> RP!None]
  BY <1>1 DEF Becomes
<1>3. at \in Places BY DEF Places
<1>4. Moved(u, at, rest, thread[u].leaving, RP!None, RP!None) BY <1>1, <1>3 DEF Moved
<1>5. ThreadPlaced(u)'
  <2>1. ~Emptying(u)' BY <1>2 DEF Emptying
  <2>2. at \in {"leave", "look", "idle"} OBVIOUS
  <2>3. PICK r, a : r = rest /\ a = at OBVIOUS
  <2>4. thread'[u].at = a /\ thread'[u].infos = r /\ thread'[u].leaving = thread[u].leaving
    BY <1>2, <2>3
  <2>5. (a = "idle" => r = <<>>) /\ (a = "look" => r # <<>>)
        /\ (a = "leave" <=> thread[u].leaving # {}) /\ a \in {"leave", "look", "idle"}
    BY <2>3
  <2> QED BY <2>1, <2>4, <2>5 DEF ThreadPlaced, Applying
<1> QED BY <1>2, <1>4, <1>5

LEMMA UpdaterKinds ==
  ASSUME RoomKinds, NEW u \in RP!Updaters,
         \E at, f, l, o, d : Moved(u, at, f, l, o, d) /\ ThreadPlaced(u)',
         SameNews, stranded' \subseteq Tracks, \A x \in RP!Objects : Made(x) => Made(x)',
         \A i \in Identities : \/ remoteParticipants'[i] \in {remoteParticipants[i], RP!None}
                               \/ ~Made(remoteParticipants'[i]),
         PartsTyped', RoomTyped', MediaTyped'
  PROVE  RoomKinds'
<1>1. PICK at, f, l, o, d : Moved(u, at, f, l, o, d) /\ ThreadPlaced(u)' OBVIOUS
<1>2. WorldTyped' /\ LinkTyped' /\ QueueTyped' BY <1>1, WorldMoved
<1>3. DOMAIN thread' = RP!Updaters /\ \A v \in RP!Updaters : ThreadTyped(v)'
  BY <1>1, ThreadMoved
<1>4. ASSUME NEW v \in RP!Updaters PROVE ThreadPlaced(v)'
  <2>1. v # u => thread'[v] = thread[v] BY <1>1 DEF Moved, Becomes
  <2> QED BY <2>1, <1>1, OtherPlaced
<1> QED BY <1>2, <1>3, <1>4 DEF ThreadsTyped, RoomKinds

LEMMA LookKinds ==
  ASSUME RoomKinds, NEW u \in RP!Updaters, RP!Look(u) PROVE RoomKinds'
<1> USE DEF RoomKinds
<1>1. thread[u].at = "look" /\ thread[u].infos # <<>> /\ thread[u].leaving = {}
  BY DEF RP!Look, ThreadsTyped, ThreadPlaced, Emptying
<1>2. RP!info(u) = Head1(u) /\ Head1(u).sid[1] \in Identities BY <1>1, HeadInfo
<1>3. SameNews /\ UNCHANGED <<made, part, roomMedia, remoteParticipants, sidToIdentity, sidDefers, stranded>>
  BY DEF RP!Look, SameNews, RP!roomVars, RP!sfuVars, RP!ghosts
<1> PICK i \in Identities : i = Head1(u).sid[1] BY <1>2
<1>4. PICK o : i = Head1(u).sid[1] /\ o = remoteParticipants[i] OBVIOUS
<1>5. o # RP!None => Made(o) /\ o \in RP!Objects /\ o[1] = i BY <1>4 DEF RoomTyped, There, Made
<1>6. /\ \A x \in RP!Objects : Made(x) => Made(x)'
      /\ \A j \in Identities : remoteParticipants'[j] \in {remoteParticipants[j], RP!None}
      /\ \A x : Made(x)' <=> Made(x)
  BY <1>3 DEF Made
<1>7. PartsTyped' /\ MediaTyped' /\ RoomTyped'
  BY <1>3, SameMaps DEF SameNews, RoomTyped, Made, Given, There
<1>8. \E at, f, l, d, p : Moved(u, at, f, l, d, p) /\ ThreadPlaced(u)'
  <2>1. CASE RP!Proceed(u) BY <2>1, <1>1, Proceeded
  <2>2. CASE ~Head1(u).left /\ o = RP!None /\ RP!Step(u, "add")
    <3>1. Becomes(u, "add", thread[u].infos, thread[u].leaving, thread[u].obj, thread[u].old)
      BY <2>2, StepBecomes
    <3>2. Moved(u, "add", thread[u].infos, thread[u].leaving, thread[u].obj, thread[u].old)
      BY <3>1, <1>1 DEF Moved, Places, ThreadsTyped, ThreadTyped
    <3>3. ThreadPlaced(u)' BY <3>1, <1>1, <2>2 DEF Becomes, ThreadPlaced, Emptying, Head1, Applying
    <3> QED BY <3>2, <3>3
  <2>3. CASE ~Head1(u).left /\ o # RP!None /\ RP!StepWith(u, "update", o, RP!None)
    <3>1. Becomes(u, "update", thread[u].infos, thread[u].leaving, o, RP!None)
      BY <2>3, StepWithBecomes
    <3>2. Moved(u, "update", thread[u].infos, thread[u].leaving, o, RP!None)
      BY <3>1, <1>1, <1>5, <2>3 DEF Moved, Places
    <3>3. /\ thread'[u].at = "update" /\ thread'[u].infos = thread[u].infos /\ thread'[u].leaving = {}
          /\ thread'[u].obj = o /\ thread'[u].old = RP!None
      BY <3>1, <1>1 DEF Becomes
    <3>4. Made(o)' /\ o[1] = Head1(u)'.sid[1] /\ ~Head1(u)'.left
      BY <2>3, <1>4, <1>5, <1>6, <3>3 DEF Head1
    <3>5. ThreadPlaced(u)' BY <3>3, <3>4, <1>1 DEF ThreadPlaced, Emptying, Applying
    <3> QED BY <3>2, <3>5
  <2>4. CASE Head1(u).left /\ o # RP!None /\ RP!StepWith(u, "remove", o, RP!None)
    <3>1. Becomes(u, "remove", thread[u].infos, thread[u].leaving, o, RP!None)
      BY <2>4, StepWithBecomes
    <3>2. Moved(u, "remove", thread[u].infos, thread[u].leaving, o, RP!None)
      BY <3>1, <1>1, <1>5, <2>4 DEF Moved, Places
    <3>3. /\ thread'[u].at = "remove" /\ thread'[u].infos = thread[u].infos /\ thread'[u].leaving = {}
          /\ thread'[u].obj = o /\ thread'[u].old = RP!None
      BY <3>1, <1>1 DEF Becomes
    <3>4. Made(o)' /\ o[1] = Head1(u)'.sid[1] /\ Head1(u)'.left
      BY <2>4, <1>4, <1>5, <1>6, <3>3 DEF Head1
    <3>5. ThreadPlaced(u)' BY <3>3, <3>4, <1>1 DEF ThreadPlaced, Emptying, Applying
    <3> QED BY <3>2, <3>5
  <2> QED BY <2>1, <2>2, <2>3, <2>4, <1>2, <1>4 DEF RP!Look
<1>9. stranded' \subseteq Tracks BY <1>3 DEF LinkTyped
<1> QED BY <1>3, <1>6, <1>7, <1>8, <1>9, UpdaterKinds


LEMMA AddKinds ==
  ASSUME RoomKinds, NEW u \in RP!Updaters, RP!Add(u) PROVE RoomKinds'
<1> USE DEF RoomKinds
<1>1. thread[u].at = "add" /\ thread[u].infos # <<>> /\ thread[u].leaving = {} /\ ~Head1(u).left
  BY DEF RP!Add, ThreadsTyped, ThreadPlaced, Emptying
<1>2. RP!info(u) = Head1(u) /\ Head1(u).sid[1] \in Identities /\ Head1(u).sid \in RP!Sids
      /\ Head1(u) \in Infos /\ Told(Head1(u))
  BY <1>1, HeadInfo
<1> PICK x : x = Head1(u) OBVIOUS
<1> PICK i \in Identities : i = x.sid[1] BY <1>2
<1> PICK o : o = IF remoteParticipants[i] # RP!None THEN remoteParticipants[i] ELSE <<i, made[i] + 1>>
  OBVIOUS
<1>3. /\ o \in RP!Objects /\ part' = [part EXCEPT ![o] = RP!updated(o, x)]
      /\ remoteParticipants' = [remoteParticipants EXCEPT ![i] = o]
      /\ made' = [made EXCEPT ![i] = IF o[2] > made[i] THEN o[2] ELSE made[i]]
      /\ sidToIdentity' = sidToIdentity \cup {x.sid}
      /\ RP!StepWith(u, "clear", o, RP!None)
  BY <1>2 DEF RP!Add
<1>4. SameNews /\ UNCHANGED <<roomMedia, sidDefers, stranded>>
  BY DEF RP!Add, SameNews, RP!sfuVars, RP!ghosts
<1>5. made \in [Identities -> 0 .. MaxObjects] /\ MaxObjects \in Nat
  BY RoomBounds DEF PartsTyped, RP!RoomAssumption
<1>6. There(i) => Made(o) BY DEF There, RoomTyped
<1>7. o[1] = i /\ o[2] \in 1 .. MaxObjects
  BY <1>3, <1>6 DEF RoomTyped, There, RP!Objects
<1>8. ~There(i) => o[2] = made[i] + 1 BY DEF There
<1>9. /\ made' \in [Identities -> 0 .. MaxObjects] /\ \A j \in Identities : j # i => made'[j] = made[j]
      /\ made'[i] = IF There(i) THEN made[i] ELSE o[2]
  <2>1. There(i) => o[2] <= made[i] BY <1>6, <1>7 DEF Made
  <2>2. made'[i] = IF o[2] > made[i] THEN o[2] ELSE made[i] BY <1>3, <1>5
  <2> QED BY <1>3, <1>5, <1>7, <1>8, <2>1, <2>2
<1>10. \A y \in RP!Objects : Made(y)' <=> Made(y) \/ y = o
  <2> SUFFICES ASSUME NEW y \in RP!Objects PROVE Made(y)' <=> Made(y) \/ y = o OBVIOUS
  <2>1. y[1] \in Identities /\ y[2] \in Nat /\ y = <<y[1], y[2]>> /\ o = <<o[1], o[2]>>
        /\ o[2] \in Nat /\ made[i] \in Nat
    BY <1>3, <1>5, <1>7 DEF RP!Objects
  <2>2. CASE There(i) BY <2>1, <2>2, <1>6, <1>9 DEF Made
  <2>3. CASE ~There(i) /\ y[1] # i BY <2>1, <2>3, <1>7, <1>9 DEF Made
  <2>4. CASE ~There(i) /\ y[1] = i
    <3>1. Made(y)' <=> y[2] <= made[i] + 1 BY <2>1, <2>4, <1>8, <1>9 DEF Made
    <3>2. Made(y) <=> y[2] <= made[i] BY <2>1, <2>4 DEF Made
    <3>3. y = o <=> y[2] = made[i] + 1 BY <2>1, <2>4, <1>7, <1>8
    <3> QED BY <3>1, <3>2, <3>3, <2>1
  <2> QED BY <2>2, <2>3, <2>4
<1>11. PartTyped(o, RP!updated(o, x)) BY <1>2, <1>3, <1>7, UpdatedPart
<1>12. PartsTyped'
  <2>1. UNCHANGED <<world, used>> BY <1>4 DEF SameNews
  <2>2. PICK p : p = RP!updated(o, x) OBVIOUS
  <2> QED BY <2>1, <2>2, <1>3, <1>9, <1>10, <1>11, PartChanged
<1>13. \A s : Given(s)' <=> Given(s) BY <1>4 DEF SameNews, Given
<1>14. Given(x.sid) BY <1>2 DEF Told, Upto, Given, WorldTyped, Infos, RP!Info
<1>15. RoomTyped'
  <2>1. DOMAIN remoteParticipants' = Identities BY <1>3 DEF RoomTyped
  <2>2. ASSUME NEW j \in Identities, There(j)'
        PROVE  Made(remoteParticipants[j])' /\ remoteParticipants'[j][1] = j
    <3>1. CASE j = i BY <3>1, <1>3, <1>7, <1>10 DEF RoomTyped, Made
    <3>2. CASE j # i
      <4>1. remoteParticipants'[j] = remoteParticipants[j] BY <3>2, <1>3 DEF RoomTyped
      <4>2. Made(remoteParticipants[j]) /\ remoteParticipants[j][1] = j
        BY <2>2, <4>1 DEF There, RoomTyped
      <4> QED BY <4>1, <4>2, <1>10 DEF Made
    <3> QED BY <3>1, <3>2
  <2> QED BY <2>1, <2>2, <1>2, <1>3, <1>4, <1>13, <1>14 DEF RoomTyped
<1>16. MediaTyped' BY <1>4, <1>13 DEF MediaTyped, SameNews
<1>17. \E at, f, l, d, p : Moved(u, at, f, l, d, p) /\ ThreadPlaced(u)'
  <2>1. Becomes(u, "clear", thread[u].infos, thread[u].leaving, o, RP!None)
    BY <1>3, StepWithBecomes
  <2>2. Moved(u, "clear", thread[u].infos, thread[u].leaving, o, RP!None)
    BY <2>1, <1>1, <1>3 DEF Moved, Places
  <2>3. /\ thread'[u].at = "clear" /\ thread'[u].infos = thread[u].infos /\ thread'[u].leaving = {}
        /\ thread'[u].obj = o /\ thread'[u].old = RP!None
    BY <2>1, <1>1 DEF Becomes
  <2>4. Made(o)' /\ o[1] = Head1(u)'.sid[1] /\ ~Head1(u)'.left
    BY <1>1, <1>3, <1>7, <1>10, <2>3 DEF Head1
  <2>5. ThreadPlaced(u)' BY <2>3, <2>4, <1>1 DEF ThreadPlaced, Emptying, Applying
  <2> QED BY <2>2, <2>5
<1>18. \A j \in Identities : \/ remoteParticipants'[j] \in {remoteParticipants[j], RP!None}
                              \/ ~Made(remoteParticipants'[j])
  <2>1. ~There(i) => ~Made(o) BY <1>5, <1>7, <1>8 DEF Made
  <2>2. There(i) => o = remoteParticipants[i] BY DEF There
  <2>3. \A j \in Identities : j # i => remoteParticipants'[j] = remoteParticipants[j]
    BY <1>3 DEF RoomTyped
  <2>4. remoteParticipants'[i] = o BY <1>3 DEF RoomTyped
  <2> QED BY <2>1, <2>2, <2>3, <2>4
<1>19. stranded' \subseteq Tracks BY <1>4 DEF LinkTyped
<1> QED BY <1>4, <1>10, <1>12, <1>15, <1>16, <1>17, <1>18, <1>19, UpdaterKinds

LEMMA UpdateKinds ==
  ASSUME RoomKinds, NEW u \in RP!Updaters, RP!Update(u) PROVE RoomKinds'
<1> USE DEF RoomKinds
<1>1. /\ thread[u].at = "update" /\ thread[u].infos # <<>> /\ thread[u].leaving = {} /\ ~Head1(u).left
      /\ Made(thread[u].obj) /\ thread[u].obj[1] = Head1(u).sid[1]
  BY DEF RP!Update, ThreadsTyped, ThreadPlaced, Emptying, Applying
<1>2. RP!info(u) = Head1(u) /\ Head1(u).sid[1] \in Identities /\ Head1(u) \in Infos /\ Told(Head1(u))
  BY <1>1, HeadInfo
<1> PICK x : x = Head1(u) OBVIOUS
<1> PICK o \in RP!Objects : o = thread[u].obj BY <1>1 DEF Made
<1> PICK at : at = IF part'[o].sid # part[o].sid THEN "resid" ELSE "clear" OBVIOUS
<1>3. /\ part' = [part EXCEPT ![o] = RP!updated(o, x)]
      /\ RP!StepWith(u, at, o, part[o].sid)
  BY <1>2 DEF RP!Update
<1>4. SameNews /\ UNCHANGED <<roomMedia, remoteParticipants, made, sidToIdentity, sidDefers, stranded>>
  BY DEF RP!Update, SameNews, RP!sfuVars, RP!ghosts, RP!roomVars
<1>5. \A y : Made(y)' <=> Made(y) BY <1>4 DEF Made
<1>6. PartsTyped'
  <2>1. PartTyped(o, RP!updated(o, x)) BY <1>1, <1>2, UpdatedPart
  <2>2. made' \in [Identities -> 0 .. MaxObjects] BY <1>4 DEF PartsTyped
  <2>3. PICK p : p = RP!updated(o, x) OBVIOUS
  <2>4. UNCHANGED <<world, used>> BY <1>4 DEF SameNews
  <2>5. \A y \in RP!Objects : Made(y)' <=> Made(y) \/ y = o BY <1>1, <1>5
  <2> QED BY <2>1, <2>2, <2>3, <2>4, <2>5, <1>3, PartChanged
<1>7. RoomTyped' /\ MediaTyped'
  BY <1>4, <1>5, SameMaps DEF SameNews, RoomTyped, Given, There
<1>8. \E a, f, l, d, p : Moved(u, a, f, l, d, p) /\ ThreadPlaced(u)'
  <2>1. Becomes(u, at, thread[u].infos, thread[u].leaving, o, part[o].sid)
    BY <1>3, StepWithBecomes
  <2>2. part[o].sid \in RP!Sids /\ part[o].sid[1] = o[1] BY <1>1 DEF PartsTyped
  <2>3. Moved(u, at, thread[u].infos, thread[u].leaving, o, part[o].sid)
    BY <2>1, <2>2, <1>1 DEF Moved, Places
  <2>4. /\ thread'[u].at = at /\ thread'[u].infos = thread[u].infos /\ thread'[u].leaving = {}
        /\ thread'[u].obj = o /\ thread'[u].old = part[o].sid
    BY <2>1, <1>1 DEF Becomes
  <2>5. Made(o)' /\ o[1] = Head1(u)'.sid[1] /\ ~Head1(u)'.left
    BY <1>1, <1>5, <2>4 DEF Head1
  <2>6. ThreadPlaced(u)' BY <2>2, <2>4, <2>5, <1>1 DEF ThreadPlaced, Emptying, Applying
  <2> QED BY <2>3, <2>6
<1>9. stranded' \subseteq Tracks BY <1>4 DEF LinkTyped
<1> QED BY <1>4, <1>5, <1>6, <1>7, <1>8, <1>9, UpdaterKinds

\* Steps that leave the participants as they are.
LEMMA StayKinds ==
  ASSUME RoomKinds, NEW u \in RP!Updaters, NEW at \in {"clear", "run"}, RP!Step(u, at),
         thread[u].at \in Applying, SameNews, UNCHANGED <<remoteParticipants, made, part>>,
         PartsTyped', RoomTyped', MediaTyped', stranded' \subseteq Tracks
  PROVE  RoomKinds'
<1> USE DEF RoomKinds
<1>1. /\ thread[u].infos # <<>> /\ thread[u].leaving = {} /\ ~Head1(u).left
      /\ Made(thread[u].obj) /\ thread[u].obj[1] = Head1(u).sid[1]
  BY DEF ThreadsTyped, ThreadPlaced, Emptying, Applying
<1>2. Becomes(u, at, thread[u].infos, thread[u].leaving, thread[u].obj, thread[u].old)
  BY StepBecomes
<1>3. Moved(u, at, thread[u].infos, thread[u].leaving, thread[u].obj, thread[u].old)
  BY <1>1, <1>2 DEF Moved, Places, ThreadsTyped, ThreadTyped, Applying
<1>4. /\ thread'[u].at = at /\ thread'[u].infos = thread[u].infos /\ thread'[u].leaving = {}
      /\ thread'[u].obj = thread[u].obj
  BY <1>1, <1>2 DEF Becomes
<1>5. Made(thread[u].obj)' /\ thread[u].obj[1] = Head1(u)'.sid[1] /\ ~Head1(u)'.left
  BY <1>1, <1>4 DEF Head1, Made
<1>6. ThreadPlaced(u)' BY <1>1, <1>4, <1>5 DEF ThreadPlaced, Emptying, Applying
<1>7. \A x \in RP!Objects : Made(x) => Made(x)' BY DEF Made
<1> QED BY <1>3, <1>6, <1>7, UpdaterKinds

LEMMA ResidKinds ==
  ASSUME RoomKinds, NEW u \in RP!Updaters, RP!Resid(u) PROVE RoomKinds'
<1> USE DEF RoomKinds
<1>1. /\ thread[u].at = "resid" /\ Made(thread[u].obj) /\ thread[u].old \in RP!Sids
  BY DEF RP!Resid, ThreadsTyped, ThreadPlaced, Emptying, Applying
<1>2. SameNews /\ UNCHANGED <<roomMedia, remoteParticipants, made, part, stranded>>
  BY DEF RP!Resid, SameNews, RP!sfuVars, RP!ghosts
<1> PICK o \in RP!Objects : o = thread[u].obj BY <1>1 DEF Made
<1>3. /\ sidDefers' = [sidDefers EXCEPT ![thread[u].old] = {}]
      /\ sidToIdentity' = (sidToIdentity \ {thread[u].old}) \cup {part[o].sid}
      /\ RP!Step(u, "clear")
  BY DEF RP!Resid
<1>4. part[o].sid \in RP!Sids /\ Given(part[o].sid)
  BY <1>1 DEF PartsTyped, Upto, Given, WorldTyped, Infos, RP!Info
<1>5. sidDefers' \in [RP!Sids -> SUBSET Tracks] /\ \A s \in RP!Sids : sidDefers'[s] \subseteq sidDefers[s]
  BY <1>3 DEF RoomTyped
<1>6. PartsTyped' /\ MediaTyped' /\ (\A s : Given(s)' <=> Given(s)) /\ (\A y : Made(y)' <=> Made(y))
  BY <1>2, <1>5, SameMaps DEF SameNews
<1>7. RoomTyped' BY <1>2, <1>3, <1>4, <1>5, <1>6 DEF RoomTyped, There
<1>8. stranded' \subseteq Tracks BY <1>2 DEF LinkTyped
<1> QED BY <1>1, <1>2, <1>3, <1>6, <1>7, <1>8, StayKinds DEF Applying

LEMMA ClearKinds ==
  ASSUME RoomKinds, NEW u \in RP!Updaters, RP!clearParticipantDefers(u) PROVE RoomKinds'
<1> USE DEF RoomKinds
<1>1. thread[u].at = "clear" /\ thread[u].infos # <<>>
  BY DEF RP!clearParticipantDefers, ThreadsTyped, ThreadPlaced, Emptying, Applying
<1>2. SameNews /\ UNCHANGED <<roomMedia, remoteParticipants, made, part, sidToIdentity>>
  BY DEF RP!clearParticipantDefers, SameNews, RP!sfuVars, RP!ghosts
<1>3. RP!info(u) = Head1(u) /\ Head1(u).sid \in RP!Sids BY <1>1, HeadInfo
<1> PICK s \in RP!Sids : s = RP!info(u).sid BY <1>3
<1>4. /\ sidDefers' = [sidDefers EXCEPT ![s] = sidDefers[s] \cap RP!info(u).tracks]
      /\ stranded' = stranded \cup (sidDefers[s] \ RP!info(u).tracks)
      /\ RP!Step(u, "run")
  BY DEF RP!clearParticipantDefers
<1>5. sidDefers' \in [RP!Sids -> SUBSET Tracks] /\ \A r \in RP!Sids : sidDefers'[r] \subseteq sidDefers[r]
  BY <1>4 DEF RoomTyped
<1>6. PartsTyped' /\ MediaTyped' /\ (\A r : Given(r)' <=> Given(r)) /\ (\A y : Made(y)' <=> Made(y))
  BY <1>2, <1>5, SameMaps DEF SameNews
<1>7. RoomTyped' BY <1>2, <1>5, <1>6 DEF RoomTyped, There
<1>8. stranded' \subseteq Tracks BY <1>4 DEF LinkTyped, RoomTyped
<1> QED BY <1>1, <1>2, <1>4, <1>6, <1>7, <1>8, StayKinds DEF Applying

LEMMA RunKinds ==
  ASSUME RoomKinds, NEW u \in RP!Updaters, RP!runParticipantDefers(u) PROVE RoomKinds'
<1> USE DEF RoomKinds
<1>1. /\ thread[u].at = "run" /\ thread[u].infos # <<>> /\ Made(thread[u].obj)
  BY DEF RP!runParticipantDefers, ThreadsTyped, ThreadPlaced, Emptying, Applying
<1>2. SameNews /\ UNCHANGED <<remoteParticipants, made, part, sidToIdentity, stranded>>
  BY DEF RP!runParticipantDefers, SameNews, RP!sfuVars, RP!ghosts
<1> PICK o \in RP!Objects : o = thread[u].obj BY <1>1 DEF Made
<1>3. part[o].sid \in RP!Sids /\ part[o].sid[1] = o[1] BY <1>1 DEF PartsTyped
<1> PICK s \in RP!Sids : s = part[o].sid BY <1>3
<1>4. /\ sidDefers' = [sidDefers EXCEPT ![s] = {}]
      /\ roomMedia' = [t \in Tracks |-> IF t \in sidDefers[s]
                                        THEN [roomMedia[t] EXCEPT !.at = "find", !.obj = o]
                                        ELSE roomMedia[t]]
      /\ RP!Proceed(u)
  BY DEF RP!runParticipantDefers, RP!runDefers
<1>5. /\ sidDefers' \in [RP!Sids -> SUBSET Tracks]
      /\ \A r \in RP!Sids : sidDefers'[r] \subseteq sidDefers[r]
      /\ sidDefers'[s] = {}
      /\ \A r \in RP!Sids : r # s => sidDefers'[r] = sidDefers[r]
  BY <1>4 DEF RoomTyped
<1>6. PartsTyped' /\ (\A r : Given(r)' <=> Given(r)) /\ (\A y : Made(y)' <=> Made(y))
  BY <1>2, SameMaps DEF SameNews
<1>7. RoomTyped' BY <1>2, <1>5, <1>6 DEF RoomTyped, There
<1>8. MediaTyped'
  <2>1. ASSUME NEW t \in Tracks
        PROVE  /\ t \in sidDefers[s] => roomMedia'[t] = [at |-> "find", sid |-> s, obj |-> o,
                                                         session |-> roomMedia[t].session]
               /\ t \notin sidDefers[s] => roomMedia'[t] = roomMedia[t]
    <3>1. t \in sidDefers[s] => roomMedia[t].sid = s BY DEF MediaTyped
    <3>2. roomMedia[t] \in [at : MediaPlaces, sid : RP!Sids \cup {RP!None},
                            obj : RP!Objects \cup {RP!None}, session : Nat]
      BY DEF MediaTyped
    <3> QED BY <3>1, <3>2, <1>4
  <2>2. roomMedia' \in [Tracks -> [at : MediaPlaces, sid : RP!Sids \cup {RP!None},
                                   obj : RP!Objects \cup {RP!None}, session : Nat]]
    <3>1. \A t \in Tracks : roomMedia'[t] \in [at : MediaPlaces, sid : RP!Sids \cup {RP!None},
                                   obj : RP!Objects \cup {RP!None}, session : Nat]
      <4> SUFFICES ASSUME NEW t \in Tracks
                   PROVE  roomMedia'[t] \in [at : MediaPlaces, sid : RP!Sids \cup {RP!None},
                                             obj : RP!Objects \cup {RP!None}, session : Nat]
        OBVIOUS
      <4>1. roomMedia[t] \in [at : MediaPlaces, sid : RP!Sids \cup {RP!None},
                              obj : RP!Objects \cup {RP!None}, session : Nat]
        BY DEF MediaTyped
      <4>2. roomMedia[t].session \in Nat /\ "find" \in MediaPlaces BY <4>1 DEF MediaPlaces
      <4>3. CASE t \in sidDefers[s]
        <5>1. roomMedia'[t] = [at |-> "find", sid |-> s, obj |-> o, session |-> roomMedia[t].session]
          BY <4>3, <2>1, Zenon
        <5> QED BY <5>1, <4>2
      <4>4. CASE t \notin sidDefers[s] BY <4>1, <4>4, <2>1
      <4> QED BY <4>3, <4>4
    <3> QED BY <3>1, <1>4
  <2>3. ASSUME NEW t \in Tracks, t \in sidDefers[s]
        PROVE  /\ t \in used /\ Given(s) /\ roomMedia[t].session <= roomSession
               /\ \A i \in Identities : t \in world[i].tracks => s = world[i].sid
    BY <2>3 DEF MediaTyped
  <2>4. UNCHANGED <<world, used, roomSession>> BY <1>2 DEF SameNews
  <2>5. ASSUME NEW t \in Tracks, roomMedia'[t].at # "none"
        PROVE  /\ t \in used /\ roomMedia'[t].sid \in RP!Sids /\ Given(roomMedia'[t].sid)
               /\ roomMedia'[t].session <= roomSession
               /\ roomMedia'[t].at \in Found =>
                    roomMedia'[t].obj \in RP!Objects /\ roomMedia'[t].obj[1] = roomMedia'[t].sid[1]
               /\ \A i \in Identities : t \in world[i].tracks => roomMedia'[t].sid = world[i].sid
    <3>1. CASE t \in sidDefers[s]
      <4>1. /\ t \in used /\ Given(s) /\ roomMedia[t].session <= roomSession
            /\ \A i \in Identities : t \in world[i].tracks => s = world[i].sid
        BY <3>1, <2>3
      <4>2. /\ roomMedia'[t].sid = s /\ roomMedia'[t].obj = o
            /\ roomMedia'[t].session = roomMedia[t].session
        <5>1. roomMedia'[t] = [at |-> "find", sid |-> s, obj |-> o, session |-> roomMedia[t].session]
          BY <3>1, <2>1, Zenon
        <5> QED BY <5>1
      <4> QED BY <4>1, <4>2, <1>3
    <3>2. CASE t \notin sidDefers[s]
      <4>1. roomMedia'[t] = roomMedia[t] BY <3>2, <2>1
      <4> QED BY <4>1, <2>5 DEF MediaTyped
    <3> QED BY <3>1, <3>2
  <2>6. ASSUME NEW r \in RP!Sids, NEW t \in sidDefers'[r]
        PROVE  roomMedia'[t].sid = r /\ roomMedia'[t].at \in {"arrived", "deferring", "deferred", "find"}
    <3>1. r # s /\ t \in sidDefers[r] BY <1>5
    <3>2. t \in Tracks BY <3>1 DEF RoomTyped
    <3>3. roomMedia[t].sid = r /\ roomMedia[t].at \in {"arrived", "deferring", "deferred", "find"}
      BY <3>1 DEF MediaTyped
    <3>4. t \notin sidDefers[s] BY <3>1, <3>3 DEF MediaTyped
    <3> QED BY <3>2, <3>3, <3>4, <2>1
  <2> QED BY <2>2, <2>4, <2>5, <2>6, <1>6 DEF MediaTyped
<1>9. \E at, f, l, d, p : Moved(u, at, f, l, d, p) /\ ThreadPlaced(u)' BY <1>1, <1>4, Proceeded
<1>10. stranded' \subseteq Tracks BY <1>2 DEF LinkTyped
<1> QED BY <1>2, <1>6, <1>7, <1>8, <1>9, <1>10, UpdaterKinds


LEMMA LeaveKinds ==
  ASSUME RoomKinds, NEW u \in RP!Updaters, NEW o \in RP!Objects, RP!Leave(u, o) PROVE RoomKinds'
<1> USE DEF RoomKinds
<1>1. thread[u].at = "leave" /\ o \in thread[u].leaving /\ Made(o)
  BY DEF RP!Leave, ThreadsTyped, ThreadTyped
<1>2. SameNews /\ UNCHANGED <<made, part, roomMedia, remoteParticipants, sidToIdentity, sidDefers, stranded>>
  BY DEF RP!Leave, SameNews, RP!roomVars, RP!sfuVars, RP!ghosts
<1>3. \A y : Made(y)' <=> Made(y) BY <1>2 DEF Made
<1>4. PartsTyped' /\ MediaTyped' /\ RoomTyped'
  BY <1>2, SameMaps DEF SameNews, RoomTyped, Given, There
<1>5. \E at, f, l, d, p : Moved(u, at, f, l, d, p) /\ ThreadPlaced(u)'
  <2>1. Becomes(u, "remove", thread[u].infos, thread[u].leaving \ {o}, o, o) BY LeaveBecomes
  <2>2. Moved(u, "remove", thread[u].infos, thread[u].leaving \ {o}, o, o)
    BY <2>1, <1>1 DEF Moved, Places
  <2>3. /\ thread'[u].at = "remove" /\ thread'[u].infos = thread[u].infos
        /\ thread'[u].leaving = thread[u].leaving \ {o}
        /\ thread'[u].obj = o /\ thread'[u].old = o
    BY <2>1 DEF Becomes
  <2>4. o # RP!None BY DEF RP!Objects, RP!None
  <2>5. ThreadPlaced(u)' BY <2>3, <2>4, <1>1, <1>3 DEF ThreadPlaced, Emptying, Applying
  <2> QED BY <2>2, <2>5
<1>6. stranded' \subseteq Tracks BY <1>2 DEF LinkTyped
<1> QED BY <1>2, <1>3, <1>4, <1>5, <1>6, UpdaterKinds

\* A participant is dropped.
DropsRoom(o) ==
  /\ remoteParticipants' = [remoteParticipants EXCEPT ![o[1]] = RP!None]
  /\ sidToIdentity' = sidToIdentity \ {part[o].sid}
  /\ sidDefers' = [sidDefers EXCEPT ![part[o].sid] = {}]

LEMMA DropKinds ==
  ASSUME RoomKinds, NEW u \in RP!Updaters, RP!DropParticipant(u) PROVE RoomKinds'
<1> USE DEF RoomKinds
<1>1. /\ thread[u].at = "remove" /\ Made(thread[u].obj) /\ thread[u].obj \notin thread[u].leaving
      /\ thread[u].old # RP!None => thread[u].old = thread[u].obj
      /\ thread[u].old = RP!None => /\ thread[u].infos # <<>> /\ Head1(u).left
                                    /\ thread[u].obj[1] = Head1(u).sid[1]
  BY DEF RP!DropParticipant, ThreadsTyped, ThreadPlaced
<1> PICK o \in RP!Objects : o = thread[u].obj BY <1>1 DEF Made
<1>2. SameNews /\ UNCHANGED <<made, part, roomMedia, stranded>>
  BY DEF RP!DropParticipant, SameNews, RP!roomVars, RP!sfuVars, RP!ghosts
<1>3. DropsRoom(o) /\ RP!Step(u, "unpublish") BY DEF RP!DropParticipant, DropsRoom
<1>4. o[1] \in Identities BY DEF RP!Objects
<1>5. /\ DOMAIN remoteParticipants' = Identities /\ remoteParticipants'[o[1]] = RP!None
      /\ \A i \in Identities : i # o[1] => remoteParticipants'[i] = remoteParticipants[i]
  BY <1>3, <1>4 DEF DropsRoom, RoomTyped
<1>6. sidDefers' \in [RP!Sids -> SUBSET Tracks] /\ \A r \in RP!Sids : sidDefers'[r] \subseteq sidDefers[r]
  BY <1>3 DEF RoomTyped, DropsRoom
<1>7. PartsTyped' /\ MediaTyped' /\ (\A y : Made(y)' <=> Made(y)) /\ (\A s : Given(s)' <=> Given(s))
  BY <1>2, <1>6, SameMaps DEF SameNews
<1>8. RoomTyped'
  <2>1. ASSUME NEW i \in Identities, There(i)'
        PROVE  Made(remoteParticipants[i])' /\ remoteParticipants'[i][1] = i
    <3>1. remoteParticipants'[i] = remoteParticipants[i] /\ There(i) BY <2>1, <1>5 DEF There
    <3> QED BY <3>1, <1>7 DEF RoomTyped, Made
  <2>2. sidToIdentity' \subseteq sidToIdentity BY <1>3 DEF DropsRoom
  <2> QED BY <2>1, <2>2, <1>5, <1>6, <1>7 DEF RoomTyped
<1>9. \E at, f, l, d, p : Moved(u, at, f, l, d, p) /\ ThreadPlaced(u)'
  <2>1. Becomes(u, "unpublish", thread[u].infos, thread[u].leaving, o, thread[u].old)
    BY <1>3, StepBecomes
  <2>2. thread[u].old \in RP!Objects \cup RP!Sids \cup {RP!None} BY DEF ThreadsTyped, ThreadTyped
  <2>3. Moved(u, "unpublish", thread[u].infos, thread[u].leaving, o, thread[u].old)
    BY <2>1, <2>2, <1>1 DEF Moved, Places, Emptying
  <2>4. /\ thread'[u].at = "unpublish" /\ thread'[u].infos = thread[u].infos
        /\ thread'[u].leaving = thread[u].leaving
        /\ thread'[u].obj = o /\ thread'[u].old = thread[u].old
    BY <2>1 DEF Becomes
  <2>5. thread[u].leaving # {} => thread[u].old # RP!None
    BY <1>1 DEF ThreadsTyped, ThreadPlaced, Emptying
  <2>6. remoteParticipants'[o[1]] # o BY <1>5 DEF RP!Objects, RP!None
  <2>7. o = thread[u].obj OBVIOUS
  <2>8. Made(o)' BY <1>1, <1>7
  <2>9. /\ thread[u].old = RP!None => Head1(u)'.left /\ o[1] = Head1(u)'.sid[1]
    BY <2>4, <1>1 DEF Head1
  <2>10. ThreadPlaced(u)'
    BY <2>4, <2>5, <2>6, <2>8, <2>9, <1>1 DEF ThreadPlaced, Emptying, Applying
  <2> QED BY <2>3, <2>10
<1>10. stranded' \subseteq Tracks BY <1>2 DEF LinkTyped
<1>11. \A i \in Identities : remoteParticipants'[i] \in {remoteParticipants[i], RP!None} BY <1>5
<1> QED BY <1>2, <1>7, <1>8, <1>9, <1>10, <1>11, UpdaterKinds

LEMMA UnpublishKinds ==
  ASSUME RoomKinds, NEW u \in RP!Updaters, RP!unpublishAllTracks(u)
  PROVE  RoomKinds' /\ Made(thread[u].obj) /\ remoteParticipants[thread[u].obj[1]] # thread[u].obj
<1> USE DEF RoomKinds
<1>1. /\ thread[u].at = "unpublish" /\ Made(thread[u].obj)
      /\ thread[u].old = RP!None => thread[u].infos # <<>>
      /\ remoteParticipants[thread[u].obj[1]] # thread[u].obj
  BY DEF RP!unpublishAllTracks, ThreadsTyped, ThreadPlaced
<1> PICK o \in RP!Objects : o = thread[u].obj BY <1>1 DEF Made
<1>2. SameNews /\ UNCHANGED <<made, roomMedia, remoteParticipants, sidToIdentity, sidDefers, stranded>>
  BY DEF RP!unpublishAllTracks, SameNews, RP!roomVars, RP!sfuVars, RP!ghosts
<1>3. part' = [part EXCEPT ![o] = RP!unpublishTracks(o, part[o].pubs)] /\ RP!Proceed(u)
  BY DEF RP!unpublishAllTracks
<1>4. \A y : Made(y)' <=> Made(y) BY <1>2 DEF Made
<1>5. PartTyped(o, RP!unpublishTracks(o, part[o].pubs))
  <2>1. part[o] \in PartKind /\ part[o].attached \subseteq part[o].pubs BY DEF PartsTyped, PartKind
  <2>2. PICK p : p = RP!unpublishTracks(o, part[o].pubs) OBVIOUS
  <2>3. p = [sid |-> part[o].sid, version |-> part[o].version, pubs |-> {}, attached |-> {}]
    BY <2>1, <2>2 DEF RP!unpublishTracks, PartKind
  <2>4. PartTyped(o, p) BY <2>1, <2>3, <1>1 DEF PartTyped, PartKind, PartsTyped, Upto
  <2> QED BY <2>2, <2>4
<1>6. PartsTyped'
  <2>1. made' \in [Identities -> 0 .. MaxObjects] BY <1>2 DEF PartsTyped
  <2>2. PICK p : p = RP!unpublishTracks(o, part[o].pubs) OBVIOUS
  <2>3. UNCHANGED <<world, used>> BY <1>2 DEF SameNews
  <2>4. \A y \in RP!Objects : Made(y)' <=> Made(y) \/ y = o BY <1>1, <1>4
  <2> QED BY <2>1, <2>2, <2>3, <2>4, <1>3, <1>5, PartChanged
<1>7. RoomTyped' /\ MediaTyped'
  BY <1>2, <1>4, SameMaps DEF SameNews, RoomTyped, Given, There
<1>8. \E at, f, l, d, p : Moved(u, at, f, l, d, p) /\ ThreadPlaced(u)'
  BY <1>1, <1>3, Proceeded DEF Emptying
<1>9. stranded' \subseteq Tracks BY <1>2 DEF LinkTyped
<1> QED BY <1>1, <1>2, <1>4, <1>6, <1>7, <1>8, <1>9, UpdaterKinds

-----------------------------------------------------------------------------
(* Types: what the updaters are given to do.                               *)

LEMMA ParticipantsMade ==
  ASSUME RoomTyped
  PROVE  /\ \A o \in RP!Participants : Made(o) /\ o[1] \in Identities /\ remoteParticipants[o[1]] = o
         /\ \A i \in Identities : There(i) => remoteParticipants[i] \in RP!Participants
  BY DEF RoomTyped, RP!Participants, There, Made, RP!Objects

\* Updater u begins with these infos and participants to drop.
Takes(u, infos, leaving) ==
  Becomes(u, IF leaving # {} THEN "leave" ELSE IF infos # <<>> THEN "look" ELSE "idle",
          infos, leaving, RP!None, RP!None)

LEMMA GivenToDo ==
  ASSUME RoomKinds, NEW u \in RP!Updaters, NEW f \in Seq(Infos), OnceEach(f),
         \A j \in DOMAIN f : Told(f[j]), NEW l \in SUBSET RP!Participants, Takes(u, f, l),
         UNCHANGED <<world, used, made, part, remoteParticipants>>
  PROVE  ThreadsTyped'
<1> USE DEF RoomKinds
<1>1. \A x : Told(x)' <=> Told(x) BY DEF Told, Upto
<1>2. \A o \in RP!Objects : Made(o)' <=> Made(o) BY DEF Made
<1>3. \A o \in l : Made(o) /\ o \in RP!Objects BY ParticipantsMade DEF Made
<1> PICK at : at = IF l # {} THEN "leave" ELSE IF f # <<>> THEN "look" ELSE "idle" OBVIOUS
<1>4. thread'[u] = [at |-> at, infos |-> f, leaving |-> l, obj |-> RP!None, old |-> RP!None]
      /\ DOMAIN thread' = RP!Updaters /\ \A v \in RP!Updaters : v # u => thread'[v] = thread[v]
  BY DEF Takes, Becomes
<1>5. at \in {"leave", "look", "idle"} /\ (at = "leave" <=> l # {}) /\ (at = "look" => f # <<>>)
      /\ (at = "idle" => f = <<>>)
  OBVIOUS
<1>6. ThreadTyped(u)'
  <2>1. thread'[u] \in [at : Places, infos : Seq(Infos), leaving : SUBSET RP!Objects,
                        obj : RP!Objects \cup {RP!None}, old : RP!Objects \cup RP!Sids \cup {RP!None}]
    BY <1>3, <1>4, <1>5 DEF Places
  <2>2. OnceEach(thread[u].infos)' BY <1>4 DEF OnceEach
  <2> QED BY <2>1, <2>2, <1>1, <1>2, <1>3, <1>4 DEF ThreadTyped
<1>7. ThreadPlaced(u)'
  <2>1. thread'[u].at = at /\ thread'[u].infos = f /\ thread'[u].leaving = l BY <1>4
  <2> QED BY <2>1, <1>5 DEF ThreadPlaced, Emptying, Applying
<1>8. ASSUME NEW v \in RP!Updaters, v # u PROVE ThreadTyped(v)' /\ ThreadPlaced(v)'
  <2>1. thread'[v] = thread[v] BY <1>4, <1>8
  <2>2. ThreadTyped(v) BY DEF ThreadsTyped
  <2>3. \A x \in thread[v].leaving : Made(x)' BY <1>2, <2>2 DEF ThreadTyped
  <2>4. ThreadTyped(v)' BY <2>1, <2>2, <2>3, <1>1 DEF ThreadTyped, OnceEach
  <2>5. ThreadPlaced(v)' BY <2>1, <1>2, OtherPlaced
  <2> QED BY <2>4, <2>5
<1> QED BY <1>4, <1>6, <1>7, <1>8 DEF ThreadsTyped

\* The message that is read, and what it overtakes.
Reads(m) ==
  /\ roomLink = "up" /\ thread["reader"].at = "idle" /\ roomUpdates # <<>>
  /\ m = roomUpdates[1] /\ 1 \in DOMAIN roomUpdates
  /\ Takes("reader", m.infos, IF m.moved THEN RP!Participants ELSE {})
  /\ roomOvertaken' = IF thread["worker"].infos = <<>> THEN roomOvertaken
                      ELSE IF m.moved THEN Identities ELSE roomOvertaken \cup RP!Named(m.infos)
  /\ roomCrossed' = roomCrossed \cup roomOvertaken'
  /\ roomUpdates' = Tail(roomUpdates)
  /\ \A k \in DOMAIN roomUpdates' : k + 1 \in DOMAIN roomUpdates /\ roomUpdates'[k] = roomUpdates[k + 1]
  /\ \A k \in DOMAIN roomUpdates : k # 1 =>
       \E l \in DOMAIN roomUpdates' : k = l + 1 /\ roomUpdates'[l] = roomUpdates[k]
  /\ UNCHANGED <<remoteParticipants, sidToIdentity, sidDefers, made, part, roomMedia, world, used,
                 roomLink, roomSession, stranded>>

LEMMA ReadFacts ==
  ASSUME RoomKinds, RP!OnParticipantUpdate
  PROVE  \E m : Reads(m)
<1> DEFINE M == [moved : BOOLEAN, infos : Seq(Infos)]
<1>1. roomUpdates \in Seq(M) /\ roomUpdates # <<>> BY DEF RoomKinds, QueueTyped, RP!OnParticipantUpdate
<1> HIDE DEF M
<1>2. Head(roomUpdates) = roomUpdates[1] /\ Tail(roomUpdates) \in Seq(M)
      /\ Len(Tail(roomUpdates)) = Len(roomUpdates) - 1
      /\ \A k \in 1 .. Len(roomUpdates) - 1 : Tail(roomUpdates)[k] = roomUpdates[k + 1]
  BY <1>1, HeadTailProperties
<1>3. DOMAIN roomUpdates = 1 .. Len(roomUpdates) /\ Len(roomUpdates) \in Nat
      /\ DOMAIN Tail(roomUpdates) = 1 .. Len(Tail(roomUpdates)) /\ Len(roomUpdates) # 0
  BY <1>1, <1>2, LenProperties, EmptySeq
<1> PICK m : m = roomUpdates[1] OBVIOUS
<1>4. DOMAIN thread = RP!Updaters BY DEF RoomKinds, ThreadsTyped
<1>5. Takes("reader", m.infos, IF m.moved THEN RP!Participants ELSE {})
  <2>1. PICK leaving : leaving = IF m.moved THEN RP!Participants ELSE {} OBVIOUS
  <2>2. thread' = [thread EXCEPT !["reader"] =
          [RP!Idle EXCEPT !.infos = m.infos, !.leaving = leaving,
                          !.at = IF leaving # {} THEN "leave"
                                 ELSE IF m.infos # <<>> THEN "look" ELSE "idle"]]
    BY <1>2, <2>1 DEF RP!OnParticipantUpdate
  <2> QED BY <1>4, <2>1, <2>2 DEF Takes, Becomes, RP!Idle, RP!Updaters
<1>6. \A k \in DOMAIN Tail(roomUpdates) : k + 1 \in DOMAIN roomUpdates
                                          /\ Tail(roomUpdates)[k] = roomUpdates[k + 1]
  BY <1>2, <1>3
<1>7. \A k \in DOMAIN roomUpdates : k # 1 =>
       \E l \in DOMAIN Tail(roomUpdates) : k = l + 1 /\ Tail(roomUpdates)[l] = roomUpdates[k]
  <2> SUFFICES ASSUME NEW k \in DOMAIN roomUpdates, k # 1
               PROVE  \E l \in DOMAIN Tail(roomUpdates) : k = l + 1 /\ Tail(roomUpdates)[l] = roomUpdates[k]
    OBVIOUS
  <2>1. k - 1 \in DOMAIN Tail(roomUpdates) /\ k = (k - 1) + 1 BY <1>2, <1>3
  <2> QED BY <2>1, <1>6
<1>8. /\ roomLink = "up" /\ thread["reader"].at = "idle"
      /\ roomOvertaken' = IF thread["worker"].infos = <<>> THEN roomOvertaken
                          ELSE IF m.moved THEN Identities ELSE roomOvertaken \cup RP!Named(m.infos)
      /\ roomCrossed' = roomCrossed \cup roomOvertaken'
      /\ roomUpdates' = Tail(roomUpdates)
  BY <1>2 DEF RP!OnParticipantUpdate
<1>9. UNCHANGED <<remoteParticipants, sidToIdentity, sidDefers, made, part, roomMedia, world, used,
                  roomLink, roomSession, stranded>>
  BY DEF RP!OnParticipantUpdate, RP!roomVars
<1>10. Reads(m) BY <1>1, <1>3, <1>5, <1>6, <1>7, <1>8, <1>9 DEF Reads
<1> QED BY <1>10

LEMMA MapsKept ==
  ASSUME RoomKinds, UNCHANGED <<world, used, made, part, remoteParticipants, sidToIdentity, sidDefers>>
  PROVE  WorldTyped' /\ PartsTyped' /\ RoomTyped'
<1> USE DEF RoomKinds
<1>1. WorldTyped' BY DEF WorldTyped
<1>2. PartsTyped' /\ (\A x : Made(x)' <=> Made(x)) /\ (\A s : Given(s)' <=> Given(s)) BY SameMaps
<1> QED BY <1>1, <1>2 DEF RoomTyped, There

LEMMA ReadKinds ==
  ASSUME RoomKinds, NEW m, Reads(m) PROVE RoomKinds'
<1> USE DEF RoomKinds
<1>1. WorldTyped' /\ PartsTyped' /\ RoomTyped' BY MapsKept DEF Reads
<1>2. MediaTyped' BY SameMaps DEF Reads
<1>3. m.infos \in Seq(Infos) /\ OnceEach(m.infos) /\ \A j \in DOMAIN m.infos : Told(m.infos[j])
  <2>1. roomUpdates \in Seq([moved : BOOLEAN, infos : Seq(Infos)]) BY DEF QueueTyped
  <2>2. m \in [moved : BOOLEAN, infos : Seq(Infos)]
    <3> PICK M : M = [moved : BOOLEAN, infos : Seq(Infos)] OBVIOUS
    <3>1. roomUpdates \in Seq(M) /\ 1 \in DOMAIN roomUpdates BY <2>1 DEF Reads
    <3>2. 1 \in 1 .. Len(roomUpdates) BY <3>1, LenProperties
    <3>3. roomUpdates[1] \in M BY <3>1, <3>2, ElementOfSeq
    <3> QED BY <3>3 DEF Reads
  <2> QED BY <2>2 DEF QueueTyped, Reads
<1>4. ThreadsTyped'
  <2>1. "reader" \in RP!Updaters BY DEF RP!Updaters
  <2>2. PICK l \in SUBSET RP!Participants : Takes("reader", m.infos, l) BY DEF Reads
  <2> QED BY <2>1, <2>2, <1>3, GivenToDo DEF Reads
<1>5. QueueTyped'
  <2>1. \A x : Told(x)' <=> Told(x) BY DEF Told, Upto, Reads
  <2>2. roomUpdates' \in Seq([moved : BOOLEAN, infos : Seq(Infos)]) /\ Len(roomUpdates') <= MaxInFlight
    <3>1. roomUpdates \in Seq([moved : BOOLEAN, infos : Seq(Infos)]) BY DEF QueueTyped
    <3>2. roomUpdates' \in Seq([moved : BOOLEAN, infos : Seq(Infos)])
          /\ Len(roomUpdates') = Len(roomUpdates) - 1 /\ Len(roomUpdates) \in Nat
      BY <3>1, HeadTailProperties, LenProperties DEF Reads
    <3>3. MaxInFlight \in Nat BY RoomBounds DEF RP!RoomAssumption
    <3> QED BY <3>2, <3>3 DEF QueueTyped
  <2>3. ASSUME NEW k \in DOMAIN roomUpdates'
        PROVE  /\ OnceEach(roomUpdates'[k].infos)
               /\ ~roomUpdates'[k].moved => Len(roomUpdates'[k].infos) = 1
               /\ \A j \in DOMAIN roomUpdates'[k].infos : Told(roomUpdates'[k].infos[j])
    BY <2>3 DEF QueueTyped, Reads
  <2> QED BY <2>1, <2>2, <2>3 DEF QueueTyped, OnceEach
<1>6. LinkTyped'
  <2>1. thread'["worker"] = thread["worker"] BY DEF Reads, Takes, Becomes, RP!Updaters
  <2>2. RP!Named(m.infos) \subseteq Identities
    BY <1>3, ElementOfSeq, LenProperties DEF RP!Named, Infos, RP!Info, RP!Sids, Told
  <2> QED BY <2>1, <2>2 DEF LinkTyped, Reads, Emptying
<1> QED BY <1>1, <1>2, <1>4, <1>5, <1>6

\* The worker empties the room.
Restarts ==
  /\ roomLink = "down" /\ roomLink' = "joining" /\ thread["worker"].at = "idle"
  /\ Takes("worker", <<>>, RP!Participants)
  /\ roomOvertaken' = RP!Named(thread["reader"].infos)
  /\ roomCrossed' = roomCrossed \cup roomOvertaken'
  /\ UNCHANGED <<remoteParticipants, sidToIdentity, sidDefers, made, part, roomMedia, world,
                 roomUpdates, used, roomSession, stranded>>

LEMMA RestartFacts ==
  ASSUME RoomKinds, RP!OnRestarting PROVE Restarts
<1>1. DOMAIN thread = RP!Updaters BY DEF RoomKinds, ThreadsTyped
<1>2. thread' = [thread EXCEPT !["worker"] =
        [RP!Idle EXCEPT !.leaving = RP!Participants,
                        !.at = IF RP!Participants = {} THEN "idle" ELSE "leave"]]
  BY DEF RP!OnRestarting
<1>3. PICK l : l = RP!Participants OBVIOUS
<1>4. Takes("worker", <<>>, RP!Participants)
  BY <1>1, <1>2, <1>3 DEF Takes, Becomes, RP!Idle, RP!Updaters
<1> QED BY <1>4 DEF RP!OnRestarting, Restarts, RP!roomVars

LEMMA NoneTold ==
  /\ <<>> \in Seq(Infos) /\ OnceEach(<<>>) /\ (\A j \in DOMAIN <<>> : Told(<<>>[j]))
  /\ \A i : Of(<<>>, i) = {}
<1>1. <<>> \in Seq(Infos) /\ DOMAIN <<>> = {} OBVIOUS
<1> QED BY <1>1, NoInfos

LEMMA RestartKinds ==
  ASSUME RoomKinds, Restarts PROVE RoomKinds'
<1> USE DEF RoomKinds
<1>1. WorldTyped' /\ PartsTyped' /\ RoomTyped' BY MapsKept DEF Restarts
<1>2. MediaTyped' BY SameMaps DEF Restarts
<1>3. ThreadsTyped'
  <2>1. "worker" \in RP!Updaters BY DEF RP!Updaters
  <2>2. PICK l \in SUBSET RP!Participants : Takes("worker", <<>>, l) BY DEF Restarts
  <2>3. PICK f : f = <<>> OBVIOUS
  <2> QED BY <2>1, <2>2, <2>3, NoneTold, GivenToDo DEF Restarts
<1>4. QueueTyped'
  <2>1. \A x : Told(x)' <=> Told(x) BY DEF Told, Upto, Restarts
  <2> QED BY <2>1 DEF QueueTyped, OnceEach, Restarts
<1>5. LinkTyped'
  <2>1. thread'["worker"].infos = <<>> BY DEF Restarts, Takes, Becomes
  <2>2. RP!Named(thread["reader"].infos) \subseteq Identities
    <3>1. \A j \in DOMAIN thread["reader"].infos : Told(thread["reader"].infos[j])
      BY DEF ThreadsTyped, ThreadTyped, RP!Updaters
    <3> QED BY <3>1 DEF RP!Named, Told, Infos, RP!Info, RP!Sids
  <2> QED BY <2>1, <2>2 DEF LinkTyped, Restarts
<1> QED BY <1>1, <1>2, <1>3, <1>4, <1>5

\* The worker gets the snapshot f.
Rejoins(f) ==
  /\ roomLink = "joining" /\ roomLink' = "up" /\ roomSession' = roomSession + 1
  /\ \A u \in RP!Updaters : thread[u].at = "idle"
  /\ Takes("worker", f, {})
  /\ roomMedia' = [t \in Tracks |-> IF roomMedia[t].at = "deferred" THEN roomMedia[t] ELSE RP!NoMedia]
  /\ \A t \in Tracks : roomMedia[t].at \in {"none", "deferred", "attached", "failed"}
  /\ stranded' = {}
  /\ UNCHANGED <<remoteParticipants, sidToIdentity, sidDefers, made, part, world, roomUpdates, used,
                 roomOvertaken, roomCrossed>>
\* ... of those the SFU has.
Snapshot(f) ==
  /\ f \in Seq(Infos) /\ OnceEach(f) /\ \A j \in DOMAIN f : Told(f[j])
  /\ \A i \in Identities : Of(f, i) = IF world[i].left THEN {} ELSE {world[i]}

LEMMA RejoinFacts ==
  ASSUME RoomKinds, RP!OnRestarted
  PROVE  \E f : Rejoins(f) /\ Snapshot(f)
<1> DEFINE S == {i \in Identities : ~world[i].left}
<1>1. PICK order \in RP!SetToSeqs(S) :
        thread' = [thread EXCEPT !["worker"] =
          [RP!Idle EXCEPT !.infos = [j \in DOMAIN order |-> world[order[j]]],
                          !.at = IF order = <<>> THEN "idle" ELSE "look"]]
  BY DEF RP!OnRestarted
<1>2. IsFiniteSet(S)
  <2>1. IsFiniteSet(Identities) BY RoomBounds, SameCounts DEF RP!RoomAssumption
  <2> QED BY <2>1, FS_Subset
<1>3. /\ order \in Seq(S) /\ \A x \in S : \E j \in DOMAIN order : order[j] = x
      /\ \A j, k \in DOMAIN order : order[j] = order[k] => j = k
  <2> HIDE DEF S
  <2> QED BY <1>2, OrderFacts
<1> PICK f : f = [j \in DOMAIN order |-> world[order[j]]] OBVIOUS
<1>4. Len(order) \in Nat /\ DOMAIN order = 1 .. Len(order) /\ (order = <<>> <=> Len(order) = 0)
      /\ \A j \in DOMAIN order : order[j] \in S
  <2> HIDE DEF S
  <2>1. Len(order) \in Nat /\ DOMAIN order = 1 .. Len(order) BY <1>3, LenProperties
  <2>2. order = <<>> <=> Len(order) = 0 BY <1>3, EmptySeq
  <2>3. \A j \in DOMAIN order : order[j] \in S BY <1>3, <2>1, ElementOfSeq
  <2> QED BY <2>1, <2>2, <2>3
<1>5. \A i \in S : /\ i \in Identities /\ world[i] \in Infos /\ world[i].sid[1] = i /\ Told(world[i])
                   /\ ~world[i].left
  <2> SUFFICES ASSUME NEW i \in S
               PROVE  /\ i \in Identities /\ world[i] \in Infos /\ world[i].sid[1] = i
                      /\ Told(world[i]) /\ ~world[i].left
    OBVIOUS
  <2>1. i \in Identities /\ ~world[i].left OBVIOUS
  <2>2. /\ world[i] \in Infos /\ world[i].sid[1] = i /\ world[i].tracks \subseteq used
        /\ world[i].version # 0
    BY <2>1 DEF RoomKinds, WorldTyped
  <2>3. world[i].version \in Nat BY <2>2 DEF Infos, RP!Info
  <2>4. Upto(world[i], world[i]) BY <2>3 DEF Upto
  <2> QED BY <2>1, <2>2, <2>4 DEF Told
<1>6. f \in Seq(Infos) /\ DOMAIN f = DOMAIN order /\ (f = <<>> <=> order = <<>>)
  <2>1. f \in [1 .. Len(order) -> Infos] BY <1>4, <1>5
  <2>2. f \in Seq(Infos) BY <2>1, <1>4, SeqDef
  <2>3. Len(f) = Len(order) BY <2>1, <2>2, <1>4, LenProperties
  <2>4. f = <<>> <=> Len(f) = 0 BY <2>2, EmptySeq, LenProperties
  <2> QED BY <2>2, <2>3, <2>4, <1>4
<1>7. \A j \in DOMAIN f : order[j] \in S /\ f[j] = world[order[j]] /\ f[j].sid[1] = order[j]
  BY <1>4, <1>5, <1>6
<1> HIDE DEF S
<1>8. OnceEach(f) BY <1>3, <1>6, <1>7 DEF OnceEach
<1>9. \A j \in DOMAIN f : Told(f[j]) BY <1>5, <1>7
<1>10. ASSUME NEW i \in Identities PROVE Of(f, i) = IF world[i].left THEN {} ELSE {world[i]}
  <2>1. ASSUME NEW x \in Of(f, i) PROVE x = world[i] /\ ~world[i].left
    <3>1. PICK j \in DOMAIN f : x = f[j] /\ f[j].sid[1] = i BY OfInfos DEF Of
    <3> QED BY <3>1, <1>5, <1>7
  <2>2. ASSUME ~world[i].left PROVE world[i] \in Of(f, i)
    <3>1. i \in S BY <2>2 DEF S
    <3>2. PICK j \in DOMAIN order : order[j] = i BY <3>1, <1>3
    <3> QED BY <3>2, <1>6, <1>7 DEF Of
  <2> QED BY <2>1, <2>2
<1>11. Snapshot(f) BY <1>6, <1>8, <1>9, <1>10 DEF Snapshot
<1>12. Takes("worker", f, {})
  <2>1. DOMAIN thread = RP!Updaters BY DEF RoomKinds, ThreadsTyped
  <2> QED BY <2>1, <1>1, <1>6 DEF Takes, Becomes, RP!Idle, RP!Updaters
<1>13. Rejoins(f) BY <1>12 DEF RP!OnRestarted, Rejoins, RP!roomVars, RP!ghosts
<1> QED BY <1>11, <1>13

LEMMA RejoinKinds ==
  ASSUME RoomKinds, NEW f, Rejoins(f), Snapshot(f) PROVE RoomKinds'
<1> USE DEF RoomKinds
<1>1. WorldTyped' /\ PartsTyped' /\ RoomTyped' BY MapsKept DEF Rejoins
<1>2. (\A x : Told(x)' <=> Told(x)) /\ (\A s : Given(s)' <=> Given(s)) BY DEF Told, Upto, Given, Rejoins
<1>3. ThreadsTyped'
  <2>1. "worker" \in RP!Updaters BY DEF RP!Updaters
  <2>2. PICK l \in SUBSET RP!Participants : Takes("worker", f, l) BY DEF Rejoins
  <2> QED BY <2>1, <2>2, GivenToDo DEF Rejoins, Snapshot
<1>4. QueueTyped' BY <1>2 DEF QueueTyped, OnceEach, Rejoins
<1>5. roomSession \in Nat /\ roomSession' \in Nat /\ roomSession <= roomSession'
      /\ roomSession' \in 0 .. RoomRestarts
  <2>1. RoomRestarts \in Nat BY RoomBounds DEF RP!RoomAssumption
  <2> QED BY <2>1 DEF LinkTyped, Rejoins
<1>6. LinkTyped'
  <2>1. thread'["worker"].leaving = {} /\ ~Emptying("worker")'
    BY DEF Rejoins, Takes, Becomes, Emptying
  <2> QED BY <2>1, <1>5 DEF LinkTyped, Rejoins
<1>7. MediaTyped'
  <2>1. ASSUME NEW t \in Tracks
        PROVE  /\ roomMedia[t].at = "deferred" => roomMedia'[t] = roomMedia[t]
               /\ roomMedia[t].at # "deferred" => roomMedia'[t] = RP!NoMedia
    BY DEF Rejoins
  <2>2. roomMedia' \in [Tracks -> [at : MediaPlaces, sid : RP!Sids \cup {RP!None},
                                   obj : RP!Objects \cup {RP!None}, session : Nat]]
    <3>1. RP!NoMedia \in [at : MediaPlaces, sid : RP!Sids \cup {RP!None},
                          obj : RP!Objects \cup {RP!None}, session : Nat]
      BY DEF RP!NoMedia, MediaPlaces
    <3>2. ASSUME NEW t \in Tracks
          PROVE  roomMedia'[t] \in [at : MediaPlaces, sid : RP!Sids \cup {RP!None},
                                    obj : RP!Objects \cup {RP!None}, session : Nat]
      BY <3>1, <2>1 DEF MediaTyped
    <3> QED BY <3>2 DEF Rejoins
  <2>3. ASSUME NEW t \in Tracks, roomMedia'[t].at # "none"
        PROVE  /\ roomMedia'[t] = roomMedia[t] /\ roomMedia[t].at = "deferred"
    BY <2>1, <2>3 DEF RP!NoMedia
  <2>4. ASSUME NEW s \in RP!Sids, NEW t \in sidDefers[s] PROVE roomMedia'[t] = roomMedia[t]
    <3>1. t \in Tracks BY DEF RoomTyped
    <3>2. roomMedia[t].at = "deferred" BY <3>1, <2>4 DEF Rejoins, MediaTyped
    <3> QED BY <3>1, <3>2, <2>1
  <2>5. ASSUME NEW t \in Tracks, roomMedia'[t].at # "none"
        PROVE  /\ t \in used /\ roomMedia'[t].sid \in RP!Sids /\ Given(roomMedia'[t].sid)
               /\ roomMedia'[t].session <= roomSession'
               /\ roomMedia'[t].at \notin Found
               /\ \A i \in Identities : t \in world[i].tracks => roomMedia'[t].sid = world[i].sid
    <3>1. roomMedia'[t] = roomMedia[t] /\ roomMedia[t].at = "deferred" BY <2>5, <2>3
    <3>2. roomMedia[t].session \in Nat /\ roomMedia[t].session <= roomSession
      BY <3>1 DEF MediaTyped
    <3> QED BY <3>1, <3>2, <1>5 DEF MediaTyped, Found
  <2> QED BY <2>2, <2>4, <2>5, <1>2 DEF MediaTyped, Rejoins
<1> QED BY <1>1, <1>3, <1>4, <1>6, <1>7

LinkGoes ==
  /\ roomLink = "up" /\ roomLink' = "down" /\ roomUpdates' = <<>> /\ thread["worker"].at = "idle"
  /\ roomSession < RoomRestarts
  /\ UNCHANGED <<remoteParticipants, sidToIdentity, sidDefers, made, part, thread, roomMedia, world,
                 used, roomSession, roomOvertaken, roomCrossed, stranded>>

LEMMA LinkKinds ==
  ASSUME RoomKinds, RP!LinkFails PROVE RoomKinds' /\ LinkGoes
<1> USE DEF RoomKinds
<1>0. LinkGoes BY DEF LinkGoes, RP!LinkFails, RP!roomVars, RP!ghosts
<1>1. WorldTyped' /\ PartsTyped' /\ RoomTyped' BY <1>0, MapsKept DEF LinkGoes
<1>2. MediaTyped' BY <1>0, SameMaps DEF LinkGoes
<1>3. (\A x : Told(x)' <=> Told(x)) /\ (\A s : Made(s)' <=> Made(s)) BY <1>0 DEF Told, Upto, Made, LinkGoes
<1>4. ThreadsTyped' BY <1>0, <1>3 DEF LinkGoes, ThreadsTyped, ThreadTyped, ThreadPlaced, OnceEach, Emptying, Head1
<1>5. QueueTyped'
  <2>1. roomUpdates' = <<>> /\ MaxInFlight \in Nat BY <1>0, RoomBounds DEF LinkGoes, RP!RoomAssumption
  <2> QED BY <2>1 DEF QueueTyped
<1>6. LinkTyped'
  <2>1. thread["worker"].infos = <<>> BY <1>0 DEF LinkGoes, ThreadsTyped, ThreadPlaced, RP!Updaters
  <2> QED BY <2>1, <1>0 DEF LinkTyped, LinkGoes, Emptying
<1> QED BY <1>0, <1>1, <1>2, <1>4, <1>5, <1>6

-----------------------------------------------------------------------------
(* Types: media.                                                           *)

MediaKind == [at : MediaPlaces, sid : RP!Sids \cup {RP!None}, obj : RP!Objects \cup {RP!None},
              session : Nat]
MediaRight(t, r) ==
  /\ r \in MediaKind
  /\ r.at # "none" =>
       /\ t \in used /\ r.sid \in RP!Sids /\ Given(r.sid) /\ r.session <= roomSession
       /\ r.at \in Found => r.obj \in RP!Objects /\ r.obj[1] = r.sid[1]
       /\ \A i \in Identities : t \in world[i].tracks => r.sid = world[i].sid
Waiting == {"arrived", "deferring", "deferred", "find"}

LEMMA MediaIs ==
  ASSUME RoomKinds
  PROVE  /\ roomMedia \in [Tracks -> MediaKind] /\ \A t \in Tracks : MediaRight(t, roomMedia[t])
         /\ \A s \in RP!Sids : \A t \in sidDefers[s] :
              t \in Tracks /\ roomMedia[t].sid = s /\ roomMedia[t].at \in Waiting
<1>1. MediaTyped /\ RoomTyped BY DEF RoomKinds
<1> QED BY <1>1 DEF MediaTyped, MediaKind, MediaRight, Waiting, RoomTyped

LEMMA QuietKinds ==
  ASSUME RoomKinds, SameNews, UNCHANGED <<thread, made, remoteParticipants, sidToIdentity>>,
         PartsTyped', sidDefers' \in [RP!Sids -> SUBSET Tracks], stranded' \subseteq Tracks,
         roomMedia' \in [Tracks -> MediaKind], \A t \in Tracks : MediaRight(t, roomMedia'[t]),
         \A s \in RP!Sids : \A t \in sidDefers'[s] :
           roomMedia'[t].sid = s /\ roomMedia'[t].at \in Waiting
  PROVE  RoomKinds'
<1> USE DEF RoomKinds
<1>1. /\ \A x : Told(x)' <=> Told(x)
      /\ \A x : Made(x)' <=> Made(x)
      /\ \A s : Given(s)' <=> Given(s)
  BY DEF SameNews, Told, Upto, Made, Given
<1>2. WorldTyped' BY DEF WorldTyped, SameNews
<1>3. LinkTyped' BY DEF LinkTyped, SameNews, Emptying
<1>4. QueueTyped' BY <1>1 DEF QueueTyped, SameNews, OnceEach
<1>5. RoomTyped' BY <1>1 DEF RoomTyped, There
<1>6. ThreadsTyped'
  <2>1. \A u \in RP!Updaters : ThreadTyped(u)' BY <1>1 DEF ThreadsTyped, ThreadTyped, OnceEach
  <2>2. \A u \in RP!Updaters : ThreadPlaced(u)'
    BY <1>1 DEF ThreadsTyped, ThreadPlaced, Emptying, Head1
  <2> QED BY <2>1, <2>2 DEF ThreadsTyped
<1>7. MediaTyped' BY <1>1 DEF MediaTyped, MediaKind, MediaRight, Waiting, SameNews
<1> QED BY <1>2, <1>3, <1>4, <1>5, <1>6, <1>7

\* A step of one media track.
LEMMA TrackKinds ==
  ASSUME RoomKinds, SameNews, UNCHANGED <<thread, made, remoteParticipants, sidToIdentity>>,
         PartsTyped', sidDefers' \in [RP!Sids -> SUBSET Tracks], stranded' \subseteq Tracks,
         NEW t \in Tracks, NEW r, MediaRight(t, r), roomMedia' = [roomMedia EXCEPT ![t] = r],
         \A s \in RP!Sids : \A m \in sidDefers'[s] :
           (m = t /\ r.sid = s /\ r.at \in Waiting) \/ (m # t /\ m \in sidDefers[s])
  PROVE  RoomKinds'
<1>1. roomMedia \in [Tracks -> MediaKind] /\ (\A m \in Tracks : MediaRight(m, roomMedia[m]))
      /\ \A s \in RP!Sids : \A m \in sidDefers[s] :
              m \in Tracks /\ roomMedia[m].sid = s /\ roomMedia[m].at \in Waiting
  BY MediaIs
<1>2. r \in MediaKind BY DEF MediaRight
<1>3. roomMedia'[t] = r /\ \A m \in Tracks : m # t => roomMedia'[m] = roomMedia[m] BY <1>1
<1>4. roomMedia' \in [Tracks -> MediaKind] BY <1>1, <1>2
<1>5. \A m \in Tracks : MediaRight(m, roomMedia'[m]) BY <1>1, <1>3
<1>6. ASSUME NEW s \in RP!Sids, NEW m \in sidDefers'[s]
      PROVE  roomMedia'[m].sid = s /\ roomMedia'[m].at \in Waiting
  <2>1. (m = t /\ r.sid = s /\ r.at \in Waiting) \/ (m # t /\ m \in sidDefers[s]) OBVIOUS
  <2>2. CASE m = t /\ r.sid = s /\ r.at \in Waiting BY <2>2, <1>3
  <2>3. CASE m # t /\ m \in sidDefers[s]
    <3>1. m \in Tracks /\ roomMedia[m].sid = s /\ roomMedia[m].at \in Waiting BY <2>3, <1>1
    <3> QED BY <3>1, <2>3, <1>3
  <2> QED BY <2>1, <2>2, <2>3
<1> QED BY <1>4, <1>5, <1>6, QuietKinds

LEMMA TrackKeeps ==
  ASSUME RoomKinds, SameNews, UNCHANGED <<part, made>>
  PROVE  PartsTyped'
  BY SameMaps DEF SameNews

LEMMA OnTrackKinds ==
  ASSUME RoomKinds, NEW t \in Tracks, NEW i \in Identities, RP!OnTrack(t, i) PROVE RoomKinds'
<1> USE DEF RoomKinds
<1> PICK r : r = [at |-> "arrived", sid |-> world[i].sid, obj |-> RP!None, session |-> roomSession]
  OBVIOUS
<1>1. t \in world[i].tracks /\ roomMedia' = [roomMedia EXCEPT ![t] = r] BY DEF RP!OnTrack
<1>2. SameNews /\ UNCHANGED <<thread, made, part, remoteParticipants, sidToIdentity, sidDefers, stranded>>
  BY DEF RP!OnTrack, SameNews, RP!roomVars, RP!sfuVars, RP!ghosts
<1>3. world[i] \in Infos /\ world[i].sid[1] = i /\ t \in used /\ world[i].version # 0
  BY <1>1 DEF WorldTyped
<1>4. world[i].sid \in RP!Sids /\ Given(world[i].sid) BY <1>3 DEF Infos, RP!Info, Given
<1>5. r.at = "arrived" /\ r.sid = world[i].sid /\ r.session = roomSession OBVIOUS
<1>6. MediaRight(t, r)
  <2>1. r \in MediaKind BY <1>4 DEF MediaKind, MediaPlaces, LinkTyped
  <2>2. \A j \in Identities : t \in world[j].tracks => j = i BY <1>1 DEF WorldTyped
  <2>3. r.session <= roomSession BY <1>5 DEF LinkTyped
  <2> QED BY <2>1, <2>2, <2>3, <1>3, <1>4, <1>5 DEF MediaRight, Found
<1>7. \A s \in RP!Sids : \A m \in sidDefers[s] : m = t => r.sid = s /\ r.at \in Waiting
  <2>1. ASSUME NEW s \in RP!Sids, t \in sidDefers[s] PROVE r.sid = s
    <3>1. roomMedia[t].sid = s /\ roomMedia[t].at \in Waiting BY <2>1, MediaIs
    <3>2. roomMedia[t].at # "none" BY <3>1 DEF Waiting
    <3> QED BY <3>1, <3>2, <1>1, <1>5 DEF MediaTyped
  <2> QED BY <2>1, <1>5 DEF Waiting
<1>8. PartsTyped' BY <1>2, TrackKeeps
<1>9. sidDefers' \in [RP!Sids -> SUBSET Tracks] /\ stranded' \subseteq Tracks
  BY <1>2 DEF RoomTyped, LinkTyped
<1>10. \A s \in RP!Sids : \A m \in sidDefers'[s] :
         (m = t /\ r.sid = s /\ r.at \in Waiting) \/ (m # t /\ m \in sidDefers[s])
  BY <1>2, <1>7
<1> QED BY <1>1, <1>2, <1>6, <1>8, <1>9, <1>10, TrackKinds

\* A media track that goes on, with another participant perhaps.
LEMMA StepKinds ==
  ASSUME RoomKinds, NEW t \in Tracks, NEW at \in MediaPlaces \ {"none"}, NEW o \in RP!Objects \cup {RP!None},
         RP!MediaStep(t, at, o), roomMedia[t].at # "none",
         at \in Found => o \in RP!Objects /\ o[1] = roomMedia[t].sid[1],
         SameNews, UNCHANGED <<thread, made, remoteParticipants, sidToIdentity>>, PartsTyped',
         sidDefers' \in [RP!Sids -> SUBSET Tracks], stranded' \subseteq Tracks,
         roomMedia[t].at \in Waiting => at \in Waiting,
         \A s \in RP!Sids : \A m \in sidDefers'[s] :
           m \in sidDefers[s] \/ (m = t /\ s = roomMedia[t].sid /\ at \in Waiting)
  PROVE  RoomKinds'
<1> PICK q \in MediaKind : q = roomMedia[t] BY MediaIs
<1> PICK r : r = [at |-> at, sid |-> q.sid, obj |-> o, session |-> q.session] OBVIOUS
<1>1. roomMedia' = [roomMedia EXCEPT ![t] = r]
  <2>1. roomMedia \in [Tracks -> MediaKind] BY MediaIs
  <2>2. roomMedia'[t] = [q EXCEPT !.at = at, !.obj = o] BY <2>1 DEF RP!MediaStep, MediaKind
  <2>3. roomMedia'[t] = r BY <2>2 DEF MediaKind
  <2>4. DOMAIN roomMedia' = Tracks /\ \A m \in Tracks : m # t => roomMedia'[m] = roomMedia[m]
    BY <2>1 DEF RP!MediaStep
  <2>5. roomMedia' = [m \in Tracks |-> roomMedia'[m]] BY <2>4 DEF RP!MediaStep
  <2> QED BY <2>1, <2>3, <2>4, <2>5
<1>2. MediaRight(t, q) BY MediaIs
<1>3. r.at = at /\ r.sid = q.sid /\ r.obj = o /\ r.session = q.session OBVIOUS
<1>4. r \in MediaKind BY DEF MediaKind
<1>5. MediaRight(t, r) BY <1>2, <1>3, <1>4 DEF MediaRight
<1>6. ASSUME NEW s \in RP!Sids, NEW m \in sidDefers'[s]
      PROVE  (m = t /\ r.sid = s /\ r.at \in Waiting) \/ (m # t /\ m \in sidDefers[s])
  <2>1. m \in sidDefers[s] \/ (m = t /\ s = q.sid /\ at \in Waiting) OBVIOUS
  <2>2. m = t /\ m \in sidDefers[s] => q.sid = s /\ q.at \in Waiting BY MediaIs
  <2> QED BY <2>1, <2>2, <1>3
<1> QED BY <1>1, <1>5, <1>6, TrackKinds

LEMMA MediaTrackKinds ==
  ASSUME RoomKinds, NEW t \in Tracks, RP!OnMediaTrack(t) PROVE RoomKinds'
<1> USE DEF RoomKinds
<1>1. roomMedia[t].at = "arrived" BY DEF RP!OnMediaTrack
<1> PICK s \in RP!Sids : s = roomMedia[t].sid BY <1>1 DEF MediaTyped
<1> PICK o : o = RP!GetParticipantBySID(s) OBVIOUS
<1> PICK at : at = IF o = RP!None THEN "deferring" ELSE "find" OBVIOUS
<1>2. RP!MediaStep(t, at, o) BY DEF RP!OnMediaTrack
<1>3. SameNews /\ UNCHANGED <<thread, made, part, remoteParticipants, sidToIdentity, sidDefers, stranded>>
  BY DEF RP!OnMediaTrack, SameNews, RP!roomVars, RP!sfuVars, RP!ghosts
<1>4. o # RP!None => o \in RP!Objects /\ o[1] = s[1]
  <2>1. s[1] \in Identities BY DEF RP!Sids
  <2> QED BY <2>1 DEF RP!GetParticipantBySID, RoomTyped, There, Made
<1>5. at \in MediaPlaces \ {"none"} /\ at \in Waiting /\ (at \in Found => o # RP!None)
  BY DEF MediaPlaces, Waiting, Found
<1>6. PartsTyped' BY <1>3, TrackKeeps
<1>7. sidDefers' \in [RP!Sids -> SUBSET Tracks] /\ stranded' \subseteq Tracks
  BY <1>3 DEF RoomTyped, LinkTyped
<1> QED BY <1>1, <1>2, <1>3, <1>4, <1>5, <1>6, <1>7, StepKinds

LEMMA DeferKinds ==
  ASSUME RoomKinds, NEW t \in Tracks, RP!deferParticipantUpdate(t) PROVE RoomKinds'
<1> USE DEF RoomKinds
<1>1. roomMedia[t].at = "deferring" BY DEF RP!deferParticipantUpdate
<1> PICK s \in RP!Sids : s = roomMedia[t].sid BY <1>1 DEF MediaTyped
<1>2. /\ RP!MediaStep(t, "deferred", RP!None)
      /\ sidDefers' = [sidDefers EXCEPT ![s] = sidDefers[s] \cup {t}]
      /\ stranded' \subseteq stranded \cup {t}
  BY DEF RP!deferParticipantUpdate
<1>3. SameNews /\ UNCHANGED <<thread, made, part, remoteParticipants, sidToIdentity>>
  BY DEF RP!deferParticipantUpdate, SameNews, RP!roomVars, RP!sfuVars, RP!ghosts
<1>4. PartsTyped' BY <1>3, TrackKeeps
<1>5. /\ sidDefers' \in [RP!Sids -> SUBSET Tracks] /\ stranded' \subseteq Tracks
      /\ \A r \in RP!Sids : \A m \in sidDefers'[r] : m \in sidDefers[r] \/ (m = t /\ r = s)
  BY <1>2 DEF RoomTyped, LinkTyped
<1>6. "deferred" \in MediaPlaces \ {"none"} /\ "deferred" \in Waiting /\ "deferred" \notin Found
  BY DEF MediaPlaces, Waiting, Found
<1> QED BY <1>1, <1>2, <1>3, <1>4, <1>5, <1>6, StepKinds

LEMMA PollEndsKinds ==
  ASSUME RoomKinds, NEW t \in Tracks, RP!PollEnds(t) PROVE RoomKinds'
<1> USE DEF RoomKinds
<1>1. roomMedia[t].at = "poll" /\ RP!MediaStep(t, "failed", roomMedia[t].obj) BY DEF RP!PollEnds
<1>2. SameNews /\ UNCHANGED <<thread, made, part, remoteParticipants, sidToIdentity, sidDefers, stranded>>
  BY DEF RP!PollEnds, SameNews, RP!roomVars, RP!sfuVars, RP!ghosts
<1>3. PartsTyped' BY <1>2, TrackKeeps
<1>4. roomMedia[t].obj \in RP!Objects \cup {RP!None} BY DEF MediaTyped
<1>5. "failed" \in MediaPlaces \ {"none"} /\ "failed" \notin Found BY DEF MediaPlaces, Found
<1>6. roomMedia[t].at \notin Waiting /\ roomMedia[t].at # "none" BY <1>1 DEF Waiting
<1>7. sidDefers' \in [RP!Sids -> SUBSET Tracks] /\ stranded' \subseteq Tracks
  BY <1>2 DEF RoomTyped, LinkTyped
<1> QED BY <1>1, <1>2, <1>3, <1>4, <1>5, <1>6, <1>7, StepKinds

LEMMA AttachKinds ==
  ASSUME RoomKinds, NEW t \in Tracks, RP!Attach(t) PROVE RoomKinds'
<1> USE DEF RoomKinds
<1>1. roomMedia[t].at = "attach" /\ RP!MediaStep(t, "attached", roomMedia[t].obj) BY DEF RP!Attach
<1>2. SameNews /\ UNCHANGED <<thread, made, remoteParticipants, sidToIdentity, sidDefers>>
  BY DEF RP!Attach, SameNews, RP!roomVars, RP!sfuVars, RP!ghosts
<1> PICK o \in RP!Objects : o = roomMedia[t].obj BY <1>1 DEF MediaTyped, Found
<1>3. \/ /\ t \in part[o].pubs /\ UNCHANGED stranded
         /\ part' = [part EXCEPT ![o].attached = part[o].attached \cup {t}]
      \/ stranded' = stranded \cup {t} /\ UNCHANGED part
  BY DEF RP!Attach, RP!getPublication
<1>4. PartsTyped'
  <2>1. CASE UNCHANGED part BY <2>1, <1>2, TrackKeeps
  <2>2. CASE t \in part[o].pubs /\ part' = [part EXCEPT ![o].attached = part[o].attached \cup {t}]
    <3> PICK q \in PartKind : q = part[o] BY DEF PartsTyped, PartKind
    <3>1. Made(o)
      <4>1. RP!NoPart.pubs = {} BY DEF RP!NoPart
      <4> QED BY <4>1, <2>2 DEF PartsTyped
    <3> PICK p : p = [sid |-> q.sid, version |-> q.version, pubs |-> q.pubs,
                      attached |-> q.attached \cup {t}]
      OBVIOUS
    <3>2. part' = [part EXCEPT ![o] = p]
      <4>1. part \in [RP!Objects -> PartKind] BY DEF PartsTyped, PartKind
      <4>2. part'[o] = [q EXCEPT !.attached = q.attached \cup {t}] BY <2>2, <4>1 DEF PartKind
      <4>3. part'[o] = p BY <4>2 DEF PartKind
      <4>4. \A x \in RP!Objects : x # o => part'[x] = part[x] BY <2>2, <4>1
      <4>5. DOMAIN part' = RP!Objects /\ part' = [x \in RP!Objects |-> part'[x]] BY <2>2, <4>1
      <4> QED BY <4>1, <4>3, <4>4, <4>5
    <3>3. p \in PartKind /\ p.attached \subseteq p.pubs BY <2>2 DEF PartKind, PartsTyped
    <3>4. PartTyped(o, p) BY <3>1, <3>3 DEF PartTyped, PartsTyped, Upto
    <3>5. \A x \in RP!Objects : Made(x)' <=> Made(x) \/ x = o BY <3>1, <1>2 DEF Made
    <3>6. made' \in [Identities -> 0 .. MaxObjects] /\ UNCHANGED <<world, used>>
      BY <1>2 DEF PartsTyped, SameNews
    <3> QED BY <3>2, <3>4, <3>5, <3>6, PartChanged
  <2> QED BY <1>3, <2>1, <2>2
<1>5. "attached" \in MediaPlaces \ {"none"} BY DEF MediaPlaces
<1>6. roomMedia[t].at \notin Waiting /\ roomMedia[t].at # "none" BY <1>1 DEF Waiting
<1>7. sidDefers' \in [RP!Sids -> SUBSET Tracks] /\ stranded' \subseteq Tracks
  BY <1>2, <1>3 DEF RoomTyped, LinkTyped
<1>8. o[1] = roomMedia[t].sid[1] BY <1>1 DEF MediaTyped, Found
<1> QED BY <1>1, <1>2, <1>4, <1>5, <1>6, <1>7, <1>8, StepKinds

\* What was found for one track is found for those that wait for the same participant.
Finds(t, s, o) ==
  /\ s = roomMedia[t].sid /\ o = roomMedia[t].obj /\ o[1] = s[1]
  /\ roomMedia[t].at \in {"find", "poll"}
  /\ SameNews
  /\ UNCHANGED <<thread, made, part, remoteParticipants, sidToIdentity, stranded>>
  /\ sidDefers' \in [RP!Sids -> SUBSET Tracks]
  /\ \A r \in RP!Sids : /\ r # s => sidDefers'[r] = sidDefers[r]
                        /\ sidDefers'[r] \subseteq sidDefers[r]
  /\ t \notin sidDefers'[s]
  /\ roomMedia[t].at = "find" => sidDefers'[s] = {}
  /\ roomMedia[t].at = "poll" => sidDefers' = sidDefers
  /\ DOMAIN roomMedia' = Tracks
  /\ \E at \in {"attach", "poll"} :
       roomMedia'[t] = [at |-> at, sid |-> s, obj |-> o, session |-> roomMedia[t].session]
  /\ \A m \in Tracks : m # t =>
       IF roomMedia[t].at = "find" /\ m \in sidDefers[s]
       THEN roomMedia'[m] = [at |-> "find", sid |-> s, obj |-> o, session |-> roomMedia[m].session]
       ELSE roomMedia'[m] = roomMedia[m]

LEMMA FindFacts ==
  ASSUME RoomKinds, NEW t \in Tracks, RP!Find(t)
  PROVE  \E s \in RP!Sids, o \in RP!Objects :
           Finds(t, s, o)
<1> USE DEF RoomKinds
<1>1. roomMedia[t].at \in {"find", "poll"} BY DEF RP!Find
<1> PICK q \in MediaKind : q = roomMedia[t] BY MediaIs
<1>2. q.sid \in RP!Sids /\ q.obj \in RP!Objects /\ q.obj[1] = q.sid[1] BY <1>1 DEF MediaTyped, Found
<1> PICK s \in RP!Sids : s = q.sid BY <1>2
<1> PICK o \in RP!Objects : o = q.obj BY <1>2
<1>3. SameNews /\ UNCHANGED <<thread, made, part, remoteParticipants, sidToIdentity, stranded>>
  BY DEF RP!Find, SameNews, RP!roomVars, RP!sfuVars, RP!ghosts
<1>4. sidDefers' = IF q.at = "find" THEN [sidDefers EXCEPT ![s] = {}] ELSE sidDefers
  BY DEF RP!Find
<1>5. q.at # "find" => t \notin sidDefers[s]
  <2>1. q.at = "poll" => q.at \notin Waiting BY DEF Waiting
  <2> QED BY <2>1, <1>1, MediaIs
<1>6. sidDefers \in [RP!Sids -> SUBSET Tracks] BY DEF RoomTyped
<1>7. /\ sidDefers' \in [RP!Sids -> SUBSET Tracks]
      /\ \A r \in RP!Sids : r # s => sidDefers'[r] = sidDefers[r]
      /\ \A r \in RP!Sids : sidDefers'[r] \subseteq sidDefers[r]
      /\ t \notin sidDefers'[s] /\ (q.at = "find" => sidDefers'[s] = {})
      /\ q.at = "poll" => sidDefers' = sidDefers
  BY <1>4, <1>5, <1>6
<1>8. roomMedia' = [m \in Tracks |->
          IF m = t THEN [q EXCEPT !.at = IF RP!getPublication(o, t) THEN "attach" ELSE "poll"]
          ELSE IF q.at = "find" /\ m \in sidDefers[s]
          THEN [roomMedia[m] EXCEPT !.at = "find", !.obj = o] ELSE roomMedia[m]]
  BY DEF RP!Find
<1>9. \E at \in {"attach", "poll"} :
        roomMedia'[t] = [at |-> at, sid |-> s, obj |-> o, session |-> q.session]
  <2>1. roomMedia'[t] = [q EXCEPT !.at = IF RP!getPublication(o, t) THEN "attach" ELSE "poll"]
    BY <1>8
  <2> QED BY <2>1 DEF MediaKind
<1>10. ASSUME NEW m \in Tracks, m # t
       PROVE  IF q.at = "find" /\ m \in sidDefers[s]
              THEN roomMedia'[m] = [at |-> "find", sid |-> s, obj |-> o, session |-> roomMedia[m].session]
              ELSE roomMedia'[m] = roomMedia[m]
  <2>1. CASE q.at = "find" /\ m \in sidDefers[s]
    <3>1. roomMedia'[m] = [roomMedia[m] EXCEPT !.at = "find", !.obj = o] BY <1>8, <1>10, <2>1
    <3>2. roomMedia[m].sid = s /\ roomMedia[m] \in MediaKind BY <2>1, MediaIs
    <3>3. roomMedia'[m] = [at |-> "find", sid |-> s, obj |-> o, session |-> roomMedia[m].session]
      BY <3>1, <3>2 DEF MediaKind
    <3> QED BY <3>3, <2>1
  <2>2. CASE ~(q.at = "find" /\ m \in sidDefers[s]) BY <1>8, <1>10, <2>2
  <2> QED BY <2>1, <2>2
<1>11. DOMAIN roomMedia' = Tracks BY <1>8
<1>12. Finds(t, s, o) BY <1>1, <1>2, <1>3, <1>7, <1>9, <1>10, <1>11 DEF Finds
<1> QED BY <1>12

LEMMA FindKinds ==
  ASSUME RoomKinds, NEW t \in Tracks, RP!Find(t) PROVE RoomKinds'
<1> USE DEF RoomKinds
<1>0. PICK s \in RP!Sids, o \in RP!Objects : Finds(t, s, o)
  BY FindFacts
<1> USE DEF Finds
<1>1. roomMedia \in [Tracks -> MediaKind] /\ (\A m \in Tracks : MediaRight(m, roomMedia[m]))
      /\ \A r \in RP!Sids : \A m \in sidDefers[r] :
           m \in Tracks /\ roomMedia[m].sid = r /\ roomMedia[m].at \in Waiting
  BY MediaIs
<1>2. ASSUME NEW m \in Tracks, NEW at \in {"attach", "poll", "find"}, roomMedia[m].sid = s,
             roomMedia[m].at # "none",
             roomMedia'[m] = [at |-> at, sid |-> s, obj |-> o, session |-> roomMedia[m].session]
      PROVE  MediaRight(m, roomMedia'[m])
  <2>1. MediaRight(m, roomMedia[m]) BY <1>1
  <2> PICK r : r = roomMedia'[m] OBVIOUS
  <2>2. r.at = at /\ r.sid = s /\ r.obj = o /\ r.session = roomMedia[m].session BY <1>2
  <2>3. r \in MediaKind BY <1>1, <1>2 DEF MediaKind, MediaPlaces
  <2>4. MediaRight(m, r) BY <2>1, <2>2, <2>3, <1>0, <1>2 DEF MediaRight
  <2> QED BY <2>4
<1>3. ASSUME NEW m \in Tracks PROVE MediaRight(m, roomMedia'[m])
  <2>1. CASE m = t
    <3>1. PICK at \in {"attach", "poll"} :
            roomMedia'[t] = [at |-> at, sid |-> s, obj |-> o, session |-> roomMedia[t].session]
      BY <1>0
    <3>2. roomMedia[t].at # "none" BY <1>0
    <3> QED BY <2>1, <3>1, <3>2, <1>0, <1>2
  <2>2. CASE m # t /\ roomMedia[t].at = "find" /\ m \in sidDefers[s]
    <3>1. roomMedia[m].sid = s /\ roomMedia[m].at # "none" BY <2>2, <1>1 DEF Waiting
    <3>2. roomMedia'[m] = [at |-> "find", sid |-> s, obj |-> o, session |-> roomMedia[m].session]
      BY <2>2, <1>0
    <3> QED BY <3>1, <3>2, <1>2
  <2>3. CASE m # t /\ ~(roomMedia[t].at = "find" /\ m \in sidDefers[s])
    <3>1. roomMedia'[m] = roomMedia[m] BY <2>3, <1>0
    <3> QED BY <3>1, <1>1
  <2> QED BY <2>1, <2>2, <2>3
<1>4. roomMedia' \in [Tracks -> MediaKind]
  <2>1. ASSUME NEW m \in Tracks PROVE roomMedia'[m] \in MediaKind BY <1>3 DEF MediaRight
  <2>2. roomMedia' = [m \in Tracks |-> roomMedia'[m]]
    <3>1. DOMAIN roomMedia' = Tracks BY <1>0
    <3> QED BY <3>1 DEF RP!Find
  <2> QED BY <2>1, <2>2
<1>5. ASSUME NEW r \in RP!Sids, NEW m \in sidDefers'[r]
      PROVE  roomMedia'[m].sid = r /\ roomMedia'[m].at \in Waiting
  <2>1. m \in sidDefers[r] /\ m \in Tracks /\ roomMedia[m].sid = r /\ roomMedia[m].at \in Waiting
    BY <1>0, <1>1
  <2>2. m # t BY <2>1, <1>0
  <2>3. ~(roomMedia[t].at = "find" /\ m \in sidDefers[s])
    BY <2>1, <1>0, <1>1
  <2> QED BY <2>1, <2>2, <2>3, <1>0
<1>6. PartsTyped' BY <1>0, TrackKeeps
<1>7. stranded' \subseteq Tracks BY <1>0 DEF LinkTyped
<1> QED BY <1>0, <1>3, <1>4, <1>5, <1>6, <1>7, QuietKinds

-----------------------------------------------------------------------------
(* Types: the SFU.                                                         *)

\* Participant i goes on: a session that is over stays so, and tracks are new.
Later(i) ==
  /\ Upto(world[i], world'[i])
  /\ world[i].left /\ world[i].version # 0 => world'[i].left \/ world[i].sid[2] < world'[i].sid[2]
  /\ world'[i].sid # world[i].sid => world'[i].tracks = {}
  /\ (world'[i].tracks \ world[i].tracks) \cap used = {}

\* The update that tells it.
Message(m) ==
  /\ m \in [moved : BOOLEAN, infos : Seq(Infos)] /\ OnceEach(m.infos)
  /\ ~m.moved => Len(m.infos) = 1
  /\ \A j \in DOMAIN m.infos : Told(m.infos[j])'
  /\ \A i \in Identities :
       /\ Of(m.infos, i) \subseteq {world'[i]}
       /\ Of(m.infos, i) = {} => IF m.moved THEN world'[i].left ELSE world'[i] = world[i]
       /\ m.moved => world'[i].left \/ world[i].sid[2] < world'[i].sid[2]

NewsStep ==
  /\ UNCHANGED <<remoteParticipants, sidToIdentity, sidDefers, made, part, thread, roomMedia,
                 roomLink, roomSession, roomOvertaken, roomCrossed, stranded>>
  /\ used \subseteq used' /\ WorldTyped'
  /\ \A i \in Identities : Later(i)
  /\ roomLink # "up" => UNCHANGED roomUpdates
  /\ roomLink = "up" => \E m : /\ Message(m) /\ roomUpdates' = Append(roomUpdates, m)
                               /\ Len(roomUpdates) < MaxInFlight

LEMMA TellStep ==
  ASSUME RoomKinds, NEW i \in Identities, NEW w \in Infos, RP!Tell(i, w),
         w.sid[1] = i, w.version # 0, w.left => w.tracks = {}, Upto(world[i], w),
         world[i].left /\ world[i].version # 0 => w.left \/ world[i].sid[2] < w.sid[2],
         w.sid # world[i].sid => w.tracks = {},
         (w.tracks \ world[i].tracks) \cap used = {}
  PROVE  NewsStep
<1> USE DEF RoomKinds
<1>1. world' = [world EXCEPT ![i] = w] /\ used' = used \cup w.tracks
      /\ RP!Send([moved |-> FALSE, infos |-> <<w>>])
      /\ UNCHANGED <<remoteParticipants, sidToIdentity, sidDefers, made, part, thread, roomMedia,
                     roomLink, roomSession, roomOvertaken, roomCrossed, stranded>>
  BY DEF RP!Tell, RP!roomVars, RP!ghosts
<1>2. /\ DOMAIN world' = Identities /\ world'[i] = w
      /\ \A j \in Identities : j # i => world'[j] = world[j]
  BY <1>1 DEF WorldTyped
<1>3. w.tracks \subseteq Tracks /\ w.sid \in RP!Sids /\ w.version \in Nat BY DEF Infos, RP!Info
<1>4. WorldTyped'
  <2>1. ASSUME NEW j \in Identities
        PROVE  /\ world'[j] \in Infos /\ world'[j].sid[1] = j /\ world'[j].tracks \subseteq used'
               /\ world'[j].left => world'[j].tracks = {}
               /\ world'[j].version = 0 => world'[j].left /\ world'[j].sid[2] = 1
    BY <1>1, <1>2 DEF WorldTyped
  <2>2. ASSUME NEW j \in Identities, j # i PROVE w.tracks \cap world[j].tracks = {}
    BY <2>2 DEF WorldTyped
  <2>3. \A j, k \in Identities : j # k => world'[j].tracks \cap world'[k].tracks = {}
    BY <2>2, <1>2 DEF WorldTyped
  <2> QED BY <2>1, <2>3, <1>1, <1>2, <1>3 DEF WorldTyped
<1>5. ASSUME NEW j \in Identities PROVE Later(j)
  <2>1. CASE j = i BY <2>1, <1>2 DEF Later
  <2>2. CASE j # i
    <3>1. world[j] \in Infos /\ world'[j] = world[j] BY <2>2, <1>2 DEF WorldTyped
    <3>2. world[j].version \in Nat BY <3>1 DEF Infos, RP!Info
    <3> QED BY <3>1, <3>2 DEF Later, Upto
  <2> QED BY <2>1, <2>2
<1> PICK f : f = <<w>> OBVIOUS
<1>6. f \in Seq(Infos) /\ Len(f) = 1 /\ DOMAIN f = {1} /\ f[1] = w OBVIOUS
<1>7. OnceEach(f) /\ \A j \in Identities : Of(f, j) = IF j = i THEN {w} ELSE {}
  BY <1>6 DEF OnceEach, Of
<1>8. Told(w)'
  <2>1. world'[w.sid[1]] = w /\ w.tracks \subseteq used' BY <1>1, <1>2
  <2> QED BY <2>1, <1>3 DEF Told, Upto
<1> PICK m : m = [moved |-> FALSE, infos |-> f] OBVIOUS
<1>9. m.moved = FALSE /\ m.infos = f /\ m \in [moved : BOOLEAN, infos : Seq(Infos)] BY <1>6
<1>10. Message(m) BY <1>2, <1>6, <1>7, <1>8, <1>9 DEF Message
<1>11. RP!Send(m) BY <1>1
<1> QED BY <1>1, <1>4, <1>5, <1>10, <1>11 DEF NewsStep, RP!Send

LEMMA JoinsStep ==
  ASSUME RoomKinds, NEW i \in Identities, RP!Joins(i) PROVE NewsStep
<1> USE DEF RoomKinds
<1> PICK n : n = IF world[i].version = 0 THEN 1 ELSE world[i].sid[2] + 1 OBVIOUS
<1> PICK w : w = [sid |-> <<i, n>>, version |-> 1, tracks |-> {}, left |-> FALSE] OBVIOUS
<1>1. world[i].left /\ n <= MaxSids /\ RP!Tell(i, w) BY DEF RP!Joins
<1>2. MaxSids \in Nat BY RoomBounds DEF RP!RoomAssumption
<1>3. world[i].sid \in RP!Sids /\ world[i].sid[1] = i /\ world[i].version \in Nat
      /\ (world[i].version = 0 => world[i].sid[2] = 1)
  BY DEF WorldTyped, Infos, RP!Info
<1>4. world[i].sid = <<i, world[i].sid[2]>> /\ world[i].sid[2] \in Nat /\ world[i].sid[2] >= 1
  BY <1>3 DEF RP!Sids
<1>5. n \in 1 .. MaxSids BY <1>1, <1>2, <1>4
<1>6. w \in Infos BY <1>5 DEF Infos, RP!Info, RP!Sids
<1>7. w.sid = <<i, n>> /\ w.version = 1 /\ w.tracks = {} /\ w.left = FALSE OBVIOUS
<1>8. w.sid[1] = i /\ w.sid[2] = n BY <1>7
<1>9. Upto(world[i], w)
  <2>1. CASE world[i].version = 0 BY <2>1, <1>3, <1>4, <1>7 DEF Upto
  <2>2. CASE world[i].version # 0 BY <2>2, <1>4, <1>8 DEF Upto
  <2> QED BY <2>1, <2>2
<1>10. world[i].version # 0 => world[i].sid[2] < w.sid[2] BY <1>4, <1>8
<1> QED BY <1>1, <1>6, <1>7, <1>8, <1>9, <1>10, TellStep

LEMMA ReplacesStep ==
  ASSUME RoomKinds, NEW i \in Identities, RP!Replaces(i) PROVE NewsStep
<1> USE DEF RoomKinds
<1> PICK n : n = world[i].sid[2] + 1 OBVIOUS
<1> PICK w : w = [sid |-> <<i, n>>, version |-> 1, tracks |-> {}, left |-> FALSE] OBVIOUS
<1>1. world[i].sid[2] < MaxSids /\ ~world[i].left /\ RP!Tell(i, w) BY DEF RP!Replaces
<1>2. MaxSids \in Nat BY RoomBounds DEF RP!RoomAssumption
<1>3. world[i].sid \in RP!Sids BY DEF WorldTyped, Infos, RP!Info
<1>4. world[i].sid[2] \in Nat BY <1>3 DEF RP!Sids
<1>5. n \in 1 .. MaxSids BY <1>1, <1>2, <1>4
<1>6. w \in Infos BY <1>5 DEF Infos, RP!Info, RP!Sids
<1>7. w.sid = <<i, n>> /\ w.version = 1 /\ w.tracks = {} /\ w.left = FALSE OBVIOUS
<1>8. w.sid[1] = i /\ w.sid[2] = n BY <1>7
<1>9. Upto(world[i], w) BY <1>4, <1>8 DEF Upto
<1> QED BY <1>1, <1>6, <1>7, <1>8, <1>9, TellStep

\* The same session with other tracks, or gone.
LEMMA ChangesStep ==
  ASSUME RoomKinds, NEW i \in Identities, ~world[i].left, NEW T \in SUBSET Tracks, NEW gone \in BOOLEAN,
         RP!Tell(i, [sid |-> world[i].sid, version |-> world[i].version + 1, tracks |-> T, left |-> gone]),
         gone => T = {}, (T \ world[i].tracks) \cap used = {}
  PROVE  NewsStep
<1> USE DEF RoomKinds
<1> PICK w : w = [sid |-> world[i].sid, version |-> world[i].version + 1, tracks |-> T, left |-> gone]
  OBVIOUS
<1>1. world[i].sid \in RP!Sids /\ world[i].sid[1] = i /\ world[i].version \in Nat
  BY DEF WorldTyped, Infos, RP!Info
<1>2. w \in Infos BY <1>1 DEF Infos, RP!Info
<1>3. w.sid = world[i].sid /\ w.version = world[i].version + 1 /\ w.tracks = T /\ w.left = gone OBVIOUS
<1>4. Upto(world[i], w) /\ w.version # 0 BY <1>1, <1>3 DEF Upto
<1> QED BY <1>1, <1>2, <1>3, <1>4, TellStep

LEMMA InfoFields ==
  ASSUME NEW w \in Infos, NEW T, NEW gone
  PROVE  /\ [w EXCEPT !.left = gone, !.tracks = T, !.version = @ + 1]
              = [sid |-> w.sid, version |-> w.version + 1, tracks |-> T, left |-> gone]
         /\ [w EXCEPT !.tracks = T, !.version = @ + 1]
              = [sid |-> w.sid, version |-> w.version + 1, tracks |-> T, left |-> w.left]
<1>1. w = [sid |-> w.sid, version |-> w.version, tracks |-> w.tracks, left |-> w.left]
  BY DEF Infos, RP!Info
<1> DEFINE p == [w EXCEPT !.left = gone, !.tracks = T, !.version = @ + 1]
           q == [w EXCEPT !.tracks = T, !.version = @ + 1]
<1>2. DOMAIN w = {"sid", "version", "tracks", "left"} BY <1>1
<1>3. /\ p = [x \in DOMAIN p |-> p[x]] /\ DOMAIN p = {"sid", "version", "tracks", "left"}
      /\ p.sid = w.sid /\ p.version = w.version + 1 /\ p.tracks = T /\ p.left = gone
  BY <1>2
<1>4. /\ q = [x \in DOMAIN q |-> q[x]] /\ DOMAIN q = {"sid", "version", "tracks", "left"}
      /\ q.sid = w.sid /\ q.version = w.version + 1 /\ q.tracks = T /\ q.left = w.left
  BY <1>2
<1> HIDE DEF p, q
<1>5. p = [sid |-> w.sid, version |-> w.version + 1, tracks |-> T, left |-> gone] BY <1>3
<1>6. q = [sid |-> w.sid, version |-> w.version + 1, tracks |-> T, left |-> w.left] BY <1>4
<1> QED BY <1>5, <1>6 DEF p, q

LEMMA DepartsStep ==
  ASSUME RoomKinds, NEW i \in Identities, RP!Departs(i) PROVE NewsStep
<1>1. ~world[i].left /\ RP!Tell(i, [world[i] EXCEPT !.left = TRUE, !.tracks = {}, !.version = @ + 1])
  BY DEF RP!Departs
<1>2. world[i] \in Infos BY DEF RoomKinds, WorldTyped
<1>3. [world[i] EXCEPT !.left = TRUE, !.tracks = {}, !.version = @ + 1]
        = [sid |-> world[i].sid, version |-> world[i].version + 1, tracks |-> {}, left |-> TRUE]
  BY <1>2, InfoFields
<1>4. RP!Tell(i, [sid |-> world[i].sid, version |-> world[i].version + 1, tracks |-> {}, left |-> TRUE])
  BY <1>1, <1>3
<1> PICK T \in SUBSET Tracks, gone \in BOOLEAN : T = {} /\ gone = TRUE OBVIOUS
<1> QED BY <1>1, <1>4, ChangesStep

LEMMA PublishesStep ==
  ASSUME RoomKinds, NEW i \in Identities, NEW t \in Tracks, RP!Publishes(i, t) PROVE NewsStep
<1>1. ~world[i].left /\ t \notin used
      /\ RP!Tell(i, [world[i] EXCEPT !.tracks = @ \cup {t}, !.version = @ + 1])
  BY DEF RP!Publishes
<1>2. world[i] \in RP!Info BY DEF RoomKinds, WorldTyped, Infos
<1> PICK T \in SUBSET Tracks : T = world[i].tracks \cup {t} BY <1>2 DEF RP!Info
<1>3. [world[i] EXCEPT !.tracks = @ \cup {t}, !.version = @ + 1]
        = [sid |-> world[i].sid, version |-> world[i].version + 1, tracks |-> T, left |-> FALSE]
  <2>1. world[i] \in Infos /\ world[i].left = FALSE BY <1>1, <1>2 DEF Infos, RP!Info
  <2> QED BY <2>1, InfoFields
<1>4. RP!Tell(i, [sid |-> world[i].sid, version |-> world[i].version + 1, tracks |-> T, left |-> FALSE])
  BY <1>1, <1>3
<1> QED BY <1>1, <1>4, ChangesStep

LEMMA UnpublishesStep ==
  ASSUME RoomKinds, NEW i \in Identities, NEW t \in Tracks, RP!Unpublishes(i, t) PROVE NewsStep
<1>1. t \in world[i].tracks
      /\ RP!Tell(i, [world[i] EXCEPT !.tracks = @ \ {t}, !.version = @ + 1])
  BY DEF RP!Unpublishes
<1>2. world[i] \in RP!Info /\ world[i].left = FALSE BY <1>1 DEF RoomKinds, WorldTyped, Infos, RP!Info
<1> PICK T \in SUBSET Tracks : T = world[i].tracks \ {t} BY <1>2 DEF RP!Info
<1>3. [world[i] EXCEPT !.tracks = @ \ {t}, !.version = @ + 1]
        = [sid |-> world[i].sid, version |-> world[i].version + 1, tracks |-> T, left |-> FALSE]
  <2>1. world[i] \in Infos BY <1>2 DEF Infos
  <2> QED BY <2>1, <1>2, InfoFields
<1>4. RP!Tell(i, [sid |-> world[i].sid, version |-> world[i].version + 1, tracks |-> T, left |-> FALSE])
  BY <1>1, <1>3
<1> QED BY <1>2, <1>4, ChangesStep

LEMMA MovesStep ==
  ASSUME RoomKinds, NEW order \in RP!SetToAllKPermutations(Identities), RP!Moves(order) PROVE NewsStep
<1> USE DEF RoomKinds
<1> DEFINE there == {order[j] : j \in DOMAIN order}
           w == [i \in Identities |->
                   IF i \in there
                   THEN [sid |-> <<i, world[i].sid[2] + 1>>, version |-> 1, tracks |-> {}, left |-> FALSE]
                   ELSE [world[i] EXCEPT !.left = TRUE, !.tracks = {}]]
           f == [j \in DOMAIN order |-> w[order[j]]]
<1>1. /\ roomLink = "up" /\ (\A i \in there : world[i].sid[2] < MaxSids)
      /\ world' = w /\ RP!Send([moved |-> TRUE, infos |-> f])
      /\ UNCHANGED <<remoteParticipants, sidToIdentity, sidDefers, made, part, thread, roomMedia,
                     used, roomLink, roomSession, roomOvertaken, roomCrossed, stranded>>
  <2>1. /\ roomLink = "up"
        /\ UNCHANGED <<remoteParticipants, sidToIdentity, sidDefers, made, part, thread, roomMedia,
                       used, roomLink, roomSession, roomOvertaken, roomCrossed, stranded>>
    BY DEF RP!Moves, RP!roomVars, RP!ghosts
  <2>2. world' = w BY Zenon DEF RP!Moves
  <2>3. \A i \in there : world[i].sid[2] < MaxSids BY DEF RP!Moves
  <2>4. RP!Send([moved |-> TRUE, infos |-> f]) BY Zenon DEF RP!Moves
  <2> QED BY <2>1, <2>2, <2>3, <2>4
<1>101. there = {order[j] : j \in DOMAIN order} OBVIOUS
<1>102. w = [i \in Identities |->
              IF i \in there
              THEN [sid |-> <<i, world[i].sid[2] + 1>>, version |-> 1, tracks |-> {}, left |-> FALSE]
              ELSE [world[i] EXCEPT !.left = TRUE, !.tracks = {}]]
  BY Zenon
<1>103. f = [j \in DOMAIN order |-> w[order[j]]] BY Zenon
<1> HIDE DEF there, w, f
<1>2. order \in Seq(Identities) /\ \A j, k \in DOMAIN order : order[j] = order[k] => j = k
  BY PermutationFacts
<1>3. Len(order) \in Nat /\ DOMAIN order = 1 .. Len(order) /\ \A j \in DOMAIN order : order[j] \in Identities
  BY <1>2, LenProperties, ElementOfSeq
<1>4. MaxSids \in Nat BY RoomBounds DEF RP!RoomAssumption
<1>5. ASSUME NEW i \in Identities
      PROVE  /\ world[i] = [sid |-> world[i].sid, version |-> world[i].version,
                            tracks |-> world[i].tracks, left |-> world[i].left]
             /\ world[i].sid = <<i, world[i].sid[2]>> /\ world[i].sid[2] \in 1 .. MaxSids
             /\ world[i].version \in Nat /\ world[i].sid \in RP!Sids
  <2>1. world[i] \in RP!Info /\ world[i].sid[1] = i BY DEF WorldTyped, Infos
  <2>2. world[i].sid \in RP!Sids BY <2>1 DEF RP!Info
  <2>3. world[i].sid = <<i, world[i].sid[2]>> /\ world[i].sid[2] \in 1 .. MaxSids
    <3> PICK s \in RP!Sids : s = world[i].sid BY <2>2
    <3>1. s[1] = i BY <2>1
    <3> QED BY <3>1 DEF RP!Sids
  <2> QED BY <2>1, <2>2, <2>3 DEF RP!Info
<1>6. ASSUME NEW i \in Identities
      PROVE  /\ i \in there => w[i] = [sid |-> <<i, world[i].sid[2] + 1>>, version |-> 1, tracks |-> {},
                                       left |-> FALSE]
             /\ i \notin there => w[i] = [sid |-> world[i].sid, version |-> world[i].version,
                                          tracks |-> {}, left |-> TRUE]
  <2>1. i \in there => w[i] = [sid |-> <<i, world[i].sid[2] + 1>>, version |-> 1, tracks |-> {},
                               left |-> FALSE]
    BY <1>102
  <2>2. i \notin there => w[i] = [world[i] EXCEPT !.left = TRUE, !.tracks = {}] BY <1>102
  <2>3. world[i] \in RP!Info BY DEF WorldTyped, Infos
  <2> QED BY <2>1, <2>2, <2>3 DEF RP!Info
<1>7. ASSUME NEW i \in Identities
      PROVE  /\ w[i] \in Infos /\ w[i].sid[1] = i /\ w[i].tracks = {} /\ Later(i)
             /\ i \in there => ~w[i].left /\ world[i].sid[2] < w[i].sid[2] /\ w[i].version = 1
             /\ i \notin there => w[i].left /\ w[i].version = world[i].version /\ w[i].sid = world[i].sid
  <2>1. CASE i \in there
    <3>1. w[i] = [sid |-> <<i, world[i].sid[2] + 1>>, version |-> 1, tracks |-> {}, left |-> FALSE]
      BY <2>1, <1>6
    <3> PICK n \in 1 .. MaxSids : n = world[i].sid[2] BY <1>5
    <3>2. world[i].sid[2] + 1 \in 1 .. MaxSids
      <4>1. n < MaxSids BY <2>1, <1>1
      <4> QED BY <4>1, <1>4
    <3>3. w[i] \in Infos BY <3>1, <3>2 DEF Infos, RP!Info, RP!Sids
    <3>4. /\ w[i].sid[1] = i /\ w[i].tracks = {} /\ w[i].sid[2] = world[i].sid[2] + 1
          /\ w[i].version = 1 /\ w[i].left = FALSE
      BY <3>1
    <3>5. world[i].sid[2] < w[i].sid[2]
      <4>1. n \in Nat /\ w[i].sid[2] = n + 1 BY <3>4, <1>4
      <4> QED BY <4>1
    <3>6. Later(i) BY <3>4, <3>5, <1>1 DEF Later, Upto
    <3> QED BY <2>1, <3>3, <3>4, <3>5, <3>6
  <2>2. CASE i \notin there
    <3>1. w[i] = [sid |-> world[i].sid, version |-> world[i].version, tracks |-> {}, left |-> TRUE]
      BY <2>2, <1>6
    <3> PICK s \in RP!Sids, v \in Nat : s = world[i].sid /\ v = world[i].version BY <1>5
    <3>2. w[i] \in Infos
      <4>1. w[i] = [sid |-> s, version |-> v, tracks |-> {}, left |-> TRUE] BY <3>1
      <4> QED BY <4>1 DEF Infos, RP!Info
    <3>3. /\ w[i].sid = world[i].sid /\ w[i].tracks = {} /\ w[i].version = world[i].version
          /\ w[i].left = TRUE
      BY <3>1
    <3>4. w[i].sid[1] = i BY <3>3 DEF WorldTyped
    <3>5. Later(i)
      <4>1. world'[i] = w[i] /\ v <= v BY <1>1
      <4> QED BY <3>3, <4>1 DEF Later, Upto
    <3> QED BY <2>2, <3>2, <3>3, <3>4, <3>5
  <2> QED BY <2>1, <2>2
<1>8. WorldTyped'
  <2>1. DOMAIN w = Identities BY <1>102
  <2>2. ASSUME NEW i \in Identities, w[i].version = 0 PROVE w[i].left /\ w[i].sid[2] = 1
    <3>1. i \notin there BY <2>2, <1>7
    <3>2. w[i].left /\ world[i].version = 0 /\ w[i].sid = world[i].sid BY <3>1, <2>2, <1>7
    <3> QED BY <3>2 DEF WorldTyped
  <2> QED BY <2>1, <2>2, <1>1, <1>7 DEF WorldTyped
<1>9. f \in Seq(Infos) /\ DOMAIN f = DOMAIN order
  <2>1. f \in [1 .. Len(order) -> Infos] BY <1>103, <1>3, <1>7
  <2> PICK n \in Nat : n = Len(order) BY <1>3
  <2>2. f \in Seq(Infos) BY <2>1, SeqDef
  <2> QED BY <2>2, <1>103
<1>10. \A j \in DOMAIN f : f[j] = w[order[j]] /\ f[j].sid[1] = order[j] /\ order[j] \in there
                          /\ order[j] \in Identities
  BY <1>101, <1>103, <1>3, <1>7, <1>9
<1>11. OnceEach(f) BY <1>2, <1>9, <1>10 DEF OnceEach
<1> PICK g : g = f OBVIOUS
<1>12. ASSUME NEW j \in DOMAIN g PROVE Told(g[j])'
  <2>1. g[j] = w[order[j]] /\ g[j].sid[1] = order[j] /\ order[j] \in there /\ order[j] \in Identities
    BY <1>10
  <2>2. g[j] \in Infos /\ g[j].version = 1 /\ g[j].tracks = {} /\ world'[g[j].sid[1]] = g[j]
    BY <2>1, <1>1, <1>7
  <2>3. 1 # 0 /\ 1 <= 1 OBVIOUS
  <2> QED BY <2>2, <2>3 DEF Told, Upto
<1>13. ASSUME NEW i \in Identities
       PROVE  Of(f, i) \subseteq {w[i]} /\ (Of(f, i) = {} => w[i].left)
  <2>1. ASSUME NEW x \in Of(f, i) PROVE x = w[i]
    <3>1. PICK j \in DOMAIN f : x = f[j] /\ f[j].sid[1] = i BY DEF Of
    <3> QED BY <3>1, <1>10
  <2>2. ASSUME i \in there PROVE Of(f, i) # {}
    <3>1. PICK j \in DOMAIN order : order[j] = i BY <2>2, <1>101
    <3> QED BY <3>1, <1>9, <1>10 DEF Of
  <2> QED BY <2>1, <2>2, <1>7
<1> PICK m : m = [moved |-> TRUE, infos |-> g] OBVIOUS
<1>14. m.moved = TRUE /\ m.infos = g /\ m \in [moved : BOOLEAN, infos : Seq(Infos)] BY <1>9
<1>15. Message(m)
  <2>1. OnceEach(g) /\ \A i \in Identities : Of(g, i) \subseteq {w[i]} /\ (Of(g, i) = {} => w[i].left)
    BY <1>11, <1>13
  <2>2. ASSUME NEW j \in DOMAIN m.infos PROVE Told(m.infos[j])' BY <1>12, <1>14
  <2>3. \A i \in Identities : world'[i].left \/ world[i].sid[2] < world'[i].sid[2] BY <1>1, <1>7
  <2> QED BY <2>1, <2>2, <2>3, <1>1, <1>14 DEF Message
<1>16. RP!Send(m) BY <1>1
<1> QED BY <1>1, <1>7, <1>8, <1>15, <1>16 DEF NewsStep, RP!Send

\* Upto is an order on infos of one participant, and participants have one.
Dated(x) == x.sid[2] \in Nat /\ x.version \in Nat
LEMMA UptoOrder ==
  ASSUME NEW x, NEW y, NEW z, Dated(x), Dated(y), Dated(z), Upto(x, y), Upto(y, z)
  PROVE  Upto(x, z)
BY DEF Dated, Upto

LEMMA DatedInfos ==
  /\ \A x \in Infos : Dated(x) /\ x.sid[1] \in Identities /\ x.sid = <<x.sid[1], x.sid[2]>>
  /\ \A s \in RP!Sids : s[1] \in Identities /\ s[2] \in Nat /\ s = <<s[1], s[2]>>
<1>1. MaxSids \in Nat BY RoomBounds DEF RP!RoomAssumption
<1>2. \A s \in RP!Sids : s[1] \in Identities /\ s[2] \in Nat /\ s = <<s[1], s[2]>> BY <1>1 DEF RP!Sids
<1> QED BY <1>2 DEF Infos, RP!Info, Dated

LEMMA NewsKept ==
  ASSUME RoomKinds, NewsStep
  PROVE  /\ \A x : Told(x) => Told(x)'
         /\ \A s \in RP!Sids : Given(s) => Given(s)'
         /\ \A s \in RP!Sids : Given(s) /\ Over(s) => Over(s)'
         /\ \A o \in RP!Objects : Made(o) => Upto(part[o], world'[o[1]])
<1> USE DEF RoomKinds
<1>1. ASSUME NEW i \in Identities
      PROVE  /\ Dated(world[i]) /\ Dated(world'[i]) /\ Upto(world[i], world'[i])
             /\ world[i].sid[1] = i /\ world'[i].sid[1] = i
             /\ world[i].sid \in RP!Sids /\ world'[i].sid \in RP!Sids
  <2>1. world[i] \in Infos /\ world[i].sid[1] = i BY DEF WorldTyped
  <2>2. world'[i] \in Infos /\ world'[i].sid[1] = i BY DEF WorldTyped, NewsStep
  <2> QED BY <2>1, <2>2, DatedInfos DEF NewsStep, Later, Infos, RP!Info
<1>2. ASSUME NEW x, Told(x) PROVE Told(x)'
  <2>1. x \in Infos /\ x.sid[1] \in Identities /\ Dated(x) BY <1>2, DatedInfos DEF Told
  <2>2. Upto(x, world'[x.sid[1]]) BY <2>1, <1>1, <1>2, UptoOrder DEF Told
  <2>3. x.version # 0 /\ x.tracks \subseteq used' BY <1>2 DEF Told, NewsStep
  <2> QED BY <2>1, <2>2, <2>3 DEF Told, Upto
<1>3. ASSUME NEW s \in RP!Sids, Given(s)
      PROVE  /\ Given(s)' /\ (Over(s) => Over(s)')
  <2> PICK i \in Identities : i = s[1] BY DatedInfos
  <2>1. s[2] \in Nat BY DatedInfos
  <2>2. PICK w, v : w = world[i] /\ v = world'[i] OBVIOUS
  <2>3. Dated(w) /\ Dated(v) /\ Upto(w, v) BY <1>1, <2>2
  <2>4. s[2] < w.sid[2] \/ (s = w.sid /\ w.version # 0) BY <1>3, <2>2 DEF Given
  <2>5. s[2] < v.sid[2] \/ (s = v.sid /\ v.version # 0) BY <2>1, <2>3, <2>4 DEF Dated, Upto
  <2>6. Given(s)' BY <2>2, <2>5 DEF Given
  <2>7. w.left /\ w.version # 0 => v.left \/ w.sid[2] < v.sid[2] BY <2>2 DEF NewsStep, Later
  <2>8. s[2] < w.sid[2] \/ w.left => s[2] < v.sid[2] \/ v.left
    BY <2>1, <2>3, <2>4, <2>7 DEF Dated, Upto
  <2>9. Over(s) => Over(s)' BY <2>2, <2>8 DEF Over
  <2> QED BY <2>6, <2>9
<1>4. ASSUME NEW o \in RP!Objects, Made(o) PROVE Upto(part[o], world'[o[1]])
  <2>1. part[o].sid \in RP!Sids /\ part[o].version \in Nat /\ Upto(part[o], world[o[1]])
    BY <1>4 DEF PartsTyped
  <2>2. Dated(part[o]) BY <2>1, DatedInfos DEF Dated
  <2>3. o[1] \in Identities BY DEF RP!Objects
  <2> QED BY <2>1, <2>2, <2>3, <1>1, UptoOrder
<1> QED BY <1>2, <1>3, <1>4

LEMMA Appended ==
  ASSUME RoomKinds, NEW m, m \in [moved : BOOLEAN, infos : Seq(Infos)],
         roomUpdates' = Append(roomUpdates, m)
  PROVE  \E n \in Nat : /\ DOMAIN roomUpdates = 1 .. n /\ DOMAIN roomUpdates' = 1 .. n + 1
                        /\ Len(roomUpdates) = n /\ Len(roomUpdates') = n + 1
                        /\ roomUpdates' \in Seq([moved : BOOLEAN, infos : Seq(Infos)])
                        /\ roomUpdates'[n + 1] = m
                        /\ \A k \in 1 .. n : roomUpdates'[k] = roomUpdates[k]
<1> PICK M : M = [moved : BOOLEAN, infos : Seq(Infos)] OBVIOUS
<1>1. roomUpdates \in Seq(M) BY DEF RoomKinds, QueueTyped
<1>2. m \in M OBVIOUS
<1> PICK n \in Nat : n = Len(roomUpdates) /\ DOMAIN roomUpdates = 1 .. n BY <1>1, LenProperties
<1>3. /\ roomUpdates' \in Seq(M) /\ Len(roomUpdates') = n + 1 /\ roomUpdates'[n + 1] = m
      /\ \A k \in 1 .. n : roomUpdates'[k] = roomUpdates[k]
  BY <1>1, <1>2, AppendProperties
<1>4. DOMAIN roomUpdates' = 1 .. n + 1 BY <1>3, LenProperties
<1> QED BY <1>3, <1>4

LEMMA NewsKinds ==
  ASSUME RoomKinds, NewsStep PROVE RoomKinds'
<1> USE DEF RoomKinds
<1>1. UNCHANGED <<remoteParticipants, sidToIdentity, sidDefers, made, part, thread, roomMedia,
                  roomLink, roomSession, roomOvertaken, roomCrossed, stranded>>
      /\ used \subseteq used' /\ WorldTyped'
  BY DEF NewsStep
<1>2. \A x : Made(x)' <=> Made(x) BY <1>1 DEF Made
<1>3. LinkTyped' BY <1>1 DEF LinkTyped, Emptying, NewsStep
<1>4. PartsTyped'
  <2>1. \A o \in RP!Objects : Made(o) => Upto(part[o], world'[o[1]]) BY NewsKept
  <2>2. ASSUME NEW o \in RP!Objects
        PROVE  /\ part'[o].attached \subseteq part'[o].pubs
               /\ Made(o)' => /\ part'[o].sid \in RP!Sids /\ part'[o].sid[1] = o[1]
                              /\ Upto(part[o], world[o[1]])' /\ part'[o].version # 0
                              /\ part'[o].pubs \subseteq used'
               /\ ~Made(o)' => part'[o] = RP!NoPart
    <3>1. Upto(part[o], world[o[1]])' <=> Upto(part[o], world'[o[1]]) BY <1>1 DEF Upto
    <3> QED BY <2>1, <3>1, <1>1, <1>2 DEF PartsTyped
  <2> QED BY <2>2, <1>1 DEF PartsTyped
<1>5. RoomTyped'
  <2>1. \A s \in sidToIdentity' : Given(s)' BY <1>1, NewsKept DEF RoomTyped
  <2> QED BY <2>1, <1>1, <1>2 DEF RoomTyped, There
<1>6. ThreadsTyped'
  <2>1. \A u \in RP!Updaters : ThreadTyped(u)' BY <1>1, <1>2, NewsKept DEF ThreadsTyped, ThreadTyped, OnceEach
  <2>2. \A u \in RP!Updaters : ThreadPlaced(u)'
    BY <1>1, <1>2 DEF ThreadsTyped, ThreadPlaced, Emptying, Head1
  <2> QED BY <2>1, <2>2, <1>1 DEF ThreadsTyped
<1>7. MediaTyped'
  <2>1. ASSUME NEW t \in Tracks, roomMedia[t].at # "none"
        PROVE  /\ t \in used' /\ Given(roomMedia[t].sid)'
               /\ \A i \in Identities : t \in world'[i].tracks => roomMedia[t].sid = world'[i].sid
    <3>1. t \in used /\ roomMedia[t].sid \in RP!Sids /\ Given(roomMedia[t].sid)
          /\ \A i \in Identities : t \in world[i].tracks => roomMedia[t].sid = world[i].sid
      BY <2>1 DEF MediaTyped
    <3>2. ASSUME NEW i \in Identities, t \in world'[i].tracks PROVE roomMedia[t].sid = world'[i].sid
      <4>1. Later(i) BY DEF NewsStep
      <4> QED BY <4>1, <3>1, <3>2 DEF Later
    <3> PICK s \in RP!Sids : s = roomMedia[t].sid /\ s = roomMedia'[t].sid BY <3>1, <1>1
    <3>3. Given(s)' BY <3>1, NewsKept
    <3>4. Given(roomMedia[t].sid)'
      BY <3>3 DEF Given
    <3> QED BY <3>1, <3>2, <3>4, <1>1
  <2> QED BY <2>1, <1>1 DEF MediaTyped
<1>8. QueueTyped'
  <2>1. \A x : Told(x) => Told(x)' BY NewsKept
  <2>2. CASE roomLink # "up"
    <3>1. UNCHANGED roomUpdates BY <2>2 DEF NewsStep
    <3> QED BY <2>1, <3>1 DEF QueueTyped, OnceEach
  <2>3. CASE roomLink = "up"
    <3>1. PICK m : Message(m) /\ roomUpdates' = Append(roomUpdates, m) /\ Len(roomUpdates) < MaxInFlight
      BY <2>3 DEF NewsStep
    <3>2. m \in [moved : BOOLEAN, infos : Seq(Infos)] BY <3>1 DEF Message
    <3>3. PICK n \in Nat :
                        /\ DOMAIN roomUpdates = 1 .. n /\ DOMAIN roomUpdates' = 1 .. n + 1
                        /\ Len(roomUpdates) = n /\ Len(roomUpdates') = n + 1
                        /\ roomUpdates' \in Seq([moved : BOOLEAN, infos : Seq(Infos)])
                        /\ roomUpdates'[n + 1] = m
                        /\ \A k \in 1 .. n : roomUpdates'[k] = roomUpdates[k]
      BY <3>1, <3>2, Appended
    <3>4. Len(roomUpdates') <= MaxInFlight
      <4>1. MaxInFlight \in Nat BY RoomBounds DEF RP!RoomAssumption
      <4> QED BY <4>1, <3>1, <3>3
    <3>5. ASSUME NEW k \in DOMAIN roomUpdates'
          PROVE  /\ OnceEach(roomUpdates'[k].infos)
                 /\ ~roomUpdates'[k].moved => Len(roomUpdates'[k].infos) = 1
                 /\ (\A j \in DOMAIN roomUpdates[k].infos : Told(roomUpdates[k].infos[j]))'
      <4>1. k = n + 1 \/ k \in 1 .. n BY <3>3
      <4>2. CASE k = n + 1
        <5>1. roomUpdates'[k] = m BY <4>2, <3>3
        <5>2. OnceEach(m.infos) /\ (~m.moved => Len(m.infos) = 1) BY <3>1 DEF Message
        <5>3. (\A j \in DOMAIN m.infos : Told(m.infos[j]))' BY <3>1 DEF Message
        <5>4. (\A j \in DOMAIN roomUpdates[k].infos : Told(roomUpdates[k].infos[j]))'
          BY <5>1, <5>3 DEF Told, Upto
        <5> QED BY <5>1, <5>2, <5>4
      <4>3. CASE k \in 1 .. n
        <5>1. roomUpdates'[k] = roomUpdates[k] /\ k \in DOMAIN roomUpdates BY <4>3, <3>3
        <5> PICK m2 : m2 = roomUpdates[k] OBVIOUS
        <5>2. OnceEach(m2.infos) /\ (~m2.moved => Len(m2.infos) = 1)
              /\ \A j \in DOMAIN m2.infos : Told(m2.infos[j])
          BY <5>1 DEF QueueTyped
        <5>3. (\A j \in DOMAIN m2.infos : Told(m2.infos[j]))' BY <5>2, <2>1
        <5>4. (\A j \in DOMAIN roomUpdates[k].infos : Told(roomUpdates[k].infos[j]))'
          BY <5>1, <5>3 DEF Told, Upto
        <5> QED BY <5>1, <5>2, <5>4
      <4> QED BY <4>1, <4>2, <4>3
    <3> QED BY <3>3, <3>4, <3>5 DEF QueueTyped, OnceEach, Told, Upto
  <2> QED BY <2>2, <2>3
<1> QED BY <1>1, <1>3, <1>4, <1>5, <1>6, <1>7, <1>8

-----------------------------------------------------------------------------
(* What is not about participant j leaves what holds of it.                *)

Good(j) == Sequential(j) /\ SidsExact(j) /\ Emptied(j) /\ Follows(j)

LEMMA Exclusive ==
  ASSUME RoomKinds, NEW i \in Identities, Followed(i), Sequential(i), Emptied(i),
         NEW u \in RP!Updaters, NEW v \in RP!Updaters, v # u, Telling(u, i)
  PROVE  ~InHand(v, i)
<1>1. Alone(i) BY DEF Sequential
<1>2. CASE u = "worker" /\ v = "reader" BY <1>1, <1>2 DEF Alone
<1>3. CASE u = "reader" /\ v = "worker"
  <2>1. ~Telling("worker", i) BY <1>1, <1>3 DEF Alone, InHand
  <2>2. ASSUME NEW o \in RP!Objects, o[1] = i, Drops("worker", o) PROVE FALSE
    <3>1. roomLink = "joining" BY <2>2 DEF RoomKinds, LinkTyped, Drops
    <3>2. i \notin roomOvertaken BY <3>1 DEF Followed, RoomKinds, LinkTyped
    <3> QED BY <3>1, <3>2, <1>3 DEF Emptied
  <2> QED BY <2>1, <2>2, <1>3 DEF InHand
<1> QED BY <1>2, <1>3 DEF RP!Updaters

SameRoom(j) ==
  /\ remoteParticipants'[j] = remoteParticipants[j]
  /\ There(j) => /\ part'[remoteParticipants[j]].sid = Part(j).sid
                 /\ part'[remoteParticipants[j]].version = Part(j).version
                 /\ part'[remoteParticipants[j]].pubs = Part(j).pubs
  /\ \A o \in RP!Objects : o[1] = j => part'[o].sid = part[o].sid
  /\ SidsOf(j)' = SidsOf(j)

\* Info x of participant j has been done.
Applied(x, j) ==
  IF x.left THEN ~There(j) ELSE There(j) /\ Part(j).sid = x.sid /\ Part(j).pubs = x.tracks

SameHand(u, j) ==
  /\ \A o \in RP!Objects : o[1] = j => (Drops(u, o)' <=> Drops(u, o))
  /\ Resids(u, j)' <=> Resids(u, j)
  /\ Resids(u, j) => thread'[u].old = thread[u].old
  /\ \/ News(u, j)' = News(u, j)
     \/ /\ News(u, j)' = {} /\ \A o \in RP!Objects : o[1] = j => ~Drops(u, o)
        /\ Live(j) => \E x : News(u, j) = {x} /\ Applied(x, j)

LEMMA SameWords ==
  ASSUME SameNews, NEW j \in Identities
  PROVE  /\ \A k : Queued(k, j)' = Queued(k, j) /\ (About(k, j)' <=> About(k, j))
         /\ NoneQueued(j)' <=> NoneQueued(j)
         /\ \A s : Over(s)' <=> Over(s)
         /\ Followed(j)' <=> Followed(j)
         /\ Live(j)' <=> Live(j)
         /\ \A x, y, T : Before(x, T, y)' <=> Before(x, T, y)
<1>1. \A k : Queued(k, j)' = Queued(k, j) /\ (About(k, j)' <=> About(k, j))
  BY DEF SameNews, Queued, About, Of
<1>2. NoneQueued(j)' <=> NoneQueued(j) BY <1>1 DEF NoneQueued, SameNews
<1> QED BY <1>1, <1>2 DEF SameNews, Over, Followed, Live, Before, Upto

LEMMA Frame ==
  ASSUME RoomKinds, NEW j \in Identities, SameNews, SameRoom(j),
         \A u \in RP!Updaters : SameHand(u, j), Good(j),
         Followed(j) => \A u \in RP!Updaters : AtPlace(u, j)'
  PROVE  Good(j)'
<1>1. /\ \A k : Queued(k, j)' = Queued(k, j) /\ (About(k, j)' <=> About(k, j))
      /\ NoneQueued(j)' <=> NoneQueued(j)
      /\ \A s : Over(s)' <=> Over(s)
      /\ Followed(j)' <=> Followed(j)
      /\ Live(j)' <=> Live(j)
      /\ UNCHANGED <<world, roomUpdates, roomLink, roomOvertaken, roomCrossed>>
  BY SameWords DEF SameNews
<1>2. /\ There(j)' <=> There(j)
      /\ remoteParticipants'[j] = remoteParticipants[j]
      /\ There(j) => Part(j)'.sid = Part(j).sid /\ Part(j)'.version = Part(j).version
                     /\ Part(j)'.pubs = Part(j).pubs
  BY DEF SameRoom, There, Part
<1>3. \A u \in RP!Updaters : /\ News(u, j)' \subseteq News(u, j)
                             /\ Telling(u, j)' => Telling(u, j)
                             /\ InHand(u, j)' => InHand(u, j)
  BY DEF SameHand, Telling, InHand
<1>4. \A u \in RP!Updaters : \A o \in RP!Objects : o[1] = j => (Drops(u, o)' <=> Drops(u, o))
  BY DEF SameHand
<1>5. "reader" \in RP!Updaters /\ "worker" \in RP!Updaters BY DEF RP!Updaters
<1>6. Sequential(j)'
  <2>1. Alone(j) => Alone(j)' BY <1>3, <1>5 DEF Alone
  <2>2. DropsItsOwn(j) => DropsItsOwn(j)' BY <1>2, <1>4 DEF DropsItsOwn
  <2> QED BY <2>1, <2>2, <1>1 DEF Sequential, Good
<1>7. \A u \in RP!Updaters : /\ Resids(u, j)' <=> Resids(u, j)
                             /\ Resids(u, j) => thread'[u].old = thread[u].old
  BY DEF SameHand
<1>8. SidsExact(j)'
  <2>1. SidsOf(j)' = SidsOf(j) BY DEF SameRoom
  <2> QED BY <2>1, <1>1, <1>2, <1>7 DEF SidsExact, Good
<1>9. Emptied(j)'
  <2>1. ASSUME There(j) PROVE Drops("worker", remoteParticipants[j])' <=> Drops("worker", remoteParticipants[j])
    <3> PICK o \in RP!Objects : o = remoteParticipants[j] /\ o = remoteParticipants'[j] /\ o[1] = j
      BY <2>1, <1>2 DEF RoomKinds, RoomTyped, Made
    <3>1. Drops("worker", o)' <=> Drops("worker", o) BY <1>4, <1>5
    <3> QED BY <3>1 DEF Drops, Emptying
  <2> QED BY <2>1, <1>1, <1>2, <1>3, <1>5 DEF Emptied, Good
<1>10. Ordered(j) => Ordered(j)'
  <2> SUFFICES ASSUME Ordered(j) PROVE Ordered(j)' OBVIOUS
  <2>1. ASSUME There(j)', NEW y, Before(Part(j), Part(j).pubs, y)
        PROVE  Before(Part(j), Part(j).pubs, y)'
    BY <2>1, <1>1, <1>2 DEF Before, Upto
  <2>2. There(j)' => /\ \A u \in RP!Updaters : \A y \in News(u, j)' : Before(Part(j), Part(j).pubs, y)'
                     /\ \A k \in DOMAIN roomUpdates' : \A y \in Queued(k, j)' :
                          Before(Part(j), Part(j).pubs, y)'
    BY <2>1, <1>1, <1>2, <1>3 DEF Ordered
  <2>3. \A x, y, T : Before(x, T, y)' <=> Before(x, T, y) BY SameWords
  <2>4. /\ \A u \in RP!Updaters : \A x \in News(u, j)' :
             \A k \in DOMAIN roomUpdates' : \A y \in Queued(k, j)' : Before(x, x.tracks, y)'
        /\ \A k, l \in DOMAIN roomUpdates' : k < l =>
             \A x \in Queued(k, j)', y \in Queued(l, j)' : Before(x, x.tracks, y)'
    BY <2>3, <1>1, <1>3 DEF Ordered
  <2> QED BY <2>2, <2>4 DEF Ordered
<1>11. Live(j) /\ Ended(j) => Ended(j)'
  <2> SUFFICES ASSUME Ended(j) PROVE Ended(j)' OBVIOUS
  <2>1. ASSUME NEW u \in RP!Updaters, NEW o \in RP!Objects, o[1] = j, Drops(u, o)'
        PROVE  Over(part[o].sid)'
    <3>1. Over(part[o].sid) BY <2>1, <1>4 DEF Ended
    <3>2. part'[o].sid = part[o].sid BY <2>1 DEF SameRoom
    <3> QED BY <3>1, <3>2, <1>1 DEF Over
  <2>2. There(j)' => (Over(Part(j).sid)' <=> Over(Part(j).sid)) BY <1>1, <1>2 DEF Over
  <2> QED BY <2>1, <2>2, <1>1, <1>2, <1>3 DEF Ended
<1>12. Live(j) /\ LastWord(j) => LastWord(j)'
  <2> SUFFICES ASSUME Live(j), LastWord(j) PROVE LastWord(j)' OBVIOUS
  <2>1. \A f : Says(f, j)' <=> Says(f, j) BY <1>1 DEF Says, Of
  <2>2. \A k \in DOMAIN roomUpdates' :
          About(k, j)' /\ (\A l \in DOMAIN roomUpdates' : l > k => ~About(l, j)') =>
            Says(roomUpdates[k].infos, j)'
    <3>1. \A k : Says(roomUpdates[k].infos, j)' <=> Says(roomUpdates[k].infos, j)
      BY <1>1 DEF Says, Of
    <3> QED BY <3>1, <1>1 DEF LastWord
  <2>3. ASSUME NoneQueued(j), NEW u \in RP!Updaters, InHand(u, j)' PROVE Says(thread[u].infos, j)'
    <3>1. InHand(u, j) BY <2>3, <1>3
    <3>2. Says(thread[u].infos, j) BY <2>3, <3>1 DEF LastWord
    <3>3. News(u, j)' = News(u, j)
      <4>1. SameHand(u, j) OBVIOUS
      <4>2. CASE News(u, j)' = {} /\ \A o \in RP!Objects : o[1] = j => ~Drops(u, o)
        BY <4>2, <2>3, <1>4 DEF InHand, Telling
      <4> QED BY <4>1, <4>2 DEF SameHand
    <3> QED BY <3>2, <3>3, <1>1 DEF Says, News
  <2>4. ASSUME NoneQueued(j), \A u \in RP!Updaters : ~InHand(u, j)' PROVE RoomIs(j)'
    <3>1. RoomIs(j)
      <4>1. CASE \A u \in RP!Updaters : ~InHand(u, j) BY <4>1, <2>4 DEF LastWord
      <4>2. ASSUME NEW u \in RP!Updaters, InHand(u, j) PROVE RoomIs(j)
        <5>1. SameHand(u, j) OBVIOUS
        <5>2. News(u, j)' # News(u, j)
          BY <2>4, <4>2, <1>4 DEF InHand, Telling
        <5>3. PICK x : News(u, j) = {x} /\ Applied(x, j) BY <5>1, <5>2 DEF SameHand
        <5>4. Says(thread[u].infos, j) BY <4>2, <2>4 DEF LastWord
        <5>5. world[j] = x BY <5>3, <5>4 DEF Says, News
        <5> QED BY <5>3, <5>5 DEF Applied, RoomIs
      <4> QED BY <4>1, <4>2
    <3> QED BY <3>1, <1>1, <1>2 DEF RoomIs
  <2> QED BY <2>2, <2>3, <2>4, <1>1 DEF LastWord
<1>13. Live(j) /\ Known(j) => Known(j)'
  <2>1. SidsOf(j)' = SidsOf(j) BY DEF SameRoom
  <2>2. \A s : s[1] = j => (s \in sidToIdentity' <=> s \in sidToIdentity)
    BY <2>1 DEF SidsOf
  <2>3. There(j) => Part(j).sid[1] = j BY DEF There, Part, RoomKinds, RoomTyped, PartsTyped, Made
  <2>4. Renaming(j)' <=> Renaming(j) BY <1>7 DEF Renaming
  <2>5. There(j) => (Part(j)'.sid \in sidToIdentity' <=> Part(j).sid \in sidToIdentity)
    BY <2>2, <2>3, <1>2
  <2> QED BY <2>1, <2>4, <2>5, <1>1, <1>2, <1>3 DEF Known
<1> QED BY <1>1, <1>6, <1>8, <1>9, <1>10, <1>11, <1>12, <1>13 DEF Follows, Good

LEMMA OtherHand ==
  ASSUME RoomKinds, NEW j \in Identities, SameRoom(j), NEW v \in RP!Updaters, thread'[v] = thread[v]
  PROVE  SameHand(v, j) /\ (AtPlace(v, j) => AtPlace(v, j)')
<1>1. \A o \in RP!Objects : Drops(v, o)' <=> Drops(v, o) BY DEF Drops, Emptying
<1>2. News(v, j)' = News(v, j) BY DEF News, Of
<1>3. Handles(v, j)' <=> Handles(v, j) BY DEF Handles, Head1
<1>4. SameHand(v, j) BY <1>1, <1>2, <1>3 DEF SameHand, Resids
<1>5. ASSUME AtPlace(v, j), Handles(v, j) PROVE AtPlace(v, j)'
  <2>1. thread[v].at \in Applying => remoteParticipants[j] = thread[v].obj BY <1>5 DEF AtPlace
  <2>2. thread[v].at \in Applying => There(j)
    <3>1. thread[v].at \in Applying => Made(thread[v].obj) BY DEF RoomKinds, ThreadsTyped, ThreadPlaced
    <3>2. RP!None \notin RP!Objects BY DEF RP!None, RP!Objects
    <3> QED BY <2>1, <3>1, <3>2 DEF There, Made
  <2>3. There(j) => /\ Part(j)'.sid = Part(j).sid /\ Part(j)'.version = Part(j).version
                    /\ Part(j)'.pubs = Part(j).pubs
    BY DEF SameRoom, Part
  <2>4. (Emptying(v)' <=> Emptying(v)) /\ Head1(v)' = Head1(v) /\ (There(j)' <=> There(j))
    BY DEF Emptying, Head1, There, SameRoom
  <2>5. {"resid", "clear", "run"} \subseteq Applying /\ "resid" \in Applying BY DEF Applying
  <2> QED BY <2>1, <2>2, <2>3, <2>4, <2>5, <1>3, <1>5 DEF AtPlace, SameRoom
<1> QED BY <1>3, <1>4, <1>5 DEF AtPlace

LEMMA StepHand ==
  ASSUME RoomKinds, NEW j \in Identities, NEW u \in RP!Updaters, NEW at, NEW o, NEW d,
         Becomes(u, at, thread[u].infos, thread[u].leaving, o, d),
         ~ (thread[u].at = "remove" /\ Emptying(u)), ~ (at = "remove" /\ d # RP!None),
         Handles(u, j) => thread[u].at # "resid" /\ at # "resid"
  PROVE  SameHand(u, j)
<1>1. /\ thread'[u].at = at /\ thread'[u].infos = thread[u].infos
      /\ thread'[u].leaving = thread[u].leaving /\ thread'[u].obj = o /\ thread'[u].old = d
  BY DEF Becomes
<1>2. \A x : Drops(u, x)' <=> Drops(u, x) BY <1>1 DEF Drops, Emptying
<1>3. News(u, j)' = News(u, j) BY <1>1 DEF News, Of
<1>4. Handles(u, j)' <=> Handles(u, j) BY <1>1 DEF Handles, Head1
<1>5. ~Resids(u, j)' /\ ~Resids(u, j) BY <1>1, <1>4 DEF Resids
<1> QED BY <1>2, <1>3, <1>5 DEF SameHand

LEMMA ProceedHand ==
  ASSUME RoomKinds, NEW j \in Identities, NEW u \in RP!Updaters, RP!Proceed(u),
         thread[u].at \in {"look", "run", "unpublish"},
         ~Emptying(u) /\ Live(j) /\ Handles(u, j) => Applied(Head1(u), j)
  PROVE  SameHand(u, j) /\ AtPlace(u, j)'
<1> DEFINE rest == IF thread[u].at = "unpublish" /\ Emptying(u) THEN thread[u].infos
                   ELSE Tail(thread[u].infos)
           at == IF thread[u].leaving # {} THEN "leave" ELSE IF rest # <<>> THEN "look" ELSE "idle"
<1>1. Becomes(u, at, rest, thread[u].leaving, RP!None, RP!None)
  BY ProceedBecomes DEF RoomKinds
<1>2. at \in {"leave", "look", "idle"} OBVIOUS
<1> HIDE DEF at
<1>3. /\ thread'[u].at = at /\ thread'[u].infos = rest /\ thread'[u].leaving = thread[u].leaving
      /\ thread'[u].obj = RP!None /\ thread'[u].old = RP!None
  BY <1>1 DEF Becomes
<1>4. AtPlace(u, j)' BY <1>2, <1>3 DEF AtPlace, Applying
<1>5. \A x : Drops(u, x)' <=> Drops(u, x) BY <1>2, <1>3 DEF Drops, Emptying
<1>6. ~Resids(u, j)' /\ ~Resids(u, j) BY <1>2, <1>3 DEF Resids
<1>7. \/ News(u, j)' = News(u, j)
      \/ /\ News(u, j)' = {} /\ \A o \in RP!Objects : o[1] = j => ~Drops(u, o)
         /\ Live(j) => \E x : News(u, j) = {x} /\ Applied(x, j)
  <2>1. CASE thread[u].at = "unpublish" /\ Emptying(u) BY <2>1, <1>3 DEF News, Of
  <2>2. CASE ~(thread[u].at = "unpublish" /\ Emptying(u))
    <3>1. ~Emptying(u) BY <2>2 DEF Emptying
    <3>2. thread[u].infos # <<>>
      <4>1. ThreadPlaced(u) BY DEF RoomKinds, ThreadsTyped
      <4>2. CASE thread[u].at = "look" BY <4>1, <4>2 DEF ThreadPlaced
      <4>3. CASE thread[u].at = "run" BY <4>1, <4>3 DEF ThreadPlaced, Applying
      <4>4. CASE thread[u].at = "unpublish"
        <5>1. thread[u].old = RP!None BY <3>1, <4>4 DEF Emptying
        <5> QED BY <5>1, <4>1, <4>4 DEF ThreadPlaced
      <4> QED BY <4>2, <4>3, <4>4
    <3>3. thread[u].infos \in Seq(Infos) /\ OnceEach(thread[u].infos)
      BY DEF RoomKinds, ThreadsTyped, ThreadTyped
    <3>4. thread'[u].infos = Tail(thread[u].infos) BY <2>2, <1>3
    <3>5. CASE Handles(u, j)
      <4>1. News(u, j) = {Head1(u)} BY <3>2, <3>3, <3>5, TailInfos DEF News, Handles, Head1
      <4>2. News(u, j)' = {} BY <3>2, <3>3, <3>4, <3>5, TailInfos DEF News, Handles, Head1
      <4>3. thread[u].leaving = {}
        BY <3>1 DEF RoomKinds, ThreadsTyped, ThreadPlaced
      <4> QED BY <4>1, <4>2, <4>3, <3>1, <3>5 DEF Drops
    <3>6. CASE ~Handles(u, j)
      <4>1. Head1(u).sid[1] # j BY <3>2, <3>6 DEF Handles
      <4>2. Of(thread[u].infos, j) = Of(Tail(thread[u].infos), j)
        BY <4>1, <3>2, <3>3, TailInfos DEF Head1
      <4> QED BY <4>2, <3>4 DEF News
    <3> QED BY <3>5, <3>6
  <2> QED BY <2>1, <2>2
<1> QED BY <1>4, <1>5, <1>6, <1>7 DEF SameHand

\* A step of updater u that is not about what holds of participant j.
LEMMA UpdaterFrame ==
  ASSUME RoomKinds, NEW j \in Identities, SameNews, SameRoom(j), Good(j),
         NEW u \in RP!Updaters, \A v \in RP!Updaters : v # u => thread'[v] = thread[v],
         SameHand(u, j), Followed(j) => AtPlace(u, j)'
  PROVE  Good(j)'
<1>1. \A v \in RP!Updaters : SameHand(v, j) BY OtherHand
<1>2. ASSUME Followed(j), NEW v \in RP!Updaters PROVE AtPlace(v, j)'
  <2>1. AtPlace(v, j) BY <1>2 DEF Good, Sequential
  <2> QED BY <2>1, <1>2, OtherHand
<1> QED BY <1>1, <1>2, Frame

AllSame ==
  UNCHANGED <<remoteParticipants, sidToIdentity, part>>
LEMMA AllSameRoom ==
  ASSUME AllSame, NEW j PROVE SameRoom(j)
  BY DEF AllSame, SameRoom, SidsOf, Part

LEMMA LookGood ==
  ASSUME RoomKinds, NEW u \in RP!Updaters, RP!Look(u), NEW j \in Identities, Good(j) PROVE Good(j)'
<1> USE DEF RoomKinds
<1>1. thread[u].at = "look" /\ thread[u].infos # <<>> /\ ~Emptying(u)
  BY DEF RP!Look, ThreadsTyped, ThreadPlaced, Emptying
<1>2. RP!info(u) = Head1(u) BY <1>1, HeadInfo
<1>3. SameNews /\ AllSame BY DEF RP!Look, SameNews, AllSame, RP!roomVars, RP!sfuVars, RP!ghosts
<1>4. SameRoom(j) BY <1>3, AllSameRoom
<1> PICK o : o = remoteParticipants[Head1(u).sid[1]] OBVIOUS
<1>5. Handles(u, j) => o = remoteParticipants[j] BY DEF Handles
<1>6. (\A v \in RP!Updaters : v # u => thread'[v] = thread[v]) /\ SameHand(u, j) /\ AtPlace(u, j)'
  <2>1. CASE Head1(u).left /\ o = RP!None /\ RP!Proceed(u)
    <3>1. Handles(u, j) => Applied(Head1(u), j) BY <2>1, <1>5 DEF Applied, There
    <3>2. SameHand(u, j) /\ AtPlace(u, j)' BY <3>1, <2>1, <1>1, ProceedHand
    <3>3. \A v \in RP!Updaters : v # u => thread'[v] = thread[v]
      BY <2>1, ProceedBecomes DEF Becomes
    <3> QED BY <3>2, <3>3
  <2>2. CASE o = RP!None /\ RP!Step(u, "add")
    <3>1. Becomes(u, "add", thread[u].infos, thread[u].leaving, thread[u].obj, thread[u].old)
      BY <2>2, StepBecomes
    <3>2. SameHand(u, j)
      <4> PICK at, d : at = "add" /\ d = thread[u].obj OBVIOUS
      <4>1. Becomes(u, at, thread[u].infos, thread[u].leaving, d, thread[u].old) BY <3>1
      <4>2. at # "remove" /\ at # "resid" /\ thread[u].at # "remove" /\ thread[u].at # "resid"
        BY <1>1
      <4> QED BY <4>1, <4>2, StepHand
    <3>3. thread'[u].at = "add" /\ thread'[u].infos = thread[u].infos BY <3>1 DEF Becomes
    <3>4. AtPlace(u, j)' BY <3>3, <2>2, <1>3, <1>5 DEF AtPlace, Applying, Handles, Head1, There, AllSame
    <3> QED BY <3>1, <3>2, <3>4 DEF Becomes
  <2>3. CASE RP!StepWith(u, "update", o, RP!None)
    <3>1. Becomes(u, "update", thread[u].infos, thread[u].leaving, o, RP!None)
      BY <2>3, StepWithBecomes
    <3>2. SameHand(u, j)
      <4> PICK at : at = "update" OBVIOUS
      <4>1. Becomes(u, at, thread[u].infos, thread[u].leaving, o, RP!None) BY <3>1
      <4>2. at # "remove" /\ at # "resid" /\ thread[u].at # "remove" /\ thread[u].at # "resid"
        BY <1>1
      <4> QED BY <4>1, <4>2, StepHand
    <3>3. thread'[u].at = "update" /\ thread'[u].infos = thread[u].infos /\ thread'[u].obj = o
      BY <3>1 DEF Becomes
    <3>4. AtPlace(u, j)' BY <3>3, <1>3, <1>5 DEF AtPlace, Applying, Handles, Head1, AllSame
    <3> QED BY <3>1, <3>2, <3>4 DEF Becomes
  <2>4. CASE RP!StepWith(u, "remove", o, RP!None)
    <3>1. Becomes(u, "remove", thread[u].infos, thread[u].leaving, o, RP!None)
      BY <2>4, StepWithBecomes
    <3>2. SameHand(u, j)
      <4> PICK at, d : at = "remove" /\ d = RP!None OBVIOUS
      <4>1. Becomes(u, at, thread[u].infos, thread[u].leaving, o, d) BY <3>1
      <4>2. at # "resid" /\ thread[u].at # "remove" /\ thread[u].at # "resid" /\ d = RP!None
        BY <1>1
      <4> QED BY <4>1, <4>2, StepHand
    <3>3. thread'[u].at = "remove" /\ thread'[u].infos = thread[u].infos /\ thread'[u].obj = o
      BY <3>1 DEF Becomes
    <3>4. AtPlace(u, j)' BY <3>3, <1>3, <1>5 DEF AtPlace, Applying, Handles, Head1, AllSame
    <3> QED BY <3>1, <3>2, <3>4 DEF Becomes
  <2> QED BY <2>1, <2>2, <2>3, <2>4, <1>2 DEF RP!Look
<1> QED BY <1>3, <1>4, <1>6, UpdaterFrame

LEMMA LeaveGood ==
  ASSUME RoomKinds, NEW u \in RP!Updaters, NEW o \in RP!Objects, RP!Leave(u, o),
         NEW j \in Identities, Good(j)
  PROVE  Good(j)'
<1>1. thread[u].at = "leave" /\ o \in thread[u].leaving BY DEF RP!Leave
<1>2. SameNews /\ AllSame BY DEF RP!Leave, SameNews, AllSame, RP!roomVars, RP!sfuVars, RP!ghosts
<1>3. Becomes(u, "remove", thread[u].infos, thread[u].leaving \ {o}, o, o)
  BY LeaveBecomes DEF RoomKinds
<1>4. /\ thread'[u].at = "remove" /\ thread'[u].infos = thread[u].infos
      /\ thread'[u].leaving = thread[u].leaving \ {o} /\ thread'[u].obj = o /\ thread'[u].old = o
  BY <1>3 DEF Becomes
<1>5. Emptying(u)' /\ ~Emptying(u)
  <2>1. RP!None \notin RP!Objects BY DEF RP!None, RP!Objects
  <2> QED BY <1>1, <1>4, <2>1 DEF Emptying
<1>6. \A x : Drops(u, x)' <=> Drops(u, x) BY <1>1, <1>4, <1>5 DEF Drops
<1>7. News(u, j)' = News(u, j) BY <1>4 DEF News, Of
<1>8. ~Resids(u, j)' /\ ~Resids(u, j) BY <1>1, <1>4 DEF Resids
<1>9. SameHand(u, j) BY <1>6, <1>7, <1>8 DEF SameHand
<1>10. AtPlace(u, j)' BY <1>4, <1>5 DEF AtPlace, Applying
<1> QED BY <1>2, <1>3, <1>9, <1>10, AllSameRoom, UpdaterFrame DEF Becomes

LEMMA ClearGood ==
  ASSUME RoomKinds, NEW u \in RP!Updaters, RP!clearParticipantDefers(u), NEW j \in Identities, Good(j)
  PROVE  Good(j)'
<1>1. thread[u].at = "clear" /\ RP!Step(u, "run") BY DEF RP!clearParticipantDefers
<1>2. SameNews /\ AllSame
  BY DEF RP!clearParticipantDefers, SameNews, AllSame, RP!sfuVars, RP!ghosts
<1>3. Becomes(u, "run", thread[u].infos, thread[u].leaving, thread[u].obj, thread[u].old)
  BY <1>1, StepBecomes DEF RoomKinds
<1>4. SameHand(u, j)
  <2> PICK at, o, d : at = "run" /\ o = thread[u].obj /\ d = thread[u].old OBVIOUS
  <2>1. Becomes(u, at, thread[u].infos, thread[u].leaving, o, d) BY <1>3
  <2>2. at # "remove" /\ at # "resid" /\ thread[u].at # "remove" /\ thread[u].at # "resid"
    BY <1>1
  <2> QED BY <2>1, <2>2, StepHand
<1>5. /\ thread'[u].at = "run" /\ thread'[u].infos = thread[u].infos
      /\ thread'[u].obj = thread[u].obj /\ thread'[u].old = thread[u].old
  BY <1>3 DEF Becomes
<1>6. AtPlace(u, j) => AtPlace(u, j)'
  BY <1>1, <1>2, <1>5 DEF AtPlace, Applying, Handles, Head1, There, Part, AllSame
<1>7. Followed(j) => AtPlace(u, j) BY DEF Good, Sequential
<1> QED BY <1>2, <1>3, <1>4, <1>6, <1>7, AllSameRoom, UpdaterFrame DEF Becomes

LEMMA RunGood ==
  ASSUME RoomKinds, NEW u \in RP!Updaters, RP!runParticipantDefers(u), NEW j \in Identities, Good(j)
  PROVE  Good(j)'
<1>1. thread[u].at = "run" /\ RP!Proceed(u) BY DEF RP!runParticipantDefers
<1>2. SameNews /\ AllSame
  BY DEF RP!runParticipantDefers, SameNews, AllSame, RP!sfuVars, RP!ghosts
<1>3. ASSUME Live(j), Handles(u, j) PROVE Applied(Head1(u), j)
  <2>1. AtPlace(u, j) BY <1>3 DEF Good, Sequential, Followed, Live
  <2>2. ~Head1(u).left /\ Made(thread[u].obj)
    BY <1>1 DEF RoomKinds, ThreadsTyped, ThreadPlaced, Applying
  <2>3. There(j)
    <3>1. remoteParticipants[j] = thread[u].obj BY <2>1, <1>1, <1>3 DEF AtPlace, Applying
    <3> QED BY <3>1, <2>2 DEF Made, There, RP!Objects, RP!None
  <2> QED BY <2>1, <2>2, <2>3, <1>1, <1>3 DEF AtPlace, Applied
<1>4. SameHand(u, j) /\ AtPlace(u, j)' BY <1>1, <1>3, ProceedHand
<1>5. \A v \in RP!Updaters : v # u => thread'[v] = thread[v]
  BY <1>1, ProceedBecomes DEF Becomes, RoomKinds
<1> QED BY <1>2, <1>4, <1>5, AllSameRoom, UpdaterFrame

LEMMA UnpublishGood ==
  ASSUME RoomKinds, NEW u \in RP!Updaters, RP!unpublishAllTracks(u), NEW j \in Identities, Good(j)
  PROVE  Good(j)'
<1>1. thread[u].at = "unpublish" /\ RP!Proceed(u) BY DEF RP!unpublishAllTracks
<1>2. SameNews /\ UNCHANGED <<remoteParticipants, sidToIdentity>>
  BY DEF RP!unpublishAllTracks, SameNews, RP!sfuVars, RP!ghosts, RP!roomVars
<1>3. ASSUME ~Emptying(u), Live(j), Handles(u, j) PROVE Applied(Head1(u), j)
  <2>1. AtPlace(u, j) BY <1>3 DEF Good, Sequential, Followed, Live
  <2>2. Head1(u).left BY <1>1, <1>3 DEF RoomKinds, ThreadsTyped, ThreadPlaced, Emptying
  <2> QED BY <2>1, <2>2, <1>1, <1>3 DEF AtPlace, Applied
<1>4. SameHand(u, j) /\ AtPlace(u, j)' BY <1>1, <1>3, ProceedHand
<1>5. \A v \in RP!Updaters : v # u => thread'[v] = thread[v]
  BY <1>1, ProceedBecomes DEF Becomes, RoomKinds
<1>6. SameRoom(j)
  <2>1. Made(thread[u].obj) /\ remoteParticipants[thread[u].obj[1]] # thread[u].obj
    BY <1>1 DEF RoomKinds, ThreadsTyped, ThreadPlaced
  <2> PICK o \in RP!Objects : o = thread[u].obj BY <2>1 DEF Made
  <2>2. part' = [part EXCEPT ![o] = RP!unpublishTracks(o, part[o].pubs)] BY DEF RP!unpublishAllTracks
  <2>3. part \in [RP!Objects -> PartKind] BY DEF RoomKinds, PartsTyped, PartKind
  <2>4. \A x \in RP!Objects : x # o => part'[x] = part[x] BY <2>2, <2>3
  <2>5. RP!unpublishTracks(o, part[o].pubs).sid = part[o].sid
    BY <2>3 DEF RP!unpublishTracks, PartKind
  <2>6. \A x \in RP!Objects : part'[x].sid = part[x].sid BY <2>2, <2>3, <2>4, <2>5
  <2>7. There(j) => remoteParticipants[j] \in RP!Objects /\ remoteParticipants[j] # o
    BY <2>1 DEF RoomKinds, RoomTyped, Made
  <2>8. SidsOf(j)' = SidsOf(j) BY <1>2 DEF SidsOf
  <2> QED BY <2>4, <2>6, <2>7, <2>8, <1>2 DEF SameRoom, Part
<1> QED BY <1>2, <1>4, <1>5, <1>6, UpdaterFrame

-----------------------------------------------------------------------------
(* What a step that is about a participant does to the room.               *)

\* Updater u does info x of participant i, and empties nothing.
Does(u, x, i) ==
  /\ x = Head1(u) /\ x \in Infos /\ Told(x) /\ x.sid \in RP!Sids /\ x.sid[1] = i /\ i \in Identities
  /\ Handles(u, i) /\ News(u, i) = {x}
  /\ thread[u].infos # <<>> /\ thread[u].leaving = {} /\ ~Emptying(u)

\* ... with object o; then it is at this place.
Changed(u, x, i, o, at, d) ==
  /\ Does(u, x, i) /\ o \in RP!Objects /\ o[1] = i /\ SameNews
  /\ Becomes(u, at, thread[u].infos, {}, o, d)
  /\ \A j \in Identities : j # i => remoteParticipants'[j] = remoteParticipants[j]
  /\ \A y \in RP!Objects : y # o => part'[y] = part[y]

LEMMA DoesFacts ==
  ASSUME RoomKinds, NEW u \in RP!Updaters, thread[u].at \in {"add"} \cup Applying
  PROVE  Does(u, Head1(u), Head1(u).sid[1]) /\ ~Head1(u).left
<1>1. thread[u].infos # <<>> /\ thread[u].leaving = {} /\ ~Head1(u).left /\ ~Emptying(u)
  BY DEF RoomKinds, ThreadsTyped, ThreadPlaced, Emptying, Applying
<1>2. /\ Head1(u).sid[1] \in Identities /\ Head1(u).sid \in RP!Sids
      /\ Head1(u) \in Infos /\ Told(Head1(u)) /\ News(u, Head1(u).sid[1]) = {Head1(u)}
  BY <1>1, HeadInfo DEF RoomKinds
<1> QED BY <1>1, <1>2 DEF Does, Handles

Adds(u, x, i, o) ==
  /\ Changed(u, x, i, o, "clear", RP!None) /\ thread[u].at = "add" /\ ~x.left
  /\ remoteParticipants'[i] = o /\ (There(i) => o = remoteParticipants[i]) /\ (~There(i) => ~Made(o))
  /\ part' = [part EXCEPT ![o] = RP!updated(o, x)]
  /\ sidToIdentity' = sidToIdentity \cup {x.sid}
  /\ UNCHANGED <<roomMedia, sidDefers, stranded>>

LEMMA AddFacts ==
  ASSUME RoomKinds, NEW u \in RP!Updaters, RP!Add(u)
  PROVE  \E x, i, o : Adds(u, x, i, o)
<1> USE DEF RoomKinds
<1>1. thread[u].at = "add" BY DEF RP!Add
<1>2. Does(u, Head1(u), Head1(u).sid[1]) /\ ~Head1(u).left BY <1>1, DoesFacts
<1>3. RP!info(u) = Head1(u) BY <1>2, HeadInfo DEF Does
<1> PICK x : x = Head1(u) OBVIOUS
<1> PICK i \in Identities : i = x.sid[1] BY <1>2 DEF Does
<1> PICK o : o = IF remoteParticipants[i] # RP!None THEN remoteParticipants[i] ELSE <<i, made[i] + 1>>
  OBVIOUS
<1>4. /\ o \in RP!Objects /\ part' = [part EXCEPT ![o] = RP!updated(o, x)]
      /\ remoteParticipants' = [remoteParticipants EXCEPT ![i] = o]
      /\ sidToIdentity' = sidToIdentity \cup {x.sid}
      /\ RP!StepWith(u, "clear", o, RP!None)
  BY <1>3 DEF RP!Add
<1>5. SameNews /\ UNCHANGED <<roomMedia, sidDefers, stranded>>
  BY DEF RP!Add, SameNews, RP!sfuVars, RP!ghosts
<1>6. There(i) => o = remoteParticipants[i] /\ o[1] = i BY DEF There, RoomTyped
<1>7. ~There(i) => o = <<i, made[i] + 1>> BY DEF There
<1>8. ~There(i) => ~Made(o) /\ o[1] = i
  <2>1. made[i] \in Nat BY RoomBounds DEF PartsTyped, RP!RoomAssumption
  <2> QED BY <2>1, <1>7 DEF Made
<1>9. remoteParticipants'[i] = o /\ \A j \in Identities : j # i => remoteParticipants'[j] = remoteParticipants[j]
  BY <1>4 DEF RoomTyped
<1>10. \A y \in RP!Objects : y # o => part'[y] = part[y] BY <1>4 DEF PartsTyped
<1>11. Becomes(u, "clear", thread[u].infos, {}, o, RP!None)
  BY <1>2, <1>4, StepWithBecomes DEF Does
<1>12. Changed(u, x, i, o, "clear", RP!None)
  BY <1>2, <1>4, <1>5, <1>6, <1>8, <1>9, <1>10, <1>11 DEF Changed
<1>13. Adds(u, x, i, o) BY <1>1, <1>2, <1>4, <1>5, <1>6, <1>8, <1>9, <1>12 DEF Adds
<1> QED BY <1>13

Updates(u, x, i, o) ==
  /\ Changed(u, x, i, o, IF part'[o].sid # part[o].sid THEN "resid" ELSE "clear", part[o].sid)
  /\ thread[u].at = "update" /\ ~x.left /\ Made(o) /\ o = thread[u].obj
  /\ part' = [part EXCEPT ![o] = RP!updated(o, x)]
  /\ UNCHANGED <<remoteParticipants, sidToIdentity, roomMedia, sidDefers, stranded>>

LEMMA UpdateFacts ==
  ASSUME RoomKinds, NEW u \in RP!Updaters, RP!Update(u)
  PROVE  \E x, i, o : Updates(u, x, i, o)
<1> USE DEF RoomKinds
<1>1. thread[u].at = "update" BY DEF RP!Update
<1>2. Does(u, Head1(u), Head1(u).sid[1]) /\ ~Head1(u).left BY <1>1, DoesFacts DEF Applying
<1>3. RP!info(u) = Head1(u) BY <1>2, HeadInfo DEF Does
<1> PICK x : x = Head1(u) OBVIOUS
<1> PICK i \in Identities : i = x.sid[1] BY <1>2 DEF Does
<1>4. Made(thread[u].obj) /\ thread[u].obj[1] = i
  BY <1>1 DEF ThreadsTyped, ThreadPlaced, Applying
<1> PICK o \in RP!Objects : o = thread[u].obj BY <1>4 DEF Made
<1> PICK at : at = IF part'[o].sid # part[o].sid THEN "resid" ELSE "clear" OBVIOUS
<1>5. /\ part' = [part EXCEPT ![o] = RP!updated(o, x)]
      /\ RP!StepWith(u, at, o, part[o].sid)
  BY <1>3 DEF RP!Update
<1>6. SameNews /\ UNCHANGED <<remoteParticipants, sidToIdentity, roomMedia, sidDefers, stranded>>
  BY DEF RP!Update, SameNews, RP!sfuVars, RP!ghosts, RP!roomVars
<1>7. \A y \in RP!Objects : y # o => part'[y] = part[y] BY <1>5 DEF PartsTyped
<1>8. Becomes(u, at, thread[u].infos, {}, o, part[o].sid)
  <2> PICK d : d = part[o].sid OBVIOUS
  <2>1. RP!StepWith(u, at, o, d) BY <1>5
  <2>2. Becomes(u, at, thread[u].infos, thread[u].leaving, o, d) BY <2>1, StepWithBecomes
  <2> QED BY <2>2, <1>2 DEF Does
<1>9. Changed(u, x, i, o, at, part[o].sid) BY <1>2, <1>4, <1>6, <1>7, <1>8 DEF Changed
<1>10. Updates(u, x, i, o) BY <1>1, <1>2, <1>4, <1>5, <1>6, <1>9 DEF Updates
<1> QED BY <1>10

Renames(u, x, i, o) ==
  /\ Changed(u, x, i, o, "clear", thread[u].old)
  /\ thread[u].at = "resid" /\ ~x.left /\ Made(o) /\ o = thread[u].obj
  /\ thread[u].old \in RP!Sids /\ thread[u].old[1] = i
  /\ sidDefers' = [sidDefers EXCEPT ![thread[u].old] = {}]
  /\ sidToIdentity' = (sidToIdentity \ {thread[u].old}) \cup {part[o].sid}
  /\ UNCHANGED <<remoteParticipants, part, roomMedia, stranded>>

LEMMA ResidFacts ==
  ASSUME RoomKinds, NEW u \in RP!Updaters, RP!Resid(u)
  PROVE  \E x, i, o : Renames(u, x, i, o)
<1> USE DEF RoomKinds
<1>1. thread[u].at = "resid" BY DEF RP!Resid
<1>2. Does(u, Head1(u), Head1(u).sid[1]) /\ ~Head1(u).left BY <1>1, DoesFacts DEF Applying
<1> PICK x : x = Head1(u) OBVIOUS
<1> PICK i \in Identities : i = x.sid[1] BY <1>2 DEF Does
<1>3. Made(thread[u].obj) /\ thread[u].obj[1] = i /\ thread[u].old \in RP!Sids /\ thread[u].old[1] = i
  BY <1>1 DEF ThreadsTyped, ThreadPlaced, Applying
<1> PICK o \in RP!Objects : o = thread[u].obj BY <1>3 DEF Made
<1>4. /\ sidDefers' = [sidDefers EXCEPT ![thread[u].old] = {}]
      /\ sidToIdentity' = (sidToIdentity \ {thread[u].old}) \cup {part[o].sid}
      /\ RP!Step(u, "clear")
  BY DEF RP!Resid
<1>5. SameNews /\ UNCHANGED <<remoteParticipants, part, roomMedia, stranded>>
  BY DEF RP!Resid, SameNews, RP!sfuVars, RP!ghosts
<1>6. Becomes(u, "clear", thread[u].infos, {}, o, thread[u].old)
  BY <1>2, <1>4, StepBecomes DEF Does
<1>7. Changed(u, x, i, o, "clear", thread[u].old) BY <1>2, <1>3, <1>5, <1>6 DEF Changed
<1>8. Renames(u, x, i, o) BY <1>1, <1>2, <1>3, <1>4, <1>5, <1>7 DEF Renames
<1> QED BY <1>8

Departed(u, o) ==
  /\ thread[u].at = "remove" /\ Made(o) /\ o = thread[u].obj /\ o \in RP!Objects
  /\ o[1] \in Identities /\ SameNews /\ UNCHANGED <<part, roomMedia, stranded>>
  /\ remoteParticipants'[o[1]] = RP!None
  /\ \A i \in Identities : i # o[1] => remoteParticipants'[i] = remoteParticipants[i]
  /\ sidToIdentity' = sidToIdentity \ {part[o].sid}
  /\ sidDefers' = [sidDefers EXCEPT ![part[o].sid] = {}]
  /\ part[o].sid \in RP!Sids /\ part[o].sid[1] = o[1]
  /\ Becomes(u, "unpublish", thread[u].infos, thread[u].leaving, o, thread[u].old)
  /\ ~Emptying(u) => Does(u, Head1(u), o[1]) /\ Head1(u).left

LEMMA DropFacts ==
  ASSUME RoomKinds, NEW u \in RP!Updaters, RP!DropParticipant(u)
  PROVE  \E o : Departed(u, o)
<1> USE DEF RoomKinds
<1>1. /\ thread[u].at = "remove" /\ Made(thread[u].obj)
      /\ thread[u].old = RP!None => /\ thread[u].infos # <<>> /\ Head1(u).left
                                    /\ thread[u].obj[1] = Head1(u).sid[1]
  BY DEF RP!DropParticipant, ThreadsTyped, ThreadPlaced
<1> PICK o \in RP!Objects : o = thread[u].obj BY <1>1 DEF Made
<1>2. SameNews /\ UNCHANGED <<part, roomMedia, stranded>>
  BY DEF RP!DropParticipant, SameNews, RP!roomVars, RP!sfuVars, RP!ghosts
<1>3. DropsRoom(o) /\ RP!Step(u, "unpublish") BY DEF RP!DropParticipant, DropsRoom
<1>4. o[1] \in Identities BY DEF RP!Objects
<1>5. /\ remoteParticipants'[o[1]] = RP!None
      /\ \A i \in Identities : i # o[1] => remoteParticipants'[i] = remoteParticipants[i]
  BY <1>3, <1>4 DEF DropsRoom, RoomTyped
<1>6. part[o].sid \in RP!Sids /\ part[o].sid[1] = o[1] BY <1>1 DEF PartsTyped
<1>7. Becomes(u, "unpublish", thread[u].infos, thread[u].leaving, o, thread[u].old)
  BY <1>3, StepBecomes
<1>8. ASSUME ~Emptying(u) PROVE Does(u, Head1(u), o[1]) /\ Head1(u).left
  <2>1. thread[u].old = RP!None BY <1>1, <1>8 DEF Emptying
  <2>2. thread[u].infos # <<>> /\ Head1(u).left /\ o[1] = Head1(u).sid[1] BY <1>1, <2>1
  <2>3. thread[u].leaving = {} BY <1>1, <1>8 DEF ThreadsTyped, ThreadPlaced
  <2>4. /\ Head1(u).sid[1] \in Identities /\ Head1(u).sid \in RP!Sids
        /\ Head1(u) \in Infos /\ Told(Head1(u)) /\ News(u, Head1(u).sid[1]) = {Head1(u)}
    BY <2>2, HeadInfo
  <2> QED BY <1>8, <2>2, <2>3, <2>4 DEF Does, Handles
<1>9. Departed(u, o) BY <1>1, <1>2, <1>3, <1>4, <1>5, <1>6, <1>7, <1>8 DEF Departed, DropsRoom
<1> QED BY <1>9

\* What has been overtaken is not followed, and nothing is said of it.
LEMMA NotFollowed ==
  ASSUME RoomKinds, NEW j, j \in roomOvertaken PROVE Good(j)
<1>1. j \in roomCrossed BY DEF RoomKinds, LinkTyped
<1> QED BY <1>1 DEF Good, Sequential, Followed, SidsExact, Emptied, Follows, Live

\* The step leaves other participants as they were.
LEMMA ChangedOther ==
  ASSUME RoomKinds, NEW u \in RP!Updaters, NEW x, NEW i, NEW o, NEW at, NEW d, Changed(u, x, i, o, at, d),
         at # "remove", NEW j \in Identities, j # i, SidsOf(j)' = SidsOf(j), Good(j)
  PROVE  Good(j)'
<1>1. SameRoom(j)
  <2>1. remoteParticipants'[j] = remoteParticipants[j] BY DEF Changed
  <2>2. \A y \in RP!Objects : y[1] = j => part'[y] = part[y] BY DEF Changed
  <2>3. There(j) => remoteParticipants[j] \in RP!Objects /\ remoteParticipants[j][1] = j
    BY DEF RoomKinds, RoomTyped, Made
  <2> QED BY <2>1, <2>2, <2>3 DEF SameRoom, Part
<1>2. Becomes(u, at, thread[u].infos, thread[u].leaving, o, d) /\ ~Handles(u, j) /\ ~Emptying(u)
  BY DEF Changed, Does, Handles
<1>3. SameHand(u, j) BY <1>2, StepHand
<1>4. thread'[u].infos = thread[u].infos BY <1>2 DEF Becomes
<1>5. AtPlace(u, j)' BY <1>2, <1>4 DEF AtPlace, Handles, Head1
<1> QED BY <1>1, <1>2, <1>3, <1>5, UpdaterFrame DEF Becomes, Changed

\* Of the participant it is about only this updater is told.
LEMMA OneHand ==
  ASSUME RoomKinds, NEW u \in RP!Updaters, NEW x, NEW i, Does(u, x, i), Good(i), i \notin roomOvertaken
  PROVE  /\ Followed(i) /\ roomLink # "joining" /\ AtPlace(u, i)
         /\ \A v \in RP!Updaters : v # u => ~InHand(v, i) /\ ~Handles(v, i)
         /\ \A v \in RP!Updaters : \A o \in RP!Objects : o[1] = i => ~Drops(v, o)
         /\ \A v \in RP!Updaters : News(v, i) = IF v = u THEN {x} ELSE {}
<1>1. i \in Identities /\ Telling(u, i) BY DEF Does, Telling
<1>2. roomLink # "joining"
  <2> SUFFICES ASSUME roomLink = "joining" PROVE FALSE OBVIOUS
  <2>1. ~Telling("reader", i) BY DEF Good, Emptied
  <2>2. thread["worker"].infos = <<>> BY DEF RoomKinds, LinkTyped
  <2>3. ~Telling("worker", i) BY <2>2, NoneTold DEF Telling, News
  <2> QED BY <1>1, <2>1, <2>3 DEF RP!Updaters
<1>3. Followed(i) BY <1>2 DEF Followed
<1>4. \A v \in RP!Updaters : v # u => ~InHand(v, i) BY <1>1, <1>3, Exclusive DEF Good
<1>5. \A o : ~Drops(u, o) BY DEF Does, Drops
<1>6. \A v \in RP!Updaters : v # u => ~Handles(v, i)
  <2> SUFFICES ASSUME NEW v \in RP!Updaters, Handles(v, i) PROVE Telling(v, i)
    BY <1>4 DEF InHand
  <2>1. News(v, Head1(v).sid[1]) = {Head1(v)} BY HeadInfo DEF Handles, RoomKinds
  <2> QED BY <2>1 DEF Handles, Telling
<1>7. AtPlace(u, i) BY <1>3 DEF Good, Sequential
<1>8. \A v \in RP!Updaters : News(v, i) = IF v = u THEN {x} ELSE {}
  BY <1>4 DEF Does, InHand, Telling
<1> QED BY <1>2, <1>3, <1>4, <1>5, <1>6, <1>7, <1>8 DEF InHand

\* The participant it is about is then as the info says, or gone.
LEMMA ChangedGood ==
  ASSUME RoomKinds, RoomKinds', NEW u \in RP!Updaters, NEW x, NEW i, Does(u, x, i), SameNews,
         Good(i), i \notin roomOvertaken,
         NEW at, NEW o, NEW d, Becomes(u, at, thread[u].infos, {}, o, d),
         ~Emptying(u)', AtPlace(u, i)', SidsExact(i)',
         There(i)' => /\ Part(i)'.sid = x.sid /\ Part(i)'.version = x.version
                      /\ Part(i)'.pubs = x.tracks,
         \A s \in SidsOf(i)' : s \in SidsOf(i) \/ s = x.sid,
         Live(i) /\ There(i)' => x.sid \in sidToIdentity' \/ Resids(u, i)'
  PROVE  Good(i)'
<1>1. /\ Followed(i) /\ roomLink # "joining" /\ AtPlace(u, i) /\ i \in Identities
      /\ \A v \in RP!Updaters : v # u => ~InHand(v, i) /\ ~Handles(v, i)
      /\ \A v \in RP!Updaters : \A y \in RP!Objects : y[1] = i => ~Drops(v, y)
      /\ \A v \in RP!Updaters : News(v, i) = IF v = u THEN {x} ELSE {}
  BY OneHand DEF Does
<1>2. /\ \A k : Queued(k, i)' = Queued(k, i) /\ (About(k, i)' <=> About(k, i))
      /\ NoneQueued(i)' <=> NoneQueued(i)
      /\ \A s : Over(s)' <=> Over(s)
      /\ Followed(i)' <=> Followed(i)
      /\ Live(i)' <=> Live(i)
      /\ \A y, z, T : Before(y, T, z)' <=> Before(y, T, z)
  BY <1>1, SameWords
<1>3. UNCHANGED <<world, roomUpdates, roomLink, roomOvertaken, roomCrossed>> BY DEF SameNews
<1>4. /\ thread'[u].infos = thread[u].infos /\ thread'[u].leaving = {}
      /\ \A v \in RP!Updaters : v # u => thread'[v] = thread[v]
  BY DEF Becomes
<1>5. \A v \in RP!Updaters : News(v, i)' = News(v, i)
  <2>1. \A v \in RP!Updaters : thread'[v].infos = thread[v].infos BY <1>4
  <2> QED BY <2>1 DEF News, Of
<1>6. \A v \in RP!Updaters : \A y \in RP!Objects : y[1] = i => ~Drops(v, y)'
  <2>1. \A y : ~Drops(u, y)' BY <1>4 DEF Drops
  <2>2. \A v \in RP!Updaters : v # u => \A y : Drops(v, y)' <=> Drops(v, y) BY <1>4 DEF Drops, Emptying
  <2> QED BY <1>1, <2>1, <2>2
<1>7. \A v \in RP!Updaters : (Telling(v, i)' <=> Telling(v, i)) /\ (InHand(v, i)' <=> Telling(v, i))
  BY <1>5, <1>6 DEF Telling, InHand
<1>8. \A v \in RP!Updaters : Telling(v, i) <=> v = u BY <1>1 DEF Telling
<1>9. Sequential(i)'
  <2>1. Alone(i)' BY <1>7, <1>8 DEF Alone, RP!Updaters
  <2>2. DropsItsOwn(i)' BY <1>6 DEF DropsItsOwn
  <2>3. ASSUME NEW v \in RP!Updaters PROVE AtPlace(v, i)'
    <3>1. CASE v = u BY <3>1
    <3>2. CASE v # u
      <4>1. ~Handles(v, i)' BY <3>2, <1>1, <1>4 DEF Handles, Head1
      <4> QED BY <4>1 DEF AtPlace
    <3> QED BY <3>1, <3>2
  <2> QED BY <2>1, <2>2, <2>3 DEF Sequential
<1>10. Emptied(i)' BY <1>1, <1>3 DEF Emptied
<1>11. Ordered(i) BY DEF Good, Follows
<1>12. \A k \in DOMAIN roomUpdates : \A y \in Queued(k, i) : Before(x, x.tracks, y)
  BY <1>1, <1>11 DEF Ordered
<1>13. Ordered(i)'
  <2>1. There(i)' => \A y, T : (Before(Part(i), T, y)' <=> Before(x, T, y))
    BY <1>3 DEF Before, Upto
  <2>2. Before(x, x.tracks, x) BY DatedInfos DEF Before, Upto, Dated, Does
  <2>3. There(i)' => Before(Part(i), Part(i).pubs, x)'
    <3>1. There(i)' => Upto(x, x) /\ x.tracks \cap world[x.sid[1]].tracks \subseteq x.tracks
      BY <2>2 DEF Before
    <3> QED BY <3>1, <1>3 DEF Before, Upto
  <2>4. There(i)' => \A k \in DOMAIN roomUpdates : \A y \in Queued(k, i) :
                       Before(Part(i), Part(i).pubs, y)'
    <3> SUFFICES ASSUME There(i)', NEW k \in DOMAIN roomUpdates, NEW y \in Queued(k, i)
                 PROVE  Before(Part(i), Part(i).pubs, y)'
      OBVIOUS
    <3>1. Before(x, x.tracks, y) BY <1>12
    <3> QED BY <3>1, <1>3 DEF Before, Upto
  <2>5. There(i)' => /\ \A v \in RP!Updaters : \A y \in News(v, i)' : Before(Part(i), Part(i).pubs, y)'
                     /\ \A k \in DOMAIN roomUpdates' : \A y \in Queued(k, i)' :
                          Before(Part(i), Part(i).pubs, y)'
    <3>1. There(i)' => \A v \in RP!Updaters : \A y \in News(v, i)' : Before(Part(i), Part(i).pubs, y)'
      <4> SUFFICES ASSUME There(i)', NEW v \in RP!Updaters, NEW y \in News(v, i)'
                   PROVE  Before(Part(i), Part(i).pubs, y)'
        OBVIOUS
      <4>1. y = x BY <1>1, <1>5
      <4>2. Before(Part(i), Part(i).pubs, x)' BY <2>3
      <4> QED BY <4>1, <4>2 DEF Before, Upto
    <3>2. There(i)' => \A k \in DOMAIN roomUpdates' : \A y \in Queued(k, i)' :
                          Before(Part(i), Part(i).pubs, y)'
      BY <2>4, <1>2, <1>3
    <3> QED BY <3>1, <3>2
  <2>6. /\ \A v \in RP!Updaters : \A y \in News(v, i)' :
             \A k \in DOMAIN roomUpdates' : \A z \in Queued(k, i)' : Before(y, y.tracks, z)'
        /\ \A k, l \in DOMAIN roomUpdates' : k < l =>
             \A y \in Queued(k, i)', z \in Queued(l, i)' : Before(y, y.tracks, z)'
    BY <1>2, <1>3, <1>5, <1>11 DEF Ordered
  <2> QED BY <2>5, <2>6 DEF Ordered
<1>14. Live(i) => Ended(i)'
  <2> SUFFICES ASSUME Live(i) PROVE Ended(i)' OBVIOUS
  <2>1. Ended(i) BY DEF Good, Follows
  <2>2. ASSUME There(i)', NEW l \in DOMAIN roomUpdates, roomUpdates[l].moved PROVE Over(Part(i).sid)'
    <3>1. Over(x.sid) BY <2>1, <2>2, <1>1 DEF Ended
    <3> QED BY <3>1, <2>2, <1>3 DEF Over
  <2>3. \A v \in RP!Updaters : \A y \in News(v, i)' : y.left => Over(y.sid)'
    BY <2>1, <1>2, <1>5 DEF Ended
  <2>4. /\ \A k \in DOMAIN roomUpdates' : \A y \in Queued(k, i)' : y.left => Over(y.sid)'
        /\ \A l \in DOMAIN roomUpdates' : roomUpdates'[l].moved =>
             /\ There(i)' => Over(Part(i).sid)'
             /\ \A v \in RP!Updaters : \A y \in News(v, i)' : Over(y.sid)'
             /\ \A k \in DOMAIN roomUpdates' : k < l => \A y \in Queued(k, i)' : Over(y.sid)'
    BY <2>1, <2>2, <1>2, <1>3, <1>5 DEF Ended
  <2> QED BY <2>3, <2>4, <1>6 DEF Ended
<1>15. Live(i) => LastWord(i)'
  <2> SUFFICES ASSUME Live(i) PROVE LastWord(i)' OBVIOUS
  <2>1. LastWord(i) BY DEF Good, Follows
  <2>2. \A f : Says(f, i)' <=> Says(f, i) BY <1>3 DEF Says, Of
  <2>3. \A k \in DOMAIN roomUpdates' :
          About(k, i)' /\ (\A l \in DOMAIN roomUpdates' : l > k => ~About(l, i)') =>
            Says(roomUpdates[k].infos, i)'
    <3>1. \A k : Says(roomUpdates[k].infos, i)' <=> Says(roomUpdates[k].infos, i)
      BY <1>3 DEF Says, Of
    <3> QED BY <3>1, <2>1, <1>2, <1>3 DEF LastWord
  <2>4. ASSUME NoneQueued(i), NEW v \in RP!Updaters, InHand(v, i)' PROVE Says(thread[v].infos, i)'
    <3>1. v = u /\ InHand(u, i) BY <2>4, <1>7, <1>8 DEF InHand
    <3>2. Says(thread[v].infos, i) BY <2>1, <2>4, <3>1 DEF LastWord
    <3> QED BY <3>1, <3>2, <1>3, <1>5 DEF Says, News
  <2>5. InHand(u, i)' BY <1>7, <1>8
  <2> QED BY <2>3, <2>4, <2>5, <1>2 DEF LastWord
<1>16. Live(i) => Known(i)'
  <2> SUFFICES ASSUME Live(i) PROVE Known(i)' OBVIOUS
  <2>1. Known(i) BY DEF Good, Follows
  <2>2. There(i)' => Part(i)'.sid \in sidToIdentity' \/ Renaming(i)'
    BY DEF Renaming
  <2>3. x.sid[2] \in Nat BY DatedInfos DEF Dated, Does
  <2>4. ASSUME NEW s \in SidsOf(i)'
        PROVE  /\ There(i)' => s[2] <= Part(i)'.sid[2]
               /\ \A v \in RP!Updaters : \A y \in News(v, i)' : s[2] <= y.sid[2]
               /\ \A k \in DOMAIN roomUpdates' : \A y \in Queued(k, i)' : s[2] <= y.sid[2]
    <3>1. CASE s \in SidsOf(i)
      <4>1. s[2] <= x.sid[2] BY <3>1, <2>1, <1>1 DEF Known
      <4>2. \A v \in RP!Updaters : \A y \in News(v, i)' : s[2] <= y.sid[2]
        BY <4>1, <1>1, <1>5
      <4>3. \A k \in DOMAIN roomUpdates' : \A y \in Queued(k, i)' : s[2] <= y.sid[2]
        BY <3>1, <2>1, <1>2, <1>3 DEF Known
      <4> QED BY <4>1, <4>2, <4>3
    <3>2. CASE s = x.sid
      <4>1. ASSUME NEW k \in DOMAIN roomUpdates, NEW y \in Queued(k, i) PROVE x.sid[2] <= y.sid[2]
        <5>1. Upto(x, y) BY <1>12 DEF Before
        <5>2. y \in Infos
          <6>1. PICK n \in DOMAIN roomUpdates[k].infos : y = roomUpdates[k].infos[n] BY DEF Queued, Of
          <6> QED BY <6>1 DEF RoomKinds, QueueTyped, Told
        <5>3. y.sid[2] \in Nat BY <5>2, DatedInfos DEF Dated
        <5> QED BY <5>1, <5>3, <2>3 DEF Upto
      <4>2. \A v \in RP!Updaters : \A y \in News(v, i)' : s[2] <= y.sid[2]
        BY <3>2, <1>1, <1>5, <2>3
      <4>3. \A k \in DOMAIN roomUpdates' : \A y \in Queued(k, i)' : s[2] <= y.sid[2]
        BY <3>2, <4>1, <1>2, <1>3
      <4> QED BY <3>2, <4>2, <4>3, <2>3
    <3> QED BY <3>1, <3>2
  <2> QED BY <2>2, <2>4 DEF Known
<1> QED BY <1>2, <1>9, <1>10, <1>13, <1>14, <1>15, <1>16 DEF Good, Follows

\* After an info is applied the participant is as it says.
LEMMA AppliedPart ==
  ASSUME RoomKinds, NEW x, Told(x), NEW o \in RP!Objects, x.sid[1] = o[1],
         part' = [part EXCEPT ![o] = RP!updated(o, x)],
         Made(o) => Upto(part[o], x)
  PROVE  /\ part'[o].sid = x.sid /\ part'[o].version = x.version /\ part'[o].pubs = x.tracks
         /\ part'[o].attached = part[o].attached \cap x.tracks
<1>1. x \in Infos /\ x.version \in Nat BY DEF Told, Infos, RP!Info
<1>2. ~RP!Refused(o, x)
  <2>1. CASE ~Made(o) BY <2>1, <1>1, UpdatedPart DEF RoomKinds
  <2>2. CASE Made(o)
    <3>1. part[o].sid \in RP!Sids /\ part[o].version \in Nat BY <2>2 DEF RoomKinds, PartsTyped
    <3>2. part[o].sid[2] \in Nat BY <3>1, DatedInfos
    <3>3. part[o].sid[2] < x.sid[2] \/ (part[o].sid = x.sid /\ part[o].version <= x.version)
      BY <2>2 DEF Upto
    <3>4. part[o].sid = x.sid => part[o].version <= x.version BY <3>2, <3>3
    <3> QED BY <3>1, <3>4, <1>1 DEF RP!Refused
  <2> QED BY <2>1, <2>2
<1>3. RP!updated(o, x) = [sid |-> x.sid, version |-> x.version, pubs |-> x.tracks,
                          attached |-> part[o].attached \cap x.tracks]
  BY <1>1, <1>2, UpdatedPart DEF RoomKinds
<1>4. part'[o] = RP!updated(o, x) BY DEF RoomKinds, PartsTyped
<1> QED BY <1>3, <1>4

LEMMA AddGood ==
  ASSUME RoomKinds, RoomKinds', NEW u \in RP!Updaters, NEW x, NEW i, NEW o, Adds(u, x, i, o),
         NEW j \in Identities, Good(j)
  PROVE  Good(j)'
<1>1. Changed(u, x, i, o, "clear", RP!None) BY DEF Adds
<1>2. i \in Identities /\ Does(u, x, i) /\ SameNews /\ x.sid[1] = i BY <1>1 DEF Changed, Does
<1>3. CASE j # i
  <2>1. SidsOf(j)' = SidsOf(j) BY <1>2, <1>3 DEF Adds, SidsOf
  <2> PICK at, d : at = "clear" /\ d = RP!None OBVIOUS
  <2>2. at # "remove" /\ Changed(u, x, i, o, at, d) BY <1>1
  <2> QED BY <2>1, <2>2, <1>3, ChangedOther
<1>4. CASE j \in roomOvertaken
  <2>1. j \in roomOvertaken' BY <1>2, <1>4 DEF SameNews
  <2>2. (j \in roomOvertaken => Good(j))' BY NotFollowed, PTL
  <2> QED BY <2>1, <2>2
<1>5. CASE j = i /\ i \notin roomOvertaken
  <2>1. /\ Followed(i) /\ AtPlace(u, i) /\ \A v \in RP!Updaters : v # u => ~Handles(v, i)
    BY <1>2, <1>5, OneHand
  <2>2. ~There(i) BY <2>1, <1>2 DEF AtPlace, Does, Adds
  <2>3. ~Made(o) BY <2>2 DEF Adds
  <2>4. /\ part'[o].sid = x.sid /\ part'[o].version = x.version /\ part'[o].pubs = x.tracks
    <3>1. Told(x) /\ o \in RP!Objects /\ x.sid[1] = o[1] BY <1>1 DEF Changed, Does
    <3>2. part' = [part EXCEPT ![o] = RP!updated(o, x)] BY DEF Adds
    <3> QED BY <2>3, <3>1, <3>2, AppliedPart
  <2>5. /\ thread'[u].at = "clear" /\ thread'[u].infos = thread[u].infos /\ thread'[u].obj = o
        /\ \A v \in RP!Updaters : v # u => thread'[v] = thread[v]
    BY <1>1 DEF Changed, Becomes
  <2>6. Part(i)' = part'[o] /\ remoteParticipants'[i] = o BY DEF Part, Adds
  <2>7. Head1(u)' = x BY <2>5, <1>2 DEF Head1, Does
  <2>8. AtPlace(u, i)' BY <2>4, <2>5, <2>6, <2>7 DEF AtPlace, Applying
  <2>9. SidsOf(i)' = SidsOf(i) \cup {x.sid} BY <1>2 DEF SidsOf, Adds
  <2>10. There(i)'
    <3>1. RP!None \notin RP!Objects BY DEF RP!None, RP!Objects
    <3> QED BY <3>1, <2>6, <1>1 DEF There, Changed
  <2>11. SidsExact(i)'
    <3>1. i \notin roomCrossed => SidsOf(i) = {} BY <2>2, <1>5 DEF Good, SidsExact
    <3>2. i \notin roomCrossed' => \A s \in SidsOf(i)' : s = Part(i)'.sid
      BY <3>1, <2>4, <2>6, <2>9, <1>2 DEF SameNews
    <3> QED BY <3>2, <2>10 DEF SidsExact
  <2>12. x.sid \in sidToIdentity' BY DEF Adds
  <2>13. \A s \in SidsOf(i)' : s \in SidsOf(i) \/ s = x.sid BY <2>9
  <2>14. ~Emptying(u)' BY <2>5 DEF Emptying
  <2>15. There(i)' => /\ Part(i)'.sid = x.sid /\ Part(i)'.version = x.version
                      /\ Part(i)'.pubs = x.tracks
    BY <2>4, <2>6
  <2>16. \E at, d : Becomes(u, at, thread[u].infos, {}, o, d) BY <1>1 DEF Changed
  <2> QED BY <1>2, <1>5, <2>8, <2>11, <2>12, <2>13, <2>14, <2>15, <2>16, ChangedGood
<1> QED BY <1>3, <1>4, <1>5

LEMMA UpdateGood ==
  ASSUME RoomKinds, RoomKinds', NEW u \in RP!Updaters, NEW x, NEW i, NEW o, Updates(u, x, i, o),
         NEW j \in Identities, Good(j)
  PROVE  Good(j)'
<1> PICK at : at = IF part'[o].sid # part[o].sid THEN "resid" ELSE "clear" OBVIOUS
<1> PICK d : d = part[o].sid OBVIOUS
<1>1. Changed(u, x, i, o, at, d) /\ at \in {"resid", "clear"} BY DEF Updates
<1>2. i \in Identities /\ Does(u, x, i) /\ SameNews /\ x.sid[1] = i BY <1>1 DEF Changed, Does
<1>3. CASE j # i
  <2>1. SidsOf(j)' = SidsOf(j) BY DEF Updates, SidsOf
  <2> QED BY <2>1, <1>1, <1>3, ChangedOther
<1>4. CASE j \in roomOvertaken
  <2>1. j \in roomOvertaken' BY <1>2, <1>4 DEF SameNews
  <2>2. (j \in roomOvertaken => Good(j))' BY NotFollowed, PTL
  <2> QED BY <2>1, <2>2
<1>5. CASE j = i /\ i \notin roomOvertaken
  <2>1. /\ Followed(i) /\ AtPlace(u, i) /\ \A v \in RP!Updaters : v # u => ~Handles(v, i)
        /\ News(u, i) = {x}
    BY <1>2, <1>5, OneHand
  <2>2. remoteParticipants[i] = o BY <2>1, <1>2 DEF AtPlace, Does, Updates, Applying
  <2>3. There(i) /\ Made(o)
    <3>1. RP!None \notin RP!Objects BY DEF RP!None, RP!Objects
    <3> QED BY <3>1, <2>2, <1>1 DEF There, Changed, Updates
  <2>4. Ordered(i) BY <1>5 DEF Good, Follows
  <2>5. Before(part[o], part[o].pubs, x) BY <2>1, <2>2, <2>3, <2>4 DEF Ordered, Part
  <2>6. /\ part'[o].sid = x.sid /\ part'[o].version = x.version /\ part'[o].pubs = x.tracks
    <3>1. Told(x) /\ o \in RP!Objects /\ x.sid[1] = o[1] BY <1>1 DEF Changed, Does
    <3>2. part' = [part EXCEPT ![o] = RP!updated(o, x)] BY DEF Updates
    <3>3. Upto(part[o], x) BY <2>5 DEF Before
    <3> QED BY <3>1, <3>2, <3>3, AppliedPart
  <2>7. /\ thread'[u].at = at /\ thread'[u].infos = thread[u].infos /\ thread'[u].obj = o
        /\ thread'[u].old = d
        /\ \A v \in RP!Updaters : v # u => thread'[v] = thread[v]
    BY <1>1 DEF Changed, Becomes
  <2>8. Part(i)' = part'[o] /\ remoteParticipants'[i] = o BY <2>2 DEF Part, Updates
  <2>9. Head1(u)' = x /\ Handles(u, i)' BY <2>7, <1>2 DEF Head1, Does, Handles
  <2>10. at = "resid" <=> x.sid # part[o].sid BY <2>6
  <2>11. at = "resid" => d[2] < x.sid[2] BY <2>5, <2>10 DEF Before, Upto
  <2>12. AtPlace(u, i)' BY <2>6, <2>7, <2>8, <2>9, <2>11, <1>1 DEF AtPlace, Applying
  <2>13. SidsOf(i)' = SidsOf(i) BY DEF SidsOf, Updates
  <2>14. Part(i) = part[o] BY <2>2 DEF Part
  <2>15. ~Renaming(i)
    <3>1. thread[u].at # "resid" BY DEF Updates
    <3> QED BY <3>1, <2>1 DEF Renaming, Resids
  <2>16. SidsExact(i)'
    <3>1. i \notin roomCrossed => \A s \in SidsOf(i) : s = part[o].sid
      BY <2>3, <2>14, <2>15, <1>5 DEF Good, SidsExact, Renaming
    <3>2. ASSUME i \notin roomCrossed, NEW s \in SidsOf(i), s # x.sid
          PROVE  Resids(u, i)' /\ s = thread'[u].old
      <4>1. s = d /\ at = "resid" BY <3>1, <3>2, <2>10
      <4> QED BY <4>1, <2>7, <2>9 DEF Resids
    <3>3. roomCrossed' = roomCrossed BY <1>2 DEF SameNews
    <3>4. There(i)' BY <2>2, <2>3, <2>8 DEF There
    <3> QED BY <3>2, <3>3, <3>4, <2>6, <2>8, <2>13 DEF SidsExact
  <2>17. Live(i) => x.sid \in sidToIdentity' \/ Resids(u, i)'
    <3>1. Live(i) => part[o].sid \in sidToIdentity
      BY <2>3, <2>14, <2>15, <1>5 DEF Good, Follows, Known
    <3>2. CASE at = "resid" BY <3>2, <2>7, <2>9 DEF Resids
    <3>3. CASE at # "resid" BY <3>1, <3>3, <2>10 DEF Updates
    <3> QED BY <3>2, <3>3
  <2>18. ~Emptying(u)' BY <2>7, <1>1 DEF Emptying
  <2>19. There(i)' => /\ Part(i)'.sid = x.sid /\ Part(i)'.version = x.version
                      /\ Part(i)'.pubs = x.tracks
    BY <2>6, <2>8
  <2>20. Becomes(u, at, thread[u].infos, {}, o, d) BY <1>1 DEF Changed
  <2> QED BY <1>2, <1>5, <2>12, <2>13, <2>16, <2>17, <2>18, <2>19, <2>20, ChangedGood
<1> QED BY <1>3, <1>4, <1>5

LEMMA ResidGood ==
  ASSUME RoomKinds, RoomKinds', NEW u \in RP!Updaters, NEW x, NEW i, NEW o, Renames(u, x, i, o),
         NEW j \in Identities, Good(j)
  PROVE  Good(j)'
<1> PICK d : d = thread[u].old OBVIOUS
<1>1. Changed(u, x, i, o, "clear", d) BY DEF Renames
<1>2. i \in Identities /\ Does(u, x, i) /\ SameNews /\ x.sid[1] = i BY <1>1 DEF Changed, Does
<1>3. part[o].sid[1] = i /\ d[1] = i BY <1>1 DEF Renames, Changed, RoomKinds, PartsTyped
<1>4. CASE j # i
  <2>1. SidsOf(j)' = SidsOf(j) BY <1>3, <1>4 DEF Renames, SidsOf
  <2> PICK at : at = "clear" OBVIOUS
  <2>2. at # "remove" /\ Changed(u, x, i, o, at, d) BY <1>1
  <2> QED BY <2>1, <2>2, <1>4, ChangedOther
<1>5. CASE j \in roomOvertaken
  <2>1. j \in roomOvertaken' BY <1>2, <1>5 DEF SameNews
  <2>2. (j \in roomOvertaken => Good(j))' BY NotFollowed, PTL
  <2> QED BY <2>1, <2>2
<1>6. CASE j = i /\ i \notin roomOvertaken
  <2>1. /\ Followed(i) /\ AtPlace(u, i) /\ \A v \in RP!Updaters : v # u => ~Handles(v, i)
    BY <1>2, <1>6, OneHand
  <2>2. /\ remoteParticipants[i] = o /\ part[o].sid = x.sid /\ part[o].version = x.version
        /\ part[o].pubs = x.tracks
    BY <2>1, <1>2 DEF AtPlace, Does, Renames, Applying, Part
  <2>3. There(i)
    <3>1. RP!None \notin RP!Objects BY DEF RP!None, RP!Objects
    <3> QED BY <3>1, <2>2, <1>1 DEF There, Changed
  <2>4. Part(i) = part[o] /\ Part(i)' = part[o] /\ remoteParticipants'[i] = o /\ There(i)'
    BY <2>2, <2>3 DEF Part, Renames, There
  <2>5. /\ thread'[u].at = "clear" /\ thread'[u].infos = thread[u].infos /\ thread'[u].obj = o
        /\ \A v \in RP!Updaters : v # u => thread'[v] = thread[v]
    BY <1>1 DEF Changed, Becomes
  <2>6. Head1(u)' = x BY <2>5, <1>2 DEF Head1, Does
  <2>7. AtPlace(u, i)' BY <2>2, <2>4, <2>5, <2>6 DEF AtPlace, Applying
  <2>8. SidsOf(i)' = (SidsOf(i) \ {d}) \cup {x.sid} BY <2>2, <1>2 DEF SidsOf, Renames
  <2>9. SidsExact(i)'
    <3>1. i \notin roomCrossed => \A s \in SidsOf(i) : s = part[o].sid \/ s = d
      BY <2>1, <2>3, <2>4, <1>6 DEF Good, SidsExact, Resids
    <3>2. i \notin roomCrossed' => \A s \in SidsOf(i)' : s = Part(i)'.sid
      BY <3>1, <2>2, <2>4, <2>8, <1>2 DEF SameNews
    <3> QED BY <3>2, <2>4 DEF SidsExact
  <2>10. x.sid \in sidToIdentity' BY <2>2 DEF Renames
  <2>11. \A s \in SidsOf(i)' : s \in SidsOf(i) \/ s = x.sid BY <2>8
  <2>12. ~Emptying(u)' BY <2>5 DEF Emptying
  <2>13. There(i)' => /\ Part(i)'.sid = x.sid /\ Part(i)'.version = x.version
                      /\ Part(i)'.pubs = x.tracks
    BY <2>2, <2>4
  <2>14. \E at : Becomes(u, at, thread[u].infos, {}, o, d) BY <1>1 DEF Changed
  <2> QED BY <1>2, <1>6, <2>7, <2>9, <2>10, <2>11, <2>12, <2>13, <2>14, ChangedGood
<1> QED BY <1>4, <1>5, <1>6

\* A participant is dropped.
LEMMA DropGood ==
  ASSUME RoomKinds, RoomKinds', NEW u \in RP!Updaters, NEW o, Departed(u, o),
         NEW j \in Identities, Good(j)
  PROVE  Good(j)'
<1>1. SameNews /\ Becomes(u, "unpublish", thread[u].infos, thread[u].leaving, o, thread[u].old)
  BY DEF Departed
<1>2. /\ thread'[u].at = "unpublish" /\ thread'[u].infos = thread[u].infos
      /\ thread'[u].leaving = thread[u].leaving /\ thread'[u].obj = o /\ thread'[u].old = thread[u].old
      /\ \A v \in RP!Updaters : v # u => thread'[v] = thread[v]
  BY <1>1 DEF Becomes
<1>3. thread[u].at = "remove" /\ thread[u].obj = o /\ o \in RP!Objects BY DEF Departed
<1>4. \A y \in RP!Objects : Drops(u, y)' <=> y \in thread[u].leaving BY <1>2 DEF Drops, Emptying
<1>5. \A y \in RP!Objects : y # o => (Drops(u, y)' <=> Drops(u, y)) BY <1>3, <1>4 DEF Drops
<1>6. News(u, j)' = News(u, j) BY <1>2 DEF News, Of
<1>7. Emptying(u)' <=> Emptying(u) BY <1>2, <1>3 DEF Emptying
<1>8. ~Resids(u, j)' /\ ~Resids(u, j) BY <1>2, <1>3 DEF Resids
<1>9. SidsOf(j)' = SidsOf(j) \ {part[o].sid} BY DEF SidsOf, Departed
<1>10. CASE j # o[1]
  <2>1. SameRoom(j)
    <3>1. SidsOf(j)' = SidsOf(j) BY <1>9, <1>10 DEF SidsOf, Departed
    <3> QED BY <3>1, <1>10 DEF SameRoom, Part, Departed
  <2>2. SameHand(u, j) BY <1>5, <1>6, <1>8, <1>10 DEF SameHand
  <2>3. AtPlace(u, j)'
    <3>1. Handles(u, j)' => Emptying(u)
      <4>1. ~Emptying(u) => Head1(u).sid[1] = o[1] BY DEF Departed, Does
      <4> QED BY <4>1, <1>2, <1>10 DEF Handles, Head1
    <3> QED BY <3>1, <1>2, <1>7 DEF AtPlace, Applying
  <2> QED BY <1>1, <1>2, <2>1, <2>2, <2>3, UpdaterFrame
<1>11. CASE j \in roomOvertaken
  <2>1. j \in roomOvertaken' BY <1>1, <1>11 DEF SameNews
  <2>2. (j \in roomOvertaken => Good(j))' BY NotFollowed, PTL
  <2> QED BY <2>1, <2>2
<1>12. CASE j = o[1] /\ j \notin roomOvertaken /\ ~Emptying(u)
  <2> PICK x, i : x = Head1(u) /\ i = j OBVIOUS
  <2>1. Does(u, x, i) /\ x.left BY <1>12 DEF Departed
  <2>2. ~There(i)' BY <1>12 DEF There, Departed
  <2>3. /\ Followed(i) /\ AtPlace(u, i) /\ \A v \in RP!Updaters : v # u => ~Handles(v, i)
    BY <2>1, <1>12, OneHand
  <2>4. remoteParticipants[i] = o BY <2>1, <2>3, <1>3, <1>12 DEF AtPlace, Does
  <2>5. There(i) /\ Part(i) = part[o]
    <3>1. RP!None \notin RP!Objects BY DEF RP!None, RP!Objects
    <3> QED BY <3>1, <2>4, <1>3 DEF There, Part
  <2>6. AtPlace(u, i)' BY <1>2, <2>2 DEF AtPlace, Applying
  <2>7. SidsExact(i)'
    <3>1. i \notin roomCrossed => \A s \in SidsOf(i) : s = part[o].sid
      BY <2>3, <2>5, <1>3, <1>12 DEF Good, SidsExact, Resids
    <3>2. roomCrossed' = roomCrossed BY <1>1 DEF SameNews
    <3> QED BY <3>1, <3>2, <2>2, <1>9 DEF SidsExact
  <2>8. \A s \in SidsOf(i)' : s \in SidsOf(i) \/ s = x.sid BY <1>9
  <2>9. ~Emptying(u)' BY <1>7, <1>12
  <2>10. \E at, d : Becomes(u, at, thread[u].infos, {}, o, d) BY <1>1, <2>1 DEF Does
  <2>11. i \notin roomOvertaken /\ Good(i) BY <1>12
  <2>12. Good(i)' BY <1>1, <2>1, <2>2, <2>6, <2>7, <2>8, <2>9, <2>10, <2>11, ChangedGood
  <2> QED BY <2>12
<1>13. CASE j = o[1] /\ j \notin roomOvertaken /\ Emptying(u)
  <2>1. ~There(j)' BY <1>13 DEF There, Departed
  <2>2. Drops(u, o) /\ InHand(u, j) BY <1>3, <1>13 DEF Drops, InHand
  <2>3. \A v \in RP!Updaters : v # u => \A y \in RP!Objects : Drops(v, y)' <=> Drops(v, y)
    BY <1>2 DEF Drops, Emptying
  <2>4. \A v \in RP!Updaters : \A y \in RP!Objects : Drops(v, y)' => Drops(v, y)
    BY <1>4, <2>3 DEF Drops
  <2>5. \A v \in RP!Updaters : News(v, j)' = News(v, j)
    <3>1. \A v \in RP!Updaters : thread'[v].infos = thread[v].infos BY <1>2
    <3> QED BY <3>1 DEF News, Of
  <2>6. \A v \in RP!Updaters : (Telling(v, j)' <=> Telling(v, j)) /\ (InHand(v, j)' => InHand(v, j))
    BY <2>4, <2>5 DEF Telling, InHand
  <2>7. /\ \A k : Queued(k, j)' = Queued(k, j) /\ (About(k, j)' <=> About(k, j))
        /\ NoneQueued(j)' <=> NoneQueued(j)
        /\ \A s : Over(s)' <=> Over(s)
        /\ Followed(j)' <=> Followed(j)
        /\ Live(j)' <=> Live(j)
        /\ \A y, z, T : Before(y, T, z)' <=> Before(y, T, z)
    BY <1>1, SameWords
  <2>8. UNCHANGED <<world, roomUpdates, roomLink, roomOvertaken, roomCrossed, part>>
    BY <1>1 DEF SameNews, Departed
  <2>9. ASSUME Followed(j), NEW v \in RP!Updaters, v # u PROVE ~Telling(v, j) /\ ~Handles(v, j)
    <3>1. ~Telling(v, j) BY <2>2, <2>9, Exclusive DEF Good
    <3>2. Handles(v, j) => News(v, j) = {Head1(v)} BY HeadInfo DEF Handles, RoomKinds
    <3> QED BY <3>1, <3>2 DEF Telling
  <2>10. Sequential(j)'
    <3> SUFFICES ASSUME Followed(j) PROVE Alone(j)' /\ DropsItsOwn(j)' /\ \A v \in RP!Updaters : AtPlace(v, j)'
      BY <2>7 DEF Sequential
    <3>1. Alone(j)'
      <4>1. Alone(j) BY DEF Good, Sequential
      <4> QED BY <4>1, <2>6 DEF Alone, RP!Updaters
    <3>2. DropsItsOwn(j)' BY <2>1 DEF DropsItsOwn, There
    <3>3. AtPlace(u, j)' BY <1>2, <1>7, <1>13 DEF AtPlace, Applying
    <3>4. ASSUME NEW v \in RP!Updaters, v # u PROVE AtPlace(v, j)'
      <4>1. ~Handles(v, j)' BY <3>4, <2>9, <1>2 DEF Handles, Head1
      <4> QED BY <4>1 DEF AtPlace
    <3> QED BY <3>1, <3>2, <3>3, <3>4
  <2>11. SidsExact(j)'
    <3> SUFFICES ASSUME j \notin roomCrossed PROVE SidsOf(j)' = {} BY <2>1, <2>8 DEF SidsExact
    <3>1. Followed(j) BY DEF Followed, RoomKinds, LinkTyped
    <3>2. ~There(j) => SidsOf(j) = {} BY DEF Good, SidsExact
    <3>3. remoteParticipants[j] \in {o, RP!None} BY <3>1, <2>2, <1>3, <1>13 DEF Good, Sequential, DropsItsOwn
    <3>4. There(j) => Part(j) = part[o] BY <3>3 DEF There, Part
    <3>5. \A v \in RP!Updaters : ~Resids(v, j) BY <3>1, <2>9, <1>8 DEF Resids
    <3>6. There(j) => \A s \in SidsOf(j) : s = part[o].sid BY <3>4, <3>5 DEF Good, SidsExact
    <3> QED BY <3>2, <3>6, <1>9
  <2>12. Emptied(j)'
    <3>1. Telling("reader", j)' <=> Telling("reader", j) BY <2>6 DEF RP!Updaters
    <3> QED BY <3>1, <2>1, <2>8 DEF Emptied, Good
  <2>13. Ordered(j)'
    <3>1. Ordered(j) BY <1>13 DEF Good, Follows
    <3> QED BY <3>1, <2>1, <2>5, <2>7, <2>8 DEF Ordered
  <2>14. Live(j) => Ended(j)'
    <3> SUFFICES ASSUME Ended(j) PROVE Ended(j)' BY DEF Good, Follows
    <3>1. \A v \in RP!Updaters : \A y \in RP!Objects : y[1] = j /\ Drops(v, y)' => Over(part[y].sid)'
      BY <2>4, <2>8 DEF Ended, Over
    <3> QED BY <3>1, <2>1, <2>5, <2>7, <2>8 DEF Ended
  <2>15. Live(j) => LastWord(j)'
    <3> SUFFICES ASSUME LastWord(j), Live(j) PROVE LastWord(j)' BY DEF Good, Follows
    <3>1. \A k \in DOMAIN roomUpdates' :
            About(k, j)' /\ (\A l \in DOMAIN roomUpdates' : l > k => ~About(l, j)') =>
              Says(roomUpdates[k].infos, j)'
      <4>1. \A k : Says(roomUpdates[k].infos, j)' <=> Says(roomUpdates[k].infos, j)
        BY <2>8 DEF Says, Of
      <4> QED BY <4>1, <2>7, <2>8 DEF LastWord
    <3>2. ASSUME NEW v \in RP!Updaters PROVE Says(thread[v].infos, j)' <=> Says(thread[v].infos, j)
      BY <2>5, <2>8 DEF Says, News
    <3>3. NoneQueued(j) => \A v \in RP!Updaters : InHand(v, j)' => Says(thread[v].infos, j)'
      BY <3>2, <2>6 DEF LastWord
    <3>4. ASSUME NoneQueued(j), \A v \in RP!Updaters : ~InHand(v, j)' PROVE RoomIs(j)'
      <4>1. Says(thread[u].infos, j) BY <2>2, <3>4 DEF LastWord
      <4>2. News(u, j) = {} BY <3>4, <2>6 DEF InHand, Telling
      <4>3. world[j].left BY <4>1, <4>2 DEF Says, News
      <4> QED BY <4>3, <2>1, <2>8 DEF RoomIs
    <3> QED BY <3>1, <3>3, <3>4, <2>7 DEF LastWord
  <2>16. Live(j) => Known(j)'
    <3> SUFFICES ASSUME Known(j) PROVE Known(j)' BY DEF Good, Follows
    <3> QED BY <2>1, <2>5, <2>7, <2>8, <1>9 DEF Known
  <2> QED BY <2>7, <2>10, <2>11, <2>12, <2>13, <2>14, <2>15, <2>16 DEF Good, Follows
<1> QED BY <1>10, <1>11, <1>12, <1>13

\* A media track goes on.
LEMMA QuietGood ==
  ASSUME RoomKinds, SameNews, UNCHANGED <<thread, remoteParticipants, sidToIdentity>>,
         NEW j \in Identities, Good(j),
         \A o \in RP!Objects : /\ part'[o].sid = part[o].sid /\ part'[o].version = part[o].version
                               /\ part'[o].pubs = part[o].pubs
  PROVE  Good(j)'
<1>1. SameRoom(j)
  <2>1. There(j) => remoteParticipants[j] \in RP!Objects BY DEF RoomKinds, RoomTyped, Made
  <2> QED BY <2>1 DEF SameRoom, Part, SidsOf
<1>2. \A v \in RP!Updaters : SameHand(v, j) /\ (AtPlace(v, j) => AtPlace(v, j)')
  BY <1>1, OtherHand
<1> QED BY <1>1, <1>2, Frame DEF Good, Sequential

\* The reader takes a message.
LEMMA ReadGood ==
  ASSUME RoomKinds, RoomKinds', NEW m, Reads(m), NEW j \in Identities, Good(j)
  PROVE  Good(j)'
<1>1. CASE j \in roomOvertaken'
  <2>1. (j \in roomOvertaken => Good(j))' BY NotFollowed, PTL
  <2> QED BY <1>1, <2>1
<1>2. CASE j \notin roomOvertaken'
  <2> PICK L : L = IF m.moved THEN RP!Participants ELSE {} OBVIOUS
  <2>1. /\ roomLink = "up" /\ roomLink' = "up" /\ thread["reader"].at = "idle"
        /\ m = roomUpdates[1] /\ 1 \in DOMAIN roomUpdates
        /\ Takes("reader", m.infos, L)
        /\ \A k \in DOMAIN roomUpdates' : k + 1 \in DOMAIN roomUpdates /\ roomUpdates'[k] = roomUpdates[k + 1]
        /\ \A k \in DOMAIN roomUpdates : k # 1 =>
             \E l \in DOMAIN roomUpdates' : k = l + 1 /\ roomUpdates'[l] = roomUpdates[k]
        /\ UNCHANGED <<remoteParticipants, sidToIdentity, part, world>>
    BY DEF Reads
  <2>2. "reader" \in RP!Updaters /\ "worker" \in RP!Updaters /\ RP!Updaters = {"reader", "worker"}
    BY DEF RP!Updaters
  <2>3. /\ thread'["worker"] = thread["worker"] /\ thread'["reader"].infos = m.infos
        /\ thread'["reader"].leaving = L /\ thread'["reader"].at \in {"leave", "look", "idle"}
    BY <2>1, <2>2 DEF Takes, Becomes
  <2>4. /\ j \notin roomOvertaken
        /\ thread["worker"].infos # <<>> => ~m.moved /\ j \notin RP!Named(m.infos)
    BY <1>2 DEF Reads
  <2>5. Followed(j) /\ Followed(j)' /\ Live(j) /\ Live(j)' BY <1>2, <2>1, <2>4 DEF Followed, Live
  <2>6. thread["reader"].infos = <<>> /\ thread["reader"].leaving = {}
    BY <2>1, <2>2 DEF RoomKinds, ThreadsTyped, ThreadPlaced, Emptying
  <2>7. thread["worker"].leaving = {} /\ ~Emptying("worker") BY <2>1 DEF RoomKinds, LinkTyped
  <2>8. News("reader", j) = {} /\ News("reader", j)' = Queued(1, j) /\ News("worker", j)' = News("worker", j)
    BY <2>1, <2>3, <2>6, NoneTold DEF News, Queued, Of
  <2>9. /\ \A o : ~Drops("worker", o) /\ ~Drops("worker", o)' /\ ~Drops("reader", o)
        /\ \A o : Drops("reader", o)' <=> o \in L
    BY <2>1, <2>3, <2>6, <2>7 DEF Drops, Emptying
  <2>10. thread["worker"].infos # <<>> => Queued(1, j) = {} /\ ~About(1, j) /\ L = {}
    <3> SUFFICES ASSUME thread["worker"].infos # <<>> PROVE Queued(1, j) = {} /\ ~About(1, j) /\ L = {}
      OBVIOUS
    <3>1. Queued(1, j) = {} BY <2>1, <2>4 DEF Queued, Of, RP!Named
    <3> QED BY <3>1, <2>1, <2>4 DEF About
  <2>11. thread["worker"].infos = <<>> => News("worker", j) = {} BY NoneTold DEF News
  <2>12. \A o \in L : o[1] = j => remoteParticipants[j] = o /\ There(j) /\ m.moved
    <3> SUFFICES ASSUME NEW o \in L, o[1] = j PROVE remoteParticipants[j] = o /\ There(j) /\ m.moved
      OBVIOUS
    <3>1. o \in RP!Participants /\ m.moved OBVIOUS
    <3>2. Made(o) /\ remoteParticipants[o[1]] = o BY <3>1, ParticipantsMade DEF RoomKinds
    <3>3. RP!None \notin RP!Objects BY DEF RP!None, RP!Objects
    <3> QED BY <3>1, <3>2, <3>3 DEF Made, There
  <2>13. There(j) /\ m.moved => remoteParticipants[j] \in L /\ remoteParticipants[j][1] = j
                                /\ remoteParticipants[j] \in RP!Objects
    BY ParticipantsMade DEF RoomKinds, RoomTyped, Made
  <2>14. (There(j)' <=> There(j)) /\ (There(j) => Part(j)' = Part(j)) /\ SidsOf(j)' = SidsOf(j)
    BY <2>1 DEF There, Part, SidsOf
  <2>15. \A k : Queued(k, j)' = Of(roomUpdates'[k].infos, j) BY DEF Queued, Of
  <2>16. \A k \in DOMAIN roomUpdates' :
           /\ k + 1 \in DOMAIN roomUpdates /\ Queued(k, j)' = Queued(k + 1, j)
           /\ About(k, j)' <=> About(k + 1, j)
    BY <2>1, <2>15 DEF Queued, About
  <2>17. \A x, y, T : Before(x, T, y)' <=> Before(x, T, y) BY <2>1 DEF Before, Upto
  <2>18. \A s : Over(s)' <=> Over(s) BY <2>1 DEF Over
  <2>19. DOMAIN roomUpdates \subseteq Nat /\ DOMAIN roomUpdates' \subseteq Nat
         /\ \A k \in DOMAIN roomUpdates' : 1 < k + 1
    <3>1. roomUpdates \in Seq([moved : BOOLEAN, infos : Seq(Infos)]) BY DEF RoomKinds, QueueTyped
    <3>2. roomUpdates' \in Seq([moved : BOOLEAN, infos : Seq(Infos)]) BY DEF RoomKinds, QueueTyped
    <3> PICK M : M = [moved : BOOLEAN, infos : Seq(Infos)] OBVIOUS
    <3>3. DOMAIN roomUpdates = 1 .. Len(roomUpdates) BY <3>1, LenProperties
    <3>4. DOMAIN roomUpdates' = 1 .. Len(roomUpdates') BY <3>2, LenProperties
    <3> QED BY <3>3, <3>4
  <2>20. Sequential(j)'
    <3>1. Alone(j)'
      <4> SUFFICES ASSUME Telling("worker", j)' PROVE ~InHand("reader", j)' BY DEF Alone
      <4>1. thread["worker"].infos # <<>> BY <2>8, <2>11 DEF Telling
      <4>2. News("reader", j)' = {} /\ L = {} BY <4>1, <2>8, <2>10
      <4> QED BY <4>2, <2>9 DEF InHand, Telling
    <3>2. DropsItsOwn(j)' BY <2>1, <2>2, <2>9, <2>12 DEF DropsItsOwn
    <3>3. AtPlace("reader", j)' BY <2>3 DEF AtPlace, Applying
    <3>4. AtPlace("worker", j)'
      <4>1. SameRoom(j) BY <2>1, AllSameRoom DEF AllSame
      <4>2. AtPlace("worker", j) BY <2>2, <2>5 DEF Good, Sequential
      <4> QED BY <4>1, <4>2, <2>2, <2>3, OtherHand
    <3> QED BY <3>1, <3>2, <3>3, <3>4, <2>2 DEF Sequential
  <2>21. /\ ~Resids("reader", j) /\ ~Resids("reader", j)'
         /\ Resids("worker", j)' <=> Resids("worker", j)
    BY <2>1, <2>3 DEF Resids, Handles, Head1
  <2>22. SidsExact(j)'
    <3> SUFFICES ASSUME j \notin roomCrossed' PROVE SidsExact(j)' BY DEF SidsExact
    <3>1. j \notin roomCrossed BY DEF Reads
    <3>2. There(j) => \A s \in SidsOf(j) : s = Part(j).sid \/ (Resids("worker", j) /\ s = thread["worker"].old)
      BY <3>1, <2>2, <2>21 DEF Good, SidsExact
    <3>3. ~There(j) => SidsOf(j) = {} BY <3>1 DEF Good, SidsExact
    <3> QED BY <3>2, <3>3, <2>2, <2>3, <2>14, <2>21 DEF SidsExact
  <2>23. Emptied(j)' BY <2>1 DEF Emptied
  <2>24. Ordered(j) /\ Ended(j) /\ LastWord(j) /\ Known(j) BY <2>4, <2>5 DEF Good, Follows
  <2>25. Ordered(j)'
    <3>1. There(j)' => /\ \A u \in RP!Updaters : \A y \in News(u, j)' : Before(Part(j), Part(j).pubs, y)
                       /\ \A k \in DOMAIN roomUpdates' : \A y \in Queued(k, j)' : Before(Part(j), Part(j).pubs, y)
      BY <2>1, <2>2, <2>8, <2>14, <2>16, <2>24 DEF Ordered
    <3>2. There(j)' => \A y, T : Before(Part(j), T, y)' <=> Before(Part(j), T, y)
      BY <2>1, <2>14 DEF Before, Upto
    <3>3. There(j)' => /\ \A u \in RP!Updaters : \A y \in News(u, j)' : Before(Part(j), Part(j).pubs, y)'
                       /\ \A k \in DOMAIN roomUpdates' : \A y \in Queued(k, j)' : Before(Part(j), Part(j).pubs, y)'
      BY <2>1, <2>14, <3>1 DEF Before, Upto
    <3>4. \A u \in RP!Updaters : \A x \in News(u, j)' :
            \A k \in DOMAIN roomUpdates' : \A y \in Queued(k, j)' : Before(x, x.tracks, y)
      <4>1. \A x \in News("reader", j)' :
              \A k \in DOMAIN roomUpdates' : \A y \in Queued(k, j)' : Before(x, x.tracks, y)
        BY <2>1, <2>8, <2>16, <2>19, <2>24 DEF Ordered
      <4>2. \A x \in News("worker", j)' :
              \A k \in DOMAIN roomUpdates' : \A y \in Queued(k, j)' : Before(x, x.tracks, y)
        BY <2>2, <2>8, <2>16, <2>24 DEF Ordered
      <4> QED BY <4>1, <4>2, <2>2
    <3>5. \A k, l \in DOMAIN roomUpdates' : k < l =>
            \A x \in Queued(k, j)', y \in Queued(l, j)' : Before(x, x.tracks, y)
      <4>1. \A k, l \in DOMAIN roomUpdates' : k < l => k + 1 < l + 1 BY <2>19
      <4> QED BY <4>1, <2>16, <2>24 DEF Ordered
    <3> QED BY <3>3, <3>4, <3>5, <2>17 DEF Ordered
  <2>26. Ended(j)'
    <3>1. \A u \in RP!Updaters : \A x \in News(u, j)' : x.left => Over(x.sid)
      BY <2>1, <2>2, <2>8, <2>24 DEF Ended
    <3>2. \A k \in DOMAIN roomUpdates' : \A x \in Queued(k, j)' : x.left => Over(x.sid)
      BY <2>16, <2>24 DEF Ended
    <3>3. ASSUME NEW l \in DOMAIN roomUpdates', roomUpdates'[l].moved
          PROVE  /\ There(j) => Over(Part(j).sid)
                 /\ \A u \in RP!Updaters : \A x \in News(u, j)' : Over(x.sid)
                 /\ \A k \in DOMAIN roomUpdates' : k < l => \A x \in Queued(k, j)' : Over(x.sid)
      <4>1. l + 1 \in DOMAIN roomUpdates /\ roomUpdates[l + 1].moved BY <3>3, <2>1
      <4>2. There(j) => Over(Part(j).sid) BY <4>1, <2>24 DEF Ended
      <4>3. \A k \in DOMAIN roomUpdates : k < l + 1 => \A x \in Queued(k, j) : Over(x.sid)
        BY <4>1, <2>24 DEF Ended
      <4>4. \A x \in News("worker", j) : Over(x.sid) BY <4>1, <2>2, <2>24 DEF Ended
      <4>5. \A x \in News("reader", j)' : Over(x.sid) BY <4>3, <2>1, <2>8, <2>19
      <4>6. \A k \in DOMAIN roomUpdates' : k < l => k + 1 < l + 1 BY <2>19
      <4> QED BY <4>2, <4>3, <4>4, <4>5, <4>6, <2>2, <2>8, <2>16
    <3>4. \A u \in RP!Updaters : \A o \in RP!Objects : o[1] = j /\ Drops(u, o)' => Over(part[o].sid)
      <4>1. m.moved => (There(j) => Over(Part(j).sid)) BY <2>1, <2>24 DEF Ended
      <4> QED BY <4>1, <2>2, <2>9, <2>12 DEF Part
    <3>5. There(j)' => (Over(Part(j).sid)' <=> Over(Part(j).sid)) BY <2>1, <2>14 DEF Over
    <3>6. \A o : Over(part[o].sid)' <=> Over(part[o].sid) BY <2>1 DEF Over
    <3>7. /\ \A u \in RP!Updaters : \A x \in News(u, j)' : x.left => Over(x.sid)'
          /\ \A k \in DOMAIN roomUpdates' : \A x \in Queued(k, j)' : x.left => Over(x.sid)'
          /\ \A l \in DOMAIN roomUpdates' : roomUpdates'[l].moved =>
               /\ There(j)' => Over(Part(j).sid)'
               /\ \A u \in RP!Updaters : \A x \in News(u, j)' : Over(x.sid)'
               /\ \A k \in DOMAIN roomUpdates' : k < l => \A x \in Queued(k, j)' : Over(x.sid)'
      BY <3>1, <3>2, <3>3, <3>5, <2>14, <2>18
    <3> QED BY <3>4, <3>6, <3>7 DEF Ended
  <2>27. LastWord(j)'
    <3>1. \A f : Says(f, j)' <=> Says(f, j) BY <2>1 DEF Says, Of
    <3>2. ASSUME NEW k \in DOMAIN roomUpdates', About(k, j)', \A l \in DOMAIN roomUpdates' : l > k => ~About(l, j)'
          PROVE  Says(roomUpdates[k].infos, j)'
      <4>1. k + 1 \in DOMAIN roomUpdates /\ About(k + 1, j) /\ roomUpdates'[k] = roomUpdates[k + 1]
        BY <3>2, <2>1, <2>16
      <4>2. ASSUME NEW l \in DOMAIN roomUpdates, l > k + 1 PROVE ~About(l, j)
        <5>1. l # 1 BY <4>2, <2>19
        <5>2. PICK n \in DOMAIN roomUpdates' : l = n + 1 BY <5>1, <2>1
        <5>3. n > k BY <4>2, <5>2, <2>19
        <5> QED BY <5>2, <5>3, <3>2, <2>16
      <4>3. Says(roomUpdates[k + 1].infos, j) BY <4>1, <4>2, <2>24 DEF LastWord
      <4> QED BY <4>1, <4>3, <2>1 DEF Says, Of
    <3>3. ASSUME NoneQueued(j)'
          PROVE  /\ \A u \in RP!Updaters : InHand(u, j)' => Says(thread[u].infos, j)'
                 /\ (\A u \in RP!Updaters : ~InHand(u, j)') => RoomIs(j)'
      <4>1. \A l \in DOMAIN roomUpdates' : ~About(l, j)' BY <3>3 DEF NoneQueued
      <4>2. \A l \in DOMAIN roomUpdates : l # 1 => ~About(l, j) BY <4>1, <2>1, <2>16
      <4>3. RoomIs(j)' <=> RoomIs(j) BY <2>1, <2>14 DEF RoomIs
      <4>4. InHand("worker", j)' <=> InHand("worker", j) BY <2>8, <2>9 DEF InHand, Telling
      <4>5. Says(thread["worker"].infos, j)' <=> Says(thread["worker"].infos, j)
        BY <2>1, <2>3 DEF Says, Of
      <4>6. Says(thread["reader"].infos, j)' <=> Says(m.infos, j) BY <2>1, <2>3 DEF Says, Of
      <4>7. CASE ~About(1, j)
        <5>1. NoneQueued(j) BY <4>2, <4>7 DEF NoneQueued
        <5>2. ~InHand("reader", j)' BY <4>7, <2>1, <2>8, <2>9 DEF InHand, Telling, About
        <5>3. ~InHand("reader", j) BY <2>8, <2>9 DEF InHand, Telling
        <5> QED BY <5>1, <5>2, <5>3, <4>3, <4>4, <4>5, <2>2, <2>24 DEF LastWord
      <4>8. CASE About(1, j)
        <5>1. Says(m.infos, j)
          <6>1. \A l \in DOMAIN roomUpdates : l > 1 => ~About(l, j) BY <4>2, <2>19
          <6> QED BY <6>1, <4>8, <2>1, <2>24 DEF LastWord
        <5>2. ~InHand("worker", j)' BY <4>8, <2>8, <2>9, <2>10, <2>11 DEF InHand, Telling
        <5>3. ASSUME ~InHand("reader", j)' PROVE RoomIs(j)
          <6>1. Queued(1, j) = {} BY <5>3, <2>8 DEF InHand, Telling
          <6>2. m.moved BY <6>1, <4>8, <2>1 DEF About
          <6>3. ~There(j) BY <6>2, <5>3, <2>9, <2>13 DEF InHand
          <6>4. world[j].left BY <5>1, <6>1, <2>1 DEF Says, Queued
          <6> QED BY <6>3, <6>4 DEF RoomIs
        <5> QED BY <5>1, <5>2, <5>3, <4>3, <4>6, <2>2
      <4> QED BY <4>7, <4>8
    <3> QED BY <3>2, <3>3 DEF LastWord
  <2>28. Known(j)'
    <3>1. Renaming(j)' <=> Renaming(j) BY <2>2, <2>21 DEF Renaming
    <3>2. There(j)' => Part(j)'.sid \in sidToIdentity' \/ Renaming(j)'
      BY <3>1, <2>1, <2>14, <2>24 DEF Known
    <3>3. \A s \in SidsOf(j) :
            /\ There(j) => s[2] <= Part(j).sid[2]
            /\ \A u \in RP!Updaters : \A y \in News(u, j)' : s[2] <= y.sid[2]
            /\ \A k \in DOMAIN roomUpdates' : \A y \in Queued(k, j)' : s[2] <= y.sid[2]
      BY <2>1, <2>2, <2>8, <2>16, <2>24 DEF Known
    <3> QED BY <3>2, <3>3, <2>14 DEF Known
  <2> QED BY <2>20, <2>22, <2>23, <2>25, <2>26, <2>27, <2>28 DEF Good, Follows
<1> QED BY <1>1, <1>2

\* The worker begins to empty the room.
LEMMA RestartGood ==
  ASSUME RoomKinds, RoomKinds', Restarts, NEW j \in Identities, Good(j)
  PROVE  Good(j)'
<1>1. CASE j \in roomOvertaken'
  <2>1. (j \in roomOvertaken => Good(j))' BY NotFollowed, PTL
  <2> QED BY <1>1, <2>1
<1>2. CASE j \notin roomOvertaken'
  <2> PICK L : L = RP!Participants OBVIOUS
  <2>1. /\ roomLink = "down" /\ roomLink' = "joining" /\ thread["worker"].at = "idle"
        /\ Takes("worker", <<>>, L)
        /\ UNCHANGED <<remoteParticipants, sidToIdentity, part, world, roomUpdates>>
    BY DEF Restarts
  <2>2. "reader" \in RP!Updaters /\ "worker" \in RP!Updaters /\ RP!Updaters = {"reader", "worker"}
    BY DEF RP!Updaters
  <2>3. /\ thread'["reader"] = thread["reader"] /\ thread'["worker"].infos = <<>>
        /\ thread'["worker"].leaving = L /\ thread'["worker"].at \in {"leave", "idle"}
    BY <2>1, <2>2 DEF Takes, Becomes
  <2>4. News("reader", j) = {} BY <1>2 DEF Restarts, RP!Named, News, Of
  <2>5. News("reader", j)' = {} /\ News("worker", j)' = {}
    <3>1. News("reader", j)' = News("reader", j) BY <2>3 DEF News, Of
    <3>2. News("worker", j)' = {} BY <2>3, NoneTold DEF News, Of
    <3> QED BY <2>4, <3>1, <3>2
  <2>6. roomUpdates = <<>> /\ roomUpdates' = <<>> BY <2>1 DEF RoomKinds, LinkTyped
  <2>7. \A u \in RP!Updaters : ~Telling(u, j)' BY <2>2, <2>5 DEF Telling
  <2>8. ~Handles("reader", j) /\ ~Handles("reader", j)' /\ ~Handles("worker", j)'
    <3>1. Handles("reader", j) => News("reader", j) = {Head1("reader")}
      BY <2>2, HeadInfo DEF Handles, RoomKinds
    <3>2. ~Handles("reader", j) BY <2>4, <3>1
    <3>3. Handles("reader", j)' <=> Handles("reader", j) BY <2>3 DEF Handles, Head1
    <3>4. ~Handles("worker", j)' BY <2>3 DEF Handles
    <3> QED BY <3>2, <3>3, <3>4
  <2>9. \A o : Drops("reader", o)' <=> Drops("reader", o) BY <2>3 DEF Drops, Emptying
  <2>10. \A o : Drops("worker", o)' <=> o \in L BY <2>3 DEF Drops, Emptying
  <2>11. Sequential(j)'
    <3> SUFFICES ASSUME Followed(j)' PROVE Alone(j)' /\ DropsItsOwn(j)' /\ \A u \in RP!Updaters : AtPlace(u, j)'
      BY DEF Sequential
    <3>1. j \notin roomOvertaken
      <4>1. j \notin roomCrossed' BY <2>1 DEF Followed
      <4>2. roomCrossed' = roomCrossed \cup roomOvertaken' BY DEF Restarts
      <4> QED BY <4>1, <4>2 DEF RoomKinds, LinkTyped
    <3>2. DropsItsOwn(j) BY <3>1, <2>1 DEF Good, Sequential, Followed
    <3>3. Alone(j)' BY <2>2, <2>7 DEF Alone
    <3>4. DropsItsOwn(j)'
      <4>1. \A o \in L : o[1] = j => remoteParticipants[j] = o BY ParticipantsMade DEF RoomKinds
      <4> QED BY <4>1, <3>2, <2>1, <2>2, <2>9, <2>10 DEF DropsItsOwn
    <3>5. \A u \in RP!Updaters : AtPlace(u, j)' BY <2>2, <2>8 DEF AtPlace
    <3> QED BY <3>3, <3>4, <3>5
  <2>12. SidsExact(j)'
    <3> SUFFICES ASSUME j \notin roomCrossed' PROVE SidsExact(j)' BY DEF SidsExact
    <3>1. j \notin roomCrossed BY DEF Restarts
    <3>2. \A u \in RP!Updaters : ~Resids(u, j) BY <2>1, <2>2, <2>8 DEF Resids
    <3>3. SidsOf(j)' = SidsOf(j) /\ (There(j)' <=> There(j)) /\ (There(j) => Part(j)' = Part(j))
      BY <2>1 DEF SidsOf, There, Part
    <3> QED BY <3>1, <3>2, <3>3 DEF Good, SidsExact
  <2>13. Emptied(j)'
    <3>1. There(j)' => Drops("worker", remoteParticipants[j])'
      <4> SUFFICES ASSUME There(j) PROVE remoteParticipants[j] \in L
        BY <2>1, <2>3 DEF There, Drops
      <4> QED BY ParticipantsMade DEF RoomKinds
    <3> QED BY <3>1, <2>2, <2>7 DEF Emptied
  <2>14. Ordered(j)'
    <3>1. DOMAIN roomUpdates' = {} BY <2>6
    <3> QED BY <3>1, <2>2, <2>5 DEF Ordered
  <2>15. ~Live(j)' BY <2>1 DEF Live
  <2> QED BY <2>11, <2>12, <2>13, <2>14, <2>15 DEF Good, Follows
<1> QED BY <1>1, <1>2

\* The worker gets the snapshot.
LEMMA RejoinGood ==
  ASSUME RoomKinds, RoomKinds', NEW f, Rejoins(f), Snapshot(f), NEW j \in Identities, Good(j)
  PROVE  Good(j)'
<1>1. CASE j \in roomOvertaken'
  <2>1. (j \in roomOvertaken => Good(j))' BY NotFollowed, PTL
  <2> QED BY <1>1, <2>1
<1>2. CASE j \notin roomOvertaken'
  <2>1. /\ roomLink = "joining" /\ roomLink' = "up" /\ \A u \in RP!Updaters : thread[u].at = "idle"
        /\ Takes("worker", f, {}) /\ j \notin roomOvertaken
        /\ UNCHANGED <<remoteParticipants, sidToIdentity, part, world, roomUpdates, roomCrossed, roomOvertaken>>
    BY <1>2 DEF Rejoins
  <2>2. "reader" \in RP!Updaters /\ "worker" \in RP!Updaters /\ RP!Updaters = {"reader", "worker"}
    BY DEF RP!Updaters
  <2>3. /\ thread'["reader"] = thread["reader"] /\ thread'["worker"].infos = f
        /\ thread'["worker"].leaving = {} /\ thread'["worker"].at \in {"look", "idle"}
    BY <2>1, <2>2 DEF Takes, Becomes
  <2>4. \A u \in RP!Updaters : thread[u].infos = <<>> /\ thread[u].leaving = {} /\ ~Emptying(u)
    BY <2>1 DEF RoomKinds, ThreadsTyped, ThreadPlaced, Emptying
  <2>5. \A u \in RP!Updaters : \A o : ~Drops(u, o) /\ ~Drops(u, o)'
    BY <2>1, <2>2, <2>3, <2>4 DEF Drops, Emptying
  <2>6. ~There(j) BY <2>1, <2>2, <2>5 DEF Good, Emptied
  <2>7. ~There(j)' /\ SidsOf(j)' = SidsOf(j) BY <2>1, <2>6 DEF There, SidsOf
  <2>8. News("reader", j)' = {} /\ News("worker", j)' = IF world[j].left THEN {} ELSE {world[j]}
    <3>1. News("reader", j)' = {} BY <2>2, <2>3, <2>4, NoneTold DEF News
    <3>2. News("worker", j)' = Of(f, j) BY <2>3 DEF News, Of
    <3> QED BY <3>1, <3>2 DEF Snapshot
  <2>9. roomUpdates = <<>> /\ roomUpdates' = <<>> BY <2>1 DEF RoomKinds, LinkTyped
  <2>10. DOMAIN roomUpdates' = {} BY <2>9
  <2>11. Sequential(j)'
    <3>1. ~InHand("reader", j)' BY <2>2, <2>5, <2>8 DEF InHand, Telling
    <3>2. Alone(j)' BY <3>1 DEF Alone
    <3>3. DropsItsOwn(j)' BY <2>5 DEF DropsItsOwn
    <3>4. AtPlace("worker", j)' BY <2>3 DEF AtPlace, Applying
    <3>5. AtPlace("reader", j)' BY <2>2, <2>3, <2>4 DEF AtPlace, Handles
    <3> QED BY <3>2, <3>3, <3>4, <3>5, <2>2 DEF Sequential
  <2>12. SidsExact(j)' BY <2>1, <2>6, <2>7 DEF SidsExact, Good
  <2>13. Emptied(j)' BY <2>1 DEF Emptied
  <2>14. Ordered(j)' BY <2>7, <2>10 DEF Ordered
  <2>15. Ended(j)'
    <3>1. \A u \in RP!Updaters : \A x \in News(u, j)' : ~x.left BY <2>2, <2>8
    <3> QED BY <3>1, <2>5, <2>10 DEF Ended
  <2>16. LastWord(j)'
    <3>1. \A u \in RP!Updaters : InHand(u, j)' <=> Telling(u, j)' BY <2>5 DEF InHand
    <3>2. ~Telling("reader", j)' /\ (Telling("worker", j)' <=> ~world[j].left)
      BY <2>8 DEF Telling
    <3>3. ~world[j].left => Says(thread["worker"].infos, j)' BY <2>1, <2>8 DEF Says, News
    <3>4. world[j].left => RoomIs(j)' BY <2>1, <2>7 DEF RoomIs
    <3>5. \A u \in RP!Updaters : InHand(u, j)' => Says(thread[u].infos, j)' BY <3>1, <3>2, <3>3, <2>2
    <3>6. (\A u \in RP!Updaters : ~InHand(u, j)') => RoomIs(j)' BY <3>1, <3>2, <3>4, <2>2
    <3> QED BY <3>5, <3>6, <2>10 DEF LastWord
  <2>17. Known(j)'
    <3>1. \A s \in SidsOf(j) : s[2] <= world[j].sid[2]
      <4> SUFFICES ASSUME NEW s \in SidsOf(j) PROVE s[2] <= world[j].sid[2] OBVIOUS
      <4>1. Given(s) /\ s[1] = j /\ s \in RP!Sids BY DEF RoomKinds, RoomTyped, SidsOf
      <4>2. s[2] \in Nat /\ world[j].sid[2] \in Nat
        BY <4>1, DatedInfos DEF RoomKinds, WorldTyped, Dated
      <4> QED BY <4>1, <4>2 DEF Given
    <3>2. \A u \in RP!Updaters : \A y \in News(u, j)' : y = world[j] BY <2>2, <2>8
    <3> QED BY <3>1, <3>2, <2>7, <2>10 DEF Known
  <2> QED BY <2>11, <2>12, <2>13, <2>14, <2>15, <2>16, <2>17 DEF Good, Follows
<1> QED BY <1>1, <1>2

\* The connection fails.
LEMMA LinkGood ==
  ASSUME RoomKinds, LinkGoes, NEW j \in Identities, Good(j)
  PROVE  Good(j)'
<1>1. /\ roomLink = "up" /\ roomLink' = "down" /\ DOMAIN roomUpdates' = {}
      /\ UNCHANGED <<remoteParticipants, sidToIdentity, part, thread, world, roomOvertaken, roomCrossed>>
  BY DEF LinkGoes
<1>2. \A u \in RP!Updaters : News(u, j)' = News(u, j) /\ (InHand(u, j)' <=> InHand(u, j))
                             /\ (Telling(u, j)' <=> Telling(u, j)) /\ (Resids(u, j)' <=> Resids(u, j))
                             /\ \A o : Drops(u, o)' <=> Drops(u, o)
  BY <1>1 DEF News, InHand, Telling, Drops, Emptying, Of, Resids, Handles, Head1
<1>3. Sequential(j)'
  <2>1. Followed(j)' <=> Followed(j) BY <1>1 DEF Followed
  <2>2. Alone(j)' <=> Alone(j) BY <1>2 DEF Alone, RP!Updaters
  <2>3. DropsItsOwn(j)' <=> DropsItsOwn(j) BY <1>1, <1>2 DEF DropsItsOwn
  <2>4. \A u \in RP!Updaters : AtPlace(u, j)' <=> AtPlace(u, j)
    BY <1>1 DEF AtPlace, Handles, Head1, Emptying, There, Part
  <2> QED BY <2>1, <2>2, <2>3, <2>4 DEF Good, Sequential
<1>4. (There(j)' <=> There(j)) /\ Part(j)' = Part(j) /\ SidsOf(j)' = SidsOf(j)
  BY <1>1 DEF There, Part, SidsOf
<1>5. SidsExact(j)' BY <1>1, <1>2, <1>4 DEF Good, SidsExact
<1>6. Emptied(j)' /\ ~Live(j)' BY <1>1 DEF Emptied, Live
<1>7. Ordered(j) => Ordered(j)'
  <2>1. ASSUME There(j), NEW y, Before(Part(j), Part(j).pubs, y) PROVE Before(Part(j), Part(j).pubs, y)'
    BY <2>1, <1>1, <1>4 DEF Before, Upto
  <2> QED BY <2>1, <1>1, <1>2, <1>4 DEF Ordered
<1> QED BY <1>1, <1>3, <1>5, <1>6, <1>7 DEF Good, Follows

\* What was told before stays in its order, and what was over stays so.
LEMMA NewsBefore ==
  ASSUME RoomKinds, NewsStep, NEW j \in Identities
  PROVE  /\ \A x, y, T : T \subseteq used /\ y.sid[1] = j /\ Before(x, T, y) => Before(x, T, y)'
         /\ \A x : Dated(x) /\ Upto(x, world[j]) => Upto(x, world'[j])
         /\ \A x : Told(x) /\ x.sid[1] = j =>
              /\ Dated(x) /\ Upto(x, world[j]) /\ x.sid[2] <= world'[j].sid[2]
              /\ (Over(x.sid) => Over(x.sid)')
              /\ (world'[j].left \/ world[j].sid[2] < world'[j].sid[2] => Over(x.sid)')
<1> PICK w, v : w = world[j] /\ v = world'[j] OBVIOUS
<1>1. w \in Infos /\ v \in Infos /\ w.sid[1] = j /\ v.sid[1] = j
  BY DEF RoomKinds, WorldTyped, NewsStep
<1>2. Dated(w) /\ Dated(v) BY <1>1, DatedInfos
<1>3. Upto(w, v) /\ (v.tracks \ w.tracks) \cap used = {} BY DEF NewsStep, Later
<1>4. \A T : T \subseteq used => T \cap v.tracks \subseteq w.tracks BY <1>3
<1>5. ASSUME NEW x, NEW y, NEW T, T \subseteq used, y.sid[1] = j, Before(x, T, y) PROVE Before(x, T, y)'
  <2>1. Upto(x, y) /\ T \cap w.tracks \subseteq y.tracks BY <1>5 DEF Before
  <2>2. T \cap v.tracks \subseteq y.tracks BY <1>4, <1>5, <2>1
  <2>3. world'[y.sid[1]].tracks = v.tracks BY <1>5
  <2> QED BY <2>1, <2>2, <2>3 DEF Before, Upto
<1>6. \A x : Dated(x) /\ Upto(x, w) => Upto(x, v) BY <1>2, <1>3, UptoOrder
<1>7. ASSUME NEW x, Told(x), x.sid[1] = j
      PROVE  /\ Dated(x) /\ Upto(x, w) /\ x.sid[2] <= v.sid[2]
             /\ (Over(x.sid) => Over(x.sid)')
             /\ (v.left \/ w.sid[2] < v.sid[2] => Over(x.sid)')
  <2>1. Dated(x) /\ Upto(x, w) /\ x.sid \in RP!Sids /\ x.version # 0
    BY <1>7, DatedInfos DEF Told, Infos, RP!Info
  <2>2. x.sid[2] <= w.sid[2] /\ w.sid[2] <= v.sid[2] BY <2>1, <1>2, <1>3 DEF Upto, Dated
  <2>3. x.sid[2] \in Nat /\ w.sid[2] \in Nat /\ v.sid[2] \in Nat BY <2>1, <1>2 DEF Dated
  <2>4. Given(x.sid)
    <3>1. x.sid[2] < w.sid[2] \/ (x.sid = w.sid /\ x.version <= w.version) BY <2>1 DEF Upto
    <3>2. x.version \in Nat /\ w.version \in Nat BY <2>1, <1>2 DEF Dated
    <3>3. x.sid[2] < w.sid[2] \/ (x.sid = w.sid /\ w.version # 0) BY <3>1, <3>2, <2>1
    <3> QED BY <3>3, <1>7 DEF Given
  <2>5. Over(x.sid) => Over(x.sid)' BY <2>1, <2>4, NewsKept
  <2>6. v.left \/ w.sid[2] < v.sid[2] => x.sid[2] < v.sid[2] \/ v.left BY <2>2, <2>3
  <2>7. Over(x.sid)' <=> x.sid[2] < v.sid[2] \/ v.left BY <1>7 DEF Over
  <2> QED BY <2>1, <2>2, <2>3, <2>5, <2>6, <2>7
<1> QED BY <1>5, <1>6, <1>7

\* Every info is told, and so is what the room has of a participant.
LEMMA AllTold ==
  ASSUME RoomKinds, NEW j \in Identities
  PROVE  /\ \A u \in RP!Updaters : \A x \in News(u, j) : Told(x) /\ x.sid[1] = j
         /\ \A k \in DOMAIN roomUpdates : \A x \in Queued(k, j) : Told(x) /\ x.sid[1] = j
         /\ \A o \in RP!Objects : Made(o) /\ o[1] = j =>
              \E x : /\ Told(x) /\ x.sid = part[o].sid /\ x.version = part[o].version
                     /\ x.tracks = part[o].pubs
         /\ There(j) => Made(remoteParticipants[j]) /\ remoteParticipants[j] \in RP!Objects
                        /\ remoteParticipants[j][1] = j
         /\ \A u \in RP!Updaters : \A o \in RP!Objects : Drops(u, o) => Made(o)
<1>1. ASSUME NEW u \in RP!Updaters, NEW x \in News(u, j) PROVE Told(x) /\ x.sid[1] = j
  <2>1. PICK n \in DOMAIN thread[u].infos : x = thread[u].infos[n] /\ x.sid[1] = j BY DEF News, Of
  <2> QED BY <2>1 DEF RoomKinds, ThreadsTyped, ThreadTyped
<1>2. ASSUME NEW k \in DOMAIN roomUpdates, NEW x \in Queued(k, j) PROVE Told(x) /\ x.sid[1] = j
  <2>1. PICK n \in DOMAIN roomUpdates[k].infos : x = roomUpdates[k].infos[n] /\ x.sid[1] = j
    BY DEF Queued, Of
  <2> QED BY <2>1 DEF RoomKinds, QueueTyped
<1>3. ASSUME NEW o \in RP!Objects, Made(o), o[1] = j
      PROVE  \E x : /\ Told(x) /\ x.sid = part[o].sid /\ x.version = part[o].version
                    /\ x.tracks = part[o].pubs
  <2> PICK p : p = part[o] OBVIOUS
  <2>1. p \in PartKind /\ p.sid \in RP!Sids /\ p.sid[1] = j /\ Upto(p, world[j]) /\ p.version # 0
        /\ p.pubs \subseteq used
    BY <1>3 DEF RoomKinds, PartsTyped, PartKind
  <2> PICK x : x = [sid |-> p.sid, version |-> p.version, tracks |-> p.pubs, left |-> FALSE] OBVIOUS
  <2>2. x \in Infos BY <2>1 DEF Infos, RP!Info, PartKind
  <2>3. x.sid = p.sid /\ x.version = p.version /\ x.tracks = p.pubs OBVIOUS
  <2>4. Told(x) BY <2>1, <2>2, <2>3 DEF Told, Upto
  <2> QED BY <2>3, <2>4
<1>4. There(j) => Made(remoteParticipants[j]) /\ remoteParticipants[j] \in RP!Objects
                  /\ remoteParticipants[j][1] = j
  BY DEF RoomKinds, RoomTyped, Made
<1>5. \A u \in RP!Updaters : \A o \in RP!Objects : Drops(u, o) => Made(o)
  BY DEF Drops, RoomKinds, ThreadsTyped, ThreadTyped, ThreadPlaced
<1> QED BY <1>1, <1>2, <1>3, <1>4, <1>5

\* The queue, with the message if one is sent.
Grown(n, m) ==
  /\ DOMAIN roomUpdates = 1 .. n
  /\ \A k \in 1 .. n : roomUpdates'[k] = roomUpdates[k]
  /\ \/ DOMAIN roomUpdates' = 1 .. n /\ roomLink # "up"
     \/ DOMAIN roomUpdates' = 1 .. n + 1 /\ roomUpdates'[n + 1] = m /\ Message(m)

\* The SFU goes on.
LEMMA NewsGood ==
  ASSUME RoomKinds, RoomKinds', NewsStep, NEW j \in Identities, Good(j)
  PROVE  Good(j)'
<1>1. /\ UNCHANGED <<remoteParticipants, sidToIdentity, part, thread, roomLink, roomOvertaken, roomCrossed>>
      /\ used \subseteq used'
  BY DEF NewsStep
<1> PICK w, v : w = world[j] /\ v = world'[j] OBVIOUS
<1>2. \A u \in RP!Updaters : /\ News(u, j)' = News(u, j) /\ (InHand(u, j)' <=> InHand(u, j))
                             /\ (Telling(u, j)' <=> Telling(u, j)) /\ (Resids(u, j)' <=> Resids(u, j))
                             /\ \A o : Drops(u, o)' <=> Drops(u, o)
  BY <1>1 DEF News, InHand, Telling, Drops, Emptying, Of, Resids, Handles, Head1
<1>3. Sequential(j)'
  <2>1. Followed(j)' <=> Followed(j) BY <1>1 DEF Followed
  <2>2. Alone(j)' <=> Alone(j) BY <1>2 DEF Alone, RP!Updaters
  <2>3. DropsItsOwn(j)' <=> DropsItsOwn(j) BY <1>1, <1>2 DEF DropsItsOwn
  <2>4. \A u \in RP!Updaters : AtPlace(u, j)' <=> AtPlace(u, j)
    BY <1>1 DEF AtPlace, Handles, Head1, Emptying, There, Part
  <2> QED BY <2>1, <2>2, <2>3, <2>4 DEF Good, Sequential
<1>4. (There(j)' <=> There(j)) /\ Part(j)' = Part(j) /\ SidsOf(j)' = SidsOf(j)
  BY <1>1 DEF There, Part, SidsOf
<1>5. SidsExact(j)' BY <1>1, <1>2, <1>4 DEF Good, SidsExact
<1>6. Emptied(j)'
  <2>1. Telling("reader", j)' <=> Telling("reader", j) BY <1>2 DEF RP!Updaters
  <2>2. \A o : Drops("worker", o)' <=> Drops("worker", o) BY <1>2 DEF RP!Updaters
  <2>3. There(j) => (Drops("worker", remoteParticipants[j])' <=> Drops("worker", remoteParticipants[j]))
    BY <1>1 DEF Drops, Emptying
  <2> QED BY <2>1, <2>3, <1>1, <1>4 DEF Good, Emptied
<1>7. (Live(j)' <=> Live(j)) BY <1>1 DEF Live
<1>8. \E n \in Nat : \E m : Grown(n, m)
  <2>1. CASE roomLink # "up"
    <3>1. roomUpdates' = roomUpdates BY <2>1 DEF NewsStep
    <3>2. roomUpdates \in Seq([moved : BOOLEAN, infos : Seq(Infos)]) BY DEF RoomKinds, QueueTyped
    <3> PICK M : M = [moved : BOOLEAN, infos : Seq(Infos)] OBVIOUS
    <3>3. DOMAIN roomUpdates = 1 .. Len(roomUpdates) /\ Len(roomUpdates) \in Nat BY <3>2, LenProperties
    <3> QED BY <2>1, <3>1, <3>3 DEF Grown
  <2>2. CASE roomLink = "up"
    <3>1. PICK m : Message(m) /\ roomUpdates' = Append(roomUpdates, m) BY <2>2 DEF NewsStep
    <3>2. m \in [moved : BOOLEAN, infos : Seq(Infos)] BY <3>1 DEF Message
    <3>3. PICK n \in Nat : /\ DOMAIN roomUpdates = 1 .. n /\ DOMAIN roomUpdates' = 1 .. n + 1
                           /\ roomUpdates'[n + 1] = m
                           /\ \A k \in 1 .. n : roomUpdates'[k] = roomUpdates[k]
      BY <3>1, <3>2, Appended
    <3> QED BY <3>1, <3>3 DEF Grown
  <2> QED BY <2>1, <2>2
<1>22. PICK n \in Nat : \E m : Grown(n, m) BY <1>8
<1> PICK m : Grown(n, m) BY <1>22
<1> USE DEF Grown
<1>9. \A k \in DOMAIN roomUpdates : k \in DOMAIN roomUpdates' /\ k <= n /\ k \in Nat /\ k # n + 1
  OBVIOUS
<1>10. \A k \in DOMAIN roomUpdates' :
         k \in DOMAIN roomUpdates
         \/ (k = n + 1 /\ roomUpdates'[k] = m /\ Message(m) /\ roomLink = "up" /\ k \notin DOMAIN roomUpdates)
  <2> SUFFICES ASSUME NEW k \in DOMAIN roomUpdates', k \notin DOMAIN roomUpdates
               PROVE  k = n + 1 /\ roomUpdates'[k] = m /\ Message(m) /\ roomLink = "up"
    OBVIOUS
  <2>1. DOMAIN roomUpdates' = 1 .. n + 1 /\ roomUpdates'[n + 1] = m /\ Message(m) OBVIOUS
  <2>2. k = n + 1 BY <2>1
  <2>3. roomLink = "up"
    <3> SUFFICES ASSUME roomLink # "up" PROVE FALSE OBVIOUS
    <3>1. roomUpdates' = roomUpdates BY DEF NewsStep
    <3> QED BY <3>1
  <2> QED BY <2>1, <2>2, <2>3
<1>11. \A k \in DOMAIN roomUpdates : roomUpdates'[k] = roomUpdates[k] /\ Queued(k, j)' = Queued(k, j)
                                     /\ (About(k, j)' <=> About(k, j))
  BY DEF Queued, About, Of
<1>12. Message(m) => /\ Of(m.infos, j) \subseteq {v}
                     /\ Of(m.infos, j) = {} => IF m.moved THEN v.left ELSE v = w
                     /\ m.moved => v.left \/ w.sid[2] < v.sid[2]
  BY DEF Message
<1>13. \A k \in DOMAIN roomUpdates' : k \notin DOMAIN roomUpdates =>
         /\ Queued(k, j)' = Of(m.infos, j) /\ (About(k, j)' <=> m.moved \/ Of(m.infos, j) # {})
         /\ Queued(k, j)' \subseteq {v}
  <2> SUFFICES ASSUME NEW k \in DOMAIN roomUpdates', k \notin DOMAIN roomUpdates
               PROVE  /\ Queued(k, j)' = Of(m.infos, j) /\ (About(k, j)' <=> m.moved \/ Of(m.infos, j) # {})
                      /\ Queued(k, j)' \subseteq {v}
    OBVIOUS
  <2>1. roomUpdates'[k] = m /\ Message(m) BY <1>10
  <2>2. Queued(k, j)' = Of(m.infos, j) BY <2>1 DEF Queued, Of
  <2>3. About(k, j)' <=> m.moved \/ Of(m.infos, j) # {} BY <2>1, <2>2 DEF About
  <2> QED BY <2>1, <2>2, <2>3, <1>12
<1>14. v.sid[1] = j BY DEF RoomKinds, WorldTyped
<1>15. ASSUME NEW x, Told(x), x.sid[1] = j
       PROVE  /\ \A y : y.sid[1] = j /\ Before(x, x.tracks, y) => Before(x, x.tracks, y)'
              /\ Before(x, x.tracks, v)'
              /\ x.sid[2] <= v.sid[2]
              /\ Over(x.sid) => Over(x.sid)'
              /\ v.left \/ w.sid[2] < v.sid[2] => Over(x.sid)'
  <2>1. x.tracks \subseteq used BY <1>15 DEF Told
  <2>2. /\ Dated(x) /\ Upto(x, world[j]) /\ x.sid[2] <= world'[j].sid[2]
        /\ (Over(x.sid) => Over(x.sid)')
        /\ (world'[j].left \/ world[j].sid[2] < world'[j].sid[2] => Over(x.sid)')
    BY <1>15, NewsBefore
  <2>3. \A y : y.sid[1] = j /\ Before(x, x.tracks, y) => Before(x, x.tracks, y)'
    BY <2>1, NewsBefore
  <2>4. Upto(x, v) BY <2>2, NewsBefore
  <2>5. Before(x, x.tracks, v)'
    <3>1. world'[v.sid[1]] = v BY <1>14
    <3> QED BY <2>4, <3>1 DEF Before, Upto
  <2> QED BY <2>2, <2>3, <2>5
<1>16. /\ \A u \in RP!Updaters : \A x \in News(u, j) : Told(x) /\ x.sid[1] = j
       /\ \A k \in DOMAIN roomUpdates : \A x \in Queued(k, j) : Told(x) /\ x.sid[1] = j
  BY AllTold
<1>17. There(j) => \E x : /\ Told(x) /\ x.sid[1] = j /\ x.sid = Part(j).sid /\ x.version = Part(j).version
                          /\ x.tracks = Part(j).pubs
  <2> SUFFICES ASSUME There(j)
               PROVE  \E x : /\ Told(x) /\ x.sid[1] = j /\ x.sid = Part(j).sid
                             /\ x.version = Part(j).version /\ x.tracks = Part(j).pubs
    OBVIOUS
  <2> PICK o \in RP!Objects : o = remoteParticipants[j] /\ Made(o) /\ o[1] = j BY AllTold
  <2>1. PICK x : Told(x) /\ x.sid = part[o].sid /\ x.version = part[o].version /\ x.tracks = part[o].pubs
    BY AllTold
  <2>2. part[o].sid[1] = j BY DEF RoomKinds, PartsTyped
  <2> QED BY <2>1, <2>2 DEF Part
<1>18. Ordered(j) => Ordered(j)'
  <2> SUFFICES ASSUME Ordered(j) PROVE Ordered(j)' OBVIOUS
  <2>1. ASSUME There(j)
        PROVE  /\ \A u \in RP!Updaters : \A y \in News(u, j)' : Before(Part(j), Part(j).pubs, y)'
               /\ \A k \in DOMAIN roomUpdates' : \A y \in Queued(k, j)' : Before(Part(j), Part(j).pubs, y)'
    <3>1. PICK x : /\ Told(x) /\ x.sid[1] = j /\ x.sid = Part(j).sid /\ x.version = Part(j).version
                   /\ x.tracks = Part(j).pubs
      BY <2>1, <1>17
    <3>2. \A y : Before(x, x.tracks, y) <=> Before(Part(j), Part(j).pubs, y) BY <3>1 DEF Before, Upto
    <3>3. \A y : Before(x, x.tracks, y)' <=> Before(Part(j), Part(j).pubs, y)'
      BY <3>1, <1>4 DEF Before, Upto
    <3>4. \A u \in RP!Updaters : \A y \in News(u, j)' : Before(x, x.tracks, y)'
      BY <3>1, <3>2, <2>1, <1>2, <1>15, <1>16 DEF Ordered
    <3>5. \A k \in DOMAIN roomUpdates' : \A y \in Queued(k, j)' : Before(x, x.tracks, y)'
      <4> SUFFICES ASSUME NEW k \in DOMAIN roomUpdates', NEW y \in Queued(k, j)'
                   PROVE  Before(x, x.tracks, y)'
        OBVIOUS
      <4>1. CASE k \in DOMAIN roomUpdates
        BY <4>1, <3>1, <3>2, <2>1, <1>11, <1>15, <1>16 DEF Ordered
      <4>2. CASE k \notin DOMAIN roomUpdates
        <5>1. y = v BY <4>2, <1>13
        <5> QED BY <5>1, <3>1, <1>15
      <4> QED BY <4>1, <4>2
    <3> QED BY <3>3, <3>4, <3>5
  <2>2. ASSUME NEW u \in RP!Updaters, NEW x \in News(u, j)', NEW k \in DOMAIN roomUpdates', NEW y \in Queued(k, j)'
        PROVE  Before(x, x.tracks, y)'
    <3>1. x \in News(u, j) /\ Told(x) /\ x.sid[1] = j BY <2>2, <1>2, <1>16
    <3>2. CASE k \in DOMAIN roomUpdates BY <3>1, <3>2, <2>2, <1>11, <1>15, <1>16 DEF Ordered
    <3>3. CASE k \notin DOMAIN roomUpdates
      <4>1. y = v BY <3>3, <2>2, <1>13
      <4> QED BY <4>1, <3>1, <1>15
    <3> QED BY <3>2, <3>3
  <2>3. ASSUME NEW k \in DOMAIN roomUpdates', NEW l \in DOMAIN roomUpdates', k < l,
               NEW x \in Queued(k, j)', NEW y \in Queued(l, j)'
        PROVE  Before(x, x.tracks, y)'
    <3>1. k \in DOMAIN roomUpdates
      <4> SUFFICES ASSUME k \notin DOMAIN roomUpdates PROVE FALSE OBVIOUS
      <4>1. k = n + 1 BY <1>10
      <4>2. l = n + 1 \/ l \in 1 .. n BY <1>10
      <4> QED BY <4>1, <4>2, <2>3
    <3>2. x \in Queued(k, j) /\ Told(x) /\ x.sid[1] = j BY <3>1, <2>3, <1>11, <1>16
    <3>3. CASE l \in DOMAIN roomUpdates
      BY <3>1, <3>2, <3>3, <2>3, <1>11, <1>15, <1>16 DEF Ordered
    <3>4. CASE l \notin DOMAIN roomUpdates
      <4>1. y = v BY <3>4, <2>3, <1>13
      <4> QED BY <4>1, <3>2, <1>15
    <3> QED BY <3>3, <3>4
  <2> QED BY <2>1, <2>2, <2>3, <1>4 DEF Ordered
<1>19. Live(j) => Ended(j)'
  <2> SUFFICES ASSUME Ended(j) PROVE Ended(j)' BY DEF Good, Follows
  <2>1. ASSUME NEW u \in RP!Updaters, NEW x \in News(u, j)', x.left PROVE Over(x.sid)'
    BY <2>1, <1>2, <1>15, <1>16 DEF Ended
  <2>2. ASSUME NEW k \in DOMAIN roomUpdates', NEW x \in Queued(k, j)', x.left PROVE Over(x.sid)'
    <3>1. CASE k \in DOMAIN roomUpdates BY <3>1, <2>2, <1>11, <1>15, <1>16 DEF Ended
    <3>2. CASE k \notin DOMAIN roomUpdates
      <4>1. x = v BY <3>2, <2>2, <1>13
      <4> QED BY <4>1, <2>2, <1>14 DEF Over
    <3> QED BY <3>1, <3>2
  <2>3. ASSUME There(j)
        PROVE  /\ Over(Part(j).sid) => Over(Part(j).sid)'
               /\ v.left \/ w.sid[2] < v.sid[2] => Over(Part(j).sid)'
    <3>1. PICK x : Told(x) /\ x.sid[1] = j /\ x.sid = Part(j).sid BY <2>3, <1>17
    <3>2. /\ Over(x.sid) => Over(x.sid)'
          /\ v.left \/ w.sid[2] < v.sid[2] => Over(x.sid)'
      BY <3>1, <1>15
    <3> QED BY <3>1, <3>2, <1>4 DEF Over
  <2>4. ASSUME NEW l \in DOMAIN roomUpdates', roomUpdates'[l].moved
        PROVE  /\ There(j) => Over(Part(j).sid)'
               /\ \A u \in RP!Updaters : \A x \in News(u, j)' : Over(x.sid)'
               /\ \A k \in DOMAIN roomUpdates' : k < l => \A x \in Queued(k, j)' : Over(x.sid)'
    <3>1. CASE l \in DOMAIN roomUpdates
      <4>1. roomUpdates[l].moved BY <3>1, <2>4, <1>11
      <4>2. There(j) => Over(Part(j).sid)' BY <3>1, <4>1, <2>3 DEF Ended
      <4>3. \A u \in RP!Updaters : \A x \in News(u, j)' : Over(x.sid)'
        BY <3>1, <4>1, <1>2, <1>15, <1>16 DEF Ended
      <4>4. ASSUME NEW k \in DOMAIN roomUpdates', k < l, NEW x \in Queued(k, j)' PROVE Over(x.sid)'
        <5>1. k \in DOMAIN roomUpdates
          <6>1. k # n + 1 BY <3>1, <4>4
          <6> QED BY <6>1, <1>10
        <5> QED BY <3>1, <4>1, <4>4, <5>1, <1>11, <1>15, <1>16 DEF Ended
      <4> QED BY <4>2, <4>3, <4>4
    <3>2. CASE l \notin DOMAIN roomUpdates
      <4>2. v.left \/ w.sid[2] < v.sid[2] BY <3>2, <2>4, <1>10, <1>12
      <4>3. There(j) => Over(Part(j).sid)' BY <4>2, <2>3
      <4>4. \A u \in RP!Updaters : \A x \in News(u, j)' : Over(x.sid)'
        BY <4>2, <1>2, <1>15, <1>16
      <4>5. ASSUME NEW k \in DOMAIN roomUpdates', k < l, NEW x \in Queued(k, j)' PROVE Over(x.sid)'
        <5>1. k \in DOMAIN roomUpdates
          <6>1. l = n + 1 BY <3>2, <1>10
          <6>2. k # n + 1 BY <6>1, <4>5
          <6> QED BY <6>2, <1>10
        <5> QED BY <4>2, <4>5, <5>1, <1>11, <1>15, <1>16
      <4> QED BY <4>3, <4>4, <4>5
    <3> QED BY <3>1, <3>2
  <2>5. ASSUME NEW u \in RP!Updaters, NEW o \in RP!Objects, o[1] = j, Drops(u, o)'
        PROVE  Over(part[o].sid)'
    <3>1. Drops(u, o) /\ Made(o) BY <2>5, <1>2, AllTold
    <3>2. PICK x : Told(x) /\ x.sid = part[o].sid BY <3>1, <2>5, AllTold
    <3>3. x.sid[1] = j BY <3>1, <3>2, <2>5 DEF RoomKinds, PartsTyped
    <3>4. Over(x.sid) BY <3>1, <3>2, <2>5 DEF Ended
    <3>5. Over(x.sid)' BY <3>2, <3>3, <3>4, <1>15
    <3> QED BY <3>2, <3>5, <1>1 DEF Over
  <2> QED BY <2>1, <2>2, <2>4, <2>5, <1>4 DEF Ended
<1>20. Live(j) => LastWord(j)'
  <2> SUFFICES ASSUME LastWord(j), Live(j) PROVE LastWord(j)' BY DEF Good, Follows
  <2>1. ASSUME v = w, NEW s PROVE Says(s, j)' <=> Says(s, j) BY <2>1 DEF Says, Of
  <2>2. ASSUME NEW k \in DOMAIN roomUpdates', k \notin DOMAIN roomUpdates
        PROVE  /\ ~About(k, j)' => v = w
               /\ About(k, j)' => Says(roomUpdates[k].infos, j)'
    <3>1. Message(m) /\ roomUpdates'[k] = m BY <2>2, <1>10
    <3>2. Of(m.infos, j) \subseteq {v} /\ (Of(m.infos, j) = {} => IF m.moved THEN v.left ELSE v = w)
      BY <3>1, <1>12
    <3>3. About(k, j)' <=> m.moved \/ Of(m.infos, j) # {} BY <2>2, <1>13
    <3>4. Says(roomUpdates[k].infos, j)' <=> IF Of(m.infos, j) = {} THEN v.left ELSE v \in Of(m.infos, j)
      BY <3>1 DEF Says, Of
    <3> QED BY <3>2, <3>3, <3>4
  <2>3. \E k \in DOMAIN roomUpdates' : k \notin DOMAIN roomUpdates
    <3>1. n + 1 \in DOMAIN roomUpdates' BY DEF Live
    <3> QED BY <3>1
  <2> PICK z \in DOMAIN roomUpdates' : z \notin DOMAIN roomUpdates BY <2>3
  <2>4. z = n + 1 BY <1>10
  <2>5. ASSUME NEW k \in DOMAIN roomUpdates', About(k, j)', \A l \in DOMAIN roomUpdates' : l > k => ~About(l, j)'
        PROVE  Says(roomUpdates[k].infos, j)'
    <3>1. CASE k \notin DOMAIN roomUpdates BY <3>1, <2>2, <2>5
    <3>2. CASE k \in DOMAIN roomUpdates
      <4>1. z > k BY <3>2, <2>4
      <4>2. v = w BY <4>1, <2>2, <2>5
      <4>3. About(k, j) /\ \A l \in DOMAIN roomUpdates : l > k => ~About(l, j)
        BY <3>2, <2>5, <1>9, <1>11
      <4>4. Says(roomUpdates[k].infos, j) BY <3>2, <4>3 DEF LastWord
      <4>5. Of(roomUpdates[k].infos, j)' = Of(roomUpdates[k].infos, j) BY <3>2, <1>11 DEF Of
      <4> QED BY <4>2, <4>4, <4>5 DEF Says
    <3> QED BY <3>1, <3>2
  <2>6. ASSUME NoneQueued(j)'
        PROVE  /\ \A u \in RP!Updaters : InHand(u, j)' => Says(thread[u].infos, j)'
               /\ (\A u \in RP!Updaters : ~InHand(u, j)') => RoomIs(j)'
    <3>1. v = w BY <2>2, <2>6 DEF NoneQueued
    <3>2. NoneQueued(j) BY <2>6, <1>9, <1>11 DEF NoneQueued
    <3>3. \A u \in RP!Updaters : Says(thread[u].infos, j)' <=> Says(thread[u].infos, j)
      BY <3>1, <1>2 DEF Says, News
    <3>4. RoomIs(j)' <=> RoomIs(j) BY <3>1, <1>4 DEF RoomIs
    <3> QED BY <3>2, <3>3, <3>4, <1>2 DEF LastWord
  <2> QED BY <2>5, <2>6 DEF LastWord
<1>21. Live(j) => Known(j)'
  <2> SUFFICES ASSUME Known(j) PROVE Known(j)' BY DEF Good, Follows
  <2>1. Renaming(j)' <=> Renaming(j) BY <1>2 DEF Renaming
  <2>2. \A s \in SidsOf(j) : s[2] <= v.sid[2]
    <3> SUFFICES ASSUME NEW s \in SidsOf(j) PROVE s[2] <= v.sid[2] OBVIOUS
    <3>1. s \in RP!Sids /\ s[1] = j /\ Given(s) BY DEF RoomKinds, RoomTyped, SidsOf
    <3>2. s[2] \in Nat /\ Dated(w) /\ Dated(v)
      BY <3>1, DatedInfos DEF RoomKinds, WorldTyped
    <3>3. Upto(w, v) BY DEF NewsStep, Later
    <3>4. s[2] <= w.sid[2] BY <3>1, <3>2 DEF Given, Dated
    <3> QED BY <3>2, <3>3, <3>4 DEF Dated, Upto
  <2>3. ASSUME NEW s \in SidsOf(j), NEW k \in DOMAIN roomUpdates', NEW y \in Queued(k, j)' PROVE s[2] <= y.sid[2]
    <3>1. CASE k \in DOMAIN roomUpdates BY <3>1, <2>3, <1>11 DEF Known
    <3>2. CASE k \notin DOMAIN roomUpdates
      <4>1. y = v BY <3>2, <2>3, <1>13
      <4> QED BY <4>1, <2>2
    <3> QED BY <3>1, <3>2
  <2> QED BY <2>1, <2>3, <1>1, <1>2, <1>4 DEF Known
<1> QED BY <1>1, <1>3, <1>5, <1>6, <1>7, <1>18, <1>19, <1>20, <1>21 DEF Good, Follows

-----------------------------------------------------------------------------
(* What media found, and what waits.                                       *)

MediaGood == \A t \in Tracks : FoundRight(t) /\ \A i \in Identities : Served(t, i)

Wants(t, i) ==
  /\ Live(i) /\ t \in world[i].tracks /\ roomMedia[t].session = roomSession /\ t \notin stranded

\* A session that is not over is the latest.
LEMMA Latest ==
  ASSUME RoomKinds, NEW i \in Identities, NEW s \in RP!Sids, s[1] = i, ~Over(s),
         NEW r \in RP!Sids, r[1] = i, s[2] <= r[2], r[2] <= world[i].sid[2]
  PROVE  r = s /\ ~Over(r)
<1>1. s[2] \in Nat /\ r[2] \in Nat /\ s = <<i, s[2]>> /\ r = <<i, r[2]>> BY DatedInfos
<1>2. world[i].sid[2] \in Nat BY DatedInfos DEF RoomKinds, WorldTyped, Dated
<1>3. ~(s[2] < world[i].sid[2]) BY DEF Over
<1>4. s[2] = r[2] BY <1>1, <1>2, <1>3
<1>5. r = s BY <1>1, <1>4
<1> QED BY <1>5

\* A track that is published comes of the latest session.
LEMMA WantedSid ==
  ASSUME RoomKinds, NEW t \in Tracks, NEW i \in Identities, t \in world[i].tracks
  PROVE  /\ ~world[i].left /\ world[i].sid \in RP!Sids /\ world[i].sid[1] = i /\ ~Over(world[i].sid)
         /\ roomMedia[t].at # "none" => roomMedia[t].sid = world[i].sid
<1>1. world[i] \in Infos /\ world[i].sid[1] = i /\ ~world[i].left BY DEF RoomKinds, WorldTyped
<1>2. world[i].sid[2] \in Nat BY <1>1, DatedInfos DEF Dated
<1>3. ~Over(world[i].sid) BY <1>1, <1>2 DEF Over
<1> QED BY <1>1, <1>3 DEF RoomKinds, MediaTyped, Infos, RP!Info

\* What the room has of a participant is not newer than what the SFU has.
LEMMA PartSid ==
  ASSUME RoomKinds, NEW i \in Identities, There(i)
  PROVE  /\ Part(i).sid \in RP!Sids /\ Part(i).sid[1] = i /\ Part(i).sid[2] <= world[i].sid[2]
         /\ remoteParticipants[i] \in RP!Objects /\ remoteParticipants[i][1] = i
         /\ Made(remoteParticipants[i]) /\ Part(i).attached \subseteq Part(i).pubs
<1> PICK o \in RP!Objects : o = remoteParticipants[i] /\ Made(o) /\ o[1] = i
  BY DEF RoomKinds, RoomTyped, Made
<1>1. part[o].sid \in RP!Sids /\ part[o].sid[1] = i /\ Upto(part[o], world[i])
      /\ part[o].attached \subseteq part[o].pubs
  BY DEF RoomKinds, PartsTyped
<1>2. part[o].sid[2] \in Nat /\ world[i].sid[2] \in Nat
  BY <1>1, DatedInfos DEF RoomKinds, WorldTyped, Dated
<1>3. part[o].sid[2] <= world[i].sid[2] BY <1>1, <1>2 DEF Upto
<1> QED BY <1>1, <1>3 DEF Part

\* What a track found stays, if the room has it still.
LEMMA FoundFrame ==
  ASSUME RoomKinds, SameNews, NEW t \in Tracks, FoundRight(t), roomMedia'[t] = roomMedia[t],
         roomMedia[t].at \in Found => remoteParticipants'[roomMedia[t].sid[1]] = remoteParticipants[roomMedia[t].sid[1]],
         roomMedia[t].at \in Found /\ There(roomMedia[t].sid[1]) =>
           part'[remoteParticipants[roomMedia[t].sid[1]]].sid = Part(roomMedia[t].sid[1]).sid
  PROVE  FoundRight(t)'
<1> PICK i : i = roomMedia[t].sid[1] OBVIOUS
<1>1. (Live(i)' <=> Live(i)) /\ (\A s : Over(s)' <=> Over(s)) BY DEF SameNews, Live, Over
<1>2. FoundRight(t)' <=>
        (roomMedia'[t].at \in Found /\ Live(i)' /\ ~Over(roomMedia[t].sid)' =>
           There(i)' /\ roomMedia'[t].obj = remoteParticipants'[i] /\ Part(i)'.sid = roomMedia'[t].sid)
  BY DEF FoundRight, Found, Live, Over, There, Part
<1>3. Over(roomMedia[t].sid)' <=> Over(roomMedia[t].sid) BY <1>1 DEF Over, SameNews
<1> SUFFICES ASSUME roomMedia[t].at \in Found, Live(i), ~Over(roomMedia[t].sid)
             PROVE  There(i)' /\ roomMedia[t].obj = remoteParticipants'[i] /\ Part(i)'.sid = roomMedia[t].sid
  BY <1>1, <1>2, <1>3
<1>4. There(i) /\ roomMedia[t].obj = remoteParticipants[i] /\ Part(i).sid = roomMedia[t].sid
  BY DEF FoundRight
<1> QED BY <1>4 DEF There, Part

\* So does what serves it.
LEMMA ServedFrame ==
  ASSUME RoomKinds, SameNews, stranded \subseteq stranded', NEW t \in Tracks, NEW i \in Identities,
         Served(t, i), roomMedia'[t] = roomMedia[t],
         Wants(t, i) /\ t \notin stranded' /\ roomMedia[t].at = "deferred"
         /\ t \in sidDefers[world[i].sid] /\ (world[i].sid \in sidToIdentity => RunsDefers(i))
           => t \in sidDefers'[world[i].sid] /\ (world[i].sid \in sidToIdentity' => RunsDefers(i)'),
         Wants(t, i) /\ roomMedia[t].at = "attached" /\ There(i) /\ t \in Part(i).attached
           => There(i)' /\ t \in Part(i)'.attached
  PROVE  Served(t, i)'
<1>1. (Live(i)' <=> Live(i)) /\ world' = world /\ roomSession' = roomSession BY DEF SameNews, Live
<1>2. Wants(t, i) /\ t \notin stranded' /\ roomMedia[t].at = "deferred" =>
        t \in sidDefers'[world[i].sid] /\ (world[i].sid \in sidToIdentity' => RunsDefers(i)')
  BY DEF Served, Wants
<1>3. Wants(t, i) /\ roomMedia[t].at = "attached" => There(i)' /\ t \in Part(i)'.attached
  BY DEF Served, Wants
<1> QED BY <1>1, <1>2, <1>3 DEF Served, Wants

\* The deferred media of a participant are still run.
LEMMA StillRun ==
  ASSUME RoomKinds, SameNews, NEW u \in RP!Updaters, \A v \in RP!Updaters : v # u => thread'[v] = thread[v],
         NEW i \in Identities, RunsDefers(i),
         thread[u].at \in {"clear", "run"} => thread'[u].at \in {"clear", "run"} /\ thread'[u].infos = thread[u].infos
  PROVE  RunsDefers(i)'
<1>1. PICK v \in RP!Updaters :
        Handles(v, i) /\ thread[v].at \in {"clear", "run"} /\ Head1(v).sid = world[i].sid
  BY DEF RunsDefers
<1>2. thread'[v].infos = thread[v].infos /\ thread'[v].at \in {"clear", "run"} BY <1>1
<1>3. Handles(v, i)' /\ Head1(v)'.sid = world'[i].sid BY <1>1, <1>2 DEF Handles, Head1, SameNews
<1> QED BY <1>2, <1>3 DEF RunsDefers

\* A step that leaves the maps, the room and the media alone.
LEMMA CalmMedia ==
  ASSUME RoomKinds, MediaGood, SameNews, NEW u \in RP!Updaters,
         \A v \in RP!Updaters : v # u => thread'[v] = thread[v],
         thread[u].at \in {"clear", "run"} => thread'[u].at \in {"clear", "run"} /\ thread'[u].infos = thread[u].infos,
         UNCHANGED <<remoteParticipants, sidToIdentity, roomMedia>>,
         \A i \in Identities : There(i) => part'[remoteParticipants[i]] = Part(i),
         stranded \subseteq stranded',
         \A s \in RP!Sids : \A t \in sidDefers[s] : t \in sidDefers'[s] \/ t \in stranded'
  PROVE  MediaGood'
<1> SUFFICES ASSUME NEW t \in Tracks PROVE FoundRight(t)' /\ \A i \in Identities : Served(t, i)'
  BY DEF MediaGood
<1>1. FoundRight(t)'
  <2>1. roomMedia[t].at \in Found => roomMedia[t].sid[1] \in Identities
    BY DatedInfos DEF RoomKinds, MediaTyped, Found
  <2>2. roomMedia[t].at \in Found /\ There(roomMedia[t].sid[1]) =>
           part'[remoteParticipants[roomMedia[t].sid[1]]].sid = Part(roomMedia[t].sid[1]).sid
    BY <2>1
  <2>3. FoundRight(t) BY DEF MediaGood
  <2> QED BY <2>2, <2>3, FoundFrame
<1>2. ASSUME NEW i \in Identities PROVE Served(t, i)'
  <2>1. RunsDefers(i) => RunsDefers(i)' BY StillRun
  <2>2. There(i) => There(i)' /\ Part(i)' = Part(i) BY DEF There, Part
  <2>3. Wants(t, i) => world[i].sid \in RP!Sids BY WantedSid DEF Wants
  <2>4. Wants(t, i) /\ t \notin stranded' /\ t \in sidDefers[world[i].sid] => t \in sidDefers'[world[i].sid]
    BY <2>3
  <2>5. Served(t, i) BY DEF MediaGood
  <2> QED BY <2>1, <2>2, <2>4, <2>5, ServedFrame
<1> QED BY <1>1, <1>2

LEMMA LookMedia ==
  ASSUME RoomKinds, MediaGood, NEW u \in RP!Updaters, RP!Look(u) PROVE MediaGood'
<1> USE DEF RoomKinds
<1>1. SameNews /\ AllSame /\ UNCHANGED <<roomMedia, sidDefers, stranded>>
  BY DEF RP!Look, SameNews, AllSame, RP!roomVars, RP!sfuVars, RP!ghosts
<1>2. thread[u].at = "look" BY DEF RP!Look
<1>3. \A v \in RP!Updaters : v # u => thread'[v] = thread[v]
  <2>1. CASE RP!Proceed(u) BY <2>1, ProceedBecomes DEF Becomes
  <2>2. CASE RP!Step(u, "add") BY <2>2 DEF RP!Step, ThreadsTyped
  <2>3. ASSUME NEW at, NEW o, NEW d, RP!StepWith(u, at, o, d)
        PROVE  \A v \in RP!Updaters : v # u => thread'[v] = thread[v]
    BY <2>3 DEF RP!StepWith, ThreadsTyped
  <2> QED BY <2>1, <2>2, <2>3 DEF RP!Look
<1> QED BY <1>1, <1>2, <1>3, CalmMedia DEF AllSame, Part

LEMMA LeaveMedia ==
  ASSUME RoomKinds, MediaGood, NEW u \in RP!Updaters, NEW o \in RP!Objects, RP!Leave(u, o)
  PROVE  MediaGood'
<1>1. SameNews /\ AllSame /\ UNCHANGED <<roomMedia, sidDefers, stranded>> /\ thread[u].at = "leave"
  BY DEF RP!Leave, SameNews, AllSame, RP!roomVars, RP!sfuVars, RP!ghosts
<1>2. \A v \in RP!Updaters : v # u => thread'[v] = thread[v]
  BY LeaveBecomes DEF RoomKinds, Becomes
<1> QED BY <1>1, <1>2, CalmMedia DEF AllSame, Part

LEMMA ClearMedia ==
  ASSUME RoomKinds, MediaGood, NEW u \in RP!Updaters, RP!clearParticipantDefers(u) PROVE MediaGood'
<1> USE DEF RoomKinds
<1>1. thread[u].at = "clear" /\ RP!Step(u, "run") BY DEF RP!clearParticipantDefers
<1>2. SameNews /\ AllSame /\ UNCHANGED roomMedia
  BY DEF RP!clearParticipantDefers, SameNews, AllSame, RP!sfuVars, RP!ghosts
<1>3. Becomes(u, "run", thread[u].infos, thread[u].leaving, thread[u].obj, thread[u].old)
  BY <1>1, StepBecomes
<1>4. Does(u, Head1(u), Head1(u).sid[1]) BY <1>1, DoesFacts DEF Applying
<1>5. RP!info(u) = Head1(u) /\ Head1(u).sid \in RP!Sids BY <1>4, HeadInfo DEF Does
<1> PICK x : x = Head1(u) OBVIOUS
<1>6. /\ sidDefers' = [sidDefers EXCEPT ![x.sid] = sidDefers[x.sid] \cap x.tracks]
      /\ stranded' = stranded \cup (sidDefers[x.sid] \ x.tracks)
  BY <1>5 DEF RP!clearParticipantDefers
<1>7. \A s \in RP!Sids : \A t \in sidDefers[s] : t \in sidDefers'[s] \/ t \in stranded'
  BY <1>5, <1>6 DEF RoomTyped
<1>8. /\ thread'[u].at = "run" /\ thread'[u].infos = thread[u].infos
      /\ \A v \in RP!Updaters : v # u => thread'[v] = thread[v]
  BY <1>3 DEF Becomes
<1>9. stranded \subseteq stranded' BY <1>6
<1> QED BY <1>2, <1>7, <1>8, <1>9, CalmMedia DEF AllSame, Part

LEMMA UnpublishMedia ==
  ASSUME RoomKinds, MediaGood, NEW u \in RP!Updaters, RP!unpublishAllTracks(u) PROVE MediaGood'
<1>1. thread[u].at = "unpublish" /\ RP!Proceed(u) BY DEF RP!unpublishAllTracks
<1>2. SameNews /\ UNCHANGED <<remoteParticipants, sidToIdentity, sidDefers, roomMedia, stranded>>
  BY DEF RP!unpublishAllTracks, SameNews, RP!sfuVars, RP!ghosts, RP!roomVars
<1>3. \A v \in RP!Updaters : v # u => thread'[v] = thread[v]
  BY <1>1, ProceedBecomes DEF Becomes, RoomKinds
<1>4. Made(thread[u].obj) /\ remoteParticipants[thread[u].obj[1]] # thread[u].obj
  BY <1>1 DEF RoomKinds, ThreadsTyped, ThreadPlaced
<1> PICK o \in RP!Objects : o = thread[u].obj BY <1>4 DEF Made
<1>5. part' = [part EXCEPT ![o] = RP!unpublishTracks(o, part[o].pubs)] BY DEF RP!unpublishAllTracks
<1>6. \A x \in RP!Objects : x # o => part'[x] = part[x] BY <1>5 DEF RoomKinds, PartsTyped
<1>7. ASSUME NEW i \in Identities, There(i) PROVE part'[remoteParticipants[i]] = Part(i)
  <2>1. remoteParticipants[i] \in RP!Objects /\ remoteParticipants[i][1] = i BY <1>7, PartSid
  <2>2. remoteParticipants[i] # o BY <2>1, <1>4
  <2> QED BY <2>1, <2>2, <1>6 DEF Part
<1> QED BY <1>1, <1>2, <1>3, <1>7, CalmMedia

\* A step that is about participant i, and leaves the media where they are.
LEMMA ChangedMedia ==
  ASSUME RoomKinds, MediaGood, SameNews, NEW u \in RP!Updaters, NEW i \in Identities,
         thread[u].at \notin {"clear", "run"},
         \A v \in RP!Updaters : v # u => thread'[v] = thread[v],
         UNCHANGED <<roomMedia, stranded>>,
         \A j \in Identities : j # i => remoteParticipants'[j] = remoteParticipants[j],
         \A o \in RP!Objects : o[1] # i => part'[o] = part[o],
         \A s \in RP!Sids : s[1] # i => /\ sidDefers'[s] = sidDefers[s]
                                        /\ s \in sidToIdentity' <=> s \in sidToIdentity,
         Live(i) => \A t \in Tracks :
           /\ roomMedia[t].at \in Found /\ roomMedia[t].sid[1] = i => FoundRight(t)'
           /\ Served(t, i)'
  PROVE  MediaGood'
<1> SUFFICES ASSUME NEW t \in Tracks PROVE FoundRight(t)' /\ \A j \in Identities : Served(t, j)'
  BY DEF MediaGood
<1>1. Live(i)' <=> Live(i) BY DEF SameNews, Live
<1>2. ASSUME NEW j \in Identities, j # i, There(j)
      PROVE  part'[remoteParticipants[j]] = Part(j)
  BY <1>2, PartSid DEF Part
<1>3. FoundRight(t)'
  <2>1. CASE roomMedia[t].at \notin Found BY <2>1 DEF FoundRight, Found
  <2>2. CASE roomMedia[t].at \in Found /\ roomMedia[t].sid[1] = i
    <3>1. CASE Live(i) BY <2>2, <3>1
    <3>2. CASE ~Live(i) BY <2>2, <3>2, <1>1 DEF FoundRight, Live
    <3> QED BY <3>1, <3>2
  <2>3. CASE roomMedia[t].at \in Found /\ roomMedia[t].sid[1] # i
    <3> PICK j : j = roomMedia[t].sid[1] OBVIOUS
    <3>1. j \in Identities /\ j # i BY <2>3, DatedInfos DEF RoomKinds, MediaTyped, Found
    <3>2. remoteParticipants'[j] = remoteParticipants[j] BY <3>1
    <3>3. There(j) => part'[remoteParticipants[j]].sid = Part(j).sid BY <3>1, <1>2
    <3>4. FoundRight(t) BY DEF MediaGood
    <3> QED BY <3>2, <3>3, <3>4, FoundFrame
  <2> QED BY <2>1, <2>2, <2>3
<1>4. ASSUME NEW j \in Identities PROVE Served(t, j)'
  <2>1. CASE j = i /\ Live(i) BY <2>1
  <2>2. CASE j = i /\ ~Live(i) BY <2>2, <1>1 DEF Served, Live
  <2>3. CASE j # i
    <3>1. RunsDefers(j) => RunsDefers(j)' BY StillRun
    <3>2. There(j) => There(j)' /\ Part(j)' = Part(j) BY <2>3, <1>2 DEF There, Part
    <3>3. Wants(t, j) => world[j].sid \in RP!Sids /\ world[j].sid[1] = j BY WantedSid DEF Wants
    <3>4. Wants(t, j) => /\ sidDefers'[world[j].sid] = sidDefers[world[j].sid]
                         /\ world[j].sid \in sidToIdentity' => world[j].sid \in sidToIdentity
      BY <3>3, <2>3
    <3>5. Served(t, j) BY DEF MediaGood
    <3> QED BY <3>1, <3>2, <3>4, <3>5, ServedFrame
  <2> QED BY <2>1, <2>2, <2>3
<1> QED BY <1>3, <1>4

\* Who does an info of participant i runs what waits for it, and nobody else.
LEMMA RunsOnly ==
  ASSUME NEW u \in RP!Updaters, NEW i, RunsDefers(i), \A v \in RP!Updaters : v # u => ~Handles(v, i)
  PROVE  thread[u].at \in {"clear", "run"} /\ Head1(u).sid = world[i].sid
BY DEF RunsDefers

LEMMA NowRuns ==
  ASSUME NEW u \in RP!Updaters, NEW x, NEW i, Does(u, x, i), SameNews, x.sid = world[i].sid,
         thread'[u].infos = thread[u].infos, thread'[u].at \in {"clear", "run"}
  PROVE  RunsDefers(i)'
<1>1. Head1(u)' = x /\ Handles(u, i)' BY DEF Does, Head1, Handles
<1> QED BY <1>1 DEF RunsDefers, SameNews

LEMMA AddMedia ==
  ASSUME RoomKinds, RoomKinds', MediaGood, NEW u \in RP!Updaters, NEW x, NEW i, NEW o, Adds(u, x, i, o),
         \A j \in Identities : Good(j)
  PROVE  MediaGood'
<1>1. Changed(u, x, i, o, "clear", RP!None) /\ thread[u].at = "add" BY DEF Adds
<1>2. i \in Identities /\ Does(u, x, i) /\ SameNews /\ x.sid[1] = i /\ o[1] = i
  BY <1>1 DEF Changed, Does
<1>3. /\ thread'[u].at = "clear" /\ thread'[u].infos = thread[u].infos
      /\ \A v \in RP!Updaters : v # u => thread'[v] = thread[v]
  BY <1>1 DEF Changed, Becomes
<1>4. UNCHANGED <<roomMedia, sidDefers, stranded>> /\ sidToIdentity' = sidToIdentity \cup {x.sid}
  BY DEF Adds
<1>5. /\ \A j \in Identities : j # i => remoteParticipants'[j] = remoteParticipants[j]
      /\ \A y \in RP!Objects : y[1] # i => part'[y] = part[y]
  BY <1>1, <1>2 DEF Changed
<1>6. ASSUME Live(i), NEW t \in Tracks
      PROVE  /\ roomMedia[t].at \in Found /\ roomMedia[t].sid[1] = i => FoundRight(t)'
             /\ Served(t, i)'
  <2>1. i \notin roomOvertaken /\ Good(i) BY <1>2, <1>6 DEF Live
  <2>2. AtPlace(u, i) /\ \A v \in RP!Updaters : v # u => ~Handles(v, i) BY <1>2, <2>1, OneHand
  <2>3. ~Emptying(u) /\ Handles(u, i) BY <1>2 DEF Does
  <2>4. ~There(i) BY <2>2, <2>3, <1>1 DEF AtPlace
  <2>5. FoundRight(t) /\ Served(t, i) BY <1>2 DEF MediaGood
  <2>6. roomMedia[t].at \in Found /\ roomMedia[t].sid[1] = i => FoundRight(t)'
    <3> SUFFICES ASSUME roomMedia[t].at \in Found, roomMedia[t].sid[1] = i PROVE FoundRight(t)'
      OBVIOUS
    <3>1. Over(roomMedia[t].sid) BY <2>4, <2>5, <1>6 DEF FoundRight
    <3>2. Over(roomMedia[t].sid)' BY <3>1, <1>2, <1>4 DEF Over, SameNews
    <3> QED BY <3>2 DEF FoundRight
  <2>7. ~RunsDefers(i) BY <2>2, <1>1, RunsOnly
  <2>8. x.sid = world[i].sid => RunsDefers(i)' BY <1>2, <1>3, NowRuns
  <2>9. roomMedia'[t] = roomMedia[t] /\ stranded \subseteq stranded' BY <1>4
  <2>10. Served(t, i)' BY <2>4, <2>5, <2>7, <2>8, <2>9, <1>2, <1>4, ServedFrame
  <2> QED BY <2>6, <2>10
<1>7. thread[u].at \notin {"clear", "run"} BY <1>1
<1>8. \A s \in RP!Sids : s[1] # i => sidDefers'[s] = sidDefers[s] /\ (s \in sidToIdentity' <=> s \in sidToIdentity)
  BY <1>2, <1>4
<1> QED BY <1>2, <1>3, <1>4, <1>5, <1>6, <1>7, <1>8, ChangedMedia

LEMMA UpdateMedia ==
  ASSUME RoomKinds, RoomKinds', MediaGood, NEW u \in RP!Updaters, NEW x, NEW i, NEW o,
         Updates(u, x, i, o), \A j \in Identities : Good(j)
  PROVE  MediaGood'
<1> PICK at, d : Changed(u, x, i, o, at, d) BY DEF Updates
<1>1. thread[u].at = "update" /\ o = thread[u].obj /\ Made(o) BY DEF Updates
<1>2. i \in Identities /\ Does(u, x, i) /\ SameNews /\ x.sid[1] = i /\ o[1] = i /\ o \in RP!Objects
  BY DEF Changed, Does
<1>3. \A v \in RP!Updaters : v # u => thread'[v] = thread[v] BY DEF Changed, Becomes
<1>4. UNCHANGED <<remoteParticipants, sidToIdentity, roomMedia, sidDefers, stranded>> BY DEF Updates
<1>5. \A y \in RP!Objects : y[1] # i => part'[y] = part[y] BY <1>2 DEF Changed
<1>6. ASSUME Live(i), NEW t \in Tracks
      PROVE  /\ roomMedia[t].at \in Found /\ roomMedia[t].sid[1] = i => FoundRight(t)'
             /\ Served(t, i)'
  <2>1. i \notin roomOvertaken /\ Good(i) BY <1>2, <1>6 DEF Live
  <2>2. /\ AtPlace(u, i) /\ \A v \in RP!Updaters : v # u => ~Handles(v, i)
        /\ News(u, i) = {x}
    BY <1>2, <2>1, OneHand
  <2>3. Handles(u, i) BY <1>2 DEF Does
  <2>4. remoteParticipants[i] = o BY <2>2, <2>3, <1>1 DEF AtPlace, Applying
  <2>5. There(i) /\ Part(i) = part[o]
    <3>1. RP!None \notin RP!Objects BY DEF RP!None, RP!Objects
    <3> QED BY <3>1, <2>4, <1>2 DEF There, Part
  <2>6. Before(part[o], part[o].pubs, x)
    <3>1. Ordered(i) BY <2>1 DEF Good, Follows
    <3> QED BY <3>1, <2>2, <2>5 DEF Ordered
  <2>7. /\ part'[o].sid = x.sid /\ part'[o].pubs = x.tracks
        /\ part'[o].attached = part[o].attached \cap x.tracks
    <3>1. Told(x) /\ x.sid[1] = o[1] BY <1>2 DEF Does
    <3>2. part' = [part EXCEPT ![o] = RP!updated(o, x)] BY DEF Updates
    <3>3. Upto(part[o], x) BY <2>6 DEF Before
    <3> QED BY <3>1, <3>2, <3>3, <1>2, AppliedPart
  <2>8. There(i)' /\ Part(i)' = part'[o] BY <2>4, <2>5, <1>4 DEF There, Part
  <2>9. FoundRight(t) /\ Served(t, i) BY <1>2 DEF MediaGood
  <2>10. roomMedia[t].at \in Found /\ roomMedia[t].sid[1] = i => FoundRight(t)'
    <3> SUFFICES ASSUME roomMedia[t].at \in Found, roomMedia[t].sid[1] = i, ~Over(roomMedia[t].sid)
                 PROVE  roomMedia[t].obj = o /\ x.sid = roomMedia[t].sid
      BY <1>2, <1>4, <2>4, <2>7, <2>8 DEF FoundRight, Over, SameNews
    <3>1. roomMedia[t].obj = o /\ part[o].sid = roomMedia[t].sid
      BY <2>4, <2>5, <2>9, <1>6 DEF FoundRight
    <3> PICK s \in RP!Sids : s = roomMedia[t].sid BY DEF RoomKinds, MediaTyped, Found
    <3>2. x \in Infos /\ x.sid \in RP!Sids /\ Upto(x, world[i]) BY <1>2 DEF Does, Told
    <3>3. world[i].sid[2] \in Nat /\ x.sid[2] \in Nat /\ s[2] \in Nat
      BY <1>2, <3>2, DatedInfos DEF RoomKinds, WorldTyped, Dated
    <3>4. x.sid[2] <= world[i].sid[2] BY <3>2, <3>3 DEF Upto
    <3>5. s[2] <= x.sid[2] BY <3>1, <3>3, <2>6 DEF Before, Upto
    <3>6. x.sid = s BY <1>2, <3>2, <3>4, <3>5, Latest
    <3> QED BY <3>1, <3>6
  <2>11. ~RunsDefers(i) BY <2>2, <1>1, RunsOnly
  <2>12. t \in world[i].tracks /\ t \in Part(i).attached => t \in Part(i)'.attached
    <3>1. part[o].attached \subseteq part[o].pubs BY <1>2 DEF RoomKinds, PartsTyped
    <3>2. part[o].pubs \cap world[i].tracks \subseteq x.tracks BY <2>6, <1>2 DEF Before
    <3> QED BY <3>1, <3>2, <2>5, <2>7, <2>8
  <2>13. Served(t, i)' BY <2>8, <2>9, <2>11, <2>12, <1>2, <1>4, ServedFrame DEF Wants
  <2> QED BY <2>10, <2>13
<1>7. thread[u].at \notin {"clear", "run"} BY <1>1
<1> QED BY <1>2, <1>3, <1>4, <1>5, <1>6, <1>7, ChangedMedia

LEMMA ResidMedia ==
  ASSUME RoomKinds, RoomKinds', MediaGood, NEW u \in RP!Updaters, NEW x, NEW i, NEW o,
         Renames(u, x, i, o), \A j \in Identities : Good(j)
  PROVE  MediaGood'
<1> PICK d : d = thread[u].old OBVIOUS
<1>1. Changed(u, x, i, o, "clear", d) /\ thread[u].at = "resid" /\ d \in RP!Sids /\ d[1] = i
  BY DEF Renames
<1>2. i \in Identities /\ Does(u, x, i) /\ SameNews /\ x.sid[1] = i /\ o[1] = i /\ o \in RP!Objects
  BY <1>1 DEF Changed, Does
<1>3. /\ thread'[u].at = "clear" /\ thread'[u].infos = thread[u].infos
      /\ \A v \in RP!Updaters : v # u => thread'[v] = thread[v]
  BY <1>1 DEF Changed, Becomes
<1>4. /\ UNCHANGED <<remoteParticipants, part, roomMedia, stranded>>
      /\ sidDefers' = [sidDefers EXCEPT ![d] = {}]
      /\ sidToIdentity' = (sidToIdentity \ {d}) \cup {part[o].sid}
  BY DEF Renames
<1>5. part[o].sid[1] = i BY <1>2 DEF Renames, RoomKinds, PartsTyped
<1>6. \A s \in RP!Sids : s # d => sidDefers'[s] = sidDefers[s] BY <1>4 DEF RoomKinds, RoomTyped
<1>7. ASSUME Live(i), NEW t \in Tracks
      PROVE  /\ roomMedia[t].at \in Found /\ roomMedia[t].sid[1] = i => FoundRight(t)'
             /\ Served(t, i)'
  <2>1. i \notin roomOvertaken /\ Good(i) BY <1>2, <1>7 DEF Live
  <2>2. AtPlace(u, i) /\ \A v \in RP!Updaters : v # u => ~Handles(v, i) BY <1>2, <2>1, OneHand
  <2>3. Handles(u, i) /\ x = Head1(u) BY <1>2 DEF Does
  <2>4. remoteParticipants[i] = o BY <2>2, <2>3, <1>1 DEF AtPlace, Applying, Renames
  <2>5. Part(i).sid = x.sid /\ d[2] < Part(i).sid[2] BY <2>2, <2>3, <1>1 DEF AtPlace
  <2>6. There(i) /\ Part(i) = part[o]
    <3>1. RP!None \notin RP!Objects BY DEF RP!None, RP!Objects
    <3> QED BY <3>1, <2>4, <1>2 DEF There, Part
  <2>7. There(i)' /\ Part(i)' = Part(i) BY <2>6, <1>4 DEF There, Part
  <2>8. FoundRight(t) /\ Served(t, i) BY <1>2 DEF MediaGood
  <2>9. FoundRight(t)' BY <2>8, <1>2, <1>4, FoundFrame DEF Part
  <2>10. world[i].sid # d
    <3>1. Part(i).sid \in RP!Sids /\ Part(i).sid[2] <= world[i].sid[2] BY <2>6, <1>2, PartSid
    <3>2. Part(i).sid[2] \in Nat /\ d[2] \in Nat BY <3>1, <1>1, DatedInfos
    <3>3. world[i].sid[2] \in Nat BY <1>2, DatedInfos DEF RoomKinds, WorldTyped, Dated
    <3> QED BY <3>1, <3>2, <3>3, <2>5
  <2>11. ~RunsDefers(i) BY <2>2, <1>1, RunsOnly
  <2>12. x.sid = world[i].sid => RunsDefers(i)' BY <1>2, <1>3, NowRuns
  <2>13. Wants(t, i) /\ t \in sidDefers[world[i].sid] => t \in sidDefers'[world[i].sid]
    <3>1. Wants(t, i) => world[i].sid \in RP!Sids BY <1>2, WantedSid DEF Wants
    <3> QED BY <3>1, <2>10, <1>6
  <2>14. world[i].sid \in sidToIdentity' => world[i].sid \in sidToIdentity \/ x.sid = world[i].sid
    BY <1>4, <2>5, <2>6
  <2>15. Served(t, i)'
    BY <2>7, <2>8, <2>11, <2>12, <2>13, <2>14, <1>2, <1>4, ServedFrame
  <2> QED BY <2>9, <2>15
<1>8. thread[u].at \notin {"clear", "run"} BY <1>1
<1>9. \A s \in RP!Sids : s[1] # i => sidDefers'[s] = sidDefers[s] /\ (s \in sidToIdentity' <=> s \in sidToIdentity)
  BY <1>1, <1>4, <1>5, <1>6
<1>10. /\ \A j \in Identities : j # i => remoteParticipants'[j] = remoteParticipants[j]
       /\ \A y \in RP!Objects : y[1] # i => part'[y] = part[y]
       /\ UNCHANGED <<roomMedia, stranded>>
       /\ \A v \in RP!Updaters : v # u => thread'[v] = thread[v]
  BY <1>3, <1>4
<1> QED BY <1>2, <1>7, <1>8, <1>9, <1>10, ChangedMedia

LEMMA DropMedia ==
  ASSUME RoomKinds, RoomKinds', MediaGood, NEW u \in RP!Updaters, NEW o, Departed(u, o),
         \A j \in Identities : Good(j)
  PROVE  MediaGood'
<1> PICK i \in Identities : i = o[1] BY DEF Departed
<1>1. /\ thread[u].at = "remove" /\ o = thread[u].obj /\ o \in RP!Objects /\ SameNews
      /\ UNCHANGED <<part, roomMedia, stranded>>
      /\ sidToIdentity' = sidToIdentity \ {part[o].sid}
      /\ sidDefers' = [sidDefers EXCEPT ![part[o].sid] = {}]
      /\ part[o].sid[1] = i
  BY DEF Departed
<1>2. \A v \in RP!Updaters : v # u => thread'[v] = thread[v] BY DEF Departed, Becomes
<1>3. \A j \in Identities : j # i => remoteParticipants'[j] = remoteParticipants[j] BY DEF Departed
<1>4. \A s \in RP!Sids : s # part[o].sid =>
        sidDefers'[s] = sidDefers[s] /\ (s \in sidToIdentity' <=> s \in sidToIdentity)
  BY <1>1 DEF RoomKinds, RoomTyped
<1>5. ASSUME Live(i), NEW t \in Tracks
      PROVE  /\ roomMedia[t].at \in Found /\ roomMedia[t].sid[1] = i => FoundRight(t)'
             /\ Served(t, i)'
  <2>1. i \notin roomOvertaken /\ Good(i) BY <1>5 DEF Live
  <2>2. Ended(i) BY <2>1, <1>5 DEF Good, Follows
  <2>3. Over(part[o].sid) /\ remoteParticipants[i] \in {o, RP!None}
    <3>1. CASE Emptying(u)
      <4>1. Drops(u, o) BY <3>1, <1>1 DEF Drops
      <4>2. Over(part[o].sid) BY <4>1, <2>2, <1>1 DEF Ended
      <4>3. DropsItsOwn(i) BY <2>1, <1>5 DEF Good, Sequential, Followed, Live
      <4> QED BY <4>1, <4>2, <4>3, <1>1 DEF DropsItsOwn
    <3>2. CASE ~Emptying(u)
      <4> PICK x : x = Head1(u) OBVIOUS
      <4>1. Does(u, x, i) /\ x.left BY <3>2 DEF Departed
      <4>2. AtPlace(u, i) /\ News(u, i) = {x} BY <4>1, <2>1, OneHand
      <4>3. remoteParticipants[i] = o BY <4>1, <4>2, <3>2, <1>1 DEF AtPlace, Does
      <4>4. There(i) /\ Part(i) = part[o]
        <5>1. RP!None \notin RP!Objects BY DEF RP!None, RP!Objects
        <5> QED BY <5>1, <4>3, <1>1 DEF There, Part
      <4>5. Over(x.sid) BY <4>1, <4>2, <2>2 DEF Ended
      <4>6. Ordered(i) BY <2>1 DEF Good, Follows
      <4>7. Before(part[o], part[o].pubs, x) BY <4>2, <4>4, <4>6 DEF Ordered
      <4>8. Upto(part[o], x) BY <4>7 DEF Before
      <4>9. part[o].sid \in RP!Sids /\ x.sid \in RP!Sids /\ x.sid[1] = i
        BY <4>1 DEF Departed, Does
      <4>10. part[o].sid[2] \in Nat /\ x.sid[2] \in Nat /\ world[i].sid[2] \in Nat
        BY <4>9, DatedInfos DEF RoomKinds, WorldTyped, Dated
      <4>11. Over(part[o].sid) BY <4>5, <4>8, <4>9, <4>10, <1>1 DEF Over, Upto
      <4> QED BY <4>3, <4>11
    <3> QED BY <3>1, <3>2
  <2>4. There(i) => Part(i) = part[o] BY <2>3 DEF There, Part
  <2>5. FoundRight(t) /\ Served(t, i) BY DEF MediaGood
  <2>6. ASSUME roomMedia[t].at \in Found, roomMedia[t].sid[1] = i PROVE Over(roomMedia[t].sid)
    <3>1. ~Over(roomMedia[t].sid) => There(i) /\ Part(i).sid = roomMedia[t].sid
      BY <2>5, <2>6, <1>5 DEF FoundRight
    <3> QED BY <3>1, <2>3, <2>4
  <2>7. roomMedia[t].at \in Found /\ roomMedia[t].sid[1] = i => FoundRight(t)'
    <3> SUFFICES ASSUME roomMedia[t].at \in Found, roomMedia[t].sid[1] = i PROVE FoundRight(t)'
      OBVIOUS
    <3>1. Over(roomMedia[t].sid)' BY <2>6, <1>1 DEF Over, SameNews
    <3> QED BY <3>1 DEF FoundRight
  <2>8. Wants(t, i) =>
          /\ world[i].sid \in RP!Sids /\ world[i].sid # part[o].sid /\ world[i].sid[1] = i
          /\ ~Over(world[i].sid) /\ (roomMedia[t].at # "none" => roomMedia[t].sid = world[i].sid)
    BY <2>3, WantedSid DEF Wants
  <2>9. Wants(t, i) => roomMedia[t].at # "attached" BY <2>6, <2>8 DEF Found
  <2>10. RunsDefers(i) => RunsDefers(i)' BY <1>1, <1>2, StillRun
  <2>11. Wants(t, i) => /\ sidDefers'[world[i].sid] = sidDefers[world[i].sid]
                        /\ world[i].sid \in sidToIdentity' <=> world[i].sid \in sidToIdentity
    BY <2>8, <1>4
  <2>12. roomMedia'[t] = roomMedia[t] /\ stranded \subseteq stranded' BY <1>1
  <2>13. Served(t, i)' BY <2>5, <2>9, <2>10, <2>11, <2>12, <1>1, ServedFrame
  <2> QED BY <2>7, <2>13
<1>6. thread[u].at \notin {"clear", "run"} BY <1>1
<1>7. \A s \in RP!Sids : s[1] # i => sidDefers'[s] = sidDefers[s] /\ (s \in sidToIdentity' <=> s \in sidToIdentity)
  BY <1>1, <1>4
<1> QED BY <1>1, <1>2, <1>3, <1>5, <1>6, <1>7, ChangedMedia

\* What waited for a participant goes on with it.
LEMMA RunMedia ==
  ASSUME RoomKinds, RoomKinds', MediaGood, NEW u \in RP!Updaters, RP!runParticipantDefers(u),
         \A j \in Identities : Good(j)
  PROVE  MediaGood'
<1>1. thread[u].at = "run" /\ RP!Proceed(u) BY DEF RP!runParticipantDefers
<1>2. SameNews /\ AllSame /\ UNCHANGED stranded
  BY DEF RP!runParticipantDefers, SameNews, AllSame, RP!sfuVars, RP!ghosts
<1>3. \A v \in RP!Updaters : v # u => thread'[v] = thread[v]
  BY <1>1, ProceedBecomes DEF Becomes, RoomKinds
<1>4. Does(u, Head1(u), Head1(u).sid[1]) BY <1>1, DoesFacts DEF Applying
<1> PICK x : x = Head1(u) OBVIOUS
<1> PICK i \in Identities : i = x.sid[1] BY <1>4 DEF Does
<1>5. Made(thread[u].obj) /\ thread[u].obj[1] = i
  BY <1>1 DEF RoomKinds, ThreadsTyped, ThreadPlaced, Applying
<1> PICK o \in RP!Objects : o = thread[u].obj BY <1>5 DEF Made
<1> PICK s \in RP!Sids : s = part[o].sid /\ s[1] = i BY <1>5 DEF RoomKinds, PartsTyped
<1>6. /\ sidDefers' = [sidDefers EXCEPT ![s] = {}]
      /\ roomMedia' = [t \in Tracks |-> IF t \in sidDefers[s]
                                        THEN [roomMedia[t] EXCEPT !.at = "find", !.obj = o]
                                        ELSE roomMedia[t]]
  BY DEF RP!runParticipantDefers, RP!runDefers
<1>7. ASSUME Live(i)
      PROVE  remoteParticipants[i] = o /\ There(i) /\ Part(i) = part[o] /\ s = x.sid
  <2>1. i \notin roomOvertaken /\ Good(i) BY <1>7 DEF Live
  <2>2. AtPlace(u, i) BY <1>4, <2>1, OneHand
  <2>3. Handles(u, i) BY <1>4 DEF Does
  <2>4. remoteParticipants[i] = o /\ Part(i).sid = x.sid BY <2>2, <2>3, <1>1 DEF AtPlace, Applying
  <2>5. RP!None \notin RP!Objects BY DEF RP!None, RP!Objects
  <2> QED BY <2>4, <2>5 DEF There, Part
<1> SUFFICES ASSUME NEW t \in Tracks PROVE FoundRight(t)' /\ \A j \in Identities : Served(t, j)'
  BY DEF MediaGood
<1>8. CASE t \in sidDefers[s]
  <2>1. roomMedia[t].sid = s /\ roomMedia[t] \in MediaKind BY <1>8, MediaIs
  <2> PICK r : r = roomMedia'[t] OBVIOUS
  <2>2. r.at = "find" /\ r.obj = o /\ r.sid = s BY <2>1, <1>6, <1>8 DEF MediaKind
  <2>3. FoundRight(t)'
    <3> SUFFICES ASSUME Live(i)' PROVE There(i)' /\ o = remoteParticipants'[i] /\ Part(i)'.sid = s
      BY <2>2 DEF FoundRight, Live, Part, There
    <3>1. Live(i) BY <1>2 DEF Live, SameNews
    <3> QED BY <3>1, <1>2, <1>7 DEF AllSame, There, Part
  <2>4. \A j \in Identities : Served(t, j)' BY <2>2 DEF Served
  <2> QED BY <2>3, <2>4
<1>9. CASE t \notin sidDefers[s]
  <2>1. roomMedia'[t] = roomMedia[t] BY <1>6, <1>9
  <2>2. FoundRight(t) /\ \A j \in Identities : Served(t, j) BY DEF MediaGood
  <2>3. FoundRight(t)' BY <1>2, <2>1, <2>2, FoundFrame DEF AllSame, Part
  <2>4. ASSUME NEW j \in Identities PROVE Served(t, j)'
    <3>1. Wants(t, j) => world[j].sid \in RP!Sids BY WantedSid DEF Wants
    <3>2. Wants(t, j) /\ t \in sidDefers[world[j].sid] =>
            world[j].sid # s /\ t \in sidDefers'[world[j].sid]
      BY <3>1, <1>6, <1>9 DEF RoomKinds, RoomTyped
    <3>3. ASSUME Wants(t, j), world[j].sid # s, RunsDefers(j) PROVE RunsDefers(j)'
      <4>1. PICK v \in RP!Updaters :
              Handles(v, j) /\ thread[v].at \in {"clear", "run"} /\ Head1(v).sid = world[j].sid
        BY <3>3 DEF RunsDefers
      <4>2. v # u
        <5> SUFFICES ASSUME v = u PROVE FALSE OBVIOUS
        <5>1. j = i /\ x.sid = world[j].sid BY <4>1 DEF Handles
        <5>2. Live(i) BY <3>3, <5>1 DEF Wants
        <5> QED BY <5>1, <5>2, <1>7, <3>3
      <4>3. thread'[v] = thread[v] BY <4>2, <1>3
      <4>4. Handles(v, j)' /\ Head1(v)'.sid = world'[j].sid
        BY <4>1, <4>3, <1>2 DEF Handles, Head1, SameNews
      <4> QED BY <4>1, <4>3, <4>4 DEF RunsDefers
    <3>4. There(j) => There(j)' /\ Part(j)' = Part(j) BY <1>2 DEF AllSame, There, Part
    <3>5. stranded \subseteq stranded' /\ sidToIdentity' = sidToIdentity BY <1>2 DEF AllSame
    <3> QED BY <3>2, <3>3, <3>4, <3>5, <2>1, <2>2, <1>2, ServedFrame
  <2> QED BY <2>3, <2>4
<1> QED BY <1>8, <1>9

\* No participant is live between two connections.
LEMMA DeadMedia == ASSUME roomLink' # "up" PROVE MediaGood'
BY DEF MediaGood, FoundRight, Served, Live

LEMMA ReadMedia ==
  ASSUME RoomKinds, RoomKinds', MediaGood, NEW m, Reads(m) PROVE MediaGood'
<1>1. /\ roomLink = "up" /\ roomLink' = "up" /\ thread["reader"].at = "idle"
      /\ roomOvertaken \subseteq roomOvertaken'
      /\ UNCHANGED <<remoteParticipants, sidToIdentity, sidDefers, part, roomMedia, world,
                     roomSession, stranded>>
  BY DEF Reads, RoomKinds, LinkTyped
<1>2. thread'["worker"] = thread["worker"] BY DEF Reads, Takes, Becomes, RP!Updaters
<1>3. \A i : Live(i)' => Live(i) BY <1>1 DEF Live
<1>4. ASSUME NEW t \in Tracks PROVE FoundRight(t)'
  <2>1. FoundRight(t) BY DEF MediaGood
  <2> PICK i : i = roomMedia[t].sid[1] OBVIOUS
  <2>2. Live(i)' => Live(i) BY <1>3
  <2> QED BY <2>1, <2>2, <1>1 DEF FoundRight, Over, There, Part, Live
<1>5. ASSUME NEW t \in Tracks, NEW i \in Identities PROVE Served(t, i)'
  <2>1. Served(t, i) BY DEF MediaGood
  <2>2. RunsDefers(i) => RunsDefers(i)'
    <3> SUFFICES ASSUME RunsDefers(i) PROVE RunsDefers(i)' OBVIOUS
    <3>1. PICK v \in RP!Updaters :
            Handles(v, i) /\ thread[v].at \in {"clear", "run"} /\ Head1(v).sid = world[i].sid
      BY DEF RunsDefers
    <3>2. thread'[v] = thread[v] BY <3>1, <1>1, <1>2 DEF RP!Updaters
    <3>3. Handles(v, i)' /\ Head1(v)'.sid = world'[i].sid BY <3>1, <3>2, <1>1 DEF Handles, Head1
    <3> QED BY <3>1, <3>2, <3>3 DEF RunsDefers
  <2>3. Live(i)' => Live(i) BY <1>3
  <2>4. (There(i)' <=> There(i)) /\ Part(i)' = Part(i) BY <1>1 DEF There, Part
  <2> QED BY <2>1, <2>2, <2>3, <2>4, <1>1 DEF Served
<1> QED BY <1>4, <1>5 DEF MediaGood

LEMMA RejoinMedia ==
  ASSUME RoomKinds, NEW f, Rejoins(f) PROVE MediaGood'
<1>1. roomSession' = roomSession + 1 /\ roomSession \in Nat
  <2>1. RoomRestarts \in Nat BY RoomBounds DEF RP!RoomAssumption
  <2> QED BY <2>1 DEF Rejoins, RoomKinds, LinkTyped
<1> SUFFICES ASSUME NEW t \in Tracks PROVE FoundRight(t)' /\ \A i \in Identities : Served(t, i)'
  BY DEF MediaGood
<1>2. roomMedia'[t] = IF roomMedia[t].at = "deferred" THEN roomMedia[t] ELSE RP!NoMedia
  BY DEF Rejoins
<1>3. roomMedia'[t].at \in {"deferred", "none"} BY <1>2 DEF RP!NoMedia
<1>4. roomMedia'[t].session # roomSession'
  <2>1. CASE roomMedia[t].at = "deferred"
    <3>1. roomMedia[t].session <= roomSession /\ roomMedia[t].session \in Nat
      BY <2>1 DEF RoomKinds, MediaTyped
    <3> QED BY <3>1, <2>1, <1>1, <1>2
  <2>2. CASE roomMedia[t].at # "deferred"
    <3>1. roomMedia'[t].session = 0 BY <2>2, <1>2 DEF RP!NoMedia
    <3> QED BY <3>1, <1>1
  <2> QED BY <2>1, <2>2
<1>5. FoundRight(t)' BY <1>3 DEF FoundRight, Found
<1>6. \A i \in Identities : Served(t, i)' BY <1>4 DEF Served
<1> QED BY <1>5, <1>6

LEMMA NewsMedia ==
  ASSUME RoomKinds, RoomKinds', MediaGood, NewsStep PROVE MediaGood'
<1>1. UNCHANGED <<remoteParticipants, sidToIdentity, sidDefers, part, thread, roomMedia, roomLink,
                  roomSession, roomOvertaken, stranded>>
  BY DEF NewsStep
<1>2. \A i : Live(i)' <=> Live(i) BY <1>1 DEF Live
<1>3. ASSUME NEW t \in Tracks PROVE FoundRight(t)'
  <2>1. FoundRight(t) BY DEF MediaGood
  <2>2. roomMedia[t].at \in Found /\ Over(roomMedia[t].sid) => Over(roomMedia[t].sid)'
    <3> SUFFICES ASSUME roomMedia[t].at \in Found, Over(roomMedia[t].sid) PROVE Over(roomMedia[t].sid)'
      OBVIOUS
    <3> PICK s \in RP!Sids : s = roomMedia[t].sid /\ Given(s) BY DEF RoomKinds, MediaTyped, Found
    <3>1. Over(s)' BY NewsKept
    <3> QED BY <3>1, <1>1 DEF Over
  <2> PICK i : i = roomMedia[t].sid[1] OBVIOUS
  <2>3. Live(i)' <=> Live(i) BY <1>2
  <2> QED BY <2>1, <2>2, <2>3, <1>1 DEF FoundRight, There, Part, Live
<1>4. ASSUME NEW t \in Tracks, NEW i \in Identities PROVE Served(t, i)'
  <2>1. Served(t, i) BY DEF MediaGood
  <2>2. CASE roomMedia[t].at = "none" BY <2>2, <1>1 DEF Served
  <2>3. CASE roomMedia[t].at # "none"
    <3>1. t \in used BY <2>3 DEF RoomKinds, MediaTyped
    <3>2. Later(i) BY DEF NewsStep
    <3>3. t \in world'[i].tracks => t \in world[i].tracks /\ world'[i].sid = world[i].sid
      BY <3>1, <3>2 DEF Later
    <3>4. world'[i].sid = world[i].sid => (RunsDefers(i) => RunsDefers(i)')
      BY <1>1 DEF RunsDefers, Handles, Head1
    <3>5. (There(i)' <=> There(i)) /\ Part(i)' = Part(i) BY <1>1 DEF There, Part
    <3>6. Live(i)' <=> Live(i) BY <1>2
    <3> QED BY <2>1, <3>3, <3>4, <3>5, <3>6, <1>1 DEF Served
  <2> QED BY <2>2, <2>3
<1> QED BY <1>3, <1>4 DEF MediaGood

\* Some media go on, and nothing else.
LEMMA QuietMedia ==
  ASSUME RoomKinds, MediaGood, SameNews, UNCHANGED <<thread, remoteParticipants, sidToIdentity>>,
         stranded \subseteq stranded', NEW T \in SUBSET Tracks,
         \A o \in RP!Objects : part'[o].sid = part[o].sid /\ part[o].attached \subseteq part'[o].attached,
         \A t \in Tracks \ T : roomMedia'[t] = roomMedia[t],
         \A s \in RP!Sids : \A t \in sidDefers[s] \ T : t \in sidDefers'[s],
         \A t \in T : FoundRight(t)' /\ \A i \in Identities : Served(t, i)'
  PROVE  MediaGood'
<1> SUFFICES ASSUME NEW t \in Tracks, t \notin T
             PROVE  FoundRight(t)' /\ \A i \in Identities : Served(t, i)'
  BY DEF MediaGood
<1>1. roomMedia'[t] = roomMedia[t] OBVIOUS
<1>2. FoundRight(t) /\ \A i \in Identities : Served(t, i) BY DEF MediaGood
<1>3. FoundRight(t)'
  <2>1. roomMedia[t].at \in Found => roomMedia[t].sid[1] \in Identities
    BY DatedInfos DEF RoomKinds, MediaTyped, Found
  <2>2. roomMedia[t].at \in Found /\ There(roomMedia[t].sid[1]) =>
           part'[remoteParticipants[roomMedia[t].sid[1]]].sid = Part(roomMedia[t].sid[1]).sid
    BY <2>1, PartSid DEF Part
  <2>3. remoteParticipants'[roomMedia[t].sid[1]] = remoteParticipants[roomMedia[t].sid[1]] OBVIOUS
  <2> QED BY <1>1, <1>2, <2>2, <2>3, FoundFrame
<1>4. ASSUME NEW i \in Identities PROVE Served(t, i)'
  <2>1. RunsDefers(i) => RunsDefers(i)' BY DEF RunsDefers, Handles, Head1, SameNews
  <2>2. There(i) => There(i)' /\ Part(i).attached \subseteq Part(i)'.attached
    BY PartSid DEF There, Part
  <2>3. Wants(t, i) => world[i].sid \in RP!Sids BY WantedSid DEF Wants
  <2>4. Wants(t, i) /\ t \in sidDefers[world[i].sid] => t \in sidDefers'[world[i].sid] BY <2>3
  <2> QED BY <1>1, <1>2, <2>1, <2>2, <2>4, ServedFrame
<1> QED BY <1>3, <1>4

\* ... one of them.
LEMMA TrackMedia ==
  ASSUME RoomKinds, MediaGood, SameNews, UNCHANGED <<thread, remoteParticipants, sidToIdentity, part>>,
         stranded \subseteq stranded', NEW t \in Tracks, NEW r,
         roomMedia' = [roomMedia EXCEPT ![t] = r],
         \A s \in RP!Sids : sidDefers[s] \subseteq sidDefers'[s],
         FoundRight(t)' /\ \A i \in Identities : Served(t, i)'
  PROVE  MediaGood'
<1> PICK T \in SUBSET Tracks : T = {t} OBVIOUS
<1>1. \A m \in Tracks \ T : roomMedia'[m] = roomMedia[m] BY MediaIs
<1> QED BY <1>1, QuietMedia

LEMMA OnTrackMedia ==
  ASSUME RoomKinds, MediaGood, NEW t \in Tracks, NEW i \in Identities, RP!OnTrack(t, i) PROVE MediaGood'
<1> PICK r : r = [at |-> "arrived", sid |-> world[i].sid, obj |-> RP!None, session |-> roomSession]
  OBVIOUS
<1>1. roomMedia' = [roomMedia EXCEPT ![t] = r] BY DEF RP!OnTrack
<1>2. SameNews /\ UNCHANGED <<thread, part, remoteParticipants, sidToIdentity, sidDefers, stranded>>
  BY DEF RP!OnTrack, SameNews, RP!roomVars, RP!sfuVars, RP!ghosts
<1>3. roomMedia'[t].at = "arrived" BY <1>1, MediaIs
<1>4. FoundRight(t)' /\ \A j \in Identities : Served(t, j)' BY <1>3 DEF FoundRight, Found, Served
<1> QED BY <1>1, <1>2, <1>4, TrackMedia

\* What a step of the media track makes of its record.
LEMMA MediaStepIs ==
  ASSUME RoomKinds, NEW t \in Tracks, NEW at, NEW o, RP!MediaStep(t, at, o)
  PROVE  /\ roomMedia'[t].at = at /\ roomMedia'[t].obj = o /\ roomMedia'[t].sid = roomMedia[t].sid
         /\ roomMedia'[t].session = roomMedia[t].session
         /\ \A m \in Tracks : m # t => roomMedia'[m] = roomMedia[m]
         /\ \E r : roomMedia' = [roomMedia EXCEPT ![t] = r]
<1> PICK q \in MediaKind : q = roomMedia[t] BY MediaIs
<1>1. roomMedia \in [Tracks -> MediaKind] BY MediaIs
<1>2. roomMedia'[t] = [q EXCEPT !.at = at, !.obj = o] BY <1>1 DEF RP!MediaStep
<1>3. roomMedia'[t].at = at /\ roomMedia'[t].obj = o /\ roomMedia'[t].sid = q.sid
      /\ roomMedia'[t].session = q.session
  BY <1>2 DEF MediaKind
<1>4. \A m \in Tracks : m # t => roomMedia'[m] = roomMedia[m] BY <1>1 DEF RP!MediaStep
<1>5. \E r : roomMedia' = [roomMedia EXCEPT ![t] = r]
  <2> PICK r : r = roomMedia'[t] OBVIOUS
  <2>1. DOMAIN roomMedia' = Tracks /\ roomMedia' = [m \in Tracks |-> roomMedia'[m]]
    BY <1>1 DEF RP!MediaStep
  <2>2. roomMedia' = [roomMedia EXCEPT ![t] = r] BY <1>1, <1>4, <2>1
  <2> QED BY <2>2
<1> QED BY <1>3, <1>4, <1>5

LEMMA MediaTrackMedia ==
  ASSUME RoomKinds, MediaGood, NEW t \in Tracks, RP!OnMediaTrack(t), \A j \in Identities : Good(j)
  PROVE  MediaGood'
<1>1. roomMedia[t].at = "arrived" BY DEF RP!OnMediaTrack
<1> PICK s \in RP!Sids : s = roomMedia[t].sid BY <1>1 DEF RoomKinds, MediaTyped
<1> PICK i \in Identities : i = s[1] BY DatedInfos
<1> PICK o : o = RP!GetParticipantBySID(s) OBVIOUS
<1> PICK at : at = IF o = RP!None THEN "deferring" ELSE "find" OBVIOUS
<1>2. RP!MediaStep(t, at, o) BY DEF RP!OnMediaTrack
<1>3. SameNews /\ UNCHANGED <<thread, part, remoteParticipants, sidToIdentity, sidDefers, stranded>>
  BY DEF RP!OnMediaTrack, SameNews, RP!roomVars, RP!sfuVars, RP!ghosts
<1>4. /\ roomMedia'[t].at = at /\ roomMedia'[t].obj = o /\ roomMedia'[t].sid = s
      /\ \E r : roomMedia' = [roomMedia EXCEPT ![t] = r]
  BY <1>2, MediaStepIs
<1>5. \A j \in Identities : Served(t, j)' BY <1>4 DEF Served
<1>6. FoundRight(t)'
  <2> SUFFICES ASSUME at = "find", Live(i), ~Over(s)
               PROVE  There(i) /\ o = remoteParticipants[i] /\ Part(i).sid = s
    BY <1>3, <1>4 DEF FoundRight, Found, Live, Over, There, Part, SameNews
  <2>1. s \in sidToIdentity /\ o = remoteParticipants[i] /\ There(i)
    BY DEF RP!GetParticipantBySID, There
  <2>2. Known(i) BY DEF Good, Follows
  <2>3. s[2] <= Part(i).sid[2] BY <2>1, <2>2 DEF Known, SidsOf
  <2>4. Part(i).sid \in RP!Sids /\ Part(i).sid[1] = i /\ Part(i).sid[2] <= world[i].sid[2]
    BY <2>1, PartSid
  <2>5. Part(i).sid = s BY <2>3, <2>4, Latest
  <2> QED BY <2>1, <2>5
<1> QED BY <1>3, <1>4, <1>5, <1>6, TrackMedia

LEMMA DeferMedia ==
  ASSUME RoomKinds, MediaGood, NEW t \in Tracks, RP!deferParticipantUpdate(t) PROVE MediaGood'
<1>1. roomMedia[t].at = "deferring" BY DEF RP!deferParticipantUpdate
<1> PICK s \in RP!Sids : s = roomMedia[t].sid BY <1>1 DEF RoomKinds, MediaTyped
<1> PICK at : at = "deferred" OBVIOUS
<1>2. /\ RP!MediaStep(t, at, RP!None)
      /\ sidDefers' = [sidDefers EXCEPT ![s] = sidDefers[s] \cup {t}]
      /\ stranded' = IF s \in sidToIdentity THEN stranded \cup {t} ELSE stranded
  BY DEF RP!deferParticipantUpdate
<1>3. SameNews /\ UNCHANGED <<thread, part, remoteParticipants, sidToIdentity>>
  BY DEF RP!deferParticipantUpdate, SameNews, RP!roomVars, RP!sfuVars, RP!ghosts
<1>4. /\ roomMedia'[t].at = "deferred" /\ roomMedia'[t].sid = s
      /\ \E r : roomMedia' = [roomMedia EXCEPT ![t] = r]
  BY <1>2, MediaStepIs
<1>5. t \in sidDefers'[s] /\ \A r \in RP!Sids : sidDefers[r] \subseteq sidDefers'[r]
  BY <1>2 DEF RoomKinds, RoomTyped
<1>6. stranded \subseteq stranded' /\ (s \in sidToIdentity => t \in stranded') BY <1>2
<1>7. FoundRight(t)' BY <1>4 DEF FoundRight, Found
<1>8. ASSUME NEW j \in Identities PROVE Served(t, j)'
  <2>1. world' = world BY <1>3 DEF SameNews
  <2>2. t \in world[j].tracks => world[j].sid = s BY <1>1 DEF RoomKinds, MediaTyped
  <2> QED BY <1>3, <1>4, <1>5, <1>6, <2>1, <2>2 DEF Served
<1> QED BY <1>3, <1>4, <1>5, <1>6, <1>7, <1>8, TrackMedia

LEMMA PollEndsMedia ==
  ASSUME RoomKinds, MediaGood, NEW t \in Tracks, RP!PollEnds(t) PROVE MediaGood'
<1> PICK at, o : at = "failed" /\ o = roomMedia[t].obj OBVIOUS
<1>1. RP!MediaStep(t, at, o) BY DEF RP!PollEnds
<1>2. SameNews /\ UNCHANGED <<thread, part, remoteParticipants, sidToIdentity, sidDefers, stranded>>
  BY DEF RP!PollEnds, SameNews, RP!roomVars, RP!sfuVars, RP!ghosts
<1>3. roomMedia'[t].at = "failed" /\ \E r : roomMedia' = [roomMedia EXCEPT ![t] = r]
  BY <1>1, MediaStepIs
<1>4. FoundRight(t)' /\ \A j \in Identities : Served(t, j)' BY <1>3 DEF FoundRight, Found, Served
<1> QED BY <1>2, <1>3, <1>4, TrackMedia

LEMMA AttachMedia ==
  ASSUME RoomKinds, MediaGood, NEW t \in Tracks, RP!Attach(t) PROVE MediaGood'
<1>1. roomMedia[t].at = "attach" /\ roomMedia[t].at \in Found BY DEF RP!Attach, Found
<1> PICK o \in RP!Objects : o = roomMedia[t].obj /\ roomMedia[t].sid \in RP!Sids
  BY <1>1 DEF RoomKinds, MediaTyped, Found
<1> PICK i \in Identities : i = roomMedia[t].sid[1] BY DatedInfos
<1> PICK at : at = "attached" OBVIOUS
<1>2. RP!MediaStep(t, at, o) BY DEF RP!Attach
<1>3. SameNews /\ UNCHANGED <<thread, remoteParticipants, sidToIdentity, sidDefers>>
  BY DEF RP!Attach, SameNews, RP!roomVars, RP!sfuVars, RP!ghosts
<1>4. \/ UNCHANGED stranded /\ part' = [part EXCEPT ![o].attached = part[o].attached \cup {t}]
      \/ stranded' = stranded \cup {t} /\ UNCHANGED part
  BY DEF RP!Attach
<1>5. /\ \A x \in RP!Objects : part'[x].sid = part[x].sid /\ part[x].attached \subseteq part'[x].attached
      /\ t \in stranded' \/ t \in part'[o].attached
      /\ stranded \subseteq stranded'
  <2>1. CASE UNCHANGED stranded /\ part' = [part EXCEPT ![o].attached = part[o].attached \cup {t}]
    <3> PICK q \in PartKind : q = part[o] BY DEF RoomKinds, PartsTyped, PartKind
    <3>1. part'[o] = [q EXCEPT !.attached = q.attached \cup {t}]
      BY <2>1 DEF RoomKinds, PartsTyped
    <3>2. part'[o].sid = q.sid /\ part'[o].attached = q.attached \cup {t} BY <3>1 DEF PartKind
    <3>3. \A x \in RP!Objects : x # o => part'[x] = part[x] BY <2>1 DEF RoomKinds, PartsTyped
    <3> QED BY <2>1, <3>2, <3>3
  <2>2. CASE stranded' = stranded \cup {t} /\ UNCHANGED part BY <2>2
  <2> QED BY <1>4, <2>1, <2>2
<1>6. /\ roomMedia'[t].at = "attached" /\ roomMedia'[t].obj = o /\ roomMedia'[t].sid = roomMedia[t].sid
      /\ \A m \in Tracks : m # t => roomMedia'[m] = roomMedia[m]
  BY <1>2, MediaStepIs
<1>7. Live(i) /\ ~Over(roomMedia[t].sid) =>
        There(i) /\ o = remoteParticipants[i] /\ Part(i).sid = roomMedia[t].sid
  BY <1>1 DEF MediaGood, FoundRight
<1>8. (Live(i)' <=> Live(i)) /\ world' = world BY <1>3 DEF Live, SameNews
<1>9. There(i) /\ o = remoteParticipants[i] =>
        There(i)' /\ o = remoteParticipants'[i] /\ Part(i)' = part'[o] /\ part'[o].sid = Part(i).sid
  BY <1>3, <1>5 DEF There, Part
<1>10. FoundRight(t)' BY <1>6, <1>7, <1>8, <1>9 DEF FoundRight, Over, Live, There, Part
<1>11. ASSUME NEW j \in Identities PROVE Served(t, j)'
  <2> SUFFICES ASSUME Live(j)', t \in world[j].tracks, t \notin stranded'
               PROVE  There(j)' /\ t \in Part(j)'.attached
    BY <1>6, <1>8 DEF Served
  <2>1. world[j].sid = roomMedia[t].sid /\ world[j].sid[1] = j /\ ~Over(world[j].sid)
    BY <1>1, WantedSid
  <2>2. j = i BY <2>1
  <2> QED BY <2>1, <2>2, <1>5, <1>7, <1>8, <1>9
<1> PICK T \in SUBSET Tracks : T = {t} OBVIOUS
<1>12. \A m \in Tracks \ T : roomMedia'[m] = roomMedia[m] BY <1>6
<1> QED BY <1>3, <1>5, <1>10, <1>11, <1>12, QuietMedia

\* What is found for one is found for those that waited with it.
LEMMA FindMedia ==
  ASSUME RoomKinds, MediaGood, NEW t \in Tracks, RP!Find(t) PROVE MediaGood'
<1> PICK s \in RP!Sids : \E o \in RP!Objects : Finds(t, s, o) BY FindFacts
<1> PICK o \in RP!Objects : Finds(t, s, o) OBVIOUS
<1> PICK i \in Identities : i = s[1] BY DatedInfos
<1>1. /\ s = roomMedia[t].sid /\ o = roomMedia[t].obj /\ SameNews
      /\ roomMedia[t].at \in {"find", "poll"}
      /\ UNCHANGED <<thread, part, remoteParticipants, sidToIdentity, stranded>>
  BY DEF Finds
<1>2. Live(i) /\ ~Over(s) => There(i) /\ o = remoteParticipants[i] /\ Part(i).sid = s
  BY <1>1 DEF MediaGood, FoundRight, Found
<1>3. ASSUME NEW m \in Tracks, roomMedia'[m].at \in {"attach", "poll", "find"}, roomMedia'[m].sid = s,
             roomMedia'[m].obj = o
      PROVE  FoundRight(m)' /\ \A j \in Identities : Served(m, j)'
  <2>1. FoundRight(m)'
    BY <1>1, <1>2, <1>3 DEF FoundRight, Live, Over, There, Part, SameNews
  <2>2. \A j \in Identities : Served(m, j)' BY <1>3 DEF Served
  <2> QED BY <2>1, <2>2
<1> PICK T \in SUBSET Tracks : T = {t} \cup (IF roomMedia[t].at = "find" THEN sidDefers[s] ELSE {})
  <2>1. sidDefers[s] \subseteq Tracks BY DEF RoomKinds, RoomTyped
  <2> QED BY <2>1
<1>4. \A m \in Tracks \ T : roomMedia'[m] = roomMedia[m] BY DEF Finds
<1>5. ASSUME NEW m \in T PROVE FoundRight(m)' /\ \A j \in Identities : Served(m, j)'
  <2>1. CASE m = t
    <3>1. PICK at \in {"attach", "poll"} :
            roomMedia'[t] = [at |-> at, sid |-> s, obj |-> o, session |-> roomMedia[t].session]
      BY DEF Finds
    <3>2. roomMedia'[t].at = at /\ roomMedia'[t].sid = s /\ roomMedia'[t].obj = o BY <3>1
    <3> QED BY <2>1, <3>2, <1>3
  <2>2. CASE m # t
    <3>1. roomMedia'[m] = [at |-> "find", sid |-> s, obj |-> o, session |-> roomMedia[m].session]
      BY <2>2 DEF Finds
    <3>2. roomMedia'[m].at = "find" /\ roomMedia'[m].sid = s /\ roomMedia'[m].obj = o BY <3>1
    <3> QED BY <3>2, <1>3
  <2> QED BY <2>1, <2>2
<1>6. \A r \in RP!Sids : \A m \in sidDefers[r] \ T : m \in sidDefers'[r]
  <2> SUFFICES ASSUME NEW r \in RP!Sids, NEW m \in sidDefers[r], m \notin T PROVE m \in sidDefers'[r]
    OBVIOUS
  <2>1. CASE r # s BY <2>1 DEF Finds
  <2>2. CASE r = s
    <3>1. roomMedia[t].at = "poll" BY <2>2, <1>1
    <3> QED BY <3>1 DEF Finds
  <2> QED BY <2>1, <2>2
<1>7. \A x \in RP!Objects : part'[x].sid = part[x].sid /\ part[x].attached \subseteq part'[x].attached
  BY <1>1
<1>8. stranded \subseteq stranded' BY <1>1
<1> QED BY <1>1, <1>4, <1>5, <1>6, <1>7, <1>8, QuietMedia

-----------------------------------------------------------------------------
(* Every step keeps the invariant.                                         *)

LEMMA InvParts == ParticipantInv <=> RoomKinds /\ (\A j \in Identities : Good(j)) /\ MediaGood
BY DEF ParticipantInv, Good, MediaGood

\* Steps of an updater.
LEMMA UpdaterKeeps ==
  ASSUME ParticipantInv, NEW u \in RP!Updaters,
         \/ RP!Look(u) \/ RP!Add(u) \/ RP!Update(u) \/ RP!Resid(u) \/ RP!DropParticipant(u)
         \/ RP!clearParticipantDefers(u) \/ RP!runParticipantDefers(u) \/ RP!unpublishAllTracks(u)
         \/ \E o \in RP!Objects : RP!Leave(u, o)
  PROVE  RoomKinds' /\ (\A j \in Identities : Good(j)') /\ MediaGood'
<1>0. RoomKinds /\ (\A j \in Identities : Good(j)) /\ MediaGood BY InvParts
<1>1. CASE RP!Look(u) BY <1>0, <1>1, LookKinds, LookGood, LookMedia
<1>2. CASE RP!Add(u)
  <2>1. RoomKinds' BY <1>0, <1>2, AddKinds
  <2>2. PICK x, i, o : Adds(u, x, i, o) BY <1>0, <1>2, AddFacts
  <2> QED BY <1>0, <2>1, <2>2, AddGood, AddMedia
<1>3. CASE RP!Update(u)
  <2>1. RoomKinds' BY <1>0, <1>3, UpdateKinds
  <2>2. PICK x, i, o : Updates(u, x, i, o) BY <1>0, <1>3, UpdateFacts
  <2> QED BY <1>0, <2>1, <2>2, UpdateGood, UpdateMedia
<1>4. CASE RP!Resid(u)
  <2>1. RoomKinds' BY <1>0, <1>4, ResidKinds
  <2>2. PICK x, i, o : Renames(u, x, i, o) BY <1>0, <1>4, ResidFacts
  <2> QED BY <1>0, <2>1, <2>2, ResidGood, ResidMedia
<1>5. CASE RP!DropParticipant(u)
  <2>1. RoomKinds' BY <1>0, <1>5, DropKinds
  <2>2. PICK o : Departed(u, o) BY <1>0, <1>5, DropFacts
  <2> QED BY <1>0, <2>1, <2>2, DropGood, DropMedia
<1>6. CASE RP!clearParticipantDefers(u) BY <1>0, <1>6, ClearKinds, ClearGood, ClearMedia
<1>7. CASE RP!runParticipantDefers(u)
  <2>1. RoomKinds' BY <1>0, <1>7, RunKinds
  <2> QED BY <1>0, <1>7, <2>1, RunGood, RunMedia
<1>8. CASE RP!unpublishAllTracks(u) BY <1>0, <1>8, UnpublishKinds, UnpublishGood, UnpublishMedia
<1>9. ASSUME NEW o \in RP!Objects, RP!Leave(u, o)
      PROVE  RoomKinds' /\ (\A j \in Identities : Good(j)') /\ MediaGood'
  BY <1>0, <1>9, LeaveKinds, LeaveGood, LeaveMedia
<1> QED BY <1>1, <1>2, <1>3, <1>4, <1>5, <1>6, <1>7, <1>8, <1>9

\* Steps that change nothing but media.
LEMMA QuietStep ==
  ASSUME RoomKinds, \A j \in Identities : Good(j), SameNews,
         UNCHANGED <<thread, remoteParticipants, sidToIdentity>>,
         \A o \in RP!Objects : /\ part'[o].sid = part[o].sid /\ part'[o].version = part[o].version
                               /\ part'[o].pubs = part[o].pubs
  PROVE  \A j \in Identities : Good(j)'
BY QuietGood

LEMMA MediaKeeps ==
  ASSUME ParticipantInv, NEW t \in Tracks,
         \/ RP!OnMediaTrack(t) \/ RP!deferParticipantUpdate(t) \/ RP!Find(t) \/ RP!PollEnds(t)
         \/ RP!Attach(t) \/ \E i \in Identities : RP!OnTrack(t, i)
  PROVE  RoomKinds' /\ (\A j \in Identities : Good(j)') /\ MediaGood'
<1>0. RoomKinds /\ (\A j \in Identities : Good(j)) /\ MediaGood BY InvParts
<1>1. CASE RP!OnMediaTrack(t)
  <2>1. SameNews /\ UNCHANGED <<thread, part, remoteParticipants, sidToIdentity>>
    BY <1>1 DEF RP!OnMediaTrack, SameNews, RP!roomVars, RP!sfuVars, RP!ghosts
  <2>2. \A j \in Identities : Good(j)' BY <1>0, <2>1, QuietStep
  <2> QED BY <1>0, <1>1, <2>2, MediaTrackKinds, MediaTrackMedia
<1>2. CASE RP!deferParticipantUpdate(t)
  <2>1. SameNews /\ UNCHANGED <<thread, part, remoteParticipants, sidToIdentity>>
    BY <1>2 DEF RP!deferParticipantUpdate, SameNews, RP!roomVars, RP!sfuVars, RP!ghosts
  <2>2. \A j \in Identities : Good(j)' BY <1>0, <2>1, QuietStep
  <2> QED BY <1>0, <1>2, <2>2, DeferKinds, DeferMedia
<1>3. CASE RP!Find(t)
  <2>1. SameNews /\ UNCHANGED <<thread, part, remoteParticipants, sidToIdentity>>
    BY <1>3 DEF RP!Find, SameNews, RP!roomVars, RP!sfuVars, RP!ghosts
  <2>2. \A j \in Identities : Good(j)' BY <1>0, <2>1, QuietStep
  <2> QED BY <1>0, <1>3, <2>2, FindKinds, FindMedia
<1>4. CASE RP!PollEnds(t)
  <2>1. SameNews /\ UNCHANGED <<thread, part, remoteParticipants, sidToIdentity>>
    BY <1>4 DEF RP!PollEnds, SameNews, RP!roomVars, RP!sfuVars, RP!ghosts
  <2>2. \A j \in Identities : Good(j)' BY <1>0, <2>1, QuietStep
  <2> QED BY <1>0, <1>4, <2>2, PollEndsKinds, PollEndsMedia
<1>5. CASE RP!Attach(t)
  <2>1. SameNews /\ UNCHANGED <<thread, remoteParticipants, sidToIdentity>>
    BY <1>5 DEF RP!Attach, SameNews, RP!roomVars, RP!sfuVars, RP!ghosts
  <2> PICK o : o = roomMedia[t].obj OBVIOUS
  <2>2. part' = [part EXCEPT ![o].attached = part[o].attached \cup {t}] \/ UNCHANGED part
    BY <1>5 DEF RP!Attach
  <2>3. ASSUME NEW x \in RP!Objects
        PROVE  /\ part'[x].sid = part[x].sid /\ part'[x].version = part[x].version
               /\ part'[x].pubs = part[x].pubs
    <3> PICK q \in PartKind : q = part[x] BY <1>0 DEF RoomKinds, PartsTyped, PartKind
    <3>1. part'[x] = part[x] \/ part'[x] = [q EXCEPT !.attached = q.attached \cup {t}]
      BY <1>0, <2>2 DEF RoomKinds, PartsTyped
    <3> QED BY <3>1 DEF PartKind
  <2>4. \A j \in Identities : Good(j)' BY <1>0, <2>1, <2>3, QuietStep
  <2> QED BY <1>0, <1>5, <2>4, AttachKinds, AttachMedia
<1>6. ASSUME NEW i \in Identities, RP!OnTrack(t, i)
      PROVE  RoomKinds' /\ (\A j \in Identities : Good(j)') /\ MediaGood'
  <2>1. SameNews /\ UNCHANGED <<thread, part, remoteParticipants, sidToIdentity>>
    BY <1>6 DEF RP!OnTrack, SameNews, RP!roomVars, RP!sfuVars, RP!ghosts
  <2>2. \A j \in Identities : Good(j)' BY <1>0, <2>1, QuietStep
  <2> QED BY <1>0, <1>6, <2>2, OnTrackKinds, OnTrackMedia
<1> QED BY <1>1, <1>2, <1>3, <1>4, <1>5, <1>6

\* Steps of the connection and of the SFU.
LEMMA SfuKeeps ==
  ASSUME ParticipantInv,
         \/ RP!OnParticipantUpdate \/ RP!OnRestarting \/ RP!OnRestarted \/ RP!LinkFails
         \/ \E i \in Identities : \/ RP!Joins(i) \/ RP!Replaces(i) \/ RP!Departs(i)
                                  \/ \E t \in Tracks : RP!Publishes(i, t) \/ RP!Unpublishes(i, t)
         \/ \E order \in RP!SetToAllKPermutations(Identities) : RP!Moves(order)
  PROVE  RoomKinds' /\ (\A j \in Identities : Good(j)') /\ MediaGood'
<1>0. RoomKinds /\ (\A j \in Identities : Good(j)) /\ MediaGood BY InvParts
<1>1. CASE RP!OnParticipantUpdate
  <2>1. PICK m : Reads(m) BY <1>0, <1>1, ReadFacts
  <2>2. RoomKinds' BY <1>0, <2>1, ReadKinds
  <2> QED BY <1>0, <2>1, <2>2, ReadGood, ReadMedia
<1>2. CASE RP!OnRestarting
  <2>1. Restarts BY <1>0, <1>2, RestartFacts
  <2>2. RoomKinds' BY <1>0, <2>1, RestartKinds
  <2>3. MediaGood' BY <2>1, DeadMedia DEF Restarts
  <2> QED BY <1>0, <2>1, <2>2, <2>3, RestartGood
<1>3. CASE RP!OnRestarted
  <2>1. PICK f : Rejoins(f) /\ Snapshot(f) BY <1>0, <1>3, RejoinFacts
  <2>2. RoomKinds' BY <1>0, <2>1, RejoinKinds
  <2> QED BY <1>0, <2>1, <2>2, RejoinGood, RejoinMedia
<1>4. CASE RP!LinkFails
  <2>1. RoomKinds' /\ LinkGoes BY <1>0, <1>4, LinkKinds
  <2>2. MediaGood' BY <2>1, DeadMedia DEF LinkGoes
  <2> QED BY <1>0, <2>1, <2>2, LinkGood
<1>5. ASSUME NewsStep PROVE RoomKinds' /\ (\A j \in Identities : Good(j)') /\ MediaGood'
  <2>1. RoomKinds' BY <1>0, <1>5, NewsKinds
  <2> QED BY <1>0, <1>5, <2>1, NewsGood, NewsMedia
<1>6. ASSUME NEW i \in Identities,
             \/ RP!Joins(i) \/ RP!Replaces(i) \/ RP!Departs(i)
             \/ \E t \in Tracks : RP!Publishes(i, t) \/ RP!Unpublishes(i, t)
      PROVE  NewsStep
  BY <1>0, <1>6, JoinsStep, ReplacesStep, DepartsStep, PublishesStep, UnpublishesStep
<1>7. ASSUME NEW order \in RP!SetToAllKPermutations(Identities), RP!Moves(order) PROVE NewsStep
  BY <1>0, <1>7, MovesStep
<1> QED BY <1>1, <1>2, <1>3, <1>4, <1>5, <1>6, <1>7

LEMMA IdleKeeps ==
  ASSUME ParticipantInv, UNCHANGED roomVars
  PROVE  RoomKinds' /\ (\A j \in Identities : Good(j)') /\ MediaGood'
<1>0. RoomKinds /\ (\A j \in Identities : Good(j)) /\ MediaGood BY InvParts
<1>1. SameNews /\ UNCHANGED <<remoteParticipants, sidToIdentity, sidDefers, made, part, thread,
                              roomMedia, stranded>>
  BY DEF roomVars, SameNews
<1>2. RoomKinds'
  <2>1. WorldTyped' /\ PartsTyped' /\ RoomTyped' BY <1>0, <1>1, MapsKept DEF SameNews
  <2>2. roomMedia' \in [Tracks -> MediaKind] /\ (\A t \in Tracks : MediaRight(t, roomMedia'[t]))
        /\ \A s \in RP!Sids : \A t \in sidDefers'[s] :
             roomMedia'[t].sid = s /\ roomMedia'[t].at \in Waiting
    BY <1>0, <1>1, MediaIs
  <2>3. sidDefers' \in [RP!Sids -> SUBSET Tracks] /\ stranded' \subseteq Tracks
    BY <1>0, <1>1 DEF RoomKinds, RoomTyped, LinkTyped
  <2> QED BY <1>0, <1>1, <2>1, <2>2, <2>3, QuietKinds
<1>3. \A j \in Identities : Good(j)' BY <1>0, <1>1, QuietStep
<1>4. MediaGood'
  <2> PICK T \in SUBSET Tracks : T = {} OBVIOUS
  <2> QED BY <1>0, <1>1, QuietMedia
<1> QED BY <1>2, <1>3, <1>4

LEMMA ParticipantStep == ParticipantInv /\ [RP!Next]_roomVars => ParticipantInv'
<1> SUFFICES ASSUME ParticipantInv, [RP!Next]_roomVars
             PROVE  RoomKinds' /\ (\A j \in Identities : Good(j)') /\ MediaGood'
  <2>1. (ParticipantInv <=> RoomKinds /\ (\A j \in Identities : Good(j)) /\ MediaGood)'
    BY InvParts, PTL
  <2> QED BY <2>1
<1>1. CASE UNCHANGED roomVars BY <1>1, IdleKeeps
<1>2. CASE RP!Next
  <2>1. CASE \/ RP!OnParticipantUpdate \/ RP!OnRestarting \/ RP!OnRestarted \/ RP!LinkFails
             \/ \E i \in Identities : \/ RP!Joins(i) \/ RP!Replaces(i) \/ RP!Departs(i)
                                      \/ \E t \in Tracks : RP!Publishes(i, t) \/ RP!Unpublishes(i, t)
             \/ \E order \in RP!SetToAllKPermutations(Identities) : RP!Moves(order)
    BY <2>1, SfuKeeps
  <2>2. CASE \E u \in RP!Updaters :
               \/ RP!Look(u) \/ RP!Add(u) \/ RP!Update(u) \/ RP!Resid(u) \/ RP!DropParticipant(u)
               \/ RP!clearParticipantDefers(u) \/ RP!runParticipantDefers(u)
               \/ RP!unpublishAllTracks(u) \/ \E o \in RP!Objects : RP!Leave(u, o)
    BY <2>2, UpdaterKeeps
  <2>3. CASE \E t \in Tracks :
               \/ RP!OnMediaTrack(t) \/ RP!deferParticipantUpdate(t) \/ RP!Find(t) \/ RP!PollEnds(t)
               \/ RP!Attach(t) \/ \E i \in Identities : RP!OnTrack(t, i)
    BY <2>3, MediaKeeps
  <2> QED BY <1>2, <2>1, <2>2, <2>3 DEF RP!Next
<1> QED BY <1>1, <1>2

\* At first nobody is there.
LEMMA ParticipantInit == RP!Init => ParticipantInv
<1> SUFFICES ASSUME RP!Init PROVE RoomKinds /\ (\A j \in Identities : Good(j)) /\ MediaGood
  BY InvParts
<1>0. /\ MaxSids \in Nat \ {0} /\ MaxObjects \in Nat \ {0} /\ MaxInFlight \in Nat /\ RoomRestarts \in Nat
  BY RoomBounds DEF RP!RoomAssumption
<1>1. /\ remoteParticipants = [i \in Identities |-> RP!None]
      /\ sidToIdentity = {} /\ sidDefers = [s \in RP!Sids |-> {}]
      /\ made = [i \in Identities |-> 0] /\ part = [o \in RP!Objects |-> RP!NoPart]
      /\ thread = [u \in RP!Updaters |-> RP!Idle]
      /\ roomMedia = [t \in Tracks |-> RP!NoMedia]
      /\ world = [i \in Identities |->
                    [sid |-> <<i, 1>>, version |-> 0, tracks |-> {}, left |-> TRUE]]
      /\ roomUpdates = <<>> /\ used = {} /\ roomLink = "up" /\ roomSession = 0
      /\ roomOvertaken = {} /\ roomCrossed = {} /\ stranded = {}
  BY DEF RP!Init
<1>2. \A i \in Identities : ~There(i) BY <1>1 DEF There
<1>3. \A u \in RP!Updaters :
        /\ thread[u].at = "idle" /\ thread[u].infos = <<>> /\ thread[u].leaving = {}
        /\ thread[u].obj = RP!None /\ thread[u].old = RP!None /\ thread[u] = RP!Idle
  BY <1>1 DEF RP!Idle
<1>4. \A u \in RP!Updaters : ~Emptying(u) /\ \A i : ~Handles(u, i) /\ ~Resids(u, i)
  BY <1>3 DEF Emptying, Handles, Resids
<1>5. \A u \in RP!Updaters, o \in RP!Objects : ~Drops(u, o) BY <1>3 DEF Drops
<1>6. \A u \in RP!Updaters, i \in Identities : News(u, i) = {} /\ ~Telling(u, i) /\ ~InHand(u, i)
  BY <1>3, <1>5, NoneTold DEF News, Telling, InHand
<1>7. DOMAIN roomUpdates = {} BY <1>1
<1>8. \A t \in Tracks : roomMedia[t].at = "none" BY <1>1 DEF RP!NoMedia
<1>9. \A i \in Identities : /\ world[i].sid = <<i, 1>> /\ world[i].version = 0
                            /\ world[i].tracks = {} /\ world[i].left = TRUE
  BY <1>1
<1>10. WorldTyped
  <2>1. ASSUME NEW i \in Identities PROVE world[i] \in Infos
    <3>1. <<i, 1>> \in RP!Sids BY <1>0 DEF RP!Sids
    <3>2. world[i] = [sid |-> <<i, 1>>, version |-> 0, tracks |-> {}, left |-> TRUE] BY <1>1
    <3> QED BY <3>1, <3>2 DEF Infos, RP!Info
  <2> QED BY <1>1, <1>9, <2>1 DEF WorldTyped
<1>11. LinkTyped BY <1>0, <1>1, <1>3, <1>4 DEF LinkTyped, RP!Updaters
<1>12. QueueTyped
  <2>1. roomUpdates \in Seq([moved : BOOLEAN, infos : Seq(Infos)]) /\ Len(roomUpdates) = 0 BY <1>1
  <2> QED BY <1>0, <1>7, <2>1 DEF QueueTyped
<1>13. PartsTyped
  <2>1. \A o \in RP!Objects : o[1] \in Identities /\ o[2] \in Nat /\ o[2] # 0
    BY <1>0 DEF RP!Objects
  <2>2. \A o \in RP!Objects : ~Made(o) BY <1>1, <2>1 DEF Made
  <2>3. made \in [Identities -> 0 .. MaxObjects] BY <1>0, <1>1
  <2>4. RP!NoPart \in [sid : RP!Sids \cup {RP!None}, version : Nat, pubs : SUBSET Tracks,
                       attached : SUBSET Tracks]
    BY DEF RP!NoPart
  <2>5. RP!NoPart.attached = {} /\ RP!NoPart.pubs = {} BY DEF RP!NoPart
  <2> QED BY <1>1, <2>2, <2>3, <2>4, <2>5 DEF PartsTyped
<1>14. RoomTyped BY <1>1, <1>2 DEF RoomTyped
<1>15. ThreadsTyped
  <2>1. \A u \in RP!Updaters : ThreadTyped(u)
    <3>1. RP!Idle \in [at : Places, infos : Seq(Infos), leaving : SUBSET RP!Objects,
                       obj : RP!Objects \cup {RP!None},
                       old : RP!Objects \cup RP!Sids \cup {RP!None}]
      BY NoneTold DEF RP!Idle, Places
    <3> QED BY <1>3, <3>1, NoneTold DEF ThreadTyped
  <2>2. \A u \in RP!Updaters : ThreadPlaced(u) BY <1>3, <1>4 DEF ThreadPlaced, Applying
  <2> QED BY <1>1, <2>1, <2>2 DEF ThreadsTyped
<1>16. MediaTyped
  <2>1. RP!NoMedia \in [at : MediaPlaces, sid : RP!Sids \cup {RP!None},
                        obj : RP!Objects \cup {RP!None}, session : Nat]
    BY DEF RP!NoMedia, MediaPlaces
  <2> QED BY <1>1, <1>8, <2>1 DEF MediaTyped
<1>17. RoomKinds BY <1>10, <1>11, <1>12, <1>13, <1>14, <1>15, <1>16 DEF RoomKinds
<1>18. ASSUME NEW j \in Identities PROVE Good(j)
  <2>1. Sequential(j) BY <1>4, <1>5, <1>6 DEF Sequential, Alone, DropsItsOwn, AtPlace, RP!Updaters
  <2>2. SidsOf(j) = {} BY <1>1 DEF SidsOf
  <2>3. SidsExact(j) BY <1>2, <2>2 DEF SidsExact
  <2>4. Emptied(j) BY <1>1 DEF Emptied
  <2>5. Follows(j)
    <3>1. Ordered(j) BY <1>2, <1>6, <1>7 DEF Ordered
    <3>2. Ended(j) BY <1>2, <1>5, <1>6, <1>7 DEF Ended
    <3>3. LastWord(j) BY <1>2, <1>6, <1>7, <1>9 DEF LastWord, RoomIs
    <3>4. Known(j) BY <1>2, <2>2 DEF Known
    <3> QED BY <3>1, <3>2, <3>3, <3>4 DEF Follows
  <2> QED BY <2>1, <2>3, <2>4, <2>5 DEF Good
<1>19. MediaGood BY <1>8 DEF MediaGood, FoundRight, Served, Found
<1> QED BY <1>17, <1>18, <1>19

LEMMA RoomTypes == RoomKinds => RP!TypeOK
<1> SUFFICES ASSUME RoomKinds PROVE RP!TypeOK OBVIOUS
<1> USE DEF RoomKinds
<1>1. \A i \in Identities :
        remoteParticipants[i] \in {RP!None} \cup ({i} \X (1 .. made[i]))
  <2> SUFFICES ASSUME NEW i \in Identities, There(i)
               PROVE  remoteParticipants[i] \in {i} \X (1 .. made[i])
    BY DEF There
  <2>1. Made(remoteParticipants[i]) /\ remoteParticipants[i][1] = i BY DEF RoomTyped
  <2> PICK o \in RP!Objects : o = remoteParticipants[i] BY <2>1 DEF Made
  <2>2. MaxObjects \in Nat BY RoomBounds DEF RP!RoomAssumption
  <2>3. made[i] \in 0 .. MaxObjects BY DEF PartsTyped
  <2>4. o = <<i, o[2]>> /\ o[2] \in 1 .. MaxObjects /\ o[2] <= made[i]
    BY <2>1, <2>2 DEF RP!Objects, Made
  <2>5. o[2] \in 1 .. made[i] BY <2>2, <2>3, <2>4
  <2> QED BY <2>4, <2>5
<1>2. \A o \in RP!Objects : /\ part[o].sid \in RP!Sids \cup {RP!None}
                            /\ part[o].attached \subseteq part[o].pubs
                            /\ part[o].pubs \subseteq Tracks
  BY DEF PartsTyped
<1>3. \A u \in RP!Updaters : thread[u].at \in
       {"idle", "look", "leave", "add", "update", "resid", "clear", "run", "remove", "unpublish"}
  BY DEF ThreadsTyped, ThreadTyped, Places
<1>4. \A t \in Tracks : roomMedia[t].at \in
       {"none", "arrived", "deferring", "deferred", "find", "attach", "poll", "attached", "failed"}
  BY DEF MediaTyped, MediaPlaces
<1>5. made \in [Identities -> 0 .. MaxObjects] /\ sidToIdentity \subseteq RP!Sids
      /\ sidDefers \in [RP!Sids -> SUBSET Tracks] /\ Len(roomUpdates) <= MaxInFlight
      /\ used \subseteq Tracks
  BY DEF PartsTyped, RoomTyped, QueueTyped, WorldTyped
<1> QED BY <1>1, <1>2, <1>3, <1>4, <1>5 DEF RP!TypeOK, LinkTyped

\* When nothing is under way the last word is what the room has.
LEMMA SettledFacts ==
  ASSUME ParticipantInv, RP!Settled, NEW i \in Identities \ roomOvertaken
  PROVE  /\ RoomIs(i) /\ ~RunsDefers(i) /\ Live(i) /\ Good(i)
         /\ There(i) => Part(i).sid \in sidToIdentity
         /\ \A u \in RP!Updaters : ~Resids(u, i)
<1>1. /\ roomLink = "up" /\ roomUpdates = <<>> /\ \A u \in RP!Updaters : thread[u].at = "idle"
  BY DEF RP!Settled
<1>2. RoomKinds /\ Good(i) /\ Live(i) BY <1>1, InvParts DEF Live
<1>3. NoneQueued(i) BY <1>1 DEF NoneQueued
<1>4. \A u \in RP!Updaters : /\ thread[u].infos = <<>> /\ ~Emptying(u) /\ thread[u].leaving = {}
  BY <1>1, <1>2 DEF RoomKinds, ThreadsTyped, ThreadPlaced, Emptying
<1>5. \A u \in RP!Updaters : ~InHand(u, i)
  BY <1>4, NoneTold DEF InHand, Telling, News, Drops
<1>6. RoomIs(i) BY <1>2, <1>3, <1>5 DEF Good, Follows, LastWord
<1>7. ~RunsDefers(i) BY <1>1 DEF RunsDefers
<1>8. \A u \in RP!Updaters : ~Resids(u, i) BY <1>1 DEF Resids
<1>9. There(i) => Part(i).sid \in sidToIdentity
  BY <1>2, <1>8 DEF Good, Follows, Known, Renaming
<1> QED BY <1>2, <1>6, <1>7, <1>8, <1>9

LEMMA RoomSettles == ParticipantInv => RP!RoomAgrees
<1> SUFFICES ASSUME ParticipantInv, RP!Settled, NEW i \in Identities \ roomOvertaken
             PROVE  LET rp == remoteParticipants[i]
                        sids == {s \in sidToIdentity : s[1] = i} IN
                    /\ rp # RP!None <=> ~world[i].left
                    /\ rp # RP!None => /\ part[rp].sid = world[i].sid /\ part[rp].pubs = world[i].tracks
                                       /\ part[rp].sid \in sids
                    /\ i \notin roomCrossed =>
                         sids \subseteq {world[i].sid} /\ (rp = RP!None => sids = {})
  BY DEF RP!RoomAgrees
<1>1. /\ RoomIs(i) /\ Good(i) /\ \A u \in RP!Updaters : ~Resids(u, i)
      /\ There(i) => Part(i).sid \in sidToIdentity
  BY SettledFacts
<1>2. There(i) => Part(i).sid[1] = i BY InvParts, PartSid
<1>3. i \notin roomCrossed => /\ ~There(i) => SidsOf(i) = {}
                              /\ There(i) => \A s \in SidsOf(i) : s = Part(i).sid
  BY <1>1 DEF Good, SidsExact
<1> QED BY <1>1, <1>2, <1>3 DEF RoomIs, There, Part, SidsOf

LEMMA MediaSettle == ParticipantInv => RP!MediaFinds
<1> SUFFICES ASSUME ParticipantInv, RP!Settled, NEW t \in Tracks, NEW i \in Identities,
                    t \in world[i].tracks, i \notin roomOvertaken, roomMedia[t].at # "none",
                    roomMedia[t].session = roomSession, t \notin stranded
             PROVE  \/ roomMedia[t].at \in {"arrived", "deferring", "find", "attach", "poll", "failed"}
                    \/ roomMedia[t].at = "attached" /\ t \in part[remoteParticipants[i]].attached
  BY DEF RP!MediaFinds
<1>1. /\ RoomIs(i) /\ ~RunsDefers(i) /\ Live(i)
      /\ There(i) => Part(i).sid \in sidToIdentity
  BY SettledFacts
<1>2. RoomKinds /\ Served(t, i) BY InvParts DEF MediaGood
<1>3. roomMedia[t].at \in MediaPlaces BY <1>2 DEF RoomKinds, MediaTyped
<1>4. There(i) /\ Part(i).sid = world[i].sid BY <1>1, <1>2, WantedSid DEF RoomIs
<1>5. roomMedia[t].at # "deferred" BY <1>1, <1>2, <1>4 DEF Served
<1>6. roomMedia[t].at = "attached" => t \in part[remoteParticipants[i]].attached
  BY <1>1, <1>2 DEF Served, Part
<1> QED BY <1>3, <1>5, <1>6 DEF MediaPlaces

\* Whatever joins, leaves, comes back under another SID, is moved and is told again in a
\* snapshot, the room ends up with the participants, SIDs and tracks of the SFU and media with
\* their publications, for any number of identities, tracks, sessions and reconnects (room.go
\* OnParticipantUpdate, OnRestarting, OnRestarted, runParticipantDefers).
THEOREM ParticipantsAlwaysAgree == RoomSpec => []ParticipantsAgree
<1>1. ParticipantInv => ParticipantsAgree
  BY InvParts, RoomTypes, RoomSettles, MediaSettle DEF ParticipantsAgree
<1> QED BY <1>1, ParticipantInit, ParticipantStep, PTL DEF RoomSpec
=============================================================================
