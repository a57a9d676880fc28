---------------------------- MODULE SampleBuilder ----------------------------
(***************************************************************************)
(* SampleBuilder (pkg/samplebuilder): RTP packets are put at their places  *)
(* in a circular array and taken out frame by frame.                       *)
(*                                                                         *)
(* A packet is its place n in the sender's stream, whose sequence number   *)
(* is n modulo M; the array's arithmetic uses the sequence number only.    *)
(* Frames have one and two packets in turn.  Tails says whether the        *)
(* depacketizer sees the last packet of a frame.                           *)
(***************************************************************************)
EXTENDS Integers, Sequences

CONSTANTS
  M,             \* sequence numbers are modulo M: 2^16 in the code
  maxLate,
  Tails,         \* values of "sees the tail of a frame"
  First, Final,  \* bounds: the packets sent
  Reorder, Gap   \* how far back, and past how many, the network delivers

BuilderAssumption ==
  /\ {maxLate, First, Final, Reorder, Gap} \subseteq Nat /\ maxLate >= 2
  /\ M \in Nat /\ M % 2 = 0 /\ M > 4 * maxLate

VARIABLES
  tails,    \* what the depacketizer sees
  newest,   \* the last packet of the stream delivered so far
  s,        \* the builder: packets, head, tail, lastSeqno (or None)
  popped,   \* the packets of the frame popped last
  pop,      \* the last call: Push, or a Pop, forced or not, with or without a result
  gaveUp    \* a forced Pop was called since the last frame popped

vars == <<tails, newest, s, popped, pop, gaveUp>>

N == 2 * maxLate + 1
None == -1
Missing == [n |-> None, start |-> FALSE, end |-> FALSE]

Slots == 0 .. N - 1
inc(i) == (i + 1) % N
dec(i) == (i + N - 1) % N
Seqno(n) == n % M
Minus(a, b) == (a + M - b) % M
Half(a, b) == Minus(a, b) < M \div 2      \* the test of the top bit

Timestamp(n) == 2 * (n \div 3) + (IF n % 3 = 0 THEN 0 ELSE 1)
isStart(n) == n % 3 # 2
isEnd(n) == tails /\ n % 3 # 1

TypeOK ==
  /\ tails \in Tails /\ newest \in First - 1 .. Final
  /\ {s.head, s.tail} \subseteq Slots /\ s.lastSeqno \in -1 .. M - 1
  /\ \A i \in Slots : s.packets[i].n \in {None} \cup First .. Final
  /\ pop \in {"push", "pop", "forced", "nil", "forced nil"} /\ gaveUp \in BOOLEAN

Init ==
  /\ tails \in Tails /\ newest = First - 1 /\ popped = <<>> /\ pop = "push" /\ gaveUp = FALSE
  /\ s = [packets |-> [i \in Slots |-> Missing], head |-> 0, tail |-> 0, lastSeqno |-> None]

-----------------------------------------------------------------------------
Empty(b) == b.head = b.tail
length(b) == (b.head + N - b.tail) % N
Cap == N - 1
At(b, i) == b.packets[i].n
\* The slots in use, from the tail on.
Used(b) == {i \in Slots : ~Empty(b) /\ (i + N - b.tail) % N < length(b)}
Later(b, i, j) == (i + N - b.tail) % N > (j + N - b.tail) % N

\* release, until the first packet in one of the slots, or to the end.
ReleaseTo(b, slots) ==
  LET stops == {i \in Used(b) \cap slots : i # b.tail /\ At(b, i) # None}
      to == IF stops = {} THEN b.head ELSE CHOOSE i \in stops : \A j \in stops : i = j \/ Later(b, j, i)
      gone == {i \in Used(b) : i # to /\ (stops = {} \/ Later(b, to, i))}
      final == CHOOSE i \in gone : At(b, i) # None /\ \A j \in gone : At(b, j) = None \/ i = j \/ Later(b, i, j)
  IN [packets |-> [i \in Slots |-> IF i \in gone THEN Missing ELSE b.packets[i]],
      head |-> IF stops = {} THEN 0 ELSE b.head,
      tail |-> IF stops = {} THEN 0 ELSE to,
      lastSeqno |-> Seqno(At(b, final))]

releaseAll(b) == ReleaseTo(b, {})

\* Mutant: a frame that is dropped takes the frames after it along.
drop_TwoFrames(b) ==
  ReleaseTo(b, {i \in Slots : b.packets[i].start /\ Timestamp(At(b, i)) > Timestamp(At(b, b.tail)) + 1})

drop(b) ==
  ReleaseTo(b, {i \in Slots : b.packets[i].start \/ Timestamp(At(b, i)) # Timestamp(At(b, b.tail))})

-----------------------------------------------------------------------------
(* Push.                                                                   *)

\* Mutant: the packet popped last is not late when it is repeated.
Late_NotRepeated(b, n) ==
  b.lastSeqno # None /\ Minus(b.lastSeqno, Seqno(n)) \in 1 .. maxLate

\* A late packet is refused, unless it is so late that the stream may have
\* begun again; a new one moves lastSeqno up to maxLate behind itself.
Late(b, n) ==
  b.lastSeqno # None /\ Half(b.lastSeqno, Seqno(n)) /\ Minus(b.lastSeqno, Seqno(n)) <= maxLate

Moved(b, n) ==
  LET behind == Minus(Seqno(n), maxLate)
      before == Minus(Seqno(At(b, b.tail)), 1)
  IN IF b.lastSeqno = None THEN b
     ELSE IF Half(b.lastSeqno, Seqno(n)) THEN [b EXCEPT !.lastSeqno = None]
     ELSE IF ~Half(behind, b.lastSeqno) THEN b
     ELSE [b EXCEPT !.lastSeqno = IF ~Empty(b) /\ Half(behind, before) THEN before ELSE behind]

Put(b, i, n, start, end) ==
  [b EXCEPT !.packets[i] = [n |-> n, start |-> start, end |-> end]]

PushFirst(b, n) == [Put(b, 0, n, isStart(n), isEnd(n)) EXCEPT !.tail = 0, !.head = 1]

PushNext(b, n) ==
  LET room == IF b.tail = inc(b.head) THEN drop(b) ELSE b
      last == dec(b.head)
      start == IF Empty(room) THEN isStart(n)
               ELSE \/ room.packets[last].end \/ isStart(n)
                    \/ Timestamp(At(room, last)) # Timestamp(n)
      ended == IF start /\ ~Empty(room) THEN [room EXCEPT !.packets[last].end = TRUE] ELSE room
  IN [Put(ended, ended.head, n, start, isEnd(n)) EXCEPT !.head = inc(@)]

\* Drops frames until the packet fits behind the gap.
RECURSIVE MakeRoom(_, _)
MakeRoom(b, count) ==
  IF Empty(b) \/ length(b) + count + 1 < Cap THEN b ELSE MakeRoom(drop(b), count)

PushAhead(b, n, count) ==
  LET room == MakeRoom(b, count)
      index == (room.head + count) % N
  IN IF length(room) + count + 1 >= Cap THEN room
     ELSE [Put(room, index, n, isStart(n), isEnd(n)) EXCEPT !.head = inc(index)]

\* The neighbours of a packet that fills a gap learn where frames begin.
Filled(b, index, n) ==
  LET prev == IF index = b.tail THEN Missing ELSE b.packets[dec(index)]
      next == b.packets[inc(index)]
      head == isStart(n) \/ (prev.n # None /\ Timestamp(prev.n) # Timestamp(n))
      tail == isEnd(n) \/ (next.n # None /\ Timestamp(next.n) # Timestamp(n))
      flagged == [b EXCEPT !.packets[dec(index)] = IF prev.n # None /\ head THEN [@ EXCEPT !.end = TRUE] ELSE @,
                           !.packets[inc(index)] = IF next.n # None /\ tail THEN [@ EXCEPT !.start = TRUE] ELSE @]
  IN Put(flagged, index, n, head \/ prev.end, tail \/ next.start)

PushBehind(b, n, count) ==
  LET index == (b.head + N - count) % N
      outside == IF b.tail < b.head THEN index < b.tail \/ index > b.head
                 ELSE index < b.tail /\ index > b.head
      wide == IF outside THEN [b EXCEPT !.tail = index] ELSE b
  IN IF count >= Cap THEN b
     ELSE IF At(wide, index) # None THEN wide
     ELSE Filled(wide, index, n)

RECURSIVE Pushed(_, _)
Pushed(b, n) ==
  LET moved == Moved(b, n)
      last == Seqno(At(moved, dec(moved.head)))
      ahead == Minus(Minus(Seqno(n), last), 1)
  IN IF Late(b, n) THEN b
     ELSE IF Empty(moved) THEN PushFirst(moved, n)
     ELSE IF ahead = 0 THEN PushNext(moved, n)
     ELSE IF ~Half(Seqno(n), last) \/ Seqno(n) = last
     THEN PushBehind(moved, n, Minus(last, Seqno(n)) + 1)
     ELSE IF ahead >= Cap THEN Pushed(releaseAll(moved), n)
     ELSE PushAhead(moved, n, ahead)

Push(n) ==
  /\ n >= First /\ n <= Final
  /\ s' = Pushed(s, n)
  /\ newest' = IF n > newest THEN n ELSE newest
  /\ pop' = "push"
  /\ UNCHANGED <<tails, popped, gaveUp>>

-----------------------------------------------------------------------------
(* PopPackets and ForcePopPackets.                                         *)

\* Mutant: a frame behind a lost packet is returned at once.
Blocked_Never(b, force) == FALSE

Blocked(b, force) ==
  ~force /\ b.lastSeqno # None /\ (b.lastSeqno + 1) % M # Seqno(At(b, b.tail))

\* Mutant: a missing packet does not end the search.
Ends_SkipsMissing(b) ==
  LET stops == {i \in Used(b) : b.packets[i].end} IN
  IF stops = {} THEN b.head ELSE CHOOSE i \in stops : \A j \in stops : i = j \/ Later(b, j, i)

\* The slot of the first end or missing packet from the tail on.
Ends(b) ==
  LET stops == {i \in Used(b) : b.packets[i].end \/ At(b, i) = None} IN
  IF stops = {} THEN b.head ELSE CHOOSE i \in stops : \A j \in stops : i = j \/ Later(b, j, i)

Frame(b, last) ==
  [k \in 1 .. ((last + N - b.tail) % N) + 1 |-> At(b, (b.tail + k - 1) % N)]

\* popRtpPackets: the builder after it, and the packets returned.
RECURSIVE Popped(_, _)
Popped(b, force) ==
  LET nothing == [b |-> b, packets |-> <<>>]
      again == Popped(drop(b), force)
      last == Ends(b)
      span == Minus(Seqno(At(b, dec(b.head))), Seqno(At(b, b.tail)))
  IN IF Empty(b) THEN nothing
     ELSE IF ~b.packets[b.tail].start
     THEN IF force \/ span > maxLate THEN again ELSE nothing
     ELSE IF Blocked(b, force) THEN nothing
     ELSE IF last = b.head THEN nothing
     ELSE IF At(b, last) = None THEN (IF force THEN again ELSE nothing)
     ELSE [b |-> ReleaseTo(b, {i \in Slots : Later(b, i, last)}), packets |-> Frame(b, last)]

Pop(force) ==
  LET result == Popped(s, force) IN
  /\ s' = result.b
  /\ popped' = IF result.packets = <<>> THEN popped ELSE result.packets
  /\ pop' = IF result.packets # <<>> THEN (IF force THEN "forced" ELSE "pop")
            ELSE IF force THEN "forced nil" ELSE "nil"
  /\ gaveUp' = (force \/ (gaveUp /\ result.packets = <<>>))
  /\ UNCHANGED <<tails, newest>>

-----------------------------------------------------------------------------
Next ==
  \/ \E n \in newest - Reorder .. newest + 1 + Gap : Push(n)
  \/ \E force \in BOOLEAN : Pop(force)

Spec == Init /\ [][Next]_vars

-----------------------------------------------------------------------------
\* "The invariants that this data structure obeys are codified in the
\* function check" (samplebuilder.go:38).
check ==
  ~Empty(s) =>
    LET tail == Seqno(At(s, s.tail)) IN
    /\ At(s, s.tail) # None /\ At(s, dec(s.head)) # None
    /\ s.lastSeqno # None => tail # s.lastSeqno /\ Half(tail, s.lastSeqno)
    /\ \A i \in Slots : At(s, i) # None =>
         /\ i \in Used(s)
         /\ Seqno(At(s, i)) = (tail + ((i + N - s.tail) % N)) % M
         /\ i # s.tail /\ ~s.packets[i].start /\ At(s, dec(i)) # None =>
              Timestamp(At(s, dec(i))) = Timestamp(At(s, i))
         /\ i # dec(s.head) /\ ~s.packets[i].end /\ At(s, inc(i)) # None =>
              Timestamp(At(s, inc(i))) = Timestamp(At(s, i))

\* What is popped is one whole frame: its first packet, its last, and all
\* between them.
FramesWhole ==
  popped # <<>> =>
    /\ isStart(popped[1]) /\ popped[Len(popped)] % 3 # 1
    /\ \A k \in 2 .. Len(popped) :
         popped[k] = popped[k - 1] + 1 /\ Timestamp(popped[k]) = Timestamp(popped[1])

\* Frames come out in the order they were sent, none of them twice, whatever
\* the network reorders and repeats within maxLate.
FramesInOrder == [][popped # popped' /\ popped # <<>> => popped'[1] > popped[Len(popped)]]_vars

\* An unforced Pop passes over packets that are missing only when one has come
\* that is at least maxLate ahead of them.
LossIsWaitedFor ==
  [][popped # popped' /\ popped # <<>> /\ ~gaveUp /\ pop' = "pop" /\ popped'[1] # popped[Len(popped)] + 1
       => newest - (popped'[1] - 1) >= maxLate]_vars

\* maxLate is "the maximum delay, in RTP sequence numbers, that the
\* samplebuilder will wait before dropping a frame" (samplebuilder.go:64).
MaxDelay ==
  pop = "nil" /\ ~Empty(s) => At(s, dec(s.head)) - At(s, s.tail) <= maxLate

\* "After ForcePopWithTimestamp returns nil, the SampleBuilder is guaranteed
\* to be empty" (samplebuilder.go:531).
ForcedEmpty == pop = "forced nil" => Empty(s)
=============================================================================
