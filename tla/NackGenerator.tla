--------------------------- MODULE NackGenerator ---------------------------
(***************************************************************************)
(* NackGeneratorInterceptor (pkg/interceptor/nackgenerator.go), one bound  *)
(* stream: what was skipped is pushed into the queue of packets to ask     *)
(* for, what comes is removed from it.  The queue (mediatransportutil) is  *)
(* a set here; how often it asks and when it gives up is its own.          *)
(*                                                                         *)
(* Packets are numbered without end; their sequence number is modulo M.    *)
(***************************************************************************)
EXTENDS Integers, FiniteSets

CONSTANTS
  M,                       \* sequence numbers are modulo M: 2^16 in the code
  Reach,                   \* how far packets overtake each other
  Final                    \* bound: the last packet

\* A packet is overtaken by fewer than half of the sequence numbers.
NackAssumption == {M, Reach, Final} \subseteq Nat /\ Reach < M \div 2 /\ M <= Final

VARIABLES
  seen,                    \* the packets received
  head,                    \* the newest of them; highestSeq is its sequence number
  nackQueue,               \* sequence numbers
  skippedAtWrap            \* packets skipped by a jump from below 0 to beyond it

vars == <<seen, head, nackQueue, skippedAtWrap>>

Seq(n) == n % M

TypeOK ==
  /\ seen \subseteq 0 .. Final /\ head \in seen /\ nackQueue \subseteq 0 .. M - 1
  /\ skippedAtWrap \subseteq 0 .. Final

Init ==
  /\ \E n \in 0 .. M - 1 : seen = {n} /\ head = n
  /\ nackQueue = {} /\ skippedAtWrap = {}

\* Mutant: an arrival is forgotten to be removed.
Removed_Not(n) == nackQueue
Removed(n) == nackQueue \ {Seq(n)}

\* diff := header.SequenceNumber - highestSeq in 16 bits
IsNewer(n) == (Seq(n) - Seq(head) + M) % M \in 1 .. M \div 2 - 1

\* Mutant: the loop begins one too late.
Skipped_Late(n) == (Seq(head) + 2) % M .. Seq(n) - 1

\* for seq := highestSeq + 1; seq < header.SequenceNumber; seq++
Skipped(n) == (Seq(head) + 1) % M .. Seq(n) - 1

Read(n) ==
  /\ n \notin seen /\ n \in head - Reach .. head + Reach /\ n \in 0 .. Final
  /\ \E k \in seen : k <= n      \* what precedes the first packet is not missed
  /\ seen' = seen \cup {n}
  /\ IF IsNewer(n)
     THEN /\ nackQueue' = Removed(n) \cup Skipped(n) /\ head' = n
          /\ skippedAtWrap' = IF Seq(n) < Seq(head) /\ Seq(head) # M - 1
                              THEN skippedAtWrap \cup (head + 1 .. n - 1) ELSE skippedAtWrap
     ELSE nackQueue' = Removed(n) /\ UNCHANGED <<head, skippedAtWrap>>

Next == \E n \in 0 .. Final : Read(n)
Spec == Init /\ [][Next]_vars

-----------------------------------------------------------------------------
Oldest == CHOOSE n \in seen : \A k \in seen : n <= k
Missing == (Oldest .. head) \ seen
Recent == head - Reach .. head

\* What is missing and may still come is asked for; only the loop's comparison at the wrap of the
\* sequence numbers is left out, see LossRequested.
GapsRequested == \A n \in (Missing \cap Recent) \ skippedAtWrap : Seq(n) \in nackQueue

\* Nothing is asked for that came: a late or retransmitted packet, of whatever turn of the
\* sequence numbers, ends the asking.
OnlyMissing == \A q \in nackQueue : \E n \in Missing : Seq(n) = q

\* What the interceptor is for: every packet missing between two others is asked for.  At the wrap
\* the loop ends at once (65535 < 2 is false), and none of the packets skipped there is.
LossRequested == \A n \in Missing \cap Recent : Seq(n) \in nackQueue
=============================================================================
