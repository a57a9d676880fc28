------------------------------ MODULE MCRTCEngine ------------------------------
(* RTCEngine on small instances for TLC. *)
EXTENDS RTCEngine, TLC

CONSTANTS w1, w2, w3, rd1, rd2, r1, orig

MCLeaveSettings == {<<r1>>}
MCNoLeaveSettings == {}
MCDiscovered == <<r1>>
MCNotDiscovered == <<>>

\* Under the fairness of ResponsiveSpec every recovery ends, in a connection or in word to the
\* application that there is none, and a close completes.
ConnectionSettles == RecoveryEnds /\ CloseCompletes

LoopSymmetry == Permutations(Workers) \cup Permutations(Readers)
=============================================================================
