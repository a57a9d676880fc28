-------------------------- MODULE ConnectionLifecycle --------------------------
(***************************************************************************)
(* What a room promises about its connection: the states that              *)
(* Room.ConnectionState (room.go) reports, and the recovery that must be   *)
(* under way whenever the connection was lost.  RTCEngine implements it.   *)
(***************************************************************************)
VARIABLES
  connectionState,  \* what Room.ConnectionState returns
  ended,            \* the engine was closed: disconnected for good
  recovering        \* somebody works on getting the connection back

vars == <<connectionState, ended, recovering>>

Lost == connectionState \in {"signalReconnecting", "reconnecting"}

Init == connectionState = "disconnected" /\ ended = FALSE /\ recovering = FALSE

Join ==
  /\ connectionState = "disconnected" /\ ~ended /\ ~recovering
  /\ connectionState' = "connected"
  /\ UNCHANGED <<ended, recovering>>

\* Losing the connection and taking responsibility for it are one step.
Lose ==
  /\ connectionState = "connected"
  /\ connectionState' \in {"signalReconnecting", "reconnecting"}
  /\ recovering' = TRUE
  /\ UNCHANGED ended

\* A resume may become a full reconnect; never the other way round.
Escalate ==
  /\ connectionState = "signalReconnecting"
  /\ connectionState' = "reconnecting"
  /\ recovering' = TRUE
  /\ UNCHANGED ended

\* Only whoever took responsibility restores the connection.
Restore ==
  /\ Lost /\ recovering
  /\ connectionState' = "connected"
  /\ UNCHANGED <<ended, recovering>>

Release ==
  /\ recovering /\ recovering' = FALSE
  /\ UNCHANGED <<connectionState, ended>>

\* After a recovery was given up, a new disconnect may start another one.
Rearm ==
  /\ Lost /\ ~recovering
  /\ recovering' = TRUE
  /\ UNCHANGED <<connectionState, ended>>

End ==
  /\ ~ended
  /\ connectionState' = "disconnected" /\ ended' = TRUE
  /\ UNCHANGED recovering

Next == Join \/ Lose \/ Escalate \/ Restore \/ Release \/ Rearm \/ End

Spec == Init /\ [][Next]_vars
=============================================================================
