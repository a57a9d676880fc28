--------------------------- MODULE ConnectionManager ---------------------------
(***************************************************************************)
(* The connection manager of the RTC engine (connection_manager.go): the   *)
(* connection state, the recovery-worker slot, the region settings of the  *)
(* last leave request and the region of the last established connection,   *)
(* all guarded by one mutex.  Every operation below is one critical        *)
(* section of that mutex; RTCEngine.tla calls them from its goroutines.    *)
(***************************************************************************)
EXTENDS Naturals, Sequences

CONSTANTS
  Regions,        \* region names, the caller's own URL (cOriginalRegion) included
  Original,       \* cOriginalRegion, the region standing for the caller's URL
  NoRegion,       \* connectedRegion = nil
  LeaveSettings,  \* region lists a leave request may carry
  NoSettings,     \* regionSettings = nil
  Discovered      \* what the region provider answers, <<>> when discovery is off

ASSUME RegionsAssumption ==
  /\ Original \in Regions
  /\ NoRegion \notin Regions
  /\ LeaveSettings \subseteq Seq(Regions)
  /\ NoSettings \notin LeaveSettings
  /\ Discovered \in Seq(Regions)

VARIABLES
  state,           \* connectionManagerState
  recovering,      \* is a recovery worker running
  regionSettings,  \* settings of the last leave request, or NoSettings
  connectedRegion  \* region of the last established connection, or NoRegion

cmVars == <<state, recovering, regionSettings, connectedRegion>>

States == {"INITIAL", "CONNECTED", "RESUMING", "RECONNECTING", "CLOSED"}

cmTypeOK ==
  /\ state \in States
  /\ recovering \in BOOLEAN
  /\ regionSettings \in LeaveSettings \cup {NoSettings}
  /\ connectedRegion \in Regions \cup {NoRegion}

cmInit ==
  /\ state = "INITIAL"
  /\ recovering = FALSE
  /\ regionSettings = NoSettings
  /\ connectedRegion = NoRegion

-----------------------------------------------------------------------------
(* State transitions.  CLOSED is terminal in each of them.                 *)

setConnected_KeepsSettings(region) ==
  /\ IF state = "CLOSED"
     THEN UNCHANGED <<state, connectedRegion>>
     ELSE state' = "CONNECTED" /\ connectedRegion' = region
  /\ UNCHANGED <<recovering, regionSettings>>

setConnected_Reopens(region) ==
  /\ state' = "CONNECTED"
  /\ regionSettings' = NoSettings
  /\ connectedRegion' = region
  /\ UNCHANGED recovering

setConnected(region) ==
  /\ IF state = "CLOSED"
     THEN UNCHANGED <<state, regionSettings, connectedRegion>>
     ELSE /\ state' = "CONNECTED"
          /\ regionSettings' = NoSettings
          /\ connectedRegion' = region
  /\ UNCHANGED recovering

canResume_Unguarded == state # "CLOSED"

\* Whether setResumed takes effect: not once a full reconnect was asked for.
canResume == state = "RESUMING"

setResumed(region) ==
  /\ IF canResume
     THEN /\ state' = "CONNECTED"
          /\ regionSettings' = NoSettings
          /\ connectedRegion' = region
     ELSE UNCHANGED <<state, regionSettings, connectedRegion>>
  /\ UNCHANGED recovering

setResumingLocked(settings) ==
  /\ CASE state = "CONNECTED" ->
            state' = "RESUMING" /\ regionSettings' = settings
       [] state = "RESUMING" /\ settings # NoSettings ->
            regionSettings' = settings /\ UNCHANGED state
       [] OTHER -> UNCHANGED <<state, regionSettings>>
  /\ UNCHANGED connectedRegion

setReconnectingLocked_Initial(settings) ==
  /\ IF state = "CLOSED" \/ (state = "RECONNECTING" /\ settings = NoSettings)
     THEN UNCHANGED <<state, regionSettings>>
     ELSE state' = "RECONNECTING" /\ regionSettings' = settings
  /\ UNCHANGED connectedRegion

setReconnectingLocked(settings) ==
  /\ IF \/ state \in {"CLOSED", "INITIAL"}
        \/ state = "RECONNECTING" /\ settings = NoSettings
     THEN UNCHANGED <<state, regionSettings>>
     ELSE state' = "RECONNECTING" /\ regionSettings' = settings
  /\ UNCHANGED connectedRegion

\* A resume that failed escalates to a full reconnect.
setReconnecting(settings) ==
  setReconnectingLocked(settings) /\ UNCHANGED recovering

setClosed ==
  /\ state' = "CLOSED"
  /\ regionSettings' = NoSettings
  /\ UNCHANGED <<recovering, connectedRegion>>

-----------------------------------------------------------------------------
(* The recovery-worker slot.                                               *)

needsRecovery(s) == s \in {"RESUMING", "RECONNECTING"}

requestRecovery_Always(fullReconnect, settings, startWorker) ==
  /\ IF fullReconnect THEN setReconnectingLocked(settings)
                      ELSE setResumingLocked(settings)
  /\ startWorker = needsRecovery(state')
  /\ recovering' = (recovering \/ startWorker)

\* Applies the transition; startWorker says whether the caller must start one.
requestRecovery(fullReconnect, settings, startWorker) ==
  /\ IF fullReconnect THEN setReconnectingLocked(settings)
                      ELSE setResumingLocked(settings)
  /\ startWorker = (needsRecovery(state') /\ ~recovering)
  /\ recovering' = (recovering \/ startWorker)

recoveryWorkerShouldContinue_Never(continue) ==
  /\ continue = FALSE
  /\ recovering' = FALSE
  /\ UNCHANGED <<state, regionSettings, connectedRegion>>

\* Releases the slot unless the state still needs recovery.
recoveryWorkerShouldContinue(continue) ==
  /\ continue = needsRecovery(state)
  /\ recovering' = (recovering /\ continue)
  /\ UNCHANGED <<state, regionSettings, connectedRegion>>

stopRecoveryWorker_KeepsSlot == UNCHANGED cmVars

stopRecoveryWorker ==
  /\ recovering' = FALSE
  /\ UNCHANGED <<state, regionSettings, connectedRegion>>

-----------------------------------------------------------------------------
(* Connection plans: the regions to try, in order.                         *)

\* The server's list if it sent one, else the region connected last.
knownRegions ==
  CASE regionSettings # NoSettings -> regionSettings
    [] regionSettings = NoSettings /\ connectedRegion # NoRegion -> <<connectedRegion>>
    [] OTHER -> <<>>

canPlan == state \notin {"CONNECTED", "CLOSED"}

\* discovery is what the region provider returned: Discovered, or <<>> on error.
regionsToTry(discovery) ==
  CASE state = "INITIAL"      -> discovery \o <<Original>>
    [] state = "RESUMING"     -> knownRegions \o <<Original>>
    [] state = "RECONNECTING" -> knownRegions \o discovery \o <<Original>>

\* buildConnectionPlan keeps the first occurrence of every region name.
attempts(regions) ==
  {i \in 1..Len(regions) : \A j \in 1..(i - 1) : regions[j] # regions[i]}

=============================================================================
