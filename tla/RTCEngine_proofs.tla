---------------------------- MODULE RTCEngine_proofs ----------------------------
(***************************************************************************)
(* Proofs about RTCEngine, for every set of workers, regions and bounds.   *)
(***************************************************************************)
EXTENDS RTCEngine, SequenceTheorems, TLAPS

\* Labels at which attempt[p] points into plan[p].
AttemptLabels == {"swap", "first", "report", "wait", "settle"}

\* Labels of a worker past the check of maxReconnectCount in its loop.
CountedLabels == ActiveLabels \ {"loop", "stop"}

PlanInv ==
  /\ \A p \in Joiners : pc[p] \in AttemptLabels => attempt[p] \in 1..Len(plan[p])
  /\ \A w \in Workers : pc[w] \in CountedLabels => reconnectCount[w] < MaxReconnectCount
  /\ mode[App] = "join"

Typed == TypeOK /\ PlanInv

\* There is nothing to recover before the first join.
JoinedFirst == recovering => state # "INITIAL"

\* The recovery protocol: the worker slot against the state and the goroutines.
Protocol ==
  /\ WorkerSlot
  /\ NoOrphanedRecovery
  /\ JoinExclusive
  /\ SettingsFresh
  /\ JoinedFirst

\* The inductive invariant.
IInv == Typed /\ Protocol

-----------------------------------------------------------------------------
\* Every plan is a sequence of regions (getConnectionPlan*, 446-545).
LEMMA PlanType ==
  ASSUME cmTypeOK, canPlan, NEW discovery \in {<<>>, Discovered}
  PROVE  regionsToTry(discovery) \in Seq(Regions)
<1>1. /\ Discovered \in Seq(Regions) /\ <<>> \in Seq(Regions)
      /\ <<Original>> \in Seq(Regions)
  BY RegionsAssumption
<1>2. knownRegions \in Seq(Regions)
  <2>1. connectedRegion # NoRegion => <<connectedRegion>> \in Seq(Regions)
    BY DEF cmTypeOK
  <2>2. regionSettings # NoSettings => regionSettings \in Seq(Regions)
    BY RegionsAssumption DEF cmTypeOK
  <2> QED BY <1>1, <2>1, <2>2 DEF knownRegions
<1>3. /\ discovery \o <<Original>> \in Seq(Regions)
      /\ knownRegions \o <<Original>> \in Seq(Regions)
      /\ (knownRegions \o discovery) \o <<Original>> \in Seq(Regions)
  <2>1. knownRegions \o discovery \in Seq(Regions)
    BY <1>1, <1>2, ConcatProperties, Zenon
  <2> QED BY <1>1, <1>2, <2>1, ConcatProperties, Zenon
<1>4. state \in {"INITIAL", "RESUMING", "RECONNECTING"}
  BY DEF canPlan, cmTypeOK, States
<1> QED
  BY <1>3, <1>4 DEF regionsToTry

\* The transitions requestRecovery may take.
Degrades ==
  \/ state' = state
  \/ recovering' /\ state = "CONNECTED" /\ needsRecovery(state')
  \/ recovering' /\ state = "RESUMING" /\ state' = "RECONNECTING"

\* The free worker slot is claimed for a new worker.
Claims(next) ==
  /\ ~recovering /\ recovering' /\ needsRecovery(state')
  /\ \E w \in Workers : pc[w] = "idle" /\ pc' = [next EXCEPT ![w] = "loop"]

\* The effect of handleDisconnect on the manager and the goroutines.
LEMMA HandleDisconnectEffect ==
  ASSUME cmTypeOK, SettingsFresh, closed \in BOOLEAN,
         NEW full \in BOOLEAN, NEW settings \in LeaveArgs, NEW next,
         HandleDisconnect(full, settings, next)
  PROVE  /\ cmTypeOK' /\ SettingsFresh' /\ Degrades
         /\ (pc' = next /\ recovering' = recovering) \/ Claims(next)
<1>1. CASE closed
  BY <1>1 DEF HandleDisconnect, cmVars, cmTypeOK, SettingsFresh, needsRecovery, Degrades
<1>2. CASE ~closed
  <2>1. PICK start \in BOOLEAN :
           /\ requestRecovery(full, settings, start)
           /\ IF start
              THEN \E w \in Workers : At(w, "idle") /\ pc' = [next EXCEPT ![w] = "loop"]
              ELSE pc' = next
    BY <1>2 DEF HandleDisconnect
  <2> QED
    BY <2>1 DEF requestRecovery, setReconnectingLocked, setResumingLocked, needsRecovery,
                At, cmTypeOK, States, SettingsFresh, LeaveArgs, Degrades, Claims
<1> QED BY <1>1, <1>2

\* A joiner that moves on inside its attempt, the manager untouched, disturbs
\* neither the program counters' type nor the recovery protocol.
LEMMA AttemptMoves ==
  ASSUME IInv, NEW p \in Joiners,
         pc[p] \in IF p = App THEN AppLabels \ {"joined"} ELSE ActiveLabels, NEW l,
         l \in IF p = App THEN AppLabels \ {"joined"} ELSE ActiveLabels,
         Goto(p, l), UNCHANGED <<cmVars, closed>>
  PROVE  pcTypeOK' /\ Protocol'
<1> USE ProcsAssumption DEF IInv, Typed, TypeOK, pcTypeOK, cmVars, Procs, Joiners, ActiveLabels,
        GaveUpLabels, AppLabels, Goto
<1>1. pcTypeOK'
  OBVIOUS
<1>2. \A w \in Workers : (Active(w)' <=> Active(w)) /\ (HasGivenUp(w)' <=> HasGivenUp(w))
  BY DEF Active, HasGivenUp
<1>3. pc[App] # "joined" <=> pc'[App] # "joined"
  OBVIOUS
<1> HIDE DEF Typed, TypeOK, pcTypeOK
<1>4. Protocol'
  BY <1>2, <1>3 DEF Protocol, WorkerSlot, NoOrphanedRecovery, JoinExclusive, SettingsFresh,
     JoinedFirst, needsRecovery
<1> QED BY <1>1, <1>4

\* Where a failed plan or attempt leads, and what becomes of the count.
LEMMA FailJobEffect ==
  ASSUME IInv, NEW p \in Joiners, pc[p] \in {"plan", "dial"}, FailJob(p)
  PROVE  /\ reconnectCount' \in [Workers -> 0..MaxReconnectCount]
         /\ \A w \in Workers : w # p => reconnectCount'[w] = reconnectCount[w]
         /\ \E l \in {"failed", "escalate", "loop"} :
              /\ l \in IF p = App THEN AppLabels ELSE ActiveLabels
              /\ l = "escalate" => reconnectCount' = reconnectCount
              /\ Goto(p, l)
<1> USE ProcsAssumption DEF IInv, Typed, TypeOK, jobTypeOK, Joiners, ActiveLabels, AppLabels
<1>1. CASE p = App
  BY <1>1 DEF FailJob
<1>2. CASE p # App /\ mode[p] = "resume"
  BY <1>2 DEF FailJob
<1>3. CASE p # App /\ mode[p] # "resume"
  <2>1. p \in Workers
    BY <1>3
  <2>2. pc[p] \in CountedLabels
    BY DEF CountedLabels
  <2>3. reconnectCount[p] \in 0..MaxReconnectCount /\ reconnectCount[p] < MaxReconnectCount
    BY <2>1, <2>2 DEF PlanInv
  <2>4. /\ Goto(p, "loop")
        /\ reconnectCount' = [reconnectCount EXCEPT ![p] = @ + 1]
    BY <1>3 DEF FailJob
  <2>5. reconnectCount[p] + 1 \in 0..MaxReconnectCount
    BY <2>3
  <2>6. reconnectCount' \in [Workers -> 0..MaxReconnectCount]
    BY <2>1, <2>4, <2>5
  <2>7. \A w \in Workers : w # p => reconnectCount'[w] = reconnectCount[w]
    BY <2>4
  <2>8. "loop" \in IF p = App THEN AppLabels ELSE ActiveLabels
    BY <1>3
  <2> QED BY <2>4, <2>6, <2>7, <2>8
<1> QED BY <1>1, <1>2, <1>3

\* The compare-and-swap of Close keeps its variables in their types.
LEMMA CloseEngineType ==
  ASSUME TypeOK, NEW p \in Procs, CloseEngine(p)
  PROVE  closed' \in BOOLEAN /\ closing' \in Procs \cup {Nobody} /\ (closed => closed')
BY DEF CloseEngine, TypeOK

\* The transport's variables keep their types when it is closed, and when a
\* first message is read and a reader started.
LEMMA CloseTransportType ==
  ASSUME transportTypeOK, NEW c \in Closers, CloseTransport(c)
  PROVE  transportTypeOK'
BY DEF transportTypeOK, CloseTransport, ClosedConn

LEMMA ReadType ==
  ASSUME transportTypeOK, conn' = AfterRead, Start \/ UNCHANGED readers,
         UNCHANGED <<awaited, closeCbs>>
  PROVE  transportTypeOK'
BY DEF transportTypeOK, AfterRead, Start

\* The attempts left are positions of the plan, and so is the next one.
LEMMA NextAttemptType ==
  ASSUME jobTypeOK, NEW p \in Joiners, NextAttempt(p)
  PROVE  /\ attempt' \in [Joiners -> Nat]
         /\ attempt'[p] \in 1..Len(plan[p])
         /\ \A q \in Joiners : q # p => attempt'[q] = attempt[q]
<1>1. plan[p] \in Seq(Regions)
  BY DEF jobTypeOK
<1>2. PICK i \in Left(p) : attempt' = [attempt EXCEPT ![p] = i]
  BY DEF NextAttempt
<1>3. i \in 1..Len(plan[p])
  BY <1>2 DEF Left, attempts
<1>4. i \in Nat
  BY <1>1, <1>3, LenProperties
<1> QED BY <1>2, <1>3, <1>4 DEF jobTypeOK

\* Program counters that stand, for the invariant, where the present ones do.
SameStanding(next) ==
  /\ next \in [Procs -> ActiveLabels \cup GaveUpLabels \cup AppLabels \cup {"idle", "done"}]
  /\ \A w \in Workers : /\ next[w] \in ActiveLabels <=> pc[w] \in ActiveLabels
                        /\ next[w] \in GaveUpLabels <=> pc[w] \in GaveUpLabels
                        /\ next[w] = "idle" <=> pc[w] = "idle"
                        /\ next[w] \in CountedLabels => pc[w] \in CountedLabels
  /\ next[App] \in AppLabels /\ (next[App] = "joined" <=> pc[App] = "joined")
  /\ \A p \in Joiners : next[p] \in AttemptLabels => pc[p] \in AttemptLabels
  /\ next[Reader] = pc[Reader] /\ next[User] = pc[User]

\* handleDisconnect preserves the invariant, whoever calls it.
LEMMA HandleDisconnectInv ==
  ASSUME IInv, NEW full \in BOOLEAN, NEW settings \in LeaveArgs, NEW next,
         SameStanding(next), HandleDisconnect(full, settings, next),
         UNCHANGED <<jobVars, closed>>
  PROVE  cmTypeOK' /\ pcTypeOK' /\ jobTypeOK' /\ PlanInv' /\ Protocol'
<1> USE ProcsAssumption DEF IInv, Typed, Procs, Joiners
<1>1. /\ cmTypeOK' /\ SettingsFresh' /\ Degrades
      /\ (pc' = next /\ recovering' = recovering) \/ Claims(next)
  BY HandleDisconnectEffect DEF TypeOK, Protocol
<1>2. CASE pc' = next /\ recovering' = recovering
  <2>1. pcTypeOK' /\ jobTypeOK' /\ PlanInv'
    BY <1>2 DEF TypeOK, pcTypeOK, jobTypeOK, PlanInv, SameStanding, jobVars, ActiveLabels,
       GaveUpLabels
  <2>2. WorkerSlot'
    BY <1>2 DEF Protocol, WorkerSlot, Active, SameStanding
  <2>3. NoOrphanedRecovery'
    BY <1>1, <1>2 DEF Protocol, NoOrphanedRecovery, HasGivenUp, SameStanding, needsRecovery,
       Degrades
  <2>4. JoinExclusive'
    BY <1>1, <1>2 DEF Protocol, JoinExclusive, SameStanding, needsRecovery,
       Degrades
  <2>5. JoinedFirst'
    BY <1>1, <1>2 DEF Protocol, JoinedFirst, needsRecovery, Degrades
  <2> QED BY <1>1, <2>1, <2>2, <2>3, <2>4, <2>5 DEF Protocol
<1>3. CASE Claims(next)
  <2>1. PICK w \in Workers : pc[w] = "idle" /\ pc' = [next EXCEPT ![w] = "loop"]
    BY <1>3 DEF Claims
  <2>2. /\ next[w] = "idle" /\ pc'[w] = "loop"
        /\ \A q \in Procs : q # w => pc'[q] = next[q]
        /\ pc' \in [Procs -> ActiveLabels \cup GaveUpLabels \cup AppLabels \cup {"idle", "done"}]
    BY <2>1 DEF SameStanding, ActiveLabels
  <2>3. pcTypeOK'
    BY <2>2 DEF TypeOK, pcTypeOK, SameStanding, ActiveLabels, GaveUpLabels
  <2>4. jobTypeOK' /\ PlanInv'
    BY <2>2 DEF TypeOK, jobTypeOK, PlanInv, SameStanding, jobVars, AttemptLabels,
       CountedLabels
  <2>5. \A v \in Workers : ~Active(v)
    BY <1>3 DEF Protocol, WorkerSlot, Claims
  <2>6. WorkerSlot'
    BY <1>3, <2>2, <2>5 DEF WorkerSlot, Active, SameStanding, ActiveLabels, Claims
  <2>7. pc[App] = "joined"
    BY <1>1, <1>3 DEF Protocol, JoinExclusive, TypeOK, cmTypeOK, States, needsRecovery,
       Degrades, Claims
  <2> QED BY <1>1, <1>3, <2>2, <2>3, <2>4, <2>6, <2>7
          DEF Protocol, NoOrphanedRecovery, JoinExclusive, JoinedFirst, needsRecovery,
              SameStanding, Claims
<1> QED BY <1>1, <1>2, <1>3

\* Planning an attempt (getConnectionPlan) and giving up on it.
LEMMA PlanInvariant ==
  ASSUME IInv, NEW p \in Joiners, Plan(p)
  PROVE  IInv'
<1> USE DEF IInv, Typed
<1>1. pc[p] = "plan" /\ pc[p] \in ActiveLabels \cap AppLabels /\ UNCHANGED <<cmVars, closed>>
  BY DEF Plan, At, ActiveLabels, AppLabels, closeVars
<1>2. /\ attempt' = [attempt EXCEPT ![p] = 0] /\ attempt' \in [Joiners -> Nat]
      /\ mode' = mode
  BY DEF Plan, TypeOK, jobTypeOK
<1>3. ASSUME canPlan PROVE pcTypeOK' /\ jobTypeOK' /\ PlanInv' /\ Protocol'
  <2>1. PICK discovery \in {<<>>, Discovered} :
          plan' = [plan EXCEPT ![p] = regionsToTry(discovery)]
    BY <1>3 DEF Plan
  <2>2. regionsToTry(discovery) \in Seq(Regions)
    BY <1>3, PlanType DEF TypeOK
  <2>3. plan' \in [Joiners -> Seq(Regions)] /\ \A q \in Joiners : q # p => plan'[q] = plan[q]
    BY <2>1, <2>2 DEF TypeOK, jobTypeOK
  <2>4. Goto(p, "dial") /\ reconnectCount' = reconnectCount
    BY <1>3 DEF Plan
  <2>5. "dial" \in IF p = App THEN AppLabels \ {"joined"} ELSE ActiveLabels
    BY DEF AppLabels, ActiveLabels
  <2>6. pcTypeOK' /\ Protocol'
    BY <1>1, <2>4, <2>5, AttemptMoves
  <2>7. jobTypeOK'
    BY <1>2, <2>3, <2>4 DEF TypeOK, jobTypeOK
  <2>8. PlanInv'
    BY <1>1, <1>2, <2>3, <2>4, ProcsAssumption
       DEF TypeOK, pcTypeOK, jobTypeOK, PlanInv, Goto, AttemptLabels, CountedLabels,
           ActiveLabels, Procs, Joiners
  <2> QED BY <2>6, <2>7, <2>8
<1>4. ASSUME ~canPlan PROVE pcTypeOK' /\ jobTypeOK' /\ PlanInv' /\ Protocol'
  <2>1. FailJob(p) /\ plan' = plan
    BY <1>4 DEF Plan
  <2>2. PICK l \in {"failed", "escalate", "loop"} :
          /\ l \in IF p = App THEN AppLabels ELSE ActiveLabels
          /\ l = "escalate" => reconnectCount' = reconnectCount
          /\ Goto(p, l)
    BY <1>1, <2>1, FailJobEffect
  <2>3. /\ reconnectCount' \in [Workers -> 0..MaxReconnectCount]
        /\ \A w \in Workers : w # p => reconnectCount'[w] = reconnectCount[w]
    BY <1>1, <2>1, FailJobEffect
  <2>4. pcTypeOK' /\ Protocol'
    BY <1>1, <2>2, AttemptMoves
  <2>5. jobTypeOK'
    BY <1>2, <2>1, <2>3 DEF TypeOK, jobTypeOK
  <2>6. PlanInv'
    BY <1>1, <1>2, <2>1, <2>2, <2>3, ProcsAssumption
       DEF TypeOK, pcTypeOK, jobTypeOK, PlanInv, Goto, AttemptLabels, CountedLabels,
           ActiveLabels, Procs, Joiners
  <2> QED BY <2>4, <2>5, <2>6
<1>5. pcTypeOK' /\ jobTypeOK' /\ PlanInv' /\ Protocol'
  BY <1>3, <1>4
<1>6. cmTypeOK'
  BY <1>1 DEF TypeOK, cmTypeOK, cmVars
<1>7. TypeOK'
  BY <1>5, <1>6
     DEF Plan, TypeOK, transportTypeOK, closeVars, loopVars, sigVars, pcVars, appVars
<1> QED BY <1>5, <1>7

\* No attempt of the plan is left.
LEMMA ExhaustedInvariant ==
  ASSUME IInv, NEW p \in Joiners, Exhausted(p)
  PROVE  IInv'
<1> USE DEF IInv, Typed
<1>1. pc[p] = "dial" /\ pc[p] \in ActiveLabels \cap AppLabels /\ UNCHANGED <<cmVars, closed>>
  BY DEF Exhausted, At, ActiveLabels, AppLabels, closeVars
<1>2. FailJob(p) /\ UNCHANGED <<mode, plan, attempt>>
  BY DEF Exhausted
<1>3. PICK l \in {"failed", "escalate", "loop"} :
        /\ l \in IF p = App THEN AppLabels ELSE ActiveLabels
        /\ l = "escalate" => reconnectCount' = reconnectCount
        /\ Goto(p, l)
  BY <1>1, <1>2, FailJobEffect
<1>4. /\ reconnectCount' \in [Workers -> 0..MaxReconnectCount]
      /\ \A w \in Workers : w # p => reconnectCount'[w] = reconnectCount[w]
  BY <1>1, <1>2, FailJobEffect
<1>5. pcTypeOK' /\ Protocol'
  BY <1>1, <1>3, AttemptMoves
<1>6. jobTypeOK'
  BY <1>2, <1>4 DEF TypeOK, jobTypeOK
<1>7. PlanInv'
  BY <1>1, <1>2, <1>3, <1>4, ProcsAssumption
     DEF TypeOK, pcTypeOK, jobTypeOK, PlanInv, Goto, AttemptLabels, CountedLabels,
         ActiveLabels, Procs, Joiners
<1>8. cmTypeOK'
  BY <1>1 DEF TypeOK, cmTypeOK, cmVars
<1>9. TypeOK'
  BY <1>5, <1>6, <1>8
     DEF Exhausted, TypeOK, transportTypeOK, closeVars, loopVars, sigVars, pcVars, appVars
<1> QED BY <1>5, <1>7, <1>9

\* The next attempt of the plan is made.
LEMMA DialInvariant ==
  ASSUME IInv, NEW p \in Joiners, DialFails(p) \/ DialSucceeds(p)
  PROVE  IInv'
<1> USE DEF IInv, Typed
<1>1. /\ pc[p] = "dial" /\ pc[p] \in ActiveLabels \cap AppLabels
      /\ UNCHANGED <<cmVars, closed>>
      /\ NextAttempt(p) /\ UNCHANGED <<mode, plan, reconnectCount>>
  BY DEF DialFails, DialSucceeds, NextAttempt, At, ActiveLabels, AppLabels, closeVars
<1>2. PICK l \in {"undo", "dial", "swap"} : Goto(p, l)
  BY DEF DialFails, DialSucceeds
<1>3. /\ attempt' \in [Joiners -> Nat] /\ attempt'[p] \in 1..Len(plan[p])
      /\ \A q \in Joiners : q # p => attempt'[q] = attempt[q]
  BY <1>1, NextAttemptType DEF TypeOK
<1>4. l \in IF p = App THEN AppLabels \ {"joined"} ELSE ActiveLabels
  BY DEF AppLabels, ActiveLabels
<1>5. pcTypeOK' /\ Protocol'
  BY <1>1, <1>2, <1>4, AttemptMoves
<1>6. jobTypeOK'
  BY <1>1, <1>3 DEF TypeOK, jobTypeOK
<1>7. PlanInv'
  BY <1>1, <1>2, <1>3, ProcsAssumption
     DEF TypeOK, pcTypeOK, PlanInv, Goto, AttemptLabels, CountedLabels, ActiveLabels,
         Procs, Joiners
<1>8. cmTypeOK'
  BY <1>1 DEF TypeOK, cmTypeOK, cmVars
<1>9. transportTypeOK'
  <2>1. transportTypeOK
    BY DEF TypeOK
  <2>2. CASE DialFails(p)
    BY <2>1, <2>2 DEF DialFails, transportTypeOK, loopVars, sigVars
  <2>3. CASE DialSucceeds(p)
    BY <2>1, <2>3, CloseTransportType DEF DialSucceeds, Closers
  <2> QED BY <2>2, <2>3
<1>10. TypeOK'
  BY <1>5, <1>6, <1>8, <1>9
     DEF DialFails, DialSucceeds, TypeOK, closeVars, pcVars, appVars
<1> QED BY <1>5, <1>7, <1>10

-----------------------------------------------------------------------------
\* The recovery worker's own steps.
LEMMA WorkerStepInv ==
  ASSUME IInv, NEW w \in Workers, WorkerStep(w)
  PROVE  IInv'
<1> USE ProcsAssumption DEF IInv, Typed, TypeOK, pcTypeOK, jobTypeOK, PlanInv, cmTypeOK, Protocol,
       WorkerSlot, NoOrphanedRecovery, JoinExclusive, SettingsFresh, JoinedFirst, Active,
       HasGivenUp,
       needsRecovery, Procs, Joiners, ActiveLabels, GaveUpLabels, AppLabels, AttemptLabels,
       CountedLabels, At, Goto, Disturb, transportTypeOK, OnDisconnected, vars,
       cmVars, jobVars, closeVars, loopVars, sigVars, pcVars, appVars
<1>1. ASSUME Loop(w) PROVE IInv'
  <2>1. pcTypeOK' /\ Protocol'   BY <1>1, AttemptMoves DEF Loop
  <2>2. jobTypeOK' /\ PlanInv'  BY <1>1 DEF Loop
  <2> HIDE DEF pcTypeOK, jobTypeOK, PlanInv, Protocol
  <2>3. TypeOK'                  BY <1>1, <2>1, <2>2 DEF Loop
  <2> QED BY <2>1, <2>2, <2>3
<1>2. ASSUME BranchRestart(w) PROVE IInv'
  <2>1. pcTypeOK' /\ Protocol'   BY <1>2, AttemptMoves DEF BranchRestart
  <2>2. jobTypeOK' /\ PlanInv'  BY <1>2 DEF BranchRestart
  <2> HIDE DEF pcTypeOK, jobTypeOK, PlanInv, Protocol
  <2>3. TypeOK'                  BY <1>2, <2>1, <2>2 DEF BranchRestart
  <2> QED BY <2>1, <2>2, <2>3
<1>3. ASSUME BranchResume(w) PROVE IInv'
  <2>1. pcTypeOK' /\ Protocol'   BY <1>3, AttemptMoves DEF BranchResume
  <2>2. jobTypeOK' /\ PlanInv'  BY <1>3 DEF BranchResume
  <2> HIDE DEF pcTypeOK, jobTypeOK, PlanInv, Protocol
  <2>3. TypeOK'                  BY <1>3, <2>1, <2>2 DEF BranchResume
  <2> QED BY <2>1, <2>2, <2>3
<1>4. ASSUME Cleanup(w) PROVE IInv'
  <2>1. pcTypeOK' /\ Protocol'   BY <1>4, AttemptMoves DEF Cleanup
  <2>2. jobTypeOK' /\ PlanInv'  BY <1>4 DEF Cleanup
  <2>3. transportTypeOK'
    BY <1>4, CloseTransportType DEF Cleanup, Closers
  <2> HIDE DEF transportTypeOK, pcTypeOK, jobTypeOK, PlanInv, Protocol
  <2>4. TypeOK'                  BY <1>4, <2>1, <2>2, <2>3 DEF Cleanup
  <2> QED BY <2>1, <2>2, <2>4
<1>5. ASSUME CleanupWait(w) PROVE IInv'
  <2>1. pcTypeOK' /\ Protocol'   BY <1>5, AttemptMoves DEF CleanupWait
  <2>2. jobTypeOK' /\ PlanInv'  BY <1>5 DEF CleanupWait
  <2> HIDE DEF pcTypeOK, jobTypeOK, PlanInv, Protocol
  <2>3. TypeOK'                  BY <1>5, <2>1, <2>2 DEF CleanupWait
  <2> QED BY <2>1, <2>2, <2>3
<1>6. ASSUME Escalate(w) PROVE IInv'
  <2>1. pcTypeOK'               BY <1>6 DEF Escalate, setReconnecting, setReconnectingLocked, States
  <2>2. jobTypeOK' /\ PlanInv'  BY <1>6 DEF Escalate, setReconnecting, setReconnectingLocked, States
  <2>3. Protocol'
    BY SMTT(30), <1>6, <2>1 DEF Escalate, setReconnecting, setReconnectingLocked, States
  <2> HIDE DEF pcTypeOK, jobTypeOK, PlanInv, Protocol
  <2>4. TypeOK'
    BY <1>6, <2>1, <2>2 DEF Escalate, setReconnecting, setReconnectingLocked, States
  <2> QED BY <2>2, <2>3, <2>4
<1>7. ASSUME Continue(w) PROVE IInv'
  <2>1. pcTypeOK'               BY <1>7 DEF Continue, recoveryWorkerShouldContinue
  <2>2. jobTypeOK' /\ PlanInv'  BY <1>7 DEF Continue, recoveryWorkerShouldContinue
  <2>3. Protocol'               BY <1>7, <2>1 DEF Continue, recoveryWorkerShouldContinue
  <2> HIDE DEF pcTypeOK, jobTypeOK, PlanInv, Protocol
  <2>4. TypeOK'                 BY <1>7, <2>1, <2>2 DEF Continue, recoveryWorkerShouldContinue
  <2> QED BY <2>2, <2>3, <2>4
<1>8. ASSUME Stop(w) PROVE IInv'
  <2>1. pcTypeOK'               BY <1>8 DEF Stop
  <2>2. jobTypeOK' /\ PlanInv'  BY SMTT(30), <1>8 DEF Stop
  <2>3. cmTypeOK'               BY <1>8 DEF Stop, stopRecoveryWorker
  <2>4. Protocol'               BY <1>8, <2>1 DEF Stop, stopRecoveryWorker
  <2> HIDE DEF pcTypeOK, jobTypeOK, cmTypeOK, PlanInv, Protocol
  <2>5. TypeOK'                 BY <1>8, <2>1, <2>2, <2>3 DEF Stop
  <2> QED BY <2>2, <2>4, <2>5
<1>9. ASSUME GiveUp(w) PROVE IInv'
  <2>1. pcTypeOK'                         BY <1>9 DEF GiveUp
  <2>2. cmTypeOK' /\ jobTypeOK' /\ PlanInv'  BY <1>9 DEF GiveUp
  <2>3. Protocol'                         BY SMTT(30), <1>9, <2>1 DEF GiveUp
  <2> HIDE DEF pcTypeOK, jobTypeOK, cmTypeOK, PlanInv, Protocol
  <2>4. TypeOK'                           BY <1>9, <2>1, <2>2 DEF GiveUp
  <2> QED BY <2>2, <2>3, <2>4
<1>10. ASSUME CloseUp(w) PROVE IInv'
  <2>1. CloseEngine(w)           BY <1>10 DEF CloseUp
  <2>2. closed' \in BOOLEAN /\ closing' \in Procs \cup {Nobody}
    BY <2>1, CloseEngineType
  <2>3. pcTypeOK'                         BY <1>10 DEF CloseUp
  <2>4. cmTypeOK' /\ jobTypeOK' /\ PlanInv'  BY <1>10 DEF CloseUp
  <2>5. Protocol'                         BY <1>10, <2>3 DEF CloseUp, CloseEngine
  <2> HIDE DEF pcTypeOK, jobTypeOK, cmTypeOK, PlanInv, Protocol
  <2>6. TypeOK'                           BY <1>10, <2>2, <2>3, <2>4 DEF CloseUp
  <2> QED BY <2>4, <2>5, <2>6
<1>11. ASSUME Notify(w) PROVE IInv'
  <2>1. pcTypeOK' /\ Protocol'   BY <1>11, AttemptMoves DEF Notify
  <2>2. jobTypeOK' /\ PlanInv'  BY <1>11 DEF Notify
  <2> HIDE DEF pcTypeOK, jobTypeOK, PlanInv, Protocol
  <2>3. TypeOK'                  BY <1>11, <2>1, <2>2 DEF Notify
  <2> QED BY <2>1, <2>2, <2>3
<1> QED BY <1>1, <1>2, <1>3, <1>4, <1>5, <1>6, <1>7, <1>8, <1>9, <1>10, <1>11 DEF WorkerStep

\* The client's own steps in an attempt.
LEMMA JoinStepInv ==
  ASSUME IInv, NEW p \in Joiners, JoinStep(p)
  PROVE  IInv'
<1> USE ProcsAssumption DEF IInv, Typed, TypeOK, pcTypeOK, jobTypeOK, PlanInv, cmTypeOK, Protocol,
       WorkerSlot, NoOrphanedRecovery, JoinExclusive, SettingsFresh, JoinedFirst, Active,
       HasGivenUp,
       needsRecovery, Procs, Joiners, ActiveLabels, GaveUpLabels, AppLabels, AttemptLabels,
       CountedLabels, At, Goto, Disturb, transportTypeOK, OnDisconnected, vars,
       cmVars, jobVars, closeVars, loopVars, sigVars, pcVars, appVars
<1>1. ASSUME Swap(p) PROVE IInv'
  <2>1. pcTypeOK' /\ Protocol'   BY <1>1, AttemptMoves DEF Swap
  <2>2. jobTypeOK' /\ PlanInv'  BY <1>1 DEF Swap
  <2> HIDE DEF pcTypeOK, jobTypeOK, PlanInv, Protocol
  <2>3. TypeOK'                  BY <1>1, <2>1, <2>2 DEF Swap
  <2> QED BY <2>1, <2>2, <2>3
<1>2. ASSUME FirstLeaveReport(p) PROVE IInv'
  <2>1. pcTypeOK' /\ Protocol'   BY <1>2, AttemptMoves DEF FirstLeaveReport, AfterLeave
  <2>2. jobTypeOK' /\ PlanInv'  BY <1>2 DEF FirstLeaveReport, AfterLeave
  <2> HIDE DEF pcTypeOK, jobTypeOK, PlanInv, Protocol
  <2>3. TypeOK'                  BY <1>2, <2>1, <2>2 DEF FirstLeaveReport, AfterLeave
  <2> QED BY <2>1, <2>2, <2>3
<1>3. ASSUME WaitConnected(p) PROVE IInv'
  <2>1. pcTypeOK' /\ Protocol'   BY <1>3, AttemptMoves DEF WaitConnected
  <2>2. jobTypeOK' /\ PlanInv'  BY <1>3 DEF WaitConnected
  <2> HIDE DEF pcTypeOK, jobTypeOK, PlanInv, Protocol
  <2>3. TypeOK'                  BY <1>3, <2>1, <2>2 DEF WaitConnected
  <2> QED BY <2>1, <2>2, <2>3
<1>4. ASSUME WaitFails(p) PROVE IInv'
  <2>1. pcTypeOK' /\ Protocol'   BY <1>4, AttemptMoves DEF WaitFails
  <2>2. jobTypeOK' /\ PlanInv'  BY <1>4 DEF WaitFails
  <2> HIDE DEF pcTypeOK, jobTypeOK, PlanInv, Protocol
  <2>3. TypeOK'                  BY <1>4, <2>1, <2>2 DEF WaitFails
  <2> QED BY <2>1, <2>2, <2>3
<1>5. ASSUME SettleJoin(p) PROVE IInv'
  <2>1. pcTypeOK'               BY <1>5 DEF SettleJoin
  <2>2. jobTypeOK' /\ PlanInv'  BY <1>5 DEF SettleJoin
  <2>3. cmTypeOK'               BY <1>5 DEF SettleJoin, setConnected, States
  <2>4. Protocol'               BY <1>5, <2>1 DEF SettleJoin, setConnected, States
  <2> HIDE DEF pcTypeOK, jobTypeOK, cmTypeOK, PlanInv, Protocol
  <2>5. TypeOK'                 BY <1>5, <2>1, <2>2, <2>3 DEF SettleJoin
  <2> QED BY <2>2, <2>4, <2>5
<1>6. ASSUME SettleResume(p) PROVE IInv'
  <2>1. pcTypeOK'               BY <1>6 DEF SettleResume
  <2>2. jobTypeOK' /\ PlanInv'  BY <1>6 DEF SettleResume
  <2>3. cmTypeOK'               BY <1>6 DEF SettleResume, setResumed, canResume, States
  <2>4. Protocol'
    BY SMTT(30), <1>6, <2>1 DEF SettleResume, setResumed, canResume, States
  <2> HIDE DEF pcTypeOK, jobTypeOK, cmTypeOK, PlanInv, Protocol
  <2>5. TypeOK'                 BY <1>6, <2>1, <2>2, <2>3 DEF SettleResume
  <2> QED BY <2>2, <2>4, <2>5
<1>7. ASSUME Undo(p) PROVE IInv'
  <2>1. pcTypeOK' /\ Protocol'   BY <1>7, AttemptMoves DEF Undo
  <2>2. jobTypeOK' /\ PlanInv'  BY <1>7 DEF Undo
  <2>3. transportTypeOK'
    BY <1>7, CloseTransportType DEF Undo, Closers
  <2> HIDE DEF transportTypeOK, pcTypeOK, jobTypeOK, PlanInv, Protocol
  <2>4. TypeOK'                  BY <1>7, <2>1, <2>2, <2>3 DEF Undo
  <2> QED BY <2>1, <2>2, <2>4
<1>8. ASSUME UndoWait(p) PROVE IInv'
  <2>1. pcTypeOK' /\ Protocol'   BY <1>8, AttemptMoves DEF UndoWait
  <2>2. jobTypeOK' /\ PlanInv'   BY <1>8 DEF UndoWait
  <2> HIDE DEF pcTypeOK, jobTypeOK, PlanInv, Protocol
  <2>3. TypeOK'                  BY <1>8, <2>1, <2>2 DEF UndoWait
  <2> QED BY <2>1, <2>2, <2>3
<1> QED BY PlanInvariant, ExhaustedInvariant, DialInvariant,
  <1>1, <1>2, <1>3, <1>4, <1>5, <1>6, <1>7, <1>8 DEF JoinStep

\* The first message of an attempt.
LEMMA FirstMessageInv ==
  ASSUME IInv, NEW p \in Joiners, FirstMessage(p)
  PROVE  IInv'
<1> USE ProcsAssumption DEF IInv, Typed, TypeOK, pcTypeOK, jobTypeOK, PlanInv, cmTypeOK, Protocol,
       WorkerSlot, NoOrphanedRecovery, JoinExclusive, SettingsFresh, JoinedFirst, Active,
       HasGivenUp,
       needsRecovery, Procs, Joiners, ActiveLabels, GaveUpLabels, AppLabels, AttemptLabels,
       CountedLabels, At, Goto, Disturb, transportTypeOK, OnDisconnected, vars,
       cmVars, jobVars, closeVars, loopVars, sigVars, pcVars, appVars
<1>1. ASSUME FirstFails(p) PROVE IInv'
  <2>1. pcTypeOK' /\ Protocol'   BY SMTT(30), <1>1, AttemptMoves DEF FirstFails
  <2>2. jobTypeOK' /\ PlanInv'  BY <1>1 DEF FirstFails
  <2>3. transportTypeOK'
    BY <1>1, ReadType DEF FirstFails, AfterRead
  <2> HIDE DEF transportTypeOK, pcTypeOK, jobTypeOK, PlanInv, Protocol
  <2>4. TypeOK'                  BY <1>1, <2>1, <2>2, <2>3 DEF FirstFails
  <2> QED BY <2>1, <2>2, <2>4
<1>2. ASSUME FirstJoinResponse(p) PROVE IInv'
  <2>1. pcTypeOK' /\ Protocol'   BY <1>2, AttemptMoves DEF FirstJoinResponse
  <2>2. jobTypeOK' /\ PlanInv'  BY <1>2 DEF FirstJoinResponse, configure
  <2>3. transportTypeOK'
    BY <1>2, ReadType DEF FirstJoinResponse
  <2> HIDE DEF transportTypeOK, pcTypeOK, jobTypeOK, PlanInv, Protocol
  <2>4. TypeOK'                  BY <1>2, <2>1, <2>2, <2>3 DEF FirstJoinResponse, configure
  <2> QED BY <2>1, <2>2, <2>4
<1>3. ASSUME FirstOther(p) PROVE IInv'
  <2>1. pcTypeOK' /\ Protocol'   BY SMTT(30), <1>3, AttemptMoves DEF FirstOther
  <2>2. jobTypeOK' /\ PlanInv'  BY <1>3 DEF FirstOther
  <2>3. transportTypeOK'
    BY <1>3, ReadType DEF FirstOther
  <2> HIDE DEF transportTypeOK, pcTypeOK, jobTypeOK, PlanInv, Protocol
  <2>4. TypeOK'                  BY <1>3, <2>1, <2>2, <2>3 DEF FirstOther
  <2> QED BY <2>1, <2>2, <2>4
<1>4. ASSUME FirstReconnectResponse(p) PROVE IInv'
  <2>1. pcTypeOK' /\ Protocol'   BY SMTT(30), <1>4, AttemptMoves DEF FirstReconnectResponse
  <2>2. jobTypeOK' /\ PlanInv'  BY <1>4 DEF FirstReconnectResponse
  <2>3. transportTypeOK'
    BY <1>4, ReadType DEF FirstReconnectResponse
  <2> HIDE DEF transportTypeOK, pcTypeOK, jobTypeOK, PlanInv, Protocol
  <2>4. TypeOK'                  BY <1>4, <2>1, <2>2, <2>3 DEF FirstReconnectResponse
  <2> QED BY <2>1, <2>2, <2>4
<1> QED BY <1>1, <1>2, <1>3, <1>4 DEF FirstMessage

\* A leave request as the first message.
LEMMA FirstLeaveInv ==
  ASSUME IInv, NEW p \in Joiners, FirstLeave(p)
  PROVE  IInv'
<1> USE ProcsAssumption DEF IInv, Typed, TypeOK, pcTypeOK, jobTypeOK, PlanInv, cmTypeOK, Protocol,
       WorkerSlot, NoOrphanedRecovery, JoinExclusive, SettingsFresh, JoinedFirst, Active,
       HasGivenUp,
       needsRecovery, Procs, Joiners, ActiveLabels, GaveUpLabels, AppLabels, AttemptLabels,
       CountedLabels, At, Goto, Disturb, transportTypeOK, OnDisconnected, vars,
       cmVars, jobVars, closeVars, loopVars, sigVars, pcVars, appVars
<1>1. ASSUME FirstLeaveDisconnect(p) PROVE IInv'
  <2>1. CloseEngine(p)           BY <1>1 DEF FirstLeaveDisconnect
  <2>2. closed' \in BOOLEAN /\ closing' \in Procs \cup {Nobody}
    BY <2>1, CloseEngineType
  <2>3. pcTypeOK'                         BY <1>1 DEF FirstLeaveDisconnect
  <2>4. cmTypeOK' /\ jobTypeOK' /\ PlanInv'  BY <1>1 DEF FirstLeaveDisconnect
  <2>5. Protocol'                         BY <1>1, <2>3 DEF FirstLeaveDisconnect, CloseEngine
  <2>6. transportTypeOK'
    BY <1>1, ReadType DEF FirstLeaveDisconnect
  <2> HIDE DEF transportTypeOK, pcTypeOK, jobTypeOK, cmTypeOK, PlanInv, Protocol
  <2>7. TypeOK'                           BY <1>1, <2>2, <2>3, <2>4, <2>6 DEF FirstLeaveDisconnect
  <2> QED BY <2>4, <2>5, <2>7
<1>2. ASSUME NEW full \in BOOLEAN, NEW settings \in LeaveArgs,
             FirstLeaveRecover(p, full, settings)
      PROVE  IInv'
  <2> DEFINE next == [pc EXCEPT ![p] = AfterLeave(p)]
  <2>1. SameStanding(next)
    BY <1>2 DEF FirstLeaveRecover, AfterLeave, SameStanding
  <2>2. HandleDisconnect(full, settings, next) /\ UNCHANGED <<jobVars, closed>>
    BY <1>2 DEF FirstLeaveRecover
  <2> HIDE DEF next
  <2>3. cmTypeOK' /\ pcTypeOK' /\ jobTypeOK' /\ PlanInv' /\ Protocol'
    BY <2>1, <2>2, HandleDisconnectInv
  <2>5. transportTypeOK'
    BY <1>2, ReadType DEF FirstLeaveRecover
  <2> HIDE DEF transportTypeOK, pcTypeOK, jobTypeOK, cmTypeOK, PlanInv, Protocol
  <2>4. TypeOK'                  BY <1>2, <2>3, <2>5 DEF FirstLeaveRecover
  <2> QED BY <2>3, <2>4
<1> QED BY <1>1, <1>2 DEF FirstLeave

\* The reader, and the report of its end.
LEMMA ReaderStepInv ==
  ASSUME IInv, ReaderStep
  PROVE  IInv'
<1> USE ProcsAssumption DEF IInv, Typed, TypeOK, pcTypeOK, jobTypeOK, PlanInv, cmTypeOK, Protocol,
       WorkerSlot, NoOrphanedRecovery, JoinExclusive, SettingsFresh, JoinedFirst, Active,
       HasGivenUp,
       needsRecovery, Procs, Joiners, ActiveLabels, GaveUpLabels, AppLabels, AttemptLabels,
       CountedLabels, At, Goto, Disturb, transportTypeOK, OnDisconnected, vars,
       cmVars, jobVars, closeVars, loopVars, sigVars, pcVars, appVars
<1>1. ASSUME ReaderReport PROVE IInv'
  <2>1. pcTypeOK'               BY <1>1 DEF ReaderReport
  <2>2. jobTypeOK' /\ PlanInv'  BY <1>1 DEF ReaderReport
  <2>3. Protocol'               BY <1>1, <2>1 DEF ReaderReport
  <2> HIDE DEF pcTypeOK, jobTypeOK, PlanInv, Protocol
  <2>4. TypeOK'                 BY <1>1, <2>1, <2>2 DEF ReaderReport
  <2> QED BY <2>2, <2>3, <2>4
<1>2. ASSUME ReaderStops PROVE IInv'
  <2>1. pcTypeOK'               BY <1>2 DEF ReaderStops
  <2>2. jobTypeOK' /\ PlanInv'  BY <1>2 DEF ReaderStops
  <2>3. transportTypeOK'        BY <1>2 DEF ReaderStops
  <2>4. Protocol'               BY <1>2, <2>1 DEF ReaderStops
  <2> HIDE DEF transportTypeOK, pcTypeOK, jobTypeOK, PlanInv, Protocol
  <2>5. TypeOK'                 BY <1>2, <2>1, <2>2, <2>3 DEF ReaderStops
  <2> QED BY <2>2, <2>4, <2>5
<1>3. ASSUME OnTransportClose PROVE IInv'
  <2>1. cmTypeOK' /\ pcTypeOK' /\ jobTypeOK' /\ PlanInv' /\ Protocol'
    <3>1. SameStanding(pc)
      BY DEF SameStanding
    <3> QED BY <1>3, <3>1, HandleDisconnectInv DEF OnTransportClose, LeaveArgs
  <2>2. closeCbs' \in Nat         BY <1>3 DEF OnTransportClose
  <2> HIDE DEF pcTypeOK, jobTypeOK, cmTypeOK, PlanInv, Protocol
  <2>3. TypeOK'                 BY <1>3, <2>1, <2>2 DEF OnTransportClose
  <2> QED BY <2>1, <2>3
<1>4. ASSUME NEW r \in Readers, ReaderForgets(r) PROVE IInv'
  <2>1. pcTypeOK'               BY <1>4 DEF ReaderForgets
  <2>2. jobTypeOK' /\ PlanInv'  BY <1>4 DEF ReaderForgets
  <2>3. transportTypeOK'        BY <1>4 DEF ReaderForgets
  <2>4. Protocol'               BY <1>4, <2>1 DEF ReaderForgets
  <2> HIDE DEF transportTypeOK, pcTypeOK, jobTypeOK, PlanInv, Protocol
  <2>5. TypeOK'                 BY <1>4, <2>1, <2>2, <2>3 DEF ReaderForgets
  <2> QED BY <2>2, <2>4, <2>5
<1> QED BY <1>1, <1>2, <1>3, <1>4 DEF ReaderStep

\* A leave request the reader receives.
LEMMA ReaderLeaveInv ==
  ASSUME IInv, ReaderLeave
  PROVE  IInv'
<1> USE ProcsAssumption DEF IInv, Typed, TypeOK, pcTypeOK, jobTypeOK, PlanInv, cmTypeOK, Protocol,
       WorkerSlot, NoOrphanedRecovery, JoinExclusive, SettingsFresh, JoinedFirst, Active,
       HasGivenUp,
       needsRecovery, Procs, Joiners, ActiveLabels, GaveUpLabels, AppLabels, AttemptLabels,
       CountedLabels, At, Goto, Disturb, transportTypeOK, OnDisconnected, vars,
       cmVars, jobVars, closeVars, loopVars, sigVars, pcVars, appVars
<1>1. ASSUME ReaderLeaveDisconnect PROVE IInv'
  <2>1. CloseEngine(Reader)           BY <1>1 DEF ReaderLeaveDisconnect
  <2>2. closed' \in BOOLEAN /\ closing' \in Procs \cup {Nobody}
    BY <2>1, CloseEngineType
  <2>3. pcTypeOK'                         BY <1>1 DEF ReaderLeaveDisconnect
  <2>4. cmTypeOK' /\ jobTypeOK' /\ PlanInv'  BY <1>1 DEF ReaderLeaveDisconnect
  <2>5. Protocol'
    BY SMTT(30), <1>1, <2>3 DEF ReaderLeaveDisconnect, CloseEngine
  <2>6. transportTypeOK'
    BY <1>1, ReadType DEF ReaderLeaveDisconnect
  <2> HIDE DEF transportTypeOK, pcTypeOK, jobTypeOK, cmTypeOK, PlanInv, Protocol
  <2>7. TypeOK'                           BY <1>1, <2>2, <2>3, <2>4, <2>6 DEF ReaderLeaveDisconnect
  <2> QED BY <2>4, <2>5, <2>7
<1>2. ASSUME NEW full \in BOOLEAN, NEW settings \in LeaveArgs,
             ReaderLeaveRecover(full, settings)
      PROVE  IInv'
  <2>1. cmTypeOK' /\ pcTypeOK' /\ jobTypeOK' /\ PlanInv' /\ Protocol'
    <3>1. SameStanding(pc)
      BY DEF SameStanding
    <3> QED BY <1>2, <3>1, HandleDisconnectInv DEF ReaderLeaveRecover
  <2>2. transportTypeOK'
    BY <1>2, ReadType DEF ReaderLeaveRecover
  <2> HIDE DEF transportTypeOK, pcTypeOK, jobTypeOK, cmTypeOK, PlanInv, Protocol
  <2>3. TypeOK'                  BY <1>2, <2>1, <2>2 DEF ReaderLeaveRecover
  <2> QED BY <2>1, <2>3
<1> QED BY <1>1, <1>2 DEF ReaderLeave

\* Closing.
LEMMA CloseStepInv ==
  ASSUME IInv, CloseStep
  PROVE  IInv'
<1> USE ProcsAssumption DEF IInv, Typed, TypeOK, pcTypeOK, jobTypeOK, PlanInv, cmTypeOK, Protocol,
       WorkerSlot, NoOrphanedRecovery, JoinExclusive, SettingsFresh, JoinedFirst, Active,
       HasGivenUp,
       needsRecovery, Procs, Joiners, ActiveLabels, GaveUpLabels, AppLabels, AttemptLabels,
       CountedLabels, At, Goto, Disturb, transportTypeOK, OnDisconnected, vars,
       cmVars, jobVars, closeVars, loopVars, sigVars, pcVars, appVars
<1>1. ASSUME SetClosed PROVE IInv'
  <2>1. pcTypeOK'               BY <1>1 DEF SetClosed, setClosed, States
  <2>2. jobTypeOK' /\ PlanInv'  BY <1>1 DEF SetClosed, setClosed, States
  <2>3. Protocol'               BY <1>1, <2>1 DEF SetClosed, setClosed, States
  <2> HIDE DEF pcTypeOK, jobTypeOK, PlanInv, Protocol
  <2>4. TypeOK'                 BY <1>1, <2>1, <2>2 DEF SetClosed, setClosed, States
  <2> QED BY <2>2, <2>3, <2>4
<1>2. ASSUME Teardown PROVE IInv'
  <2>1. pcTypeOK'               BY <1>2 DEF Teardown
  <2>2. jobTypeOK' /\ PlanInv'  BY <1>2 DEF Teardown
  <2>3. Protocol'               BY <1>2, <2>1 DEF Teardown
  <2>4. transportTypeOK'
    BY <1>2, CloseTransportType DEF Teardown, Closers
  <2> HIDE DEF transportTypeOK, pcTypeOK, jobTypeOK, PlanInv, Protocol
  <2>5. TypeOK'                 BY <1>2, <2>1, <2>2, <2>4 DEF Teardown
  <2> QED BY <2>2, <2>3, <2>5
<1>3. ASSUME TeardownWait PROVE IInv'
  <2>1. pcTypeOK'               BY <1>3 DEF TeardownWait
  <2>2. jobTypeOK' /\ PlanInv'  BY <1>3 DEF TeardownWait
  <2>3. Protocol'               BY <1>3, <2>1 DEF TeardownWait
  <2> HIDE DEF pcTypeOK, jobTypeOK, PlanInv, Protocol
  <2>4. TypeOK'                 BY <1>3, <2>1, <2>2 DEF TeardownWait
  <2> QED BY <2>2, <2>3, <2>4
<1> QED BY <1>1, <1>2, <1>3 DEF CloseStep

\* The environment.
LEMMA EnvironmentInv ==
  ASSUME IInv, Environment
  PROVE  IInv'
<1> USE ProcsAssumption DEF IInv, Typed, TypeOK, pcTypeOK, jobTypeOK, PlanInv, cmTypeOK, Protocol,
       WorkerSlot, NoOrphanedRecovery, JoinExclusive, SettingsFresh, JoinedFirst, Active,
       HasGivenUp,
       needsRecovery, Procs, Joiners, ActiveLabels, GaveUpLabels, AppLabels, AttemptLabels,
       CountedLabels, At, Goto, Disturb, transportTypeOK, OnDisconnected, vars,
       cmVars, jobVars, closeVars, loopVars, sigVars, pcVars, appVars
<1>1. ASSUME Negotiate PROVE IInv'
  <2>1. pcTypeOK'               BY <1>1 DEF Negotiate, Reading
  <2>2. jobTypeOK' /\ PlanInv'  BY <1>1 DEF Negotiate, Reading
  <2>3. Protocol'               BY <1>1, <2>1 DEF Negotiate, Reading
  <2>4. transportTypeOK'
    BY <1>1, ReadType DEF Negotiate
  <2> HIDE DEF transportTypeOK, pcTypeOK, jobTypeOK, PlanInv, Protocol
  <2>5. TypeOK'                 BY <1>1, <2>1, <2>2, <2>4 DEF Negotiate, Reading
  <2> QED BY <2>2, <2>3, <2>5
<1>2. ASSUME ConnBreaks \/ HeldBreaks PROVE IInv'
  <2>1. pcTypeOK'               BY <1>2 DEF ConnBreaks, HeldBreaks
  <2>2. jobTypeOK' /\ PlanInv'  BY <1>2 DEF ConnBreaks, HeldBreaks
  <2>3. Protocol'               BY <1>2, <2>1 DEF ConnBreaks, HeldBreaks
  <2> HIDE DEF pcTypeOK, jobTypeOK, PlanInv, Protocol
  <2>4. TypeOK'                 BY <1>2, <2>1, <2>2 DEF ConnBreaks, HeldBreaks
  <2> QED BY <2>2, <2>3, <2>4
<1>3. ASSUME PCConnects PROVE IInv'
  <2>1. pcTypeOK'               BY <1>3 DEF PCConnects
  <2>2. jobTypeOK' /\ PlanInv'  BY <1>3 DEF PCConnects
  <2>3. Protocol'               BY <1>3, <2>1 DEF PCConnects
  <2> HIDE DEF pcTypeOK, jobTypeOK, PlanInv, Protocol
  <2>4. TypeOK'                 BY <1>3, <2>1, <2>2 DEF PCConnects
  <2> QED BY <2>2, <2>3, <2>4
<1>4. ASSUME PCFails PROVE IInv'
  <2>1. pcTypeOK'               BY <1>4 DEF PCFails
  <2>2. jobTypeOK' /\ PlanInv'  BY <1>4 DEF PCFails
  <2>3. Protocol'               BY <1>4, <2>1 DEF PCFails
  <2> HIDE DEF pcTypeOK, jobTypeOK, PlanInv, Protocol
  <2>4. TypeOK'                 BY <1>4, <2>1, <2>2 DEF PCFails
  <2> QED BY <2>2, <2>3, <2>4
<1>5. ASSUME OnICEFailed PROVE IInv'
  <2>1. cmTypeOK' /\ pcTypeOK' /\ jobTypeOK' /\ PlanInv' /\ Protocol'
    <3>1. CASE pcState = "nil"
      BY <1>5, <3>1 DEF OnICEFailed
    <3>2. CASE pcState # "nil"
      <4>1. SameStanding(pc)
        BY DEF SameStanding
      <4> QED BY <1>5, <3>2, <4>1, HandleDisconnectInv DEF OnICEFailed, LeaveArgs
    <3> QED BY <3>1, <3>2
  <2> HIDE DEF pcTypeOK, jobTypeOK, cmTypeOK, PlanInv, Protocol
  <2>2. TypeOK'                  BY <1>5, <2>1 DEF OnICEFailed
  <2> QED BY <2>1, <2>2
<1>6. ASSUME Disconnect PROVE IInv'
  <2>1. CloseEngine(User)           BY <1>6 DEF Disconnect
  <2>2. closed' \in BOOLEAN /\ closing' \in Procs \cup {Nobody}
    BY <2>1, CloseEngineType
  <2>3. pcTypeOK'                         BY <1>6 DEF Disconnect
  <2>4. cmTypeOK' /\ jobTypeOK' /\ PlanInv'  BY <1>6 DEF Disconnect
  <2>5. Protocol'                         BY <1>6, <2>3 DEF Disconnect, CloseEngine
  <2> HIDE DEF pcTypeOK, jobTypeOK, cmTypeOK, PlanInv, Protocol
  <2>6. TypeOK'                           BY <1>6, <2>2, <2>3, <2>4 DEF Disconnect
  <2> QED BY <2>4, <2>5, <2>6
<1>7. ASSUME JoinAgain PROVE IInv'
  <2>1. pcTypeOK'               BY <1>7 DEF JoinAgain
  <2>2. jobTypeOK' /\ PlanInv'  BY <1>7 DEF JoinAgain
  <2>3. Protocol'               BY <1>7, <2>1 DEF JoinAgain
  <2> HIDE DEF pcTypeOK, jobTypeOK, PlanInv, Protocol
  <2>4. TypeOK'                 BY <1>7, <2>1, <2>2 DEF JoinAgain
  <2> QED BY <2>2, <2>3, <2>4
<1>8. ASSUME ContextDone PROVE IInv'
  <2>1. pcTypeOK'               BY <1>8 DEF ContextDone, Left
  <2>2. jobTypeOK' /\ PlanInv'  BY <1>8 DEF ContextDone, Left
  <2>3. Protocol'               BY <1>8, <2>1 DEF ContextDone, Left
  <2> HIDE DEF pcTypeOK, jobTypeOK, PlanInv, Protocol
  <2>4. TypeOK'                 BY <1>8, <2>1, <2>2 DEF ContextDone, Left
  <2> QED BY <2>2, <2>3, <2>4
<1> QED BY ReaderLeaveInv, <1>1, <1>2, <1>3, <1>4, <1>5, <1>6, <1>7, <1>8 DEF Environment

-----------------------------------------------------------------------------
LEMMA InitInv == Init => IInv
<1> SUFFICES ASSUME Init PROVE IInv
  OBVIOUS
<1>1. cmTypeOK
  BY RegionsAssumption DEF Init, cmInit, cmTypeOK, States
<1>2. pcTypeOK /\ jobTypeOK /\ PlanInv
  <2>1. pcTypeOK
    BY ProcsAssumption DEF Init, pcTypeOK, Procs, Joiners, ActiveLabels, GaveUpLabels, AppLabels
  <2>2. jobTypeOK
    BY ProcsAssumption DEF Init, jobTypeOK
  <2>3. PlanInv
    BY ProcsAssumption DEF Init, PlanInv, Procs, Joiners, AttemptLabels, CountedLabels,
       ActiveLabels
  <2> QED BY <2>1, <2>2, <2>3
<1>3. TypeOK
  <2>1. faults \in 0..MaxFaults /\ iceCbs \in Nat
    BY ProcsAssumption DEF Init
  <2>2. transportTypeOK
    BY DEF Init, transportTypeOK
  <2> QED BY <1>1, <1>2, <2>1, <2>2 DEF Init, TypeOK
<1>4. \A w \in Workers : ~Active(w) /\ ~HasGivenUp(w)
  BY ProcsAssumption DEF Init, Active, HasGivenUp, Procs, Joiners, ActiveLabels, GaveUpLabels
<1>5. Protocol
  BY <1>4 DEF Init, cmInit, Protocol, WorkerSlot, NoOrphanedRecovery, JoinExclusive,
     SettingsFresh, JoinedFirst, needsRecovery
<1> QED BY <1>2, <1>3, <1>5 DEF IInv, Typed

LEMMA StutterInv ==
  ASSUME IInv, UNCHANGED vars
  PROVE  IInv'
<1> USE DEF vars, cmVars, jobVars, closeVars, loopVars, sigVars, pcVars, appVars
<1>1. TypeOK' /\ PlanInv'
  BY DEF IInv, Typed, TypeOK, cmTypeOK, pcTypeOK, jobTypeOK, transportTypeOK, PlanInv
<1>2. Protocol'
  BY DEF IInv, Protocol, WorkerSlot, NoOrphanedRecovery, JoinExclusive, SettingsFresh,
     JoinedFirst, Active, HasGivenUp, needsRecovery
<1> QED BY <1>1, <1>2 DEF IInv, Typed

LEMMA NextInv ==
  ASSUME IInv, [Next]_vars
  PROVE  IInv'
<1>1. ASSUME NEW w \in Workers, WorkerStep(w) PROVE IInv'
  BY <1>1, WorkerStepInv
<1>2. ASSUME NEW p \in Joiners, JoinStep(p) \/ FirstMessage(p) \/ FirstLeave(p) PROVE IInv'
  BY <1>2, JoinStepInv, FirstMessageInv, FirstLeaveInv
<1>3. CASE ReaderStep \/ CloseStep \/ Environment
  BY <1>3, ReaderStepInv, CloseStepInv, EnvironmentInv
<1>4. CASE UNCHANGED vars
  BY <1>4, StutterInv
<1> QED BY <1>1, <1>2, <1>3, <1>4 DEF Next

\* The inductive invariant holds of every behaviour: variables keep their
\* types, the one recovery slot is in step with the workers that run, and no
\* recovery starts before the initial join has ended (handleDisconnect, join).
THEOREM Invariant == Spec => []IInv
<1>1. IInv /\ [Next]_vars => IInv'
  BY NextInv
<1> QED BY InitInv, <1>1, PTL DEF Spec

\* Every variable keeps its type: in particular a worker never counts past
\* maxReconnectCount (the loop of handleDisconnect).
THEOREM TypeCorrect == Spec => []TypeOK
<1>1. IInv => TypeOK
  BY DEF IInv, Typed
<1> QED BY Invariant, <1>1, PTL

\* However many workers, leave requests and failures: the worker slot is held
\* exactly while a worker runs, and there is at most one.
THEOREM OneWorker == Spec => []WorkerSlot
<1>1. IInv => WorkerSlot
  BY DEF IInv, Protocol
<1> QED BY Invariant, <1>1, PTL

\* A connection that needs recovery always has a worker, or a worker that gave
\* up and is about to close the engine.
THEOREM RecoveryHasOwner == Spec => []NoOrphanedRecovery
<1>1. IInv => NoOrphanedRecovery
  BY DEF IInv, Protocol
<1> QED BY Invariant, <1>1, PTL

\* No recovery starts before the initial join is over.
THEOREM JoinUndisturbed == Spec => []JoinExclusive
<1>1. IInv => JoinExclusive
  BY DEF IInv, Protocol
<1> QED BY Invariant, <1>1, PTL

\* Region settings of a leave request end with the recovery they were sent for.
THEOREM SettingsEnd == Spec => []SettingsFresh
<1>1. IInv => SettingsFresh
  BY DEF IInv, Protocol
<1> QED BY Invariant, <1>1, PTL

-----------------------------------------------------------------------------
(* The transitions of the connection state, action by action.              *)

\* A step that touches the connection manager, seen through Room.ConnectionState.
LifecycleStep == [Lifecycle!Next]_(Lifecycle!vars)

\* Only the joins of workers lead from RECONNECTING to CONNECTED.
HonourStep ==
  state = "RECONNECTING" /\ state' = "CONNECTED" =>
    \E w \in Workers : pc[w] = "settle" /\ mode[w] = "join"

LEMMA UntouchedStep ==
  ASSUME UNCHANGED cmVars
  PROVE  LifecycleStep /\ HonourStep
BY DEF cmVars, LifecycleStep, HonourStep, Lifecycle!vars, ConnectionState

LEMMA HandleDisconnectStep ==
  ASSUME IInv, NEW full \in BOOLEAN, NEW settings \in LeaveArgs, NEW next,
         HandleDisconnect(full, settings, next)
  PROVE  LifecycleStep /\ HonourStep
<1>1. cmTypeOK /\ SettingsFresh /\ closed \in BOOLEAN
  BY DEF IInv, Typed, TypeOK, Protocol
<1>2. Degrades /\ ((pc' = next /\ recovering' = recovering) \/ Claims(next))
  BY <1>1, HandleDisconnectEffect
<1>3. HonourStep
  BY <1>2 DEF HonourStep, Degrades, needsRecovery
<1>4. LifecycleStep
  BY <1>1, <1>2 DEF cmTypeOK, States, Degrades, Claims, needsRecovery, ConnectionState,
     LifecycleStep, Lifecycle!vars, Lifecycle!Next, Lifecycle!Lose, Lifecycle!Escalate,
     Lifecycle!Rearm, Lifecycle!Lost
<1> QED BY <1>3, <1>4

LEMMA ManagerStep ==
  ASSUME IInv, [Next]_vars
  PROVE  LifecycleStep /\ HonourStep
<1> USE DEF LifecycleStep, HonourStep
<1>0. /\ state \in States /\ recovering \in BOOLEAN
      /\ recovering => state # "INITIAL"
      /\ \A w \in Workers : pc[w] \in ActiveLabels => recovering
      /\ pc[App] # "joined" => ~recovering /\ state \in {"INITIAL", "CLOSED"}
      /\ mode[App] = "join"
  BY DEF IInv, Typed, TypeOK, cmTypeOK, PlanInv, Protocol, WorkerSlot, Active, JoinExclusive,
     JoinedFirst
<1>1. ASSUME NEW w \in Workers, WorkerStep(w) PROVE LifecycleStep /\ HonourStep
  <2>1. CASE \/ Loop(w) \/ BranchRestart(w) \/ BranchResume(w) \/ Cleanup(w)
             \/ CleanupWait(w) \/ GiveUp(w) \/ CloseUp(w) \/ Notify(w)
    BY <2>1, UntouchedStep DEF Loop, BranchRestart, BranchResume, Cleanup, CleanupWait,
       GiveUp, CloseUp, Notify
  <2>2. CASE Escalate(w)
    <3>1. recovering
      BY <1>0, <2>2 DEF Escalate, At, ActiveLabels
    <3> QED
      BY <1>0, <2>2, <3>1 DEF Escalate, setReconnecting, setReconnectingLocked, States,
         ConnectionState, Lifecycle!vars, Lifecycle!Next, Lifecycle!Lose, Lifecycle!Escalate
  <2>3. CASE Continue(w) \/ Stop(w)
    BY <1>0, <2>3 DEF Continue, Stop, recoveryWorkerShouldContinue, stopRecoveryWorker,
       ConnectionState, Lifecycle!vars, Lifecycle!Next, Lifecycle!Release
  <2> QED BY <1>1, <2>1, <2>2, <2>3 DEF WorkerStep
<1>2. ASSUME NEW p \in Joiners, JoinStep(p) PROVE LifecycleStep /\ HonourStep
  <2>1. CASE \/ Plan(p) \/ Exhausted(p) \/ DialFails(p) \/ DialSucceeds(p) \/ Swap(p)
             \/ FirstLeaveReport(p) \/ WaitConnected(p) \/ WaitFails(p) \/ Undo(p)
             \/ UndoWait(p)
    BY <2>1, UntouchedStep DEF Plan, Exhausted, DialFails, DialSucceeds, Swap,
       FirstLeaveReport, WaitConnected, WaitFails, Undo, UndoWait
  <2>2. p # App => p \in Workers
    BY DEF Joiners
  <2>3. pc[p] = "settle" => IF p = App THEN ~recovering /\ state \in {"INITIAL", "CLOSED"}
                                       ELSE recovering
    BY <1>0, <2>2 DEF ActiveLabels
  <2>4. CASE SettleJoin(p)
    <3>1. pc[p] = "settle" /\ mode[p] = "join" /\ setConnected(plan[p][attempt[p]])
      BY <2>4 DEF SettleJoin, At
    <3>2. HonourStep
      BY <2>2, <2>3, <3>1 DEF setConnected
    <3>3. LifecycleStep
      BY <1>0, <2>3, <3>1 DEF setConnected, States, ConnectionState, Lifecycle!vars,
         Lifecycle!Next, Lifecycle!Join, Lifecycle!Restore, Lifecycle!Lost
    <3> QED BY <3>2, <3>3
  <2>5. CASE SettleResume(p)
    <3>1. /\ pc[p] = "settle" /\ mode[p] = "resume"
          /\ setResumed(plan[p][attempt[p]])
      BY <2>5 DEF SettleResume, At
    <3>2. recovering
      BY <1>0, <2>3, <3>1
    <3> QED
      BY <1>0, <3>1, <3>2 DEF setResumed, canResume, States, ConnectionState, Lifecycle!vars,
         Lifecycle!Next, Lifecycle!Restore, Lifecycle!Lost
  <2> QED BY <1>2, <2>1, <2>4, <2>5 DEF JoinStep
<1>3. ASSUME NEW p \in Joiners, FirstMessage(p) \/ FirstLeave(p)
      PROVE  LifecycleStep /\ HonourStep
  <2>1. CASE FirstMessage(p) \/ FirstLeaveDisconnect(p)
    BY <2>1, UntouchedStep DEF FirstMessage, FirstFails, FirstJoinResponse, configure, FirstOther,
       FirstReconnectResponse, FirstLeaveDisconnect
  <2>2. ASSUME NEW full \in BOOLEAN, NEW settings \in LeaveArgs,
               FirstLeaveRecover(p, full, settings)
        PROVE  LifecycleStep /\ HonourStep
    BY <2>2, HandleDisconnectStep DEF FirstLeaveRecover
  <2> QED BY <1>3, <2>1, <2>2 DEF FirstLeave
<1>4. CASE ReaderStep
  <2>1. CASE ReaderReport \/ ReaderStops \/ \E r \in Readers : ReaderForgets(r)
    BY <2>1, UntouchedStep DEF ReaderReport, ReaderStops, ReaderForgets
  <2>2. CASE OnTransportClose
    BY <2>2, HandleDisconnectStep DEF OnTransportClose, LeaveArgs
  <2> QED BY <1>4, <2>1, <2>2 DEF ReaderStep
<1>5. CASE CloseStep
  <2>1. CASE Teardown \/ TeardownWait
    BY <2>1, UntouchedStep DEF Teardown, TeardownWait
  <2>2. CASE SetClosed
    BY <1>0, <2>2 DEF SetClosed, setClosed, States, ConnectionState, Lifecycle!vars,
       Lifecycle!Next, Lifecycle!End
  <2> QED BY <1>5, <2>1, <2>2 DEF CloseStep
<1>6. CASE Environment
  <2>1. CASE Negotiate \/ ConnBreaks \/ HeldBreaks \/ PCConnects \/ PCFails \/ Disconnect
             \/ JoinAgain \/ ContextDone \/ ReaderLeaveDisconnect
    BY <2>1, UntouchedStep DEF Negotiate, ConnBreaks, HeldBreaks, PCConnects, PCFails,
       Disconnect, JoinAgain, ContextDone, ReaderLeaveDisconnect
  <2>2. CASE OnICEFailed
    <3>1. UNCHANGED cmVars \/ HandleDisconnect(FALSE, NoSettings, pc)
      BY <2>2 DEF OnICEFailed
    <3> QED BY <3>1, UntouchedStep, HandleDisconnectStep DEF LeaveArgs
  <2>3. ASSUME NEW full \in BOOLEAN, NEW settings \in LeaveArgs,
               ReaderLeaveRecover(full, settings)
        PROVE  LifecycleStep /\ HonourStep
    BY <2>3, HandleDisconnectStep DEF ReaderLeaveRecover
  <2> QED BY <1>6, <2>1, <2>2, <2>3 DEF Environment, ReaderLeave
<1>7. CASE UNCHANGED vars
  BY <1>7, UntouchedStep DEF vars, cmVars
<1> QED BY <1>1, <1>2, <1>3, <1>4, <1>5, <1>6, <1>7 DEF Next

\* A resume never discards a full reconnect that was requested while it ran.
THEOREM ReconnectNotDowngraded == Spec => ReconnectHonoured
<1>1. IInv /\ [Next]_vars => [HonourStep]_vars
  BY ManagerStep
<1> QED BY Invariant, <1>1, PTL DEF Spec, ReconnectHonoured, HonourStep

\* The engine implements the life cycle of ConnectionLifecycle.tla under the
\* mapping of Room.ConnectionState.
THEOREM Refinement == Spec => ImplementsLifecycle
<1>1. Init => Lifecycle!Init
  BY DEF Init, cmInit, Lifecycle!Init, ConnectionState
<1>2. IInv /\ [Next]_vars => [Lifecycle!Next]_(Lifecycle!vars)
  BY ManagerStep DEF LifecycleStep
<1> QED BY Invariant, <1>1, <1>2, PTL DEF Spec, ImplementsLifecycle, Lifecycle!Spec
-----------------------------------------------------------------------------
\* Where Room.Join is between two attempts, past its wait, or at its end.
SettledLabels == {"plan", "dial", "swap", "settle", "joined", "failed"}

\* Somebody who closed the transport waits for reader r, or is yet to do so.
Watched(r) ==
  \/ closer = "closing" /\ Closer \in awaited[r]
  \/ pc[App] \in {"wait", "undo"}
  \/ pc[App] = "undoWait" /\ App \in awaited[r]

\* From the teardown on no worker runs, no peer connection comes up, a join
\* that got away with its wait, or ends, leaves nothing open behind, and every
\* reader that runs has somebody who waits for its end.
Torn ==
  closer \in {"closing", "done"} =>
    /\ ~recovering /\ pcState \in {"nil", "new", "closed"}
    /\ pc[App] \in SettledLabels \cup {"undoWait"} => conn # "open"
    /\ pc[App] \in SettledLabels => pcState \in {"nil", "closed"}
    /\ \A r \in Readers : readers[r] = "running" => Watched(r)

TornInv == Torn /\ (closing # Nobody \/ closer # "none" => closed)

\* Labels of a worker whose recovery has not come to its end.
BusyLabels == ActiveLabels \ {"notify", "continue"}

\* A disconnect is reported by who closes the engine, or by a worker that gave
\* up; a worker at work means the connection is not up; and who brought it up
\* has told the application, or is about to.
Reported ==
  /\ \A p \in Joiners \cup {Reader} : pc[p] = "report" => closed
  /\ pc[App] # "joined" => (\A w \in Workers : pc[w] = "idle") /\ (closed \/ view = "none")
  /\ \A w \in Workers : pc[w] \in BusyLabels => state # "CONNECTED"
  /\ state = "CONNECTED" /\ ~closed =>
       view \in {"none", "reconnected"} \/ \E w \in Workers : pc[w] = "notify" \/ HasGivenUp(w)

\* A step of a worker, or of a worker's attempt, comes before the teardown.
LEMMA WorkersBeforeTeardown ==
  ASSUME IInv, TornInv, NEW w \in Workers, pc[w] \in ActiveLabels, UNCHANGED closer,
         closed => closed', closing' # Nobody => closing # Nobody \/ closed'
  PROVE  TornInv'
<1>1. closer \notin {"closing", "done"}
  BY DEF IInv, Protocol, WorkerSlot, Active, TornInv, Torn
<1> QED BY <1>1 DEF TornInv, Torn

LEMMA TornStep == ASSUME IInv, TornInv, [Next]_vars PROVE TornInv'
<1> USE ProcsAssumption DEF At, Goto, Joiners, Procs, closeVars, loopVars, sigVars, pcVars
<1>0. /\ pc \in [Procs -> ActiveLabels \cup GaveUpLabels \cup AppLabels \cup {"idle", "done"}]
      /\ App \in Procs /\ mode[App] = "join"
      /\ \A w \in Workers : w # App /\ w # Reader /\ w # User
      /\ \A p \in Joiners : p # App => p \in Workers
      /\ transportTypeOK
  BY DEF IInv, Typed, TypeOK, pcTypeOK, PlanInv
<1>1. ASSUME NEW w \in Workers, WorkerStep(w) PROVE TornInv'
  <2>1. CASE GiveUp(w)
    BY <1>0, <2>1 DEF GiveUp, cmVars, TornInv, Torn, Watched
  <2>2. CASE CloseUp(w)
    BY <1>0, <2>2 DEF CloseUp, CloseEngine, cmVars, TornInv, Torn, Watched
  <2>3. CASE ~GiveUp(w) /\ ~CloseUp(w)
    <3>1. pc[w] \in ActiveLabels /\ UNCHANGED closeVars
      BY <1>1, <2>3
      DEF WorkerStep, Loop, BranchRestart, BranchResume, Cleanup, CleanupWait, Escalate, Continue,
          Stop, Notify, ActiveLabels
    <3> QED BY <3>1, WorkersBeforeTeardown
  <2> QED BY <2>1, <2>2, <2>3
<1>2. ASSUME NEW p \in Workers, JoinStep(p) \/ FirstMessage(p) \/ FirstLeave(p) PROVE TornInv'
  <2>1. /\ pc[p] \in ActiveLabels /\ UNCHANGED closer
        /\ UNCHANGED <<closed, closing>> \/ CloseEngine(p)
    BY <1>2
    DEF JoinStep, Plan, Exhausted, DialFails, DialSucceeds, NextAttempt, Swap, FirstLeaveReport,
        WaitConnected, WaitFails, SettleJoin, SettleResume, Undo, UndoWait, FirstMessage,
        FirstFails, FirstJoinResponse, FirstOther, FirstReconnectResponse, FirstLeave,
        FirstLeaveDisconnect, FirstLeaveRecover, ActiveLabels
  <2> QED BY <2>1, WorkersBeforeTeardown DEF CloseEngine, TornInv
<1>3. CASE JoinStep(App)
  <2> USE DEF SettledLabels, TornInv, Torn, Watched, transportTypeOK, cmVars
  <2>1. CASE Plan(App) BY <1>0, <2>1 DEF Plan, FailJob
  <2>2. CASE Exhausted(App) BY <1>0, <2>2 DEF Exhausted, FailJob
  <2>3. CASE DialFails(App) BY <1>0, <2>3 DEF DialFails, NextAttempt
  <2>4. CASE DialSucceeds(App) BY <1>0, <2>4 DEF DialSucceeds, NextAttempt, CloseTransport, ClosedConn
  <2>5. CASE Swap(App) BY <1>0, <2>5 DEF Swap
  <2>6. CASE FirstLeaveReport(App) BY <1>0, <2>6 DEF FirstLeaveReport, AfterLeave
  <2>7. CASE WaitConnected(App) BY <1>0, <2>7 DEF WaitConnected
  <2>8. CASE WaitFails(App) BY <1>0, <2>8 DEF WaitFails
  <2>9. CASE SettleJoin(App) BY <1>0, <2>9 DEF SettleJoin, setConnected
  <2>10. CASE SettleResume(App) BY <1>0, <2>10 DEF SettleResume
  <2>11. CASE Undo(App) BY <1>0, <2>11 DEF Undo, CloseTransport, ClosedConn
  <2>12. CASE UndoWait(App) BY <1>0, <2>12 DEF UndoWait, TransportClosed
  <2> QED
    BY <1>3, <2>1, <2>2, <2>3, <2>4, <2>5, <2>6, <2>7, <2>8, <2>9, <2>10, <2>11, <2>12 DEF JoinStep
<1>4. CASE FirstMessage(App)
  <2> USE DEF SettledLabels, TornInv, Torn, Watched, transportTypeOK, cmVars
  <2>1. CASE FirstFails(App) BY <1>0, <2>1 DEF FirstFails, AfterRead
  <2>2. CASE FirstJoinResponse(App) BY <1>0, <2>2 DEF FirstJoinResponse, configure, AfterRead, Start
  <2>3. CASE FirstOther(App) BY <1>0, <2>3 DEF FirstOther, AfterRead
  <2>4. CASE FirstReconnectResponse(App) BY <1>0, <2>4 DEF FirstReconnectResponse
  <2> QED BY <1>4, <2>1, <2>2, <2>3, <2>4 DEF FirstMessage
<1>5. ASSUME NEW full \in BOOLEAN, NEW settings \in LeaveArgs, NEW next,
             HandleDisconnect(full, settings, next), next[App] = pc[App] \/ next[App] = "wait",
             closer \in {"closing", "done"}, conn' \in {conn, "nil"},
             UNCHANGED <<closeVars, loopVars, pcState>>,
             pc[App] \in {"undo", "undoWait"} => next[App] = pc[App]
      PROVE  TornInv'
  BY <1>5 DEF HandleDisconnect, SettledLabels, TornInv, Torn, Watched, cmVars
<1>6. CASE FirstLeave(App)
  <2>1. CASE FirstLeaveDisconnect(App)
    BY <1>0, <2>1
    DEF FirstLeaveDisconnect, CloseEngine, AfterRead, SettledLabels, TornInv, Torn, Watched, cmVars
  <2>2. ASSUME NEW full \in BOOLEAN, NEW settings \in LeaveArgs,
               FirstLeaveRecover(App, full, settings)
        PROVE  TornInv'
    <3>1. [pc EXCEPT ![App] = AfterLeave(App)][App] = "wait" BY <1>0 DEF AfterLeave
    <3> QED BY <1>5, <2>2, <3>1 DEF FirstLeaveRecover, AfterRead, TornInv, Torn
  <2> QED BY <1>6, <2>1, <2>2 DEF FirstLeave
<1>7. CASE ReaderStep
  <2>1. CASE ReaderReport
    BY <1>0, <2>1 DEF ReaderReport, SettledLabels, TornInv, Torn, Watched, cmVars
  <2>2. CASE ReaderStops
    BY <1>0, <2>2 DEF ReaderStops, transportTypeOK, TornInv, Torn, Watched, cmVars
  <2>3. CASE OnTransportClose
    BY <1>5, <2>3 DEF OnTransportClose, LeaveArgs, TornInv, Torn
  <2>4. ASSUME NEW r \in Readers, ReaderForgets(r) PROVE TornInv'
    BY <1>0, <2>4 DEF ReaderForgets, transportTypeOK, TornInv, Torn, Watched, cmVars
  <2> QED BY <1>7, <2>1, <2>2, <2>3, <2>4 DEF ReaderStep
<1>8. CASE CloseStep
  <2>1. CASE SetClosed BY <2>1 DEF SetClosed, TornInv, Torn, Watched
  <2>2. CASE Teardown
    BY <1>0, <2>2
    DEF Teardown, CloseTransport, ClosedConn, transportTypeOK, TornInv, Torn, Watched, cmVars
  <2>3. CASE TeardownWait
    BY <2>3 DEF TeardownWait, TransportClosed, TornInv, Torn, Watched, cmVars
  <2> QED BY <1>8, <2>1, <2>2, <2>3 DEF CloseStep
<1>9. CASE Environment
  <2> USE DEF SettledLabels, TornInv, Torn, Watched, transportTypeOK, cmVars
  <2>1. CASE Negotiate BY <2>1 DEF Negotiate, AfterRead
  <2>2. CASE ConnBreaks \/ HeldBreaks BY <2>2 DEF ConnBreaks, HeldBreaks
  <2>3. CASE PCConnects \/ PCFails BY <2>3 DEF PCConnects, PCFails
  <2>4. CASE OnICEFailed
    <3>1. CASE pcState = "nil" BY <2>4, <3>1 DEF OnICEFailed
    <3>2. CASE pcState # "nil" BY <1>5, <2>4, <3>2 DEF OnICEFailed, LeaveArgs
    <3> QED BY <3>1, <3>2
  <2>5. CASE Disconnect BY <1>0, <2>5 DEF Disconnect, CloseEngine
  <2>6. CASE JoinAgain BY <1>0, <2>6 DEF JoinAgain
  <2>7. CASE ContextDone BY <1>0, <2>7 DEF ContextDone
  <2>8. CASE ReaderLeaveDisconnect
    BY <1>0, <2>8 DEF ReaderLeaveDisconnect, AfterRead, CloseEngine
  <2>9. ASSUME NEW full \in BOOLEAN, NEW settings \in LeaveArgs, ReaderLeaveRecover(full, settings)
        PROVE  TornInv'
    BY <1>5, <2>9 DEF ReaderLeaveRecover, AfterRead
  <2> QED
    BY <1>9, <2>1, <2>2, <2>3, <2>4, <2>5, <2>6, <2>7, <2>8, <2>9 DEF Environment, ReaderLeave
<1>10. CASE UNCHANGED vars BY <1>10 DEF vars, cmVars, TornInv, Torn, Watched
<1> QED BY <1>0, <1>1, <1>2, <1>3, <1>4, <1>6, <1>7, <1>8, <1>9, <1>10 DEF Next

\* A step of w that leaves the state or brings it up keeps what was reported.
LEMMA ReportedStep == ASSUME IInv, IInv', Reported, [Next]_vars PROVE Reported'
<1> USE ProcsAssumption
    DEF At, Goto, Joiners, Procs, cmVars, jobVars, closeVars, sigVars, pcVars, appVars
<1>0. /\ pc \in [Procs -> ActiveLabels \cup GaveUpLabels \cup AppLabels \cup {"idle", "done"}]
      /\ App \in Procs /\ mode[App] = "join" /\ closed \in BOOLEAN
      /\ \A w \in Workers : w # App /\ w # Reader /\ w # User /\ w \in Procs
      /\ \A p \in Joiners : p # App => p \in Workers
      /\ \A v, w \in Workers : Active(v) /\ Active(w) => v = w
      /\ \A w \in Workers : Active(w) => recovering /\ pc[App] = "joined"
      /\ pc[App] # "joined" => state \in {"INITIAL", "CLOSED"}
  BY DEF IInv, Typed, TypeOK, pcTypeOK, PlanInv, Protocol, WorkerSlot, JoinExclusive
<1> DEFINE Moves(p, l) ==
      /\ pc' = [pc EXCEPT ![p] = l] /\ UNCHANGED <<state, view>> /\ (closed => closed')
<1>1. ASSUME NEW p \in Joiners, NEW l \in ActiveLabels \cup AppLabels, Moves(p, l),
             p # App => pc[p] \in BusyLabels /\ l \in BusyLabels \cup {"continue"},
             p = App => l # "joined" /\ pc[App] # "joined",
             l = "report" => closed'
      PROVE  Reported'
  BY <1>0, <1>1 DEF Reported, BusyLabels, ActiveLabels, AppLabels, GaveUpLabels, HasGivenUp
<1>2. ASSUME NEW full \in BOOLEAN, NEW settings \in LeaveArgs, NEW p \in Joiners,
             NEW l \in {pc[p], "wait", "dial"},
             pc[p] = "first" \/ l = pc[p],
             HandleDisconnect(full, settings, [pc EXCEPT ![p] = l]),
             UNCHANGED <<view, closed>>
      PROVE  Reported'
  <2> DEFINE next == [pc EXCEPT ![p] = l]
  <2>1. Degrades /\ ((pc' = next /\ recovering' = recovering) \/ Claims(next))
    BY <1>0, <1>2, HandleDisconnectEffect DEF IInv, Typed, TypeOK, Protocol
  <2>2. CASE pc' = next
    BY <1>0, <1>2, <2>1, <2>2
    DEF Reported, BusyLabels, ActiveLabels, GaveUpLabels, HasGivenUp, Degrades, needsRecovery
  <2>3. CASE Claims(next)
    <3>1. PICK w \in Workers : pc[w] = "idle" /\ pc' = [next EXCEPT ![w] = "loop"]
      BY <2>3 DEF Claims
    <3>2. needsRecovery(state') /\ pc'[App] = "joined"
      BY <2>3 DEF Claims, IInv, Protocol, JoinExclusive
    <3> QED
      BY <1>0, <1>2, <3>1, <3>2
      DEF Reported, BusyLabels, ActiveLabels, GaveUpLabels, HasGivenUp, needsRecovery
  <2> QED BY <2>1, <2>2, <2>3
<1>3. ASSUME NEW full \in BOOLEAN, NEW settings \in LeaveArgs,
             HandleDisconnect(full, settings, pc), UNCHANGED <<view, closed>>
      PROVE  Reported'
  <2>1. pc = [pc EXCEPT ![App] = pc[App]] BY <1>0
  <2>2. HandleDisconnect(full, settings, [pc EXCEPT ![App] = pc[App]])
    BY <1>3, <2>1, Zenon
  <2>3. App \in Joiners /\ pc[App] \in {pc[App], "wait", "dial"}
    OBVIOUS
  <2> QED BY <1>2, <1>3, <2>2, <2>3, Zenon
<1> HIDE DEF Moves
<1>4. ASSUME NEW w \in Workers, WorkerStep(w) PROVE Reported'
  <2>1. CASE Loop(w) \/ BranchRestart(w) \/ Cleanup(w)
    <3>1. PICK l \in {"branch", "stop", "cleanup", "cleanupWait"} : Moves(w, l)
      BY <2>1 DEF Loop, BranchRestart, Cleanup, Moves
    <3>2. pc[w] \in BusyLabels /\ l \in BusyLabels /\ l \in ActiveLabels
      BY <2>1, <3>1 DEF Loop, BranchRestart, Cleanup, BusyLabels, ActiveLabels
    <3> QED BY <1>0, <1>1, <3>1, <3>2
  <2>2. CASE BranchResume(w) \/ CleanupWait(w) \/ Escalate(w)
    <3>1. pc[w] \in BusyLabels /\ state # "CONNECTED" /\ state' # "CONNECTED"
      BY <2>2
      DEF BranchResume, CleanupWait, Escalate, BusyLabels, ActiveLabels, Reported,
          setReconnecting, setReconnectingLocked
    <3>2. \E l \in {"plan", "loop"} : pc' = [pc EXCEPT ![w] = l] /\ UNCHANGED closed
      BY <2>2 DEF BranchResume, CleanupWait, Escalate
    <3>3. pc'[App] = "joined" /\ \A p \in Joiners \cup {Reader} : pc'[p] = "report" => closed'
      BY <1>0, <3>1, <3>2 DEF Reported, BusyLabels, Active
    <3> QED BY <3>1, <3>3 DEF Reported
  <2>3. CASE Continue(w)
    <3>1. PICK continue \in BOOLEAN :
             /\ recoveryWorkerShouldContinue(continue)
             /\ pc' = [pc EXCEPT ![w] = IF continue THEN "loop" ELSE "idle"]
      BY <2>3 DEF Continue
    <3>2. UNCHANGED <<state, view, closed>> /\ (continue => state # "CONNECTED")
      BY <2>3, <3>1 DEF Continue, recoveryWorkerShouldContinue, needsRecovery
    <3>3. pc[w] = "continue" /\ pc[App] = "joined"
      BY <1>0, <2>3 DEF Continue, Active, ActiveLabels
    <3>4. /\ \A q \in Procs : q # w => pc'[q] = pc[q]
          /\ pc'[w] = IF continue THEN "loop" ELSE "idle"
      BY <1>0, <3>1
    <3>5. \A p \in Joiners \cup {Reader} : pc'[p] = "report" => closed'
      BY <1>0, <3>2, <3>4 DEF Reported
    <3>6. \A v \in Workers : pc'[v] \in BusyLabels => state' # "CONNECTED"
      BY <1>0, <3>2, <3>4 DEF Reported, BusyLabels, ActiveLabels
    <3>7. \A v \in Workers :
            pc[v] = "notify" \/ HasGivenUp(v) => pc'[v] = "notify" \/ HasGivenUp(v)'
      BY <1>0, <3>3, <3>4 DEF HasGivenUp, GaveUpLabels
    <3> QED BY <1>0, <3>2, <3>3, <3>4, <3>5, <3>6, <3>7 DEF Reported
  <2>4. CASE Stop(w)
    BY <1>0, <2>4
    DEF Stop, stopRecoveryWorker, Reported, BusyLabels, ActiveLabels, Active, GaveUpLabels,
        HasGivenUp
  <2>5. CASE GiveUp(w)
    BY <1>0, <2>5
    DEF GiveUp, OnDisconnected, Reported, BusyLabels, ActiveLabels, GaveUpLabels, HasGivenUp
  <2>6. CASE CloseUp(w)
    BY <1>0, <2>6
    DEF CloseUp, CloseEngine, Reported, BusyLabels, ActiveLabels, GaveUpLabels, HasGivenUp
  <2>7. CASE Notify(w)
    BY <1>0, <2>7
    DEF Notify, Reported, BusyLabels, ActiveLabels, Active, GaveUpLabels, HasGivenUp
  <2> QED BY <1>4, <2>1, <2>2, <2>3, <2>4, <2>5, <2>6, <2>7 DEF WorkerStep
<1>5. ASSUME NEW p \in Joiners, JoinStep(p) PROVE Reported'
  <2>1. CASE Plan(p) \/ Exhausted(p)
    <3>1. PICK l \in {"dial", "failed", "escalate", "loop"} :
             Moves(p, l) /\ (p = App => l # "escalate" /\ l # "loop") /\ (p # App => l # "failed")
      BY <2>1 DEF Plan, Exhausted, FailJob, Moves
    <3>2. pc[p] \in {"plan", "dial"}
      BY <2>1 DEF Plan, Exhausted
    <3> QED BY <1>0, <1>1, <3>1, <3>2 DEF BusyLabels, ActiveLabels, AppLabels
  <2>2. CASE \/ DialFails(p) \/ DialSucceeds(p) \/ Swap(p)
             \/ WaitConnected(p) \/ Undo(p) \/ UndoWait(p)
    <3>1. /\ pc[p] \in {"dial", "swap", "wait", "undo", "undoWait"}
          /\ \E l \in {"undo", "dial", "swap", "first", "settle", "undoWait"} : Moves(p, l)
      BY <2>2
      DEF DialFails, DialSucceeds, NextAttempt, Swap, WaitConnected, Undo, UndoWait, Moves
    <3> QED BY <1>0, <1>1, <3>1 DEF BusyLabels, ActiveLabels, AppLabels
  <2>3. CASE WaitFails(p)
    <3>1. /\ pc[p] = "wait"
          /\ \E l \in {"undo", "escalate"} : Moves(p, l) /\ (p = App => l = "undo")
      BY <1>0, <2>3 DEF WaitFails, Moves
    <3> QED BY <1>0, <1>1, <3>1 DEF BusyLabels, ActiveLabels, AppLabels
  <2>4. CASE FirstLeaveReport(p)
    <3>1. closed /\ pc[p] = "report" BY <2>4 DEF FirstLeaveReport, Reported
    <3>2. PICK l \in {"wait", "dial"} :
             pc' = [pc EXCEPT ![p] = l] /\ UNCHANGED <<state, closed>>
      BY <2>4 DEF FirstLeaveReport, AfterLeave
    <3>3. p # App => pc[p] \in BusyLabels BY <3>1 DEF BusyLabels, ActiveLabels
    <3> QED
      BY <1>0, <3>1, <3>2, <3>3 DEF Reported, BusyLabels, ActiveLabels, GaveUpLabels, HasGivenUp
  <2>5. CASE SettleJoin(p) /\ p = App
    BY <1>0, <2>5
    DEF SettleJoin, setConnected, Reported, BusyLabels, ActiveLabels, GaveUpLabels, HasGivenUp
  <2>6. CASE SettleJoin(p) /\ p # App
    <3>1. p \in Workers /\ pc[p] = "settle" /\ Active(p)
      BY <1>0, <2>6 DEF SettleJoin, Active, ActiveLabels
    <3>2. pc' = [pc EXCEPT ![p] = "notify"] /\ UNCHANGED <<view, closed>>
      BY <2>6 DEF SettleJoin
    <3>3. \A w \in Workers : w # p => pc[w] \notin BusyLabels
      BY <1>0, <3>1 DEF Active, BusyLabels
    <3> QED
      BY <1>0, <3>1, <3>2, <3>3 DEF Reported, BusyLabels, ActiveLabels
  <2>7. CASE SettleResume(p)
    <3>1. p \in Workers /\ pc[p] = "settle" /\ Active(p)
      BY <1>0, <2>7 DEF SettleResume, Active, ActiveLabels
    <3>2. \A w \in Workers : w # p => pc[w] \notin BusyLabels
      BY <1>0, <3>1 DEF Active, BusyLabels
    <3>3. CASE canResume
      <4>1. pc' = [pc EXCEPT ![p] = "notify"] /\ UNCHANGED <<view, closed>>
        BY <2>7, <3>3 DEF SettleResume
      <4> QED BY <1>0, <3>1, <3>2, <4>1 DEF Reported, BusyLabels, ActiveLabels
    <3>4. CASE ~canResume
      <4>1. Moves(p, "continue") /\ pc[p] \in BusyLabels
        BY <2>7, <3>1, <3>4 DEF SettleResume, setResumed, Moves, BusyLabels, ActiveLabels
      <4> QED BY <1>0, <1>1, <3>1, <4>1 DEF ActiveLabels
    <3> QED BY <3>3, <3>4
  <2> QED BY <1>5, <2>1, <2>2, <2>3, <2>4, <2>5, <2>6, <2>7 DEF JoinStep
<1>6. ASSUME NEW p \in Joiners, FirstMessage(p) PROVE Reported'
  <2>1. pc[p] = "first" /\ \E l \in {"undo", "dial", "wait"} : Moves(p, l)
    BY <1>6
    DEF FirstMessage, FirstFails, FirstJoinResponse, configure, FirstOther,
        FirstReconnectResponse, Moves
  <2> QED BY <1>0, <1>1, <2>1 DEF BusyLabels, ActiveLabels, AppLabels
<1>7. ASSUME NEW p \in Joiners, FirstLeave(p) PROVE Reported'
  <2>1. CASE FirstLeaveDisconnect(p)
    <3>1. pc[p] = "first" /\ Moves(p, "report") /\ closed'
      BY <2>1 DEF FirstLeaveDisconnect, CloseEngine, Moves
    <3> QED BY <1>0, <1>1, <3>1 DEF BusyLabels, ActiveLabels, AppLabels
  <2>2. ASSUME NEW full \in BOOLEAN, NEW settings \in LeaveArgs,
               FirstLeaveRecover(p, full, settings)
        PROVE  Reported'
    BY <1>2, <2>2 DEF FirstLeaveRecover, AfterLeave
  <2> QED BY <1>7, <2>1, <2>2 DEF FirstLeave
<1>8. CASE ReaderStep
  <2>1. CASE ReaderReport
    <3>1. closed BY <2>1 DEF ReaderReport, Reported
    <3> QED
      BY <1>0, <2>1, <3>1
      DEF ReaderReport, Reported, BusyLabels, ActiveLabels, GaveUpLabels, HasGivenUp
  <2>2. CASE ReaderStops \/ \E r \in Readers : ReaderForgets(r)
    BY <2>2 DEF ReaderStops, ReaderForgets, Reported, HasGivenUp
  <2>3. CASE OnTransportClose
    BY <1>3, <2>3 DEF OnTransportClose, LeaveArgs
  <2> QED BY <1>8, <2>1, <2>2, <2>3 DEF ReaderStep
<1>9. CASE CloseStep
  BY <1>9 DEF CloseStep, SetClosed, setClosed, Teardown, TeardownWait, Reported, HasGivenUp
<1>10. CASE Environment
  <2>1. CASE Negotiate \/ ConnBreaks \/ HeldBreaks \/ PCConnects \/ PCFails
    BY <2>1 DEF Negotiate, ConnBreaks, HeldBreaks, PCConnects, PCFails, Reported, HasGivenUp
  <2>2. CASE OnICEFailed
    <3>1. CASE pcState = "nil" BY <2>2, <3>1 DEF OnICEFailed, Reported, HasGivenUp
    <3>2. CASE pcState # "nil" BY <1>3, <2>2, <3>2 DEF OnICEFailed, LeaveArgs
    <3> QED BY <3>1, <3>2
  <2>3. CASE Disconnect
    BY <1>0, <2>3
    DEF Disconnect, CloseEngine, Reported, BusyLabels, ActiveLabels, GaveUpLabels, HasGivenUp
  <2>4. CASE JoinAgain \/ ContextDone
    <3>1. pc[App] \in {"failed", "dial"} /\ \E l \in {"plan", "failed"} : Moves(App, l)
      BY <2>4 DEF JoinAgain, ContextDone, Moves
    <3> QED BY <1>0, <1>1, <3>1 DEF AppLabels
  <2>5. CASE ReaderLeaveDisconnect
    BY <1>0, <2>5
    DEF ReaderLeaveDisconnect, CloseEngine, Reported, BusyLabels, ActiveLabels, GaveUpLabels,
        HasGivenUp
  <2>6. ASSUME NEW full \in BOOLEAN, NEW settings \in LeaveArgs, ReaderLeaveRecover(full, settings)
        PROVE  Reported'
    BY <1>3, <2>6 DEF ReaderLeaveRecover
  <2> QED BY <1>10, <2>1, <2>2, <2>3, <2>4, <2>5, <2>6 DEF Environment, ReaderLeave
<1>11. CASE UNCHANGED vars BY <1>11 DEF vars, Reported, HasGivenUp
<1> QED BY <1>4, <1>5, <1>6, <1>7, <1>8, <1>9, <1>10, <1>11 DEF Next

\* Once the engine is torn down and no join is under way, no reader runs, the transport's websocket
\* is not open and no peer connection lives, however many workers, joins, failures and readers that
\* had stopped raced with Close; a websocket such a reader made the transport forget is not spoken
\* of (WebsocketKept).  And after a recovery that succeeded the application has been told so
\* (engine.go Close; signaltransport_websocket.go Close, readWorker; room.go OnResumed, OnRestarted).
THEOREM OutcomeIsSettled == Spec => []OutcomeSettled
<1>1. Init => TornInv /\ Reported
  <2> SUFFICES ASSUME Init PROVE TornInv /\ Reported OBVIOUS
  <2> QED
    BY ProcsAssumption
    DEF Init, cmInit, TornInv, Torn, Reported, BusyLabels, ActiveLabels, Procs, Joiners
<1>2. IInv /\ IInv' /\ TornInv /\ Reported /\ [Next]_vars => TornInv' /\ Reported'
  BY TornStep, ReportedStep
<1>3. IInv /\ TornInv /\ Reported => OutcomeSettled
  BY DEF OutcomeSettled, TornDown, started, ViewFollows, TornInv, Torn, Watched, SettledLabels,
     Reported, NoWorker, Active, ActiveLabels
<1> QED BY Invariant, <1>1, <1>2, <1>3, PTL DEF Spec
=============================================================================
