-------------------------------- MODULE RTCEngine --------------------------------
(***************************************************************************)
(* Joining, resuming, restarting and closing a connection (engine.go), on  *)
(* top of the connection manager, the websocket signal transport           *)
(* (signalling/signaltransport_websocket.go) and the part of Room that the *)
(* engine calls back (room.go).                                            *)
(*                                                                         *)
(* The goroutines are: App, which calls Room.Join; User, which calls       *)
(* Room.Disconnect; Reader, the read loop that runs; Readers, all read     *)
(* loops, the ones included that have stopped and have yet to clear the    *)
(* transport's websocket; the recovery Workers handleDisconnect starts;    *)
(* Closer, which Close starts; and the callbacks that end a reader or      *)
(* report a failed ICE transport, which are counted because they run late. *)
(***************************************************************************)
EXTENDS ConnectionManager, FiniteSets

CONSTANTS
  Workers,            \* goroutines handleDisconnect may start
  App, Reader, User,  \* the other goroutines
  Readers,            \* readWorker goroutines there may be at a time
  Closer,             \* the goroutine Close starts
  Nobody,             \* closing = Nobody: nobody is inside Close
  MaxReconnectCount,  \* maxReconnectCount
  MaxFaults,          \* bound: disturbances of a behaviour (see Disturb)
  MaxLateCloses       \* bound: readers that ended and have yet to say so

Joiners == Workers \cup {App}
Procs == Joiners \cup {Reader, User}
Closers == Joiners \cup {Closer}   \* who may wait in the transport's Close

ASSUME ProcsAssumption ==
  /\ App \notin Workers /\ Reader \notin Workers /\ User \notin Workers
  /\ App # Reader /\ App # User /\ Reader # User
  /\ Nobody \notin Procs /\ Closer \notin Procs
  /\ MaxReconnectCount \in Nat \ {0}
  /\ MaxFaults \in Nat /\ MaxLateCloses \in Nat

VARIABLES
  pc,                \* where each goroutine is
  mode,              \* what a joiner is doing: "join", "resume" or "none"
  plan, attempt,     \* a joiner's connection plan and its current attempt
  reconnectCount,    \* a worker's count of failed restarts
  closed, closing,   \* engine.closed; who is between its swap and setClosed
  closer,            \* the goroutine started by Close
  conn,              \* the websocket, see ClosedConn
  readers, awaited,  \* each read loop, and who waits in Close for its end
  closeCbs,          \* readers that ended and have yet to call OnTransportClose
  pcState, iceCbs,   \* the primary peer connection; late ICE-failed callbacks
  view,              \* the last connection callback the application received
  disconnectReason,  \* Room.disconnectReason
  faults             \* disturbances so far

jobVars   == <<mode, plan, attempt, reconnectCount>>
closeVars == <<closed, closing, closer>>
loopVars  == <<readers, awaited>>
sigVars   == <<conn, loopVars, closeCbs>>
pcVars    == <<pcState, iceCbs>>
appVars   == <<view, disconnectReason>>
vars == <<cmVars, pc, jobVars, closeVars, sigVars, pcVars, appVars, faults>>

\* Steps of a worker while it holds the worker slot, and after it gave it up.
ActiveLabels == {"loop", "branch", "cleanup", "cleanupWait", "plan", "dial", "swap",
                 "first", "report", "wait", "settle", "notify", "continue", "undo",
                 "undoWait", "escalate", "stop"}
GaveUpLabels == {"giveUp", "closeUp"}
AppLabels    == {"plan", "dial", "swap", "first", "report", "wait", "settle", "undo",
                 "undoWait", "joined", "failed"}

\* Every goroutine is somewhere in its own code.
pcTypeOK ==
  /\ pc \in [Procs -> ActiveLabels \cup GaveUpLabels \cup AppLabels \cup {"idle", "done"}]
  /\ \A w \in Workers : pc[w] \in ActiveLabels \cup GaveUpLabels \cup {"idle"}
  /\ pc[App] \in AppLabels
  /\ pc[Reader] \in {"idle", "report"}
  /\ pc[User] \in {"idle", "done"}

jobTypeOK ==
  /\ mode \in [Joiners -> {"none", "join", "resume"}]
  /\ plan \in [Joiners -> Seq(Regions)]
  /\ attempt \in [Joiners -> Nat]
  /\ reconnectCount \in [Workers -> 0..MaxReconnectCount]

transportTypeOK ==
  /\ conn \in {"nil", "open", "broken", "held"}
  /\ readers \in [Readers -> {"none", "running", "stopped"}]
  /\ awaited \in [Readers -> SUBSET Closers]
  /\ closeCbs \in Nat

TypeOK ==
  /\ cmTypeOK
  /\ pcTypeOK
  /\ jobTypeOK
  /\ closed \in BOOLEAN
  /\ closing \in Procs \cup {Nobody}
  /\ closer \in {"none", "waiting", "closing", "done"}
  /\ transportTypeOK
  /\ pcState \in {"nil", "new", "negotiated", "connected", "failed", "closed"}
  /\ iceCbs \in Nat
  /\ view \in {"none", "signalReconnecting", "reconnecting", "reconnected", "disconnected"}
  /\ disconnectReason \in {"UNKNOWN_REASON", "SIGNAL_CLOSE", "SERVER"}
  /\ faults \in 0..MaxFaults

Init ==
  /\ cmInit
  /\ pc = [p \in Procs |-> IF p = App THEN "plan" ELSE "idle"]
  /\ mode = [p \in Joiners |-> IF p = App THEN "join" ELSE "none"]
  /\ plan = [p \in Joiners |-> <<>>]
  /\ attempt = [p \in Joiners |-> 0]
  /\ reconnectCount = [w \in Workers |-> 0]
  /\ closed = FALSE /\ closing = Nobody /\ closer = "none"
  /\ conn = "nil" /\ closeCbs = 0
  /\ readers = [r \in Readers |-> "none"] /\ awaited = [r \in Readers |-> {}]
  /\ pcState = "nil" /\ iceCbs = 0
  /\ view = "none" /\ disconnectReason = "UNKNOWN_REASON"
  /\ faults = 0

-----------------------------------------------------------------------------
(* Shared pieces.                                                          *)

At(p, label) == pc[p] = label /\ closing # p
Goto(p, label) == pc' = [pc EXCEPT ![p] = label]

\* The environment disturbs the connection; only MaxFaults times.
Disturb == faults < MaxFaults /\ faults' = faults + 1

\* IsStarted: a reader runs.  One that has stopped no longer counts.
started == \E r \in Readers : readers[r] = "running"

\* Start: nothing, if a reader runs already.
Start ==
  IF started THEN UNCHANGED readers
  ELSE \E r \in Readers : readers[r] = "none" /\ readers' = [readers EXCEPT ![r] = "running"]

\* The websocket after conn.Close(): the pointer stays until the reader ends.
\* "held": the pointer is gone, but who loaded it before still reads the
\* websocket, which is open; Close cannot reach it.
ClosedConn == IF conn \in {"nil", "held"} THEN conn ELSE "broken"

\* A message can be read.  The next one is read from where the pointer leads.
Readable == conn \in {"open", "held"}
AfterRead == IF conn = "held" THEN "nil" ELSE conn

\* Close of the signal transport: c waits, but only for a reader that runs.
CloseTransport(c) ==
  /\ conn' = ClosedConn
  /\ awaited' = [r \in Readers |->
                   IF readers[r] = "running" THEN awaited[r] \cup {c} ELSE awaited[r]]
  /\ UNCHANGED <<readers, closeCbs>>

TransportClosed(c) == \A r \in Readers : c \notin awaited[r]

\* RTCEngine.Close by p up to the compare-and-swap; SetClosed is the rest.
CloseEngine(p) ==
  IF closed THEN UNCHANGED <<closed, closing>>
            ELSE closed' = TRUE /\ closing' = p

\* handleDisconnect, called by a goroutine whose own step leaves pc at next.
HandleDisconnect(fullReconnect, settings, next) ==
  IF closed
  THEN pc' = next /\ UNCHANGED cmVars
  ELSE \E start \in BOOLEAN :
         /\ requestRecovery(fullReconnect, settings, start)
         /\ IF start
            THEN \E w \in Workers : At(w, "idle") /\ pc' = [next EXCEPT ![w] = "loop"]
            ELSE pc' = next

\* Room.OnDisconnected up to its call of cleanup.
OnDisconnected(reason) == view' = "disconnected" /\ disconnectReason' = reason

-----------------------------------------------------------------------------
(* The recovery worker: the loop of handleDisconnect.                      *)

Loop_Unlimited(w) ==
  /\ At(w, "loop")
  /\ Goto(w, IF ~closed THEN "branch" ELSE "stop")
  /\ UNCHANGED <<cmVars, jobVars, closeVars, sigVars, pcVars, appVars, faults>>

Loop(w) ==
  /\ At(w, "loop")
  /\ Goto(w, IF reconnectCount[w] < MaxReconnectCount /\ ~closed THEN "branch" ELSE "stop")
  /\ UNCHANGED <<cmVars, jobVars, closeVars, sigVars, pcVars, appVars, faults>>

BranchRestart(w) ==
  /\ At(w, "branch")
  /\ state = "RECONNECTING"
  /\ Goto(w, "cleanup")
  /\ UNCHANGED <<cmVars, jobVars, closeVars, sigVars, pcVars, appVars, faults>>

BranchResume(w) ==
  /\ At(w, "branch")
  /\ state # "RECONNECTING"
  /\ view' = IF reconnectCount[w] = 0 THEN "signalReconnecting" ELSE view
  /\ mode' = [mode EXCEPT ![w] = "resume"]
  /\ Goto(w, "plan")
  /\ UNCHANGED <<cmVars, plan, attempt, reconnectCount, closeVars, sigVars, pcVars,
                 disconnectReason, faults>>

\* cleanupConnection: close the websocket, wait for its reader, drop the
\* peer connections.  On a restart OnRestarting follows.
Cleanup(w) ==
  /\ At(w, "cleanup")
  /\ CloseTransport(w)
  /\ Goto(w, "cleanupWait")
  /\ UNCHANGED <<cmVars, jobVars, closeVars, pcVars, appVars, faults>>

CleanupWait(w) ==
  /\ At(w, "cleanupWait")
  /\ TransportClosed(w)
  /\ pcState' = "nil"
  /\ view' = IF reconnectCount[w] = 0 THEN "reconnecting" ELSE view
  /\ mode' = [mode EXCEPT ![w] = "join"]
  /\ Goto(w, "plan")
  /\ UNCHANGED <<cmVars, plan, attempt, reconnectCount, closeVars, sigVars, iceCbs,
                 disconnectReason, faults>>

\* As below, but retrying the resume.
Escalate_Retries(w) ==
  /\ At(w, "escalate")
  /\ UNCHANGED cmVars
  /\ reconnectCount' = [reconnectCount EXCEPT ![w] = 0]
  /\ Goto(w, "loop")
  /\ UNCHANGED <<mode, plan, attempt, closeVars, sigVars, pcVars, appVars, faults>>

\* A resume that failed in any way becomes a full reconnect.
Escalate(w) ==
  /\ At(w, "escalate")
  /\ setReconnecting(NoSettings)
  /\ reconnectCount' = [reconnectCount EXCEPT ![w] = 0]
  /\ Goto(w, "loop")
  /\ UNCHANGED <<mode, plan, attempt, closeVars, sigVars, pcVars, appVars, faults>>

\* The goroutine returns: its locals go out of scope.
Continue(w) ==
  /\ At(w, "continue")
  /\ \E continue \in BOOLEAN :
       /\ recoveryWorkerShouldContinue(continue)
       /\ Goto(w, IF continue THEN "loop" ELSE "idle")
  /\ reconnectCount' = [reconnectCount EXCEPT ![w] = 0]
  /\ mode' = [mode EXCEPT ![w] = "none"]
  /\ plan' = [plan EXCEPT ![w] = <<>>]
  /\ attempt' = [attempt EXCEPT ![w] = 0]
  /\ UNCHANGED <<closeVars, sigVars, pcVars, appVars, faults>>

Stop(w) ==
  /\ At(w, "stop")
  /\ stopRecoveryWorker
  /\ reconnectCount' = [reconnectCount EXCEPT ![w] = 0]
  /\ mode' = [mode EXCEPT ![w] = "none"]
  /\ plan' = [plan EXCEPT ![w] = <<>>]
  /\ attempt' = [attempt EXCEPT ![w] = 0]
  /\ Goto(w, "giveUp")
  /\ UNCHANGED <<closeVars, sigVars, pcVars, appVars, faults>>

\* OnDisconnected reports first and closes the engine afterwards (cleanup).
GiveUp(w) ==
  /\ At(w, "giveUp")
  /\ OnDisconnected("SIGNAL_CLOSE")
  /\ Goto(w, "closeUp")
  /\ UNCHANGED <<cmVars, jobVars, closeVars, sigVars, pcVars, faults>>

CloseUp(w) ==
  /\ At(w, "closeUp")
  /\ CloseEngine(w)
  /\ Goto(w, "idle")
  /\ UNCHANGED <<cmVars, jobVars, closer, sigVars, pcVars, appVars, faults>>

-----------------------------------------------------------------------------
(* join and resumeConnection: the attempts of a connection plan.           *)

\* A plan that cannot be made, or none of whose attempts succeeded.
FailJob(p) ==
  CASE p = App -> Goto(p, "failed") /\ UNCHANGED reconnectCount
    [] p # App /\ mode[p] = "resume" -> Goto(p, "escalate") /\ UNCHANGED reconnectCount
    [] OTHER -> /\ Goto(p, "loop")
                /\ reconnectCount' = [reconnectCount EXCEPT ![p] = @ + 1]

Plan(p) ==
  /\ At(p, "plan")
  /\ IF canPlan
     THEN /\ \E discovery \in {<<>>, Discovered} :
               plan' = [plan EXCEPT ![p] = regionsToTry(discovery)]
          /\ Goto(p, "dial")
          /\ UNCHANGED reconnectCount
     ELSE FailJob(p) /\ UNCHANGED plan
  /\ attempt' = [attempt EXCEPT ![p] = 0]
  /\ UNCHANGED <<cmVars, mode, closeVars, sigVars, pcVars, appVars, faults>>

Left(p) == {i \in attempts(plan[p]) : i > attempt[p]}

Exhausted(p) ==
  /\ At(p, "dial")
  /\ Left(p) = {}
  /\ FailJob(p)
  /\ UNCHANGED <<cmVars, mode, plan, attempt, closeVars, sigVars, pcVars, appVars, faults>>

NextAttempt(p) ==
  /\ At(p, "dial")
  /\ \E i \in Left(p) : /\ \A j \in Left(p) : i <= j
                        /\ attempt' = [attempt EXCEPT ![p] = i]

\* The dial failed; a join then cleans up, a resume keeps what it has.
DialFails(p) ==
  /\ NextAttempt(p)
  /\ Goto(p, IF mode[p] = "join" THEN "undo" ELSE "dial")
  /\ UNCHANGED <<cmVars, mode, plan, reconnectCount, closeVars, sigVars, pcVars, appVars,
                 faults>>

\* The dial succeeded: close the previous websocket and wait for its reader.
DialSucceeds(p) ==
  /\ NextAttempt(p)
  /\ CloseTransport(p)
  /\ Goto(p, "swap")
  /\ UNCHANGED <<cmVars, mode, plan, reconnectCount, closeVars, pcVars, appVars, faults>>

Swap(p) ==
  /\ At(p, "swap")
  /\ TransportClosed(p)
  /\ conn' = "open"
  /\ Goto(p, "first")
  /\ UNCHANGED <<cmVars, jobVars, closeVars, loopVars, closeCbs, pcVars, appVars, faults>>

\* The caller's context ends before an attempt (only the first join has one).
ContextDone ==
  /\ At(App, "dial")
  /\ Left(App) # {}
  /\ Goto(App, "failed")
  /\ UNCHANGED <<cmVars, jobVars, closeVars, sigVars, pcVars, appVars, faults>>

\* The first message cannot be read, or is not a signal response.
FirstFails(p) ==
  /\ At(p, "first")
  /\ conn' \in IF conn = "open" THEN {"open", "broken"} ELSE {AfterRead}
  /\ Goto(p, IF mode[p] = "join" THEN "undo" ELSE "dial")
  /\ UNCHANGED <<cmVars, jobVars, closeVars, loopVars, closeCbs, pcVars, appVars, faults>>

\* Peer connections that are there are kept.
configure == pcState' = IF pcState = "nil" THEN "new" ELSE pcState

\* OnJoinResponse; the reader starts.
FirstJoinResponse(p) ==
  /\ At(p, "first")
  /\ mode[p] = "join" /\ Readable
  /\ configure
  /\ conn' = AfterRead
  /\ Start
  /\ Goto(p, "wait")
  /\ UNCHANGED <<cmVars, jobVars, closeVars, awaited, closeCbs, iceCbs, appVars, faults>>

\* Any other message, or a JoinResponse configure rejects: errors are dropped,
\* and the join waits for a connection that cannot come.
FirstOther(p) ==
  /\ At(p, "first")
  /\ mode[p] = "join" /\ Readable
  /\ conn' = AfterRead
  /\ Goto(p, "wait")
  /\ UNCHANGED <<cmVars, jobVars, closeVars, loopVars, closeCbs, pcVars, appVars, faults>>

\* A ReconnectResponse (older servers: any message): the reader starts.
FirstReconnectResponse(p) ==
  /\ At(p, "first")
  /\ mode[p] = "resume" /\ Readable
  /\ conn' = AfterRead
  /\ Start
  /\ Goto(p, "wait")
  /\ UNCHANGED <<cmVars, jobVars, closeVars, awaited, closeCbs, pcVars, appVars, faults>>

AfterLeave(p) == IF mode[p] = "join" THEN "wait" ELSE "dial"

\* A leave request as first message is handled by the joiner itself.
FirstLeaveRecover(p, fullReconnect, settings) ==
  /\ At(p, "first")
  /\ Readable
  /\ Disturb
  /\ conn' = AfterRead
  /\ HandleDisconnect(fullReconnect, settings, [pc EXCEPT ![p] = AfterLeave(p)])
  /\ UNCHANGED <<jobVars, closeVars, loopVars, closeCbs, pcVars, appVars>>

FirstLeaveDisconnect(p) ==
  /\ At(p, "first")
  /\ Readable
  /\ Disturb
  /\ conn' = AfterRead
  /\ CloseEngine(p)
  /\ Goto(p, "report")
  /\ UNCHANGED <<cmVars, jobVars, closer, loopVars, closeCbs, pcVars, appVars>>

FirstLeaveReport(p) ==
  /\ At(p, "report")
  /\ OnDisconnected("SERVER")
  /\ Goto(p, AfterLeave(p))
  /\ UNCHANGED <<cmVars, jobVars, closeVars, sigVars, pcVars, faults>>

\* waitUntilConnected.
WaitConnected(p) ==
  /\ At(p, "wait")
  /\ pcState = "connected"
  /\ Goto(p, "settle")
  /\ UNCHANGED <<cmVars, jobVars, closeVars, sigVars, pcVars, appVars, faults>>

\* The timeout; on a resume also an ICE-restart offer that cannot be made.
WaitFails(p) ==
  /\ At(p, "wait")
  /\ Goto(p, IF mode[p] = "join" THEN "undo" ELSE "escalate")
  /\ UNCHANGED <<cmVars, jobVars, closeVars, sigVars, pcVars, appVars, faults>>

SettleJoin(p) ==
  /\ At(p, "settle")
  /\ mode[p] = "join"
  /\ setConnected(plan[p][attempt[p]])
  /\ Goto(p, IF p = App THEN "joined" ELSE "notify")
  /\ UNCHANGED <<jobVars, closeVars, sigVars, pcVars, appVars, faults>>

SettleResume(p) ==
  /\ At(p, "settle")
  /\ mode[p] = "resume"
  /\ setResumed(plan[p][attempt[p]])
  /\ Goto(p, IF canResume THEN "notify" ELSE "continue")
  /\ UNCHANGED <<jobVars, closeVars, sigVars, pcVars, appVars, faults>>

Notify_RestartOnly(w) ==
  /\ At(w, "notify")
  /\ view' = IF mode[w] = "join" /\ ~closed THEN "reconnected" ELSE view
  /\ Goto(w, "continue")
  /\ UNCHANGED <<cmVars, jobVars, closeVars, sigVars, pcVars, disconnectReason, faults>>

\* OnRestartConnected, unless closed meanwhile, or OnResumed.
Notify(w) ==
  /\ At(w, "notify")
  /\ view' = IF mode[w] = "join" /\ closed THEN view ELSE "reconnected"
  /\ Goto(w, "continue")
  /\ UNCHANGED <<cmVars, jobVars, closeVars, sigVars, pcVars, disconnectReason, faults>>

\* cleanupConnection after a failed join attempt.
Undo(p) ==
  /\ At(p, "undo")
  /\ CloseTransport(p)
  /\ Goto(p, "undoWait")
  /\ UNCHANGED <<cmVars, jobVars, closeVars, pcVars, appVars, faults>>

UndoWait(p) ==
  /\ At(p, "undoWait")
  /\ TransportClosed(p)
  /\ pcState' = "nil"
  /\ Goto(p, "dial")
  /\ UNCHANGED <<cmVars, jobVars, closeVars, sigVars, iceCbs, appVars, faults>>

\* The application calls Room.Join again after a join that failed: it closes
\* the old signal transport and makes a new one (configureSignalling).  What a
\* stopped reader does to the old one nobody sees, so it does it before.
JoinAgain ==
  /\ At(App, "failed")
  /\ \A r \in Readers : readers[r] = "none"
  /\ Disturb
  /\ conn' = "nil"
  /\ Goto(App, "plan")
  /\ UNCHANGED <<cmVars, jobVars, closeVars, loopVars, closeCbs, pcVars, appVars>>

-----------------------------------------------------------------------------
(* The signal reader.                                                      *)

\* The read loop is between two messages of a live websocket.
Reading == started /\ Readable /\ At(Reader, "idle")

ReaderLeaveRecover(fullReconnect, settings) ==
  /\ Reading
  /\ Disturb
  /\ conn' = AfterRead
  /\ HandleDisconnect(fullReconnect, settings, pc)
  /\ UNCHANGED <<jobVars, closeVars, loopVars, closeCbs, pcVars, appVars>>

ReaderLeaveDisconnect ==
  /\ Reading
  /\ Disturb
  /\ conn' = AfterRead
  /\ CloseEngine(Reader)
  /\ Goto(Reader, "report")
  /\ UNCHANGED <<cmVars, jobVars, closer, loopVars, closeCbs, pcVars, appVars>>

ReaderReport ==
  /\ At(Reader, "report")
  /\ OnDisconnected("SERVER")
  /\ Goto(Reader, "idle")
  /\ UNCHANGED <<cmVars, jobVars, closeVars, sigVars, pcVars, faults>>

\* Answers, offers and candidates let ICE proceed; ignored once closed.
Negotiate ==
  /\ Reading
  /\ ~closed
  /\ pcState \in {"new", "failed"}
  /\ pcState' = "negotiated"
  /\ conn' = AfterRead
  /\ UNCHANGED <<cmVars, pc, jobVars, closeVars, loopVars, closeCbs, iceCbs, appVars, faults>>

\* The read failed: from here on Close and Start take the reader for ended.
ReaderStops ==
  /\ ~Readable /\ At(Reader, "idle")
  /\ \E r \in Readers : /\ readers[r] = "running"
                        /\ readers' = [readers EXCEPT ![r] = "stopped"]
  /\ UNCHANGED <<cmVars, pc, jobVars, closeVars, conn, awaited, closeCbs, pcVars, appVars,
                 faults>>

\* Somebody may have loaded the pointer, and waits for a message.
BeingRead == (\E p \in Joiners : At(p, "first")) \/ (started /\ At(Reader, "idle"))

\* Then it clears the pointer, to whichever websocket it leads by now, and
\* releases its waiters; the report of the close follows.
ReaderForgets(r) ==
  /\ readers[r] = "stopped"
  /\ closeCbs < MaxLateCloses
  /\ readers' = [readers EXCEPT ![r] = "none"]
  /\ awaited' = [awaited EXCEPT ![r] = {}]
  /\ \/ conn # "held" /\ conn' = "nil"
     \/ Readable /\ BeingRead /\ conn' = "held"
  /\ closeCbs' = closeCbs + 1
  /\ UNCHANGED <<cmVars, pc, jobVars, closeVars, pcVars, appVars, faults>>

OnTransportClose ==
  /\ closeCbs > 0
  /\ closeCbs' = closeCbs - 1
  /\ HandleDisconnect(FALSE, NoSettings, pc)
  /\ UNCHANGED <<jobVars, closeVars, conn, loopVars, pcVars, appVars, faults>>

-----------------------------------------------------------------------------
(* Environment, and closing.                                               *)

ConnBreaks ==
  /\ conn = "open"
  /\ Disturb
  /\ conn' = "broken"
  /\ UNCHANGED <<cmVars, pc, jobVars, closeVars, loopVars, closeCbs, pcVars, appVars>>

\* The server gives up a websocket on which the client no longer writes.
HeldBreaks ==
  /\ conn = "held"
  /\ conn' = "nil"
  /\ UNCHANGED <<cmVars, pc, jobVars, closeVars, loopVars, closeCbs, pcVars, appVars, faults>>

PCConnects ==
  /\ pcState = "negotiated"
  /\ pcState' = "connected"
  /\ UNCHANGED <<cmVars, pc, jobVars, closeVars, sigVars, iceCbs, appVars, faults>>

\* Either transport may fail; only the primary one decides IsConnected.
PCFails ==
  /\ pcState \in {"negotiated", "connected"}
  /\ Disturb
  /\ pcState' \in {pcState, "failed"}
  /\ iceCbs' = iceCbs + 1
  /\ UNCHANGED <<cmVars, pc, jobVars, closeVars, sigVars, appVars>>

\* The callback looks at the transport the engine has by now, not at its own.
OnICEFailed ==
  /\ iceCbs > 0
  /\ iceCbs' = iceCbs - 1
  /\ IF pcState = "nil" THEN UNCHANGED <<cmVars, pc>>
                        ELSE HandleDisconnect(FALSE, NoSettings, pc)
  /\ UNCHANGED <<jobVars, closeVars, sigVars, pcState, appVars, faults>>

Disconnect ==
  /\ At(User, "idle")
  /\ CloseEngine(User)
  /\ Goto(User, "done")
  /\ UNCHANGED <<cmVars, jobVars, closer, sigVars, pcVars, appVars, faults>>

SetClosed ==
  /\ closing # Nobody
  /\ setClosed
  /\ closing' = Nobody
  /\ closer' = "waiting"
  /\ UNCHANGED <<pc, jobVars, closed, sigVars, pcVars, appVars, faults>>

Teardown_NoWait ==
  /\ closer = "waiting"
  /\ pcState' = IF pcState = "nil" THEN "nil" ELSE "closed"
  /\ CloseTransport(Closer)
  /\ closer' = "closing"
  /\ UNCHANGED <<cmVars, pc, jobVars, closed, closing, iceCbs, appVars, faults>>

\* The goroutine Close starts: once no worker runs, close what is left.
Teardown ==
  /\ closer = "waiting"
  /\ ~recovering
  /\ pcState' = IF pcState = "nil" THEN "nil" ELSE "closed"
  /\ CloseTransport(Closer)
  /\ closer' = "closing"
  /\ UNCHANGED <<cmVars, pc, jobVars, closed, closing, iceCbs, appVars, faults>>

TeardownWait ==
  /\ closer = "closing"
  /\ TransportClosed(Closer)
  /\ closer' = "done"
  /\ UNCHANGED <<cmVars, pc, jobVars, closed, closing, sigVars, pcVars, appVars, faults>>

-----------------------------------------------------------------------------
LeaveArgs == LeaveSettings \cup {NoSettings}

\* A worker's loop and the steps of an attempt that are the client's own.
WorkerStep(w) ==
  \/ Loop(w) \/ BranchRestart(w) \/ BranchResume(w) \/ Cleanup(w) \/ CleanupWait(w)
  \/ Escalate(w) \/ Continue(w) \/ Stop(w) \/ GiveUp(w) \/ CloseUp(w) \/ Notify(w)

JoinStep(p) ==
  \/ Plan(p) \/ Exhausted(p) \/ DialFails(p) \/ DialSucceeds(p) \/ Swap(p)
  \/ FirstLeaveReport(p)
  \/ WaitConnected(p) \/ WaitFails(p) \/ SettleJoin(p) \/ SettleResume(p)
  \/ Undo(p) \/ UndoWait(p)

\* What the server's first message, or its absence, makes of an attempt.
FirstMessage(p) ==
  \/ FirstFails(p) \/ FirstJoinResponse(p) \/ FirstOther(p) \/ FirstReconnectResponse(p)

FirstLeave(p) ==
  \/ FirstLeaveDisconnect(p)
  \/ \E full \in BOOLEAN, settings \in LeaveArgs : FirstLeaveRecover(p, full, settings)

ReaderStep ==
  \/ ReaderReport \/ ReaderStops \/ OnTransportClose
  \/ \E r \in Readers : ReaderForgets(r)

ReaderLeave ==
  \/ ReaderLeaveDisconnect
  \/ \E full \in BOOLEAN, settings \in LeaveArgs : ReaderLeaveRecover(full, settings)

CloseStep == SetClosed \/ Teardown \/ TeardownWait

Environment ==
  \/ Negotiate \/ ConnBreaks \/ HeldBreaks \/ PCConnects \/ PCFails \/ OnICEFailed
  \/ Disconnect \/ JoinAgain \/ ContextDone \/ ReaderLeave

Next ==
  \/ \E w \in Workers : WorkerStep(w)
  \/ \E p \in Joiners : JoinStep(p) \/ FirstMessage(p) \/ FirstLeave(p)
  \/ ReaderStep \/ CloseStep \/ Environment

Spec == Init /\ [][Next]_vars

(* Goroutines run, callbacks are delivered, timers fire: the scheduler and  *)
(* waitUntilConnected's timeout give each of these weak fairness.  Nothing  *)
(* is assumed of the server: an open websocket may stay silent for ever.    *)
Scheduling ==
  /\ \A w \in Workers : WF_vars(WorkerStep(w))
  /\ \A p \in Joiners : WF_vars(JoinStep(p)) /\ WF_vars(~Readable /\ FirstFails(p))
  /\ WF_vars(ReaderReport) /\ WF_vars(ReaderStops) /\ WF_vars(OnTransportClose)
  /\ \A r \in Readers : WF_vars(ReaderForgets(r))
  /\ WF_vars(OnICEFailed)
  /\ WF_vars(CloseStep)

FairSpec == Spec /\ Scheduling

\* In addition, the server answers every websocket it accepts, or drops it,
\* and drops one that it no longer hears of.
ResponsiveSpec ==
  FairSpec /\ WF_vars(HeldBreaks) /\ \A p \in Joiners : WF_vars(FirstMessage(p))

-----------------------------------------------------------------------------
(* Safety.                                                                 *)

Active(w) == pc[w] \in ActiveLabels
HasGivenUp(w) == pc[w] \in GaveUpLabels
NoWorker == \A w \in Workers : ~Active(w) /\ ~HasGivenUp(w)

\* The slot of the connection manager is held exactly while a recovery worker
\* runs, and there is never a second one: two workers would tear down each
\* other's websocket and peer connections (requestRecovery, 989-993).
WorkerSlot ==
  /\ recovering <=> \E w \in Workers : Active(w)
  /\ \A v, w \in Workers : Active(v) /\ Active(w) => v = w

\* A connection that needs recovery is never left without a worker: either one
\* runs, or the one that gave up is about to report it and close the engine.
NoOrphanedRecovery ==
  needsRecovery(state) /\ ~recovering =>
    closed \/ \E w \in Workers : HasGivenUp(w)

\* The initial join and a recovery never run in parallel, whatever leave
\* requests or transport failures arrive during the join (276-289).
JoinExclusive ==
  pc[App] # "joined" => ~recovering /\ state \in {"INITIAL", "CLOSED"}

\* Region settings of a leave request do not outlive the recovery they were
\* sent for (195-200).
SettingsFresh == regionSettings # NoSettings => needsRecovery(state)

\* Once the engine is torn down and no join is under way, no reader runs, the
\* transport's websocket is not open, and no live peer connection is left
\* behind.  A websocket the transport lost before is not its any more: that
\* there may be one is what WebsocketKept is about.
TornDown ==
  closer = "done" /\ pc[App] \in {"joined", "failed"} =>
    ~started /\ conn # "open" /\ pcState \in {"nil", "closed"}

\* After a recovery that succeeded the application has been told so.
ViewFollows ==
  state = "CONNECTED" /\ ~closed /\ NoWorker =>
    view \in {"none", "reconnected"}

\* After Close nothing is left of the connection but what the transport itself lost, and after a
\* recovery that succeeded the application has been told so (engine.go Close; room.go OnResumed,
\* OnRestarted).
OutcomeSettled == TornDown /\ ViewFollows

\* A resume never discards a full reconnect that was requested while it ran:
\* only a join leads from RECONNECTING to CONNECTED (205-208).
ReconnectHonoured ==
  [][state = "RECONNECTING" /\ state' = "CONNECTED" =>
       \E w \in Workers : pc[w] = "settle" /\ mode[w] = "join"]_vars

\* Room.ConnectionState.
ConnectionState ==
  CASE state = "RESUMING"     -> "signalReconnecting"
    [] state = "RECONNECTING" -> "reconnecting"
    [] state = "CONNECTED"    -> "connected"
    [] OTHER                  -> "disconnected"

Lifecycle == INSTANCE ConnectionLifecycle
               WITH connectionState <- ConnectionState, ended <- (state = "CLOSED")

\* The engine implements the life cycle the room reports: a lost connection is
\* always somebody's responsibility, only they restore it, a full reconnect is
\* never downgraded to a resume, and a closed engine stays closed.
ImplementsLifecycle == Lifecycle!Spec

-----------------------------------------------------------------------------
(* Liveness.                                                               *)

\* A recovery ends: the connection is back, or the application is told that
\* it is not, or the engine is closed.
RecoveryEnds ==
  needsRecovery(state) ~> state = "CONNECTED" \/ view = "disconnected" \/ closed

\* Closing the engine ends the worker and the goroutine that waits for it.
CloseCompletes == closed ~> closer = "done"

-----------------------------------------------------------------------------
(* What comments of the code say, and the code does not do.                *)

\* "a new disconnect may have arrived while settling; if so, keep the worker
\* running" (engine.go 1006): an engine whose recovery succeeded, and on which
\* nobody works any more, has a signal connection.
DisconnectNotLost ==
  state = "CONNECTED" /\ view = "reconnected" /\ ~closed /\ closeCbs = 0 /\ NoWorker =>
    started

\* "DisconnectReason returns the raw protocol disconnect reason reported by
\* the server" (room.go 1106): once reported it stays, at least while the application does
\* not disconnect on its own.
ServerReasonKept ==
  [][disconnectReason = "SERVER" /\ pc[User] = "idle" =>
       disconnectReason' = "SERVER"]_vars

\* "release the worker slot so a later disconnect can re-arm recovery, then
\* report the disconnect" (engine.go 1050): a worker that gave up does not end
\* the connection a later worker brought back.
RearmedRecoveryKept ==
  [][state = "CONNECTED" /\ ~closed =>
       \A w \in Workers : pc[w] = "closeUp" => ~(closed' /\ closing' = w)]_vars

\* "close previous conn, if any" (signaltransport_websocket.go 232): the transport gives up an
\* open websocket only by closing it.
WebsocketKept == [][conn = "open" => conn' \in {"open", "broken"}]_vars

\* "WithTimeout is already bounded by attempt.ctx, so the caller's deadline
\* (if any) is still honored" (engine.go 309): an attempt does not wait for
\* ever for the first message.
DeadlineHonoured == pc[App] = "first" ~> pc[App] # "first"

=============================================================================
