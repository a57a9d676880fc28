----------------------------------- MODULE Rpc -----------------------------------
(***************************************************************************)
(* Remote procedure calls (localparticipant.go, PerformRpc and the         *)
(* handlers around it; room.go, OnRpcRequest; engine.go, handleDataPacket).*)
(*                                                                         *)
(* A call starts a goroutine that publishes the request, arms two timers   *)
(* and stores two handlers; the caller waits on a result and an error      *)
(* channel, each with room for one value.  The reader of the reliable data *)
(* channel handles acks and responses, and runs the application's handlers *)
(* of incoming requests; the signal reader handles the remote participant  *)
(* leaving.  All calls go to one participant, the remote.                  *)
(***************************************************************************)
EXTENDS Naturals, Sequences

CONSTANTS
  Calls,     \* PerformRpc calls
  Requests,  \* requests the remote makes of this participant
  CallOf,    \* the call a request's handler makes, or None
  Handlers,  \* functions the application may register for a method
  ResponseTimeout, \* PerformRpcParams.ResponseTimeout, in seconds
  None       \* none of the above

Errors == {"rejected", "responseTimeout", "connectionTimeout", "disconnected", "remoteError"}
Timeouts == {"responseTimeout", "connectionTimeout"}
Answers == {"payload", "remoteError"}

ASSUME RpcAssumption ==
  /\ CallOf \in [Requests -> Calls \cup {None}]
  /\ None \notin Calls \cup Requests \cup Handlers \cup Errors \cup Answers
  /\ ResponseTimeout \in Nat

VARIABLES
  caller, outcome,   \* where each caller is, and what PerformRpc returned
  task,              \* how far the goroutine of each call is
  ackTimer, responseTimer,
  rpcPendingAcks, rpcPendingResponses,
  resultChan, errorChan,
  remote,            \* what the remote did about each call
  inbox,             \* packets on the reliable data channel
  dataReader,        \* what its reader is doing
  signalReader,      \* what the signal reader is doing
  request,           \* how far each incoming request is
  rpcHandlers,       \* the function registered for the method
  left,              \* the remote left the room
  cleaned,           \* Room.cleanup ran
  missedAcks,        \* calls whose ack found no handler, though in time
  answerInTime       \* calls whose answer was resolved before a timer fired

callVars    == <<caller, outcome, task>>
timerVars   == <<ackTimer, responseTimer>>
pendingVars == <<rpcPendingAcks, rpcPendingResponses>>
chanVars    == <<resultChan, errorChan>>
remoteVars  == <<remote, left>>
handlerVars == <<request, rpcHandlers>>
ghostVars   == <<missedAcks, answerInTime>>
localVars   == <<callVars, timerVars, pendingVars, chanVars>>
otherVars   == <<handlerVars, cleaned, ghostVars>>
vars == <<localVars, remoteVars, inbox, dataReader, signalReader, otherVars>>

Idle == [at |-> "idle"]
At(label, c, what) == [at |-> label, call |-> c, what |-> what]
DataReaderStates ==
  {Idle} \cup [at : {"loaded", "sending", "sent"}, call : Calls, what : Answers]
         \cup [at : {"acked"}, call : Calls]
         \cup [at : {"handler", "reply"}, request : Requests]
SignalReaderStates ==
  {Idle} \cup [at : {"range"}, due : SUBSET Calls]
         \cup [at : {"loaded", "sending"}, due : SUBSET Calls, call : Calls]

Packets ==
  [type : {"ack"}, call : Calls] \cup [type : {"request"}, request : Requests]
    \cup [type : {"response"}, call : Calls, what : Answers]

TypeOK ==
  /\ caller \in [Calls -> {"idle", "waiting", "returned"}]
  /\ outcome \in [Calls -> Errors \cup {"payload", None}]
  /\ \A c \in Calls : caller[c] = "returned" <=> outcome[c] # None
  /\ task \in [Calls -> {"idle", "start", "arm", "storeAck", "storeResponse", "done"}]
  /\ ackTimer \in [Calls -> {"off", "armed", "fired", "over"}]
  /\ responseTimer \in [Calls -> {"off", "armed", "fired", "over"}]
  /\ rpcPendingAcks \subseteq Calls /\ rpcPendingResponses \subseteq Calls
  /\ resultChan \in [Calls -> {"payload", None}]
  /\ errorChan \in [Calls -> Errors \cup {None}]
  /\ remote \in [Calls -> {"none", "asked", "acked", "answered"}]
  /\ inbox \in Seq(Packets)
  /\ dataReader \in DataReaderStates
  /\ signalReader \in SignalReaderStates
  /\ request \in [Requests -> {"none", "sent", "answered"}]
  /\ rpcHandlers \in Handlers \cup {None}
  /\ left \in BOOLEAN /\ cleaned \in BOOLEAN
  /\ missedAcks \subseteq Calls /\ answerInTime \subseteq Calls

Stop(timer, c) == IF timer[c] = "armed" THEN [timer EXCEPT ![c] = "over"] ELSE timer

----------------------------------------------------------------------------
(* PerformRpc *)

ByHandler(c) == \E r \in Requests : CallOf[r] = c
InHandler(c) ==
  dataReader.at = "handler" /\ CallOf[dataReader.request] = c

PerformRpc(c) ==
  /\ caller[c] = "idle" /\ (ByHandler(c) => InHandler(c))
  /\ caller' = [caller EXCEPT ![c] = "waiting"]
  /\ task' = [task EXCEPT ![c] = "start"]
  /\ UNCHANGED <<outcome, timerVars, pendingVars, chanVars, remoteVars, inbox, dataReader,
                 signalReader, otherVars>>

(* The payload is too large, or the server too old. *)
Reject(c) ==
  /\ task[c] = "start"
  /\ task' = [task EXCEPT ![c] = "done"]
  /\ errorChan' = [errorChan EXCEPT ![c] = "rejected"]
  /\ UNCHANGED <<caller, outcome, timerVars, pendingVars, resultChan, remoteVars, inbox,
                 dataReader, signalReader, otherVars>>

(* publishRpcRequest; its error is ignored. *)
Publish(c) ==
  /\ task[c] = "start"
  /\ task' = [task EXCEPT ![c] = "arm"]
  /\ \/ ~left /\ remote' = [remote EXCEPT ![c] = "asked"]
     \/ UNCHANGED remote
  /\ UNCHANGED <<caller, outcome, timerVars, pendingVars, chanVars, left, inbox,
                 dataReader, signalReader, otherVars>>

Arm(c) ==
  /\ task[c] = "arm"
  /\ task' = [task EXCEPT ![c] = "storeAck"]
  /\ responseTimer' = [responseTimer EXCEPT ![c] = "armed"]
  /\ ackTimer' = [ackTimer EXCEPT ![c] = "armed"]
  /\ UNCHANGED <<caller, outcome, pendingVars, chanVars, remoteVars, inbox, dataReader,
                 signalReader, otherVars>>

StoreAck(c) ==
  /\ task[c] = "storeAck"
  /\ task' = [task EXCEPT ![c] = "storeResponse"]
  /\ rpcPendingAcks' = rpcPendingAcks \cup {c}
  /\ UNCHANGED <<caller, outcome, timerVars, rpcPendingResponses, chanVars, remoteVars,
                 inbox, dataReader, signalReader, otherVars>>

StoreResponse(c) ==
  /\ task[c] = "storeResponse"
  /\ task' = [task EXCEPT ![c] = "done"]
  /\ rpcPendingResponses' = rpcPendingResponses \cup {c}
  /\ UNCHANGED <<caller, outcome, timerVars, rpcPendingAcks, chanVars, remoteVars, inbox,
                 dataReader, signalReader, otherVars>>

MaxRoundTripLatency == 7

(* The timers run for seconds: the goroutine has stored its handlers, and  *)
(* of two running timers the shorter fires first.                          *)
AckTimerFires(c) ==
  /\ ackTimer[c] = "armed" /\ task[c] = "done"
  /\ responseTimer[c] = "armed" => MaxRoundTripLatency <= ResponseTimeout
  /\ ackTimer' = [ackTimer EXCEPT ![c] = "fired"]
  /\ UNCHANGED <<callVars, responseTimer, pendingVars, chanVars, remoteVars, inbox,
                 dataReader, signalReader, otherVars>>

ResponseTimerFires(c) ==
  /\ responseTimer[c] = "armed" /\ task[c] = "done"
  /\ ackTimer[c] = "armed" => ResponseTimeout <= MaxRoundTripLatency
  /\ responseTimer' = [responseTimer EXCEPT ![c] = "fired"]
  /\ UNCHANGED <<callVars, ackTimer, pendingVars, chanVars, remoteVars, inbox, dataReader,
                 signalReader, otherVars>>

(* A timer's send gives way when the channel is full. *)
TrySend(c, err) ==
  errorChan' = IF errorChan[c] = None THEN [errorChan EXCEPT ![c] = err] ELSE errorChan

ResponseTimedOut(c) ==
  /\ responseTimer[c] = "fired"
  /\ responseTimer' = [responseTimer EXCEPT ![c] = "over"]
  /\ rpcPendingResponses' = rpcPendingResponses \ {c}
  /\ TrySend(c, "responseTimeout")
  /\ UNCHANGED <<callVars, ackTimer, rpcPendingAcks, resultChan, remoteVars, inbox,
                 dataReader, signalReader, otherVars>>

ConnectionTimedOut_KeepsAck(c) ==
  /\ ackTimer[c] = "fired"
  /\ ackTimer' = [ackTimer EXCEPT ![c] = "over"]
  /\ rpcPendingResponses' = rpcPendingResponses \ {c}
  /\ responseTimer' = Stop(responseTimer, c)
  /\ TrySend(c, "connectionTimeout")
  /\ UNCHANGED <<callVars, rpcPendingAcks, resultChan, remoteVars, inbox, dataReader,
                 signalReader, otherVars>>

ConnectionTimedOut_Silent(c) ==
  /\ ackTimer[c] = "fired"
  /\ ackTimer' = [ackTimer EXCEPT ![c] = "over"]
  /\ rpcPendingAcks' = rpcPendingAcks \ {c}
  /\ rpcPendingResponses' = rpcPendingResponses \ {c}
  /\ responseTimer' = Stop(responseTimer, c)
  /\ UNCHANGED <<callVars, chanVars, remoteVars, inbox, dataReader, signalReader,
                 otherVars>>

ConnectionTimedOut(c) ==
  /\ ackTimer[c] = "fired"
  /\ ackTimer' = [ackTimer EXCEPT ![c] = "over"]
  /\ rpcPendingAcks' = rpcPendingAcks \ {c}
  /\ rpcPendingResponses' = rpcPendingResponses \ {c}
  /\ responseTimer' = Stop(responseTimer, c)
  /\ TrySend(c, "connectionTimeout")
  /\ UNCHANGED <<callVars, resultChan, remoteVars, inbox, dataReader, signalReader,
                 otherVars>>

Return_Polls(c) ==
  /\ caller[c] = "waiting"
  /\ outcome' = [outcome EXCEPT ![c] = resultChan[c]]
  /\ resultChan' = [resultChan EXCEPT ![c] = None]
  /\ caller' = [caller EXCEPT ![c] = "returned"]
  /\ UNCHANGED <<task, timerVars, pendingVars, errorChan, remoteVars, inbox, dataReader,
                 signalReader, otherVars>>

Return(c) ==
  /\ caller[c] = "waiting"
  /\ \/ /\ resultChan[c] # None
        /\ outcome' = [outcome EXCEPT ![c] = resultChan[c]]
        /\ resultChan' = [resultChan EXCEPT ![c] = None]
        /\ UNCHANGED errorChan
     \/ /\ errorChan[c] # None
        /\ outcome' = [outcome EXCEPT ![c] = errorChan[c]]
        /\ errorChan' = [errorChan EXCEPT ![c] = None]
        /\ UNCHANGED resultChan
  /\ caller' = [caller EXCEPT ![c] = "returned"]
  /\ UNCHANGED <<task, timerVars, pendingVars, remoteVars, inbox, dataReader,
                 signalReader, otherVars>>

----------------------------------------------------------------------------
(* The handler stored in rpcPendingResponses: stop the timers, then send.  *)

StopTimers_ResponseOnly(c) ==
  /\ responseTimer' = Stop(responseTimer, c)
  /\ UNCHANGED <<rpcPendingAcks, ackTimer>>

StopTimers(c) ==
  /\ responseTimer' = Stop(responseTimer, c)
  /\ IF c \in rpcPendingAcks
     THEN rpcPendingAcks' = rpcPendingAcks \ {c} /\ ackTimer' = Stop(ackTimer, c)
     ELSE UNCHANGED <<rpcPendingAcks, ackTimer>>

Send(c, what) ==
  IF what = "payload"
  THEN /\ resultChan[c] = None
       /\ resultChan' = [resultChan EXCEPT ![c] = what]
       /\ UNCHANGED errorChan
  ELSE /\ errorChan[c] = None
       /\ errorChan' = [errorChan EXCEPT ![c] = what]
       /\ UNCHANGED resultChan

----------------------------------------------------------------------------
(* The reader of the reliable data channel *)

Packet == Head(inbox)
Take(type) ==
  /\ dataReader = Idle /\ inbox # <<>> /\ Packet.type = type
  /\ inbox' = Tail(inbox)

(* HandleIncomingRpcAck: an ack that finds no handler is only logged. *)
HandleIncomingRpcAck ==
  /\ Take("ack")
  /\ LET c == Packet.call IN
     /\ dataReader' = IF c \in rpcPendingAcks THEN [at |-> "acked", call |-> c] ELSE Idle
     /\ missedAcks' = IF c \notin rpcPendingAcks /\ ackTimer[c] \in {"off", "armed"}
                      THEN missedAcks \cup {c} ELSE missedAcks
  /\ UNCHANGED <<localVars, remoteVars, signalReader, handlerVars, cleaned, answerInTime>>

ResolveAck ==
  /\ dataReader.at = "acked"
  /\ LET c == dataReader.call IN
     /\ ackTimer' = Stop(ackTimer, c)
     /\ rpcPendingAcks' = rpcPendingAcks \ {c}
  /\ dataReader' = Idle
  /\ UNCHANGED <<callVars, responseTimer, rpcPendingResponses, chanVars, remoteVars,
                 inbox, signalReader, otherVars>>

(* HandleIncomingRpcResponse: Load, resolve, Delete. *)
HandleIncomingRpcResponse ==
  /\ Take("response")
  /\ LET c == Packet.call IN
     dataReader' = IF c \in rpcPendingResponses THEN At("loaded", c, Packet.what) ELSE Idle
  /\ UNCHANGED <<localVars, remoteVars, signalReader, otherVars>>

ResolveResponse ==
  /\ dataReader.at = "loaded"
  /\ LET c == dataReader.call IN
     /\ StopTimers(c)
     /\ answerInTime' =
          IF /\ responseTimer[c] = "armed"
             /\ ackTimer[c] = "over" \/ (ackTimer[c] = "armed" /\ c \in rpcPendingAcks)
          THEN answerInTime \cup {c} ELSE answerInTime
  /\ dataReader' = [dataReader EXCEPT !.at = "sending"]
  /\ UNCHANGED <<callVars, rpcPendingResponses, chanVars, remoteVars, inbox, signalReader,
                 handlerVars, cleaned, missedAcks>>

SendResponse ==
  /\ dataReader.at = "sending"
  /\ Send(dataReader.call, dataReader.what)
  /\ dataReader' = [dataReader EXCEPT !.at = "sent"]
  /\ UNCHANGED <<callVars, timerVars, pendingVars, remoteVars, inbox, signalReader,
                 otherVars>>

ForgetResponse ==
  /\ dataReader.at = "sent"
  /\ rpcPendingResponses' = rpcPendingResponses \ {dataReader.call}
  /\ dataReader' = Idle
  /\ UNCHANGED <<callVars, timerVars, rpcPendingAcks, chanVars, remoteVars, inbox,
                 signalReader, otherVars>>

(* OnRpcRequest acks, then runs the registered handler on this goroutine.  *)
OnRpcRequest ==
  /\ Take("request")
  /\ dataReader' = [at |-> IF rpcHandlers = None THEN "reply" ELSE "handler",
                    request |-> Packet.request]
  /\ UNCHANGED <<localVars, remoteVars, signalReader, otherVars>>

HandlerReturns ==
  /\ dataReader.at = "handler"
  /\ LET c == CallOf[dataReader.request] IN c # None => caller[c] = "returned"
  /\ dataReader' = [dataReader EXCEPT !.at = "reply"]
  /\ UNCHANGED <<localVars, remoteVars, inbox, signalReader, otherVars>>

Reply ==
  /\ dataReader.at = "reply"
  /\ request' = [request EXCEPT ![dataReader.request] = "answered"]
  /\ dataReader' = Idle
  /\ UNCHANGED <<localVars, remoteVars, inbox, signalReader, rpcHandlers,
                 cleaned, ghostVars>>

----------------------------------------------------------------------------
(* The signal reader: handleParticipantDisconnected *)

ParticipantDisconnected ==
  /\ signalReader = Idle /\ left
  /\ rpcPendingAcks' = {}
  /\ signalReader' = [at |-> "range", due |-> rpcPendingResponses]
  /\ UNCHANGED <<callVars, timerVars, rpcPendingResponses, chanVars, remoteVars, inbox,
                 dataReader, otherVars>>

(* LoadAndDelete of one handler after the other: those that were there at  *)
(* the start (due), and perhaps those stored meanwhile.                    *)
LoadAndDelete(c) ==
  /\ signalReader.at = "range" /\ c \in rpcPendingResponses
  /\ rpcPendingResponses' = rpcPendingResponses \ {c}
  /\ signalReader' = [at |-> "loaded", due |-> signalReader.due, call |-> c]
  /\ UNCHANGED <<callVars, timerVars, rpcPendingAcks, chanVars, remoteVars, inbox,
                 dataReader, otherVars>>

ResolveDisconnected ==
  /\ signalReader.at = "loaded"
  /\ StopTimers(signalReader.call)
  /\ signalReader' = [signalReader EXCEPT !.at = "sending"]
  /\ UNCHANGED <<callVars, rpcPendingResponses, chanVars, remoteVars, inbox, dataReader,
                 otherVars>>

SendDisconnected ==
  /\ signalReader.at = "sending"
  /\ Send(signalReader.call, "disconnected")
  /\ signalReader' = [at |-> "range", due |-> signalReader.due]
  /\ UNCHANGED <<callVars, timerVars, pendingVars, remoteVars, inbox, dataReader,
                 otherVars>>

RangeEnds ==
  /\ signalReader.at = "range" /\ signalReader.due \cap rpcPendingResponses = {}
  /\ signalReader' = Idle
  /\ left' = FALSE
  /\ UNCHANGED <<localVars, remote, inbox, dataReader, otherVars>>

----------------------------------------------------------------------------
(* The application registers and unregisters its handler; Disconnect       *)
(* clears everything (Room.cleanup, LocalParticipant.cleanup).             *)

RegisterRpcMethod(h) ==
  /\ rpcHandlers' = IF rpcHandlers = None THEN h ELSE rpcHandlers
  /\ UNCHANGED <<localVars, remoteVars, inbox, dataReader, signalReader, request, cleaned,
                 ghostVars>>

UnregisterRpcMethod ==
  /\ rpcHandlers' = None
  /\ UNCHANGED <<localVars, remoteVars, inbox, dataReader, signalReader, request, cleaned,
                 ghostVars>>

Cleanup ==
  /\ ~cleaned
  /\ cleaned' = TRUE
  /\ rpcHandlers' = None
  /\ rpcPendingAcks' = {} /\ rpcPendingResponses' = {}
  /\ UNCHANGED <<callVars, timerVars, chanVars, remoteVars, inbox, dataReader,
                 signalReader, request, ghostVars>>

----------------------------------------------------------------------------
(* The remote participant: it acks a request, then answers; it may leave   *)
(* and come back, and then knows nothing of the requests it had.  That it  *)
(* leaves while no call is under way changes nothing and is left out.      *)

RemoteAcks(c) ==
  /\ remote[c] = "asked" /\ ~left
  /\ remote' = [remote EXCEPT ![c] = "acked"]
  /\ inbox' = Append(inbox, [type |-> "ack", call |-> c])
  /\ UNCHANGED <<localVars, left, dataReader, signalReader, otherVars>>

RemoteAnswers(c) ==
  /\ remote[c] = "acked" /\ ~left
  /\ remote' = [remote EXCEPT ![c] = "answered"]
  /\ \E what \in Answers :
       inbox' = Append(inbox, [type |-> "response", call |-> c, what |-> what])
  /\ UNCHANGED <<localVars, left, dataReader, signalReader, otherVars>>

RemoteRequests(r) ==
  /\ request[r] = "none" /\ ~left
  /\ request' = [request EXCEPT ![r] = "sent"]
  /\ inbox' = Append(inbox, [type |-> "request", request |-> r])
  /\ UNCHANGED <<localVars, remoteVars, dataReader, signalReader, rpcHandlers,
                 cleaned, ghostVars>>

RemoteLeaves ==
  /\ ~left
  /\ \E c \in Calls :
       task[c] \notin {"idle", "done"} \/ c \in rpcPendingAcks \cup rpcPendingResponses
  /\ left' = TRUE
  /\ remote' = [c \in Calls |-> IF remote[c] = "none" THEN "none" ELSE "answered"]
  /\ UNCHANGED <<localVars, inbox, dataReader, signalReader, otherVars>>

----------------------------------------------------------------------------

Init ==
  /\ caller = [c \in Calls |-> "idle"] /\ outcome = [c \in Calls |-> None]
  /\ task = [c \in Calls |-> "idle"]
  /\ ackTimer = [c \in Calls |-> "off"] /\ responseTimer = [c \in Calls |-> "off"]
  /\ rpcPendingAcks = {} /\ rpcPendingResponses = {}
  /\ resultChan = [c \in Calls |-> None] /\ errorChan = [c \in Calls |-> None]
  /\ remote = [c \in Calls |-> "none"]
  /\ inbox = <<>> /\ dataReader = Idle /\ signalReader = Idle
  /\ request = [r \in Requests |-> "none"] /\ rpcHandlers = None
  /\ left = FALSE /\ cleaned = FALSE
  /\ missedAcks = {} /\ answerInTime = {}

Task(c) == Reject(c) \/ Publish(c) \/ Arm(c) \/ StoreAck(c) \/ StoreResponse(c)
Timers(c) == \/ AckTimerFires(c) \/ ResponseTimerFires(c)
             \/ ResponseTimedOut(c) \/ ConnectionTimedOut(c)
DataReader == \/ HandleIncomingRpcAck \/ ResolveAck
              \/ HandleIncomingRpcResponse \/ ResolveResponse \/ SendResponse \/ ForgetResponse
              \/ OnRpcRequest \/ HandlerReturns \/ Reply
SignalReader == \/ ParticipantDisconnected \/ (\E c \in Calls : LoadAndDelete(c))
                \/ ResolveDisconnected \/ SendDisconnected \/ RangeEnds
Application == (\E h \in Handlers : RegisterRpcMethod(h)) \/ UnregisterRpcMethod \/ Cleanup
Remote == \/ \E c \in Calls : RemoteAcks(c) \/ RemoteAnswers(c)
          \/ \E r \in Requests : RemoteRequests(r)
          \/ RemoteLeaves

Next ==
  \/ \E c \in Calls : PerformRpc(c) \/ Task(c) \/ Timers(c) \/ Return(c)
  \/ DataReader \/ SignalReader \/ Application \/ Remote

Spec == Init /\ [][Next]_vars

(* The goroutine of a call and its timers run on, and so does its caller.  *)
(* A reader that took a handler from the maps gets to its send.  Nothing   *)
(* else is asked of the readers, the remote or the application.            *)
Fairness ==
  /\ \A c \in Calls : WF_vars(Task(c)) /\ WF_vars(Timers(c)) /\ WF_vars(Return(c))
  /\ WF_vars(ResolveResponse) /\ WF_vars(SendResponse)
  /\ WF_vars(ResolveDisconnected) /\ WF_vars(SendDisconnected)

FairSpec == Spec /\ Fairness

----------------------------------------------------------------------------
(* Properties *)

HeldBy(reader, c) == reader.at \in {"loaded", "sending"} /\ reader.call = c

(* Whoever waits in PerformRpc will hear: a timer runs, a reader holds the *)
(* call's handler and will send, or a value is in a channel.  PerformRpc   *)
(* itself has no deadline (localparticipant.go:964-969).                   *)
SomebodyWillAnswer ==
  \A c \in Calls : caller[c] = "waiting" =>
    \/ task[c] # "done"
    \/ ackTimer[c] \in {"armed", "fired"} \/ responseTimer[c] \in {"armed", "fired"}
    \/ HeldBy(dataReader, c) \/ HeldBy(signalReader, c)
    \/ resultChan[c] # None \/ errorChan[c] # None

(* Once a call is over, its timers too, and no reader is at it, nothing of *)
(* it stays in the maps of pending handlers, which nobody would ever clear.*)
NothingLeft ==
  \A c \in Calls :
    /\ caller[c] = "returned" /\ task[c] = "done"
    /\ ackTimer[c] = "over" /\ responseTimer[c] = "over"
    /\ \A reader \in {dataReader, signalReader} :
         reader.at \in {"acked", "loaded", "sending", "sent"} => reader.call # c
    => c \notin rpcPendingAcks \cup rpcPendingResponses

(* Whoever waits for an answer will hear of one, and what waited is taken  *)
(* out of the maps of pending handlers when the call is over               *)
(* (localparticipant.go PerformRpc, HandleIncomingRpcAck,                  *)
(* HandleIncomingRpcResponse).                                             *)
CallsSettled == TypeOK /\ SomebodyWillAnswer /\ NothingLeft

(* An answer that was resolved while no timer had fired is not reported as *)
(* a timeout: resolve stops both timers (localparticipant.go:942-948).     *)
AnswerBeatsTimeout ==
  \A c \in answerInTime : outcome[c] \notin Timeouts

(* "ackTimer: time allowed for initial ACK/round-trip"                     *)
(* (localparticipant.go:913): an ack read while the timer runs, or before  *)
(* it is started, is not reported as a connection timeout.                 *)
AckCounts ==
  \A c \in missedAcks : outcome[c] # "connectionTimeout"

(* The reader never waits, in the handler of a request, for a call whose   *)
(* ack or response is on the channel behind it: PerformRpc "returns the    *)
(* response payload or an error if the call fails or times out"            *)
(* (localparticipant.go:880), and here the call did neither.               *)
NoSelfWait ==
  dataReader.at = "handler" =>
    LET c == CallOf[dataReader.request] IN
    c # None /\ caller[c] = "waiting" /\ resultChan[c] = None /\ errorChan[c] = None
      => \A i \in 1..Len(inbox) : inbox[i].type # "request" => inbox[i].call # c

(* "If a value less than 8000 ms is provided, it will be automatically     *)
(* clamped to 8000 ms" (rpc.go:66): no call reports a response timeout     *)
(* while its ack timer, of 7 s, still runs.                                *)
ResponseTimeoutClamped ==
  \A c \in Calls : outcome[c] = "responseTimeout" => ackTimer[c] # "armed"

(* Every PerformRpc returns, whatever the remote and the readers do.       *)
EveryCallReturns ==
  \A c \in Calls : caller[c] = "waiting" ~> caller[c] = "returned"
=============================================================================
