------------------------------- MODULE Rpc_proofs -------------------------------
(***************************************************************************)
(* Proofs about remote procedure calls (Rpc): for any calls, any requests  *)
(* and any handlers, whoever waits in PerformRpc will hear, nothing of a   *)
(* call that is over stays in the maps of pending handlers, and an answer  *)
(* that came in time is not reported as a timeout.                         *)
(*                                                                         *)
(* The argument: a call goes through stages; its handlers are in the maps, *)
(* and its timers move, only from the stage on that put them there.  Who   *)
(* ends the response timer has either sent an error or holds the call's    *)
(* handler and will send; who ends a timer has taken, or is about to take, *)
(* the handler out of its map.                                             *)
(***************************************************************************)
EXTENDS Rpc, TLAPS

(* The parts of TypeOK.                                                    *)
CallersTyped ==
  /\ caller \in [Calls -> {"idle", "waiting", "returned"}]
  /\ outcome \in [Calls -> Errors \cup {"payload", None}]
  /\ \A c \in Calls : caller[c] = "returned" <=> outcome[c] # None
  /\ task \in [Calls -> {"idle", "start", "arm", "storeAck", "storeResponse", "done"}]
  /\ resultChan \in [Calls -> {"payload", None}]
  /\ errorChan \in [Calls -> Errors \cup {None}]

HandlersTyped ==
  /\ ackTimer \in [Calls -> {"off", "armed", "fired", "over"}]
  /\ responseTimer \in [Calls -> {"off", "armed", "fired", "over"}]
  /\ rpcPendingAcks \subseteq Calls /\ rpcPendingResponses \subseteq Calls
  /\ missedAcks \subseteq Calls /\ answerInTime \subseteq Calls

OthersTyped ==
  /\ remote \in [Calls -> {"none", "asked", "acked", "answered"}]
  /\ inbox \in Seq(Packets)
  /\ dataReader \in DataReaderStates
  /\ signalReader \in SignalReaderStates
  /\ request \in [Requests -> {"none", "sent", "answered"}]
  /\ rpcHandlers \in Handlers \cup {None}
  /\ left \in BOOLEAN /\ cleaned \in BOOLEAN

Running == {"armed", "fired"}
Stored == {"storeResponse", "done"}

(* A call's goroutine starts when its caller does; the timers are off      *)
(* until it arms them, and run on while it stores the handlers.            *)
Stages ==
  \A c \in Calls :
    /\ caller[c] = "idle" <=> task[c] = "idle"
    /\ task[c] \in {"idle", "start", "arm"} =>
         ackTimer[c] = "off" /\ responseTimer[c] = "off"
    /\ task[c] = "storeAck" => ackTimer[c] = "armed"
    /\ task[c] \in {"storeAck", "storeResponse"} => responseTimer[c] = "armed"
    /\ ackTimer[c] = "off" <=> responseTimer[c] = "off"
    /\ ackTimer[c] = "fired" => task[c] = "done"

(* Handlers are in the maps, or in a reader's hands, once they are stored. *)
HandlersStored ==
  /\ \A c \in rpcPendingAcks : task[c] \in Stored
  /\ \A c \in rpcPendingResponses : task[c] = "done"
  /\ dataReader.at = "acked" => task[dataReader.call] \in Stored
  /\ dataReader.at \in {"loaded", "sending", "sent"} => task[dataReader.call] = "done"
  /\ signalReader.at \in {"loaded", "sending"} =>
       task[signalReader.call] = "done" /\ signalReader.call \notin rpcPendingResponses

(* A timer that is over leaves no handler behind, but the one the reader   *)
(* of the data channel is about to forget.                                 *)
TimersForget ==
  /\ \A c \in rpcPendingAcks : ackTimer[c] # "over"
  /\ \A c \in rpcPendingResponses :
       responseTimer[c] = "over" =>
         dataReader.at \in {"sending", "sent"} /\ dataReader.call = c

(* A caller whose response timer does not run has a value in a channel, or *)
(* a reader that will put one there.                                       *)
CallerServed ==
  \A c \in Calls : caller[c] = "waiting" /\ task[c] = "done" =>
    \/ responseTimer[c] \in Running
    \/ HeldBy(dataReader, c) \/ HeldBy(signalReader, c)
    \/ resultChan[c] # None \/ errorChan[c] # None

(* No timeout is reported while the response timer has not fired, nor ever *)
(* after an answer that came in time.                                      *)
TimeoutsLate ==
  \A c \in Calls : responseTimer[c] \in {"off", "armed"} \/ c \in answerInTime =>
    errorChan[c] \notin Timeouts /\ outcome[c] \notin Timeouts

(* Both timers of a call answered in time are over.                        *)
AnsweredOver ==
  \A c \in answerInTime : ackTimer[c] = "over" /\ responseTimer[c] = "over"

IInv ==
  /\ TypeOK /\ Stages /\ HandlersStored /\ TimersForget
  /\ CallerServed /\ TimeoutsLate /\ AnsweredOver

-----------------------------------------------------------------------------
LEMMA Distinct ==
  ASSUME RpcAssumption
  PROVE  /\ None \notin Errors /\ None # "payload" /\ None \notin Answers
         /\ CallOf \in [Requests -> Calls \cup {None}]
  BY DEF RpcAssumption, Answers

LEMMA InitInv == ASSUME RpcAssumption PROVE Init => IInv
<1> SUFFICES ASSUME Init PROVE IInv OBVIOUS
<1>1. /\ dataReader = Idle /\ signalReader = Idle /\ dataReader.at = "idle"
      /\ signalReader.at = "idle"
  BY DEF Init, Idle
<1>2. TypeOK
  <2>1. inbox \in Seq(Packets) BY DEF Init
  <2>2. Idle \in DataReaderStates /\ Idle \in SignalReaderStates
    BY DEF DataReaderStates, SignalReaderStates
  <2> QED BY <1>1, <2>1, <2>2 DEF Init, TypeOK
<1>3. Stages BY DEF Init, Stages
<1>4. HandlersStored BY <1>1 DEF Init, HandlersStored
<1>5. TimersForget BY DEF Init, TimersForget
<1>6. CallerServed BY DEF Init, CallerServed
<1>7. TimeoutsLate /\ AnsweredOver
  BY Distinct DEF Init, TimeoutsLate, AnsweredOver, Timeouts, Errors
<1> QED BY <1>2, <1>3, <1>4, <1>5, <1>6, <1>7 DEF IInv

(* What a reader holds, by where it is.                                    *)
LEMMA DataReaderTyped ==
  ASSUME dataReader \in DataReaderStates
  PROVE  /\ dataReader.at \in {"idle", "acked", "loaded", "sending", "sent", "handler", "reply"}
         /\ dataReader.at = "acked" => dataReader.call \in Calls
         /\ dataReader.at \in {"loaded", "sending", "sent"} =>
              /\ dataReader.call \in Calls /\ dataReader.what \in Answers
              /\ dataReader = At(dataReader.at, dataReader.call, dataReader.what)
         /\ dataReader.at \in {"handler", "reply"} =>
              /\ dataReader.request \in Requests
              /\ dataReader = [at |-> dataReader.at, request |-> dataReader.request]
<1>1. CASE dataReader = Idle BY <1>1 DEF Idle
<1>2. CASE dataReader \in [at : {"loaded", "sending", "sent"}, call : Calls, what : Answers]
  BY <1>2 DEF At
<1>3. CASE dataReader \in [at : {"acked"}, call : Calls] BY <1>3
<1>4. CASE dataReader \in [at : {"handler", "reply"}, request : Requests] BY <1>4
<1> QED BY <1>1, <1>2, <1>3, <1>4 DEF DataReaderStates

LEMMA SignalReaderTyped ==
  ASSUME signalReader \in SignalReaderStates
  PROVE  /\ signalReader.at \in {"idle", "range", "loaded", "sending"}
         /\ signalReader.at # "idle" => signalReader.due \in SUBSET Calls
         /\ signalReader.at \in {"loaded", "sending"} =>
              /\ signalReader.call \in Calls
              /\ signalReader = [at |-> signalReader.at, due |-> signalReader.due,
                                call |-> signalReader.call]
<1>1. CASE signalReader = Idle BY <1>1 DEF Idle
<1>2. CASE signalReader \in [at : {"range"}, due : SUBSET Calls] BY <1>2
<1>3. CASE signalReader \in [at : {"loaded", "sending"}, due : SUBSET Calls, call : Calls]
  BY <1>3
<1> QED BY <1>1, <1>2, <1>3 DEF SignalReaderStates

(* The first packet of the channel, by its type.                           *)
LEMMA PacketTyped ==
  ASSUME inbox \in Seq(Packets), inbox # <<>>
  PROVE  /\ Tail(inbox) \in Seq(Packets)
         /\ Packet.type = "ack" => Packet.call \in Calls
         /\ Packet.type = "response" => Packet.call \in Calls /\ Packet.what \in Answers
         /\ Packet.type = "request" => Packet.request \in Requests
<1>1. Packet \in Packets /\ Tail(inbox) \in Seq(Packets)
  <2> HIDE DEF Packets
  <2> QED BY DEF Packet
<1>2. CASE Packet \in [type : {"ack"}, call : Calls] BY <1>1, <1>2
<1>3. CASE Packet \in [type : {"request"}, request : Requests] BY <1>1, <1>3
<1>4. CASE Packet \in [type : {"response"}, call : Calls, what : Answers] BY <1>1, <1>4
<1> QED BY <1>1, <1>2, <1>3, <1>4 DEF Packets

-----------------------------------------------------------------------------
\* Typing of the callers, their tasks and their channels.
LEMMA CallersTypedStep ==
  ASSUME RpcAssumption, TypeOK, [Next]_vars
  PROVE  CallersTyped'
<1> USE DEF CallersTyped, TypeOK, localVars, callVars, timerVars, pendingVars, chanVars,
        remoteVars, otherVars, handlerVars, ghostVars
<1>1. ASSUME NEW c \in Calls, PerformRpc(c) PROVE CallersTyped' BY <1>1 DEF PerformRpc
<1>2. ASSUME NEW c \in Calls, Reject(c) PROVE CallersTyped' BY <1>2 DEF Reject, Errors
<1>3. ASSUME NEW c \in Calls, Publish(c) PROVE CallersTyped' BY <1>3 DEF Publish
<1>4. ASSUME NEW c \in Calls, Arm(c) PROVE CallersTyped' BY <1>4 DEF Arm
<1>5. ASSUME NEW c \in Calls, StoreAck(c) PROVE CallersTyped' BY <1>5 DEF StoreAck
<1>6. ASSUME NEW c \in Calls, StoreResponse(c) PROVE CallersTyped' BY <1>6 DEF StoreResponse
<1>7. ASSUME NEW c \in Calls, ResponseTimedOut(c) PROVE CallersTyped'
  BY <1>7 DEF ResponseTimedOut, TrySend, Errors
<1>8. ASSUME NEW c \in Calls, ConnectionTimedOut(c) PROVE CallersTyped'
  BY <1>8 DEF ConnectionTimedOut, TrySend, Stop, Errors
<1>9. ASSUME NEW c \in Calls, Return(c) PROVE CallersTyped'
  <2>1. PICK v \in Errors \cup {"payload"} : outcome' = [outcome EXCEPT ![c] = v]
    BY <1>9 DEF Return
  <2>2. /\ resultChan' \in [Calls -> {"payload", None}]
        /\ errorChan' \in [Calls -> Errors \cup {None}]
    BY ZenonT(40), <1>9 DEF Return
  <2>3. v # None BY Distinct
  <2> QED BY <1>9, <2>1, <2>2, <2>3 DEF Return
<1>10. CASE SendResponse
  <2>1. dataReader.call \in Calls /\ dataReader.what \in Errors \cup {"payload"}
    BY <1>10, DataReaderTyped DEF SendResponse, Answers, Errors
  <2> QED BY <1>10, <2>1 DEF SendResponse, Send
<1>11. CASE SendDisconnected BY <1>11, SignalReaderTyped DEF SendDisconnected, Send, Errors
<1>12. CASE UNCHANGED <<callVars, chanVars>> BY <1>12
<1> QED
  BY <1>1, <1>2, <1>3, <1>4, <1>5, <1>6, <1>7, <1>8, <1>9, <1>10, <1>11, <1>12
     DEF Next, Task, Timers, DataReader, SignalReader, Application, Remote, AckTimerFires,
         ResponseTimerFires, HandleIncomingRpcAck, Take, ResolveAck, HandleIncomingRpcResponse,
         ResolveResponse, ForgetResponse, OnRpcRequest, HandlerReturns, Reply,
         ParticipantDisconnected, LoadAndDelete, ResolveDisconnected, RangeEnds,
         RegisterRpcMethod, UnregisterRpcMethod, Cleanup, RemoteAcks, RemoteAnswers,
         RemoteRequests, RemoteLeaves, vars, localVars, callVars, timerVars, pendingVars,
         chanVars, remoteVars, otherVars, handlerVars, ghostVars

\* Typing of the timers and the maps of handlers.
LEMMA HandlersTypedStep ==
  ASSUME TypeOK, [Next]_vars
  PROVE  HandlersTyped'
<1> USE DEF HandlersTyped, TypeOK, localVars, callVars, timerVars, pendingVars, chanVars,
        remoteVars, otherVars, handlerVars, ghostVars
<1>1. ASSUME NEW c \in Calls, Arm(c) PROVE HandlersTyped' BY <1>1 DEF Arm
<1>2. ASSUME NEW c \in Calls, StoreAck(c) PROVE HandlersTyped' BY <1>2 DEF StoreAck
<1>3. ASSUME NEW c \in Calls, StoreResponse(c) PROVE HandlersTyped' BY <1>3 DEF StoreResponse
<1>4. ASSUME NEW c \in Calls, AckTimerFires(c) PROVE HandlersTyped' BY <1>4 DEF AckTimerFires
<1>5. ASSUME NEW c \in Calls, ResponseTimerFires(c) PROVE HandlersTyped'
  BY <1>5 DEF ResponseTimerFires
<1>6. ASSUME NEW c \in Calls, ResponseTimedOut(c) PROVE HandlersTyped'
  BY <1>6 DEF ResponseTimedOut, TrySend
<1>7. ASSUME NEW c \in Calls, ConnectionTimedOut(c) PROVE HandlersTyped'
  BY <1>7 DEF ConnectionTimedOut, TrySend, Stop
<1>8. CASE HandleIncomingRpcAck BY <1>8, PacketTyped DEF HandleIncomingRpcAck, Take
<1>9. CASE ResolveAck BY <1>9, DataReaderTyped DEF ResolveAck, Stop
<1>10. CASE ResolveResponse BY <1>10, DataReaderTyped DEF ResolveResponse, StopTimers, Stop
<1>11. CASE ForgetResponse BY <1>11, DataReaderTyped DEF ForgetResponse
<1>12. CASE ParticipantDisconnected BY <1>12 DEF ParticipantDisconnected
<1>13. ASSUME NEW c \in Calls, LoadAndDelete(c) PROVE HandlersTyped' BY <1>13 DEF LoadAndDelete
<1>14. CASE ResolveDisconnected
  BY <1>14, SignalReaderTyped DEF ResolveDisconnected, StopTimers, Stop
<1>15. CASE Cleanup BY <1>15 DEF Cleanup
<1>16. CASE UNCHANGED <<timerVars, pendingVars, ghostVars>> BY <1>16
<1> QED
  BY <1>1, <1>2, <1>3, <1>4, <1>5, <1>6, <1>7, <1>8, <1>9, <1>10, <1>11, <1>12, <1>13, <1>14,
     <1>15, <1>16
     DEF Next, Task, Timers, DataReader, SignalReader, Application, Remote, PerformRpc, Reject,
         Publish, Return, HandleIncomingRpcResponse, Take, SendResponse, OnRpcRequest,
         HandlerReturns, Reply, SendDisconnected, RangeEnds, RegisterRpcMethod,
         UnregisterRpcMethod, RemoteAcks, RemoteAnswers, RemoteRequests, RemoteLeaves, vars,
         localVars, callVars, timerVars, pendingVars, chanVars, remoteVars, otherVars,
         handlerVars, ghostVars

\* Typing of the remote, the channel and the two readers.
LEMMA OthersTypedStep ==
  ASSUME RpcAssumption, TypeOK, [Next]_vars
  PROVE  OthersTyped'
<1> USE DEF OthersTyped, TypeOK, localVars, callVars, timerVars, pendingVars, chanVars,
        remoteVars, otherVars, handlerVars, ghostVars
<1>1. ASSUME NEW c \in Calls, Publish(c) PROVE OthersTyped' BY <1>1 DEF Publish
<1>2. CASE HandleIncomingRpcAck
  BY <1>2, PacketTyped DEF HandleIncomingRpcAck, Take, DataReaderStates, Idle
<1>3. CASE HandleIncomingRpcResponse
  BY <1>3, PacketTyped DEF HandleIncomingRpcResponse, Take, DataReaderStates, Idle, At
<1>4. CASE ResolveResponse \/ SendResponse
  BY <1>4, DataReaderTyped DEF ResolveResponse, StopTimers, Stop, SendResponse, Send,
     DataReaderStates, At
<1>5. CASE OnRpcRequest BY <1>5, PacketTyped DEF OnRpcRequest, Take, DataReaderStates
<1>6. CASE HandlerReturns BY <1>6, DataReaderTyped DEF HandlerReturns, DataReaderStates
<1>7. CASE ResolveAck \/ ForgetResponse \/ Reply
  BY <1>7, DataReaderTyped DEF ResolveAck, Stop, ForgetResponse, Reply, DataReaderStates
<1>8. CASE ParticipantDisconnected BY <1>8 DEF ParticipantDisconnected, SignalReaderStates
<1>9. ASSUME NEW c \in Calls, LoadAndDelete(c) PROVE OthersTyped'
  BY <1>9, SignalReaderTyped DEF LoadAndDelete, SignalReaderStates
<1>10. CASE ResolveDisconnected \/ SendDisconnected
  BY <1>10, SignalReaderTyped DEF ResolveDisconnected, StopTimers, Stop, SendDisconnected, Send,
     SignalReaderStates
<1>11. CASE RangeEnds BY <1>11 DEF RangeEnds, SignalReaderStates
<1>12. ASSUME NEW h \in Handlers, RegisterRpcMethod(h) PROVE OthersTyped'
  BY <1>12 DEF RegisterRpcMethod
<1>13. CASE UnregisterRpcMethod \/ Cleanup BY <1>13 DEF UnregisterRpcMethod, Cleanup
<1>14. ASSUME NEW c \in Calls, RemoteAcks(c) PROVE OthersTyped' BY <1>14 DEF RemoteAcks, Packets
<1>15. ASSUME NEW c \in Calls, RemoteAnswers(c) PROVE OthersTyped'
  BY <1>15 DEF RemoteAnswers, Packets, Answers
<1>16. ASSUME NEW r \in Requests, RemoteRequests(r) PROVE OthersTyped'
  BY <1>16 DEF RemoteRequests, Packets
<1>17. CASE RemoteLeaves BY <1>17 DEF RemoteLeaves
<1>18. CASE UNCHANGED <<remoteVars, inbox, dataReader, signalReader, handlerVars, cleaned>>
  BY <1>18
<1> QED
  BY <1>1, <1>2, <1>3, <1>4, <1>5, <1>6, <1>7, <1>8, <1>9, <1>10, <1>11, <1>12, <1>13, <1>14,
     <1>15, <1>16, <1>17, <1>18
     DEF Next, Task, Timers, DataReader, SignalReader, Application, Remote, PerformRpc, Reject,
         Arm, StoreAck, StoreResponse, AckTimerFires, ResponseTimerFires, ResponseTimedOut,
         ConnectionTimedOut, Return, vars, localVars, callVars, timerVars, pendingVars,
         chanVars, remoteVars, otherVars, handlerVars, ghostVars

\* Stages: a reader stops the timers of a call that armed them.
LEMMA StagesStep ==
  ASSUME TypeOK, HandlersStored, Stages, [Next]_vars
  PROVE  Stages'
<1> USE DEF Stages, TypeOK, localVars, callVars, timerVars, pendingVars, chanVars, remoteVars,
        otherVars, handlerVars, ghostVars
<1>1. ASSUME NEW c \in Calls,
             \/ PerformRpc(c) \/ Reject(c) \/ Publish(c)
             \/ Arm(c) \/ StoreAck(c) \/ StoreResponse(c)
      PROVE Stages'
  BY <1>1 DEF PerformRpc, Reject, Publish, Arm, StoreAck, StoreResponse
<1>2. ASSUME NEW c \in Calls,
             \/ AckTimerFires(c) \/ ResponseTimerFires(c)
             \/ ResponseTimedOut(c) \/ ConnectionTimedOut(c)
      PROVE Stages'
  BY <1>2
     DEF AckTimerFires, ResponseTimerFires, ResponseTimedOut, TrySend, ConnectionTimedOut, Stop
<1>3. ASSUME NEW c \in Calls, Return(c) PROVE Stages' BY <1>3 DEF Return
<1>4. CASE ResolveAck BY <1>4, DataReaderTyped DEF ResolveAck, Stop, HandlersStored, Stored
<1>5. CASE ResolveResponse
  BY <1>5, DataReaderTyped DEF ResolveResponse, StopTimers, Stop, HandlersStored, Stored
<1>6. CASE ResolveDisconnected
  BY <1>6, SignalReaderTyped DEF ResolveDisconnected, StopTimers, Stop, HandlersStored, Stored
<1>7. CASE UNCHANGED <<callVars, timerVars>> BY <1>7
<1> QED
  BY <1>1, <1>2, <1>3, <1>4, <1>5, <1>6, <1>7
     DEF Next, Task, Timers, DataReader, SignalReader, Application, Remote,
         HandleIncomingRpcAck, Take, HandleIncomingRpcResponse, SendResponse, ForgetResponse,
         OnRpcRequest, HandlerReturns, Reply, ParticipantDisconnected, LoadAndDelete,
         SendDisconnected, RangeEnds, RegisterRpcMethod, UnregisterRpcMethod, Cleanup,
         RemoteAcks, RemoteAnswers, RemoteRequests, RemoteLeaves, vars, localVars, callVars,
         timerVars, pendingVars, chanVars, remoteVars, otherVars, handlerVars, ghostVars

\* A reader finds a handler in a map only once it is stored.
LEMMA HandlersStoredStep ==
  ASSUME TypeOK, HandlersStored, Stages, [Next]_vars
  PROVE  HandlersStored'
<1> USE DEF HandlersStored, TypeOK, Stored, Stages, localVars, callVars, timerVars, pendingVars,
        chanVars, remoteVars, otherVars, handlerVars, ghostVars
<1>1. ASSUME NEW c \in Calls,
             \/ PerformRpc(c) \/ Reject(c) \/ Publish(c)
             \/ Arm(c) \/ StoreAck(c) \/ StoreResponse(c)
      PROVE HandlersStored'
  BY <1>1, DataReaderTyped, SignalReaderTyped DEF PerformRpc, Reject, Publish, Arm, StoreAck,
     StoreResponse
<1>2. ASSUME NEW c \in Calls, ResponseTimedOut(c) \/ ConnectionTimedOut(c) PROVE HandlersStored'
  BY <1>2 DEF ResponseTimedOut, TrySend, ConnectionTimedOut, Stop
<1>3. CASE HandleIncomingRpcAck BY <1>3, PacketTyped DEF HandleIncomingRpcAck, Take, Idle, At
<1>4. CASE HandleIncomingRpcResponse
  BY <1>4, PacketTyped DEF HandleIncomingRpcResponse, Take, Idle, At
<1>5. CASE ResolveAck BY <1>5, DataReaderTyped DEF ResolveAck, Stop, Idle
<1>6. CASE ResolveResponse BY <1>6, DataReaderTyped DEF ResolveResponse, StopTimers, Stop, Idle
<1>7. CASE SendResponse BY <1>7, DataReaderTyped DEF SendResponse, Send, Idle
<1>8. CASE ForgetResponse BY <1>8, DataReaderTyped DEF ForgetResponse, Idle
<1>9. CASE OnRpcRequest \/ HandlerReturns \/ Reply
  BY <1>9, DataReaderTyped DEF OnRpcRequest, Take, HandlerReturns, Reply, Idle
<1>10. CASE ParticipantDisconnected
  BY <1>10, SignalReaderTyped DEF ParticipantDisconnected, Idle
<1>11. ASSUME NEW c \in Calls, LoadAndDelete(c) PROVE HandlersStored'
  BY <1>11, SignalReaderTyped DEF LoadAndDelete, Idle
<1>12. CASE ResolveDisconnected
  BY <1>12, SignalReaderTyped DEF ResolveDisconnected, StopTimers, Stop, Idle
<1>13. CASE SendDisconnected BY <1>13, SignalReaderTyped DEF SendDisconnected, Send, Idle
<1>14. CASE RangeEnds BY <1>14, SignalReaderTyped DEF RangeEnds, Idle
<1>15. CASE Cleanup BY <1>15 DEF Cleanup
<1>16. CASE UNCHANGED <<task, pendingVars, dataReader, signalReader>> BY <1>16
<1> QED
  BY <1>1, <1>2, <1>3, <1>4, <1>5, <1>6, <1>7, <1>8, <1>9, <1>10, <1>11, <1>12, <1>13, <1>14,
     <1>15, <1>16
     DEF Next, Task, Timers, DataReader, SignalReader, Application, Remote, AckTimerFires,
         ResponseTimerFires, Return, RegisterRpcMethod, UnregisterRpcMethod, RemoteAcks,
         RemoteAnswers, RemoteRequests, RemoteLeaves, vars, localVars, callVars, timerVars,
         pendingVars, chanVars, remoteVars, otherVars, handlerVars, ghostVars

\* Who ends a timer takes the handler out of its map, or is about to.
LEMMA TimersForgetStep ==
  ASSUME TypeOK, HandlersStored, Stages, TimersForget, [Next]_vars
  PROVE  TimersForget'
<1> USE DEF TimersForget, TypeOK, localVars, callVars, timerVars, pendingVars, chanVars,
        remoteVars, otherVars, handlerVars, ghostVars
<1>1. ASSUME NEW c \in Calls, Arm(c) \/ StoreAck(c) \/ StoreResponse(c) PROVE TimersForget'
  BY <1>1 DEF Arm, StoreAck, StoreResponse, Stages
<1>2. ASSUME NEW c \in Calls,
             \/ AckTimerFires(c) \/ ResponseTimerFires(c)
             \/ ResponseTimedOut(c) \/ ConnectionTimedOut(c)
      PROVE TimersForget'
  BY <1>2
     DEF AckTimerFires, ResponseTimerFires, ResponseTimedOut, TrySend, ConnectionTimedOut, Stop
<1>3. CASE HandleIncomingRpcAck \/ HandleIncomingRpcResponse \/ OnRpcRequest \/ HandlerReturns \/ Reply
  BY <1>3, DataReaderTyped
     DEF HandleIncomingRpcAck, Take, HandleIncomingRpcResponse, OnRpcRequest, HandlerReturns,
         Reply, Idle, At
<1>4. CASE ResolveAck BY <1>4, DataReaderTyped DEF ResolveAck, Stop, Idle
<1>5. CASE ResolveResponse BY <1>5, DataReaderTyped DEF ResolveResponse, StopTimers, Stop, Idle
<1>6. CASE SendResponse BY <1>6, DataReaderTyped DEF SendResponse, Send, Idle
<1>7. CASE ForgetResponse BY <1>7, DataReaderTyped DEF ForgetResponse, Idle
<1>8. CASE ParticipantDisconnected BY <1>8 DEF ParticipantDisconnected
<1>9. ASSUME NEW c \in Calls, LoadAndDelete(c) PROVE TimersForget' BY <1>9 DEF LoadAndDelete
<1>10. CASE ResolveDisconnected
  BY <1>10, SignalReaderTyped DEF ResolveDisconnected, StopTimers, Stop, Stages, HandlersStored,
     Stored
<1>11. CASE Cleanup BY <1>11 DEF Cleanup
<1>12. CASE UNCHANGED <<timerVars, pendingVars, dataReader>> BY <1>12
<1> QED
  BY <1>1, <1>2, <1>3, <1>4, <1>5, <1>6, <1>7, <1>8, <1>9, <1>10, <1>11, <1>12
  DEF Next, Task, Timers, DataReader, SignalReader, Application, Remote, PerformRpc, Reject,
      Publish, Return, SendDisconnected, RangeEnds, RegisterRpcMethod, UnregisterRpcMethod,
      RemoteAcks, RemoteAnswers, RemoteRequests, RemoteLeaves, vars, localVars, callVars,
      timerVars, pendingVars, chanVars, remoteVars, otherVars, handlerVars, ghostVars

\* Who ends the response timer sends an error, or holds the handler.
LEMMA CallerServedStep ==
  ASSUME RpcAssumption, TypeOK, HandlersStored, Stages, CallerServed, [Next]_vars
  PROVE  CallerServed'
<1> USE DEF CallerServed, TypeOK, HeldBy, Running, localVars, callVars, timerVars, pendingVars,
        chanVars, remoteVars, otherVars, handlerVars, ghostVars
<1>1. ASSUME NEW c \in Calls,
             \/ PerformRpc(c) \/ Reject(c) \/ Publish(c)
             \/ Arm(c) \/ StoreAck(c) \/ StoreResponse(c)
      PROVE CallerServed'
  BY <1>1, Distinct
     DEF PerformRpc, Reject, Publish, Arm, StoreAck, StoreResponse, Stages, Errors
<1>2. ASSUME NEW c \in Calls,
             \/ AckTimerFires(c) \/ ResponseTimerFires(c)
             \/ ResponseTimedOut(c) \/ ConnectionTimedOut(c)
      PROVE CallerServed'
  BY <1>2, Distinct DEF AckTimerFires, ResponseTimerFires, ResponseTimedOut, TrySend,
     ConnectionTimedOut, Stop, Errors
<1>3. ASSUME NEW c \in Calls, Return(c) PROVE CallerServed' BY <1>3 DEF Return
<1>4. CASE HandleIncomingRpcAck \/ HandleIncomingRpcResponse \/ OnRpcRequest \/ HandlerReturns \/ Reply
  BY <1>4, DataReaderTyped
     DEF HandleIncomingRpcAck, Take, HandleIncomingRpcResponse, OnRpcRequest, HandlerReturns,
         Reply, Idle, At
<1>5. CASE ResolveAck BY <1>5, DataReaderTyped DEF ResolveAck, Stop, Idle
<1>6. CASE ResolveResponse BY <1>6, DataReaderTyped DEF ResolveResponse, StopTimers, Stop, Idle
<1>7. CASE SendResponse BY <1>7, DataReaderTyped, Distinct DEF SendResponse, Send, Answers
<1>8. CASE ForgetResponse BY <1>8, DataReaderTyped DEF ForgetResponse, Idle
<1>9. CASE ParticipantDisconnected BY <1>9, SignalReaderTyped DEF ParticipantDisconnected, Idle
<1>10. ASSUME NEW c \in Calls, LoadAndDelete(c) PROVE CallerServed'
  BY <1>10, SignalReaderTyped DEF LoadAndDelete, Idle
<1>11. CASE ResolveDisconnected
  BY <1>11, SignalReaderTyped DEF ResolveDisconnected, StopTimers, Stop, Idle
<1>12. CASE SendDisconnected
  BY <1>12, SignalReaderTyped, Distinct DEF SendDisconnected, Send, Errors
<1>13. CASE RangeEnds BY <1>13 DEF RangeEnds, Idle
<1>14. CASE UNCHANGED <<callVars, timerVars, chanVars, dataReader, signalReader>> BY <1>14
<1> QED
  BY <1>1, <1>2, <1>3, <1>4, <1>5, <1>6, <1>7, <1>8, <1>9, <1>10, <1>11, <1>12, <1>13, <1>14
     DEF Next, Task, Timers, DataReader, SignalReader, Application, Remote, RegisterRpcMethod,
         UnregisterRpcMethod, Cleanup, RemoteAcks, RemoteAnswers, RemoteRequests, RemoteLeaves,
         vars, localVars, callVars, timerVars, pendingVars, chanVars, remoteVars, otherVars,
         handlerVars, ghostVars

\* A timeout is sent only by who ends the response timer.
LEMMA TimeoutsLateStep ==
  ASSUME RpcAssumption, TypeOK, Stages, AnsweredOver, TimeoutsLate, [Next]_vars
  PROVE  TimeoutsLate'
<1> USE DEF TimeoutsLate, AnsweredOver, TypeOK, Timeouts, localVars, callVars, timerVars,
        pendingVars, chanVars, remoteVars, otherVars, handlerVars, ghostVars
<1>1. ASSUME NEW c \in Calls,
             \/ PerformRpc(c) \/ Reject(c) \/ Publish(c)
             \/ Arm(c) \/ StoreAck(c) \/ StoreResponse(c)
      PROVE TimeoutsLate'
  BY <1>1 DEF PerformRpc, Reject, Publish, Arm, StoreAck, StoreResponse, Stages
<1>2. ASSUME NEW c \in Calls,
             \/ AckTimerFires(c) \/ ResponseTimerFires(c)
             \/ ResponseTimedOut(c) \/ ConnectionTimedOut(c)
      PROVE TimeoutsLate'
  BY <1>2, Distinct DEF AckTimerFires, ResponseTimerFires, ResponseTimedOut, TrySend,
     ConnectionTimedOut, Stop, Stages
<1>3. ASSUME NEW c \in Calls, Return(c) PROVE TimeoutsLate' BY <1>3, Distinct DEF Return, Errors
<1>4. CASE ResolveAck BY <1>4, DataReaderTyped, Distinct DEF ResolveAck, Stop, Answers, Errors
<1>5. CASE ResolveResponse
  BY <1>5, DataReaderTyped, Distinct DEF ResolveResponse, StopTimers, Stop, Answers, Errors
<1>6. CASE SendResponse
  BY <1>6, DataReaderTyped, Distinct DEF SendResponse, Send, Answers, Errors
<1>7. CASE ResolveDisconnected
  BY <1>7, SignalReaderTyped, Distinct DEF ResolveDisconnected, StopTimers, Stop, Errors
<1>8. CASE SendDisconnected
  BY <1>8, SignalReaderTyped, Distinct DEF SendDisconnected, Send, Errors
<1>9. CASE HandleIncomingRpcAck BY <1>9 DEF HandleIncomingRpcAck, Take
<1>10. CASE UNCHANGED <<outcome, responseTimer, errorChan, answerInTime>> BY <1>10
<1> QED
  BY <1>1, <1>2, <1>3, <1>4, <1>5, <1>6, <1>7, <1>8, <1>9, <1>10
     DEF Next, Task, Timers, DataReader, SignalReader, Application, Remote,
         HandleIncomingRpcResponse, Take, ForgetResponse, OnRpcRequest, HandlerReturns, Reply,
         ParticipantDisconnected, LoadAndDelete, RangeEnds, RegisterRpcMethod,
         UnregisterRpcMethod, Cleanup, RemoteAcks, RemoteAnswers, RemoteRequests, RemoteLeaves,
         vars, localVars, callVars, timerVars, pendingVars, chanVars, remoteVars, otherVars,
         handlerVars, ghostVars

\* An answer in time ends both timers.
LEMMA AnsweredOverStep ==
  ASSUME TypeOK, Stages, AnsweredOver, [Next]_vars
  PROVE  AnsweredOver'
<1> USE DEF AnsweredOver, TypeOK, localVars, callVars, timerVars, pendingVars, chanVars,
        remoteVars, otherVars, handlerVars, ghostVars
<1>1. ASSUME NEW c \in Calls, Arm(c) PROVE AnsweredOver' BY <1>1 DEF Arm, Stages
<1>2. ASSUME NEW c \in Calls,
             \/ AckTimerFires(c) \/ ResponseTimerFires(c)
             \/ ResponseTimedOut(c) \/ ConnectionTimedOut(c)
      PROVE AnsweredOver'
  BY <1>2
     DEF AckTimerFires, ResponseTimerFires, ResponseTimedOut, TrySend, ConnectionTimedOut, Stop
<1>3. CASE ResolveAck BY <1>3, DataReaderTyped DEF ResolveAck, Stop
<1>4. CASE ResolveResponse BY <1>4, DataReaderTyped DEF ResolveResponse, StopTimers, Stop
<1>5. CASE ResolveDisconnected
  BY <1>5, SignalReaderTyped DEF ResolveDisconnected, StopTimers, Stop
<1>6. CASE UNCHANGED <<timerVars, answerInTime>> BY <1>6
<1> QED
  BY <1>1, <1>2, <1>3, <1>4, <1>5, <1>6
     DEF Next, Task, Timers, DataReader, SignalReader, Application, Remote, PerformRpc, Reject,
         Publish, StoreAck, StoreResponse, Return, HandleIncomingRpcAck, Take,
         HandleIncomingRpcResponse, SendResponse, ForgetResponse, OnRpcRequest, HandlerReturns,
         Reply, ParticipantDisconnected, LoadAndDelete, SendDisconnected, RangeEnds,
         RegisterRpcMethod, UnregisterRpcMethod, Cleanup, RemoteAcks, RemoteAnswers,
         RemoteRequests, RemoteLeaves, vars, localVars, callVars, timerVars, pendingVars,
         chanVars, remoteVars, otherVars, handlerVars, ghostVars

-----------------------------------------------------------------------------
LEMMA StepInv == ASSUME RpcAssumption PROVE IInv /\ [Next]_vars => IInv'
<1> SUFFICES ASSUME IInv, [Next]_vars PROVE IInv' OBVIOUS
<1> USE DEF IInv
<1>1. TypeOK'
  BY CallersTypedStep, HandlersTypedStep, OthersTypedStep
  DEF TypeOK, CallersTyped, HandlersTyped, OthersTyped
<1>2. Stages' /\ HandlersStored' BY StagesStep, HandlersStoredStep
<1>3. TimersForget' /\ CallerServed' BY TimersForgetStep, CallerServedStep
<1>4. TimeoutsLate' /\ AnsweredOver' BY TimeoutsLateStep, AnsweredOverStep
<1> QED BY <1>1, <1>2, <1>3, <1>4

LEMMA Inductive == ASSUME RpcAssumption PROVE Spec => []IInv
<1>1. Init => IInv BY InitInv
<1>2. IInv /\ [Next]_vars => IInv' BY StepInv
<1> QED BY <1>1, <1>2, PTL DEF Spec

\* For any number of calls and requests and any handlers: who waits in PerformRpc will hear, from
\* a timer, a reader or a channel, and a call that is over leaves no handler in the maps
\* (localparticipant.go PerformRpc, HandleIncomingRpcAck, HandleIncomingRpcResponse).
THEOREM CallsAreSettled == ASSUME RpcAssumption PROVE Spec => []CallsSettled
<1>1. IInv => SomebodyWillAnswer
  BY DEF IInv, CallerServed, SomebodyWillAnswer, Running
<1>2. IInv => NothingLeft
  <2> SUFFICES ASSUME IInv, NEW c \in Calls, ackTimer[c] = "over", responseTimer[c] = "over",
                      \A reader \in {dataReader, signalReader} :
                        reader.at \in {"acked", "loaded", "sending", "sent"} => reader.call # c
               PROVE  c \notin rpcPendingAcks \cup rpcPendingResponses
    BY DEF NothingLeft
  <2> QED BY DEF IInv, TimersForget
<1>3. IInv => CallsSettled BY <1>1, <1>2 DEF IInv, CallsSettled
<1> QED BY <1>3, Inductive, PTL

\* An answer that the reader resolved while no timer had fired is never reported as a timeout:
\* resolve stops both timers (localparticipant.go:942-948).
THEOREM AnswersWin == ASSUME RpcAssumption PROVE Spec => []AnswerBeatsTimeout
<1>1. IInv => AnswerBeatsTimeout BY DEF IInv, TypeOK, TimeoutsLate, AnswerBeatsTimeout
<1> QED BY <1>1, Inductive, PTL
=============================================================================
