------------------------------ MODULE DataStreams ------------------------------
(***************************************************************************)
(* One data stream (streams.go): the writer whose goroutine sends its      *)
(* chunks over the reliable data channel, the trailer its Close sends, and *)
(* the reader that the receiving room feeds (room.go) until the trailer or *)
(* the room's cleanup closes it.  The writer ignores the errors of what it *)
(* publishes, and a full reconnect replaces the channel.                   *)
(*                                                                         *)
(* A task is what one Write hands over.  Callers are the goroutines that   *)
(* write; Closers those that may close the stream: the application, the    *)
(* engine's OnClose handler, and the worker, from a task's onDone.         *)
(* Whether core.Fuse breaks before its callback or after it is left open.  *)
(***************************************************************************)
EXTENDS Naturals, Sequences

CONSTANTS
  Callers,
  Chunks,     \* chunks of a task
  MaxWrites,  \* bound: calls of Write
  LinkMayDie, \* whether the data channel may stop draining
  MaxLosses   \* bound: losses after which only a channel that does not drain loses more

StreamsAssumption == Chunks \in Nat \ {0} /\ {MaxWrites, MaxLosses} \subseteq Nat /\ LinkMayDie \in BOOLEAN

Closers == {"app", "engine", "worker"}
Free == "free"
Trailer == [type |-> "trailer"]
Chunk(task, i) == [type |-> "chunk", task |-> task, chunk |-> i]

VARIABLES
  broken, once, \* the writer's fuse, and who runs its callback
  writes, offer,\* calls of Write, and the task each caller offers, or 0
  worker,       \* where processWriteQueue is, its task, the chunks left
  lock,         \* who holds the writer's lock
  closer,       \* where each closer is
  finished,     \* tasks whose onDone was called
  engine,       \* the sender's engine: up, closing, closed
  channel,      \* messages published, and those not received; it no longer
                \* drains; how often something was lost (a ghost)
  room,         \* the receiving room: its cleanup, its reader of the channel
  reader        \* the stream's reader: listed, contents, closed, and who reads it

writerVars == <<broken, once, writes, offer, worker, lock, closer, finished, engine>>
readerVars == <<room, reader>>
vars == <<writerVars, channel, readerVars>>

TypeOK ==
  /\ broken \in BOOLEAN /\ once \in {"new", "running", "done"}
  /\ offer \in [Callers -> 0 .. MaxWrites] /\ lock \in {Free, "worker"}
  /\ channel.dead \in BOOLEAN /\ channel.lost \in Nat
  /\ worker.at \in {"select", "taken", "waiting", "onDone", "closing", "ended"}
  /\ closer \in [Closers -> {"idle", "once", "lock", "break", "returned"}]
  /\ engine \in {"up", "closing", "closed"}
  /\ room.at \in {"up", "handlers", "closing", "cleared"}
  /\ room.reading \in {"idle", "header"}
  /\ reader.app \in {"none", "reading", "waiting", "ended"}

Init ==
  /\ broken = FALSE /\ once = "new"
  /\ writes = 0 /\ offer = [c \in Callers |-> 0]
  /\ worker = [at |-> "select", task |-> 0, left |-> 0]
  /\ lock = Free /\ closer = [c \in Closers |-> "idle"] /\ finished = {} /\ engine = "up"
  /\ channel = [sent |-> <<>>, toRoom |-> <<[type |-> "header"]>>, dead |-> FALSE, lost |-> 0]
  /\ room = [at |-> "up", reading |-> "idle", raced |-> FALSE]
  /\ reader = [listed |-> FALSE, buf |-> <<>>, closed |-> FALSE, broadcast |-> FALSE, app |-> "none"]

-----------------------------------------------------------------------------
(* The writer.                                                             *)

Write(c) ==
  /\ offer[c] = 0 /\ writes < MaxWrites /\ ~broken
  /\ writes' = writes + 1 /\ offer' = [offer EXCEPT ![c] = writes + 1]
  /\ UNCHANGED <<broken, once, worker, lock, closer, finished, engine, channel, readerVars>>

WriteGivesUp(c) ==
  /\ offer[c] # 0 /\ broken
  /\ offer' = [offer EXCEPT ![c] = 0]
  /\ UNCHANGED <<broken, once, writes, worker, lock, closer, finished, engine, channel,
                 readerVars>>

\* processWriteQueue takes a task from a caller, or finds the stream closed.
Take ==
  /\ worker.at = "select"
  /\ \E c \in Callers :
       /\ offer[c] # 0
       /\ worker' = [at |-> "taken", task |-> offer[c], left |-> Chunks]
       /\ offer' = [offer EXCEPT ![c] = 0]
  /\ UNCHANGED <<broken, once, writes, lock, closer, finished, engine, channel, readerVars>>

Ends ==
  /\ worker.at = "select" /\ broken
  /\ worker' = [worker EXCEPT !.at = "ended"]
  /\ UNCHANGED <<broken, once, writes, offer, lock, closer, finished, engine, channel,
                 readerVars>>

WorkerUnchanged == UNCHANGED <<broken, once, writes, offer, engine, readerVars>>

\* Mutants: the last chunk is left out; onDone runs under the lock.
Goto_Early(n) ==
  IF n > 1 /\ ~broken THEN worker' = [worker EXCEPT !.at = "waiting", !.left = n] /\ lock' = "worker"
                      ELSE worker' = [worker EXCEPT !.at = "onDone", !.left = n] /\ lock' = Free
Goto_Holds(n) ==
  /\ worker' = [worker EXCEPT !.at = IF n > 0 /\ ~broken THEN "waiting" ELSE "onDone", !.left = n]
  /\ lock' = "worker"

\* What is next in writeStreamBytes with n chunks left: it ends with the task,
\* or with the stream.
Goto(n) ==
  IF n > 0 /\ ~broken THEN worker' = [worker EXCEPT !.at = "waiting", !.left = n] /\ lock' = "worker"
                      ELSE worker' = [worker EXCEPT !.at = "onDone", !.left = n] /\ lock' = Free

Lock ==
  /\ worker.at = "taken" /\ lock = Free
  /\ Goto(worker.left)
  /\ UNCHANGED <<closer, finished, channel>> /\ WorkerUnchanged

\* publishDataPacket, whose error is ignored: the publisher may not connect, the
\* packet not be encrypted or marshalled, the channel not take it.
Publish(m) ==
  \/ ~channel.dead /\ channel' = [channel EXCEPT !.sent = Append(@, m), !.toRoom = Append(@, m)]
  \/ /\ channel.dead \/ channel.lost < MaxLosses
     /\ channel' = [channel EXCEPT !.sent = Append(@, m), !.lost = @ + 1]

\* The channel goes, or another one comes: what is under way by then is lost, the
\* header too.
Cut(dead) ==
  \/ channel.toRoom = <<>> /\ channel' = [channel EXCEPT !.dead = dead]
  \/ /\ channel.toRoom # <<>>
     /\ channel' = [channel EXCEPT !.dead = dead, !.toRoom = <<>>, !.lost = @ + 1]

\* waitForBufferStatusLow, which a channel that drains lets through, and
\* publishStreamChunk.
SendChunk ==
  /\ worker.at = "waiting" /\ ~channel.dead
  /\ Publish(Chunk(worker.task, Chunks - worker.left + 1))
  /\ Goto(worker.left - 1)
  /\ UNCHANGED <<closer, finished>> /\ WorkerUnchanged

\* The callback of a task, which may close the stream.
OnDone ==
  /\ worker.at = "onDone"
  /\ finished' = finished \union {worker.task}
  /\ \/ worker' = [worker EXCEPT !.at = "closing"] /\ closer' = [closer EXCEPT !["worker"] = "once"]
     \/ worker' = [worker EXCEPT !.at = "select"] /\ UNCHANGED closer
  /\ UNCHANGED <<lock, channel>> /\ WorkerUnchanged

Closed ==
  /\ worker.at = "closing" /\ closer["worker"] = "returned"
  /\ worker' = [worker EXCEPT !.at = "select"]
  /\ UNCHANGED <<lock, closer, finished, channel>> /\ WorkerUnchanged

-----------------------------------------------------------------------------
(* Close.                                                                  *)

CloserUnchanged == UNCHANGED <<writes, offer, worker, lock, finished, readerVars>>

Close ==
  /\ closer["app"] = "idle"
  /\ closer' = [closer EXCEPT !["app"] = "once"]
  /\ UNCHANGED <<broken, once, engine, channel>> /\ CloserUnchanged

Once(c) ==
  /\ closer[c] = "once"
  /\ \/ once = "new" /\ once' = "running" /\ closer' = [closer EXCEPT ![c] = "lock"]
        /\ broken' \in BOOLEAN
     \/ once = "done" /\ closer' = [closer EXCEPT ![c] = "returned"] /\ UNCHANGED <<once, broken>>
  /\ UNCHANGED <<engine, channel>> /\ CloserUnchanged

\* Mutant: the trailer does not wait for the chunks being written.
SendTrailer_Unlocked(c) ==
  /\ closer[c] = "lock"
  /\ Publish(Trailer)
  /\ closer' = [closer EXCEPT ![c] = "break"]
  /\ UNCHANGED <<broken, once, engine>> /\ CloserUnchanged

SendTrailer(c) ==
  /\ closer[c] = "lock" /\ lock = Free
  /\ Publish(Trailer)
  /\ closer' = [closer EXCEPT ![c] = "break"]
  /\ UNCHANGED <<broken, once, engine>> /\ CloserUnchanged

Break(c) ==
  /\ closer[c] = "break"
  /\ broken' = TRUE /\ once' = "done" /\ closer' = [closer EXCEPT ![c] = "returned"]
  /\ UNCHANGED <<engine, channel>> /\ CloserUnchanged

\* RTCEngine.Close: its goroutine runs the OnClose handlers, then it closes
\* the peer connections.
EngineCloses ==
  /\ engine = "up" /\ engine' = "closing"
  /\ closer' = [closer EXCEPT !["engine"] = "once"]
  /\ UNCHANGED <<broken, once, channel>> /\ CloserUnchanged

EngineClosed ==
  /\ engine = "closing" /\ closer["engine"] = "returned"
  /\ engine' = "closed" /\ Cut(TRUE)
  /\ UNCHANGED <<broken, once, closer>> /\ CloserUnchanged

-----------------------------------------------------------------------------
(* The data channel.                                                       *)

LinkDies ==
  /\ LinkMayDie /\ ~channel.dead /\ channel.lost < MaxLosses
  /\ channel' = [channel EXCEPT !.dead = TRUE]
  /\ UNCHANGED <<writerVars, readerVars>>

\* A full reconnect makes new peer connections, and the reliable channel with them.
ReplaceChannel ==
  /\ engine # "closed" /\ channel.lost < MaxLosses /\ Cut(FALSE)
  /\ UNCHANGED <<writerVars, readerVars>>

-----------------------------------------------------------------------------
(* The receiving room.                                                     *)

Receive(type) ==
  /\ room.reading = "idle" /\ channel.toRoom # <<>> /\ Head(channel.toRoom).type = type
  /\ channel' = [channel EXCEPT !.toRoom = Tail(@)]
  /\ UNCHANGED writerVars

\* OnStreamHeader: the topic's handler is looked up before the reader is listed.
OnStreamHeader ==
  /\ Receive("header") /\ room.at = "up"
  /\ room' = [room EXCEPT !.reading = "header"]
  /\ UNCHANGED reader

HeaderIgnored == Receive("header") /\ room.at # "up" /\ UNCHANGED readerVars

StoreReader ==
  /\ room.reading = "header"
  /\ room' = [room EXCEPT !.reading = "idle", !.raced = room.at # "up"]
  /\ reader' = [reader EXCEPT !.listed = TRUE, !.app = "reading"]
  /\ UNCHANGED <<writerVars, channel>>

OnStreamChunk ==
  /\ Receive("chunk")
  /\ reader' = IF ~reader.listed \/ reader.closed THEN reader
               ELSE [reader EXCEPT !.buf = Append(@, Head(channel.toRoom)),
                                   !.app = IF @ = "waiting" THEN "reading" ELSE @]
  /\ UNCHANGED room

\* close: the flag is set first, the waiting reads are woken after it.
CloseReader == [reader EXCEPT !.closed = TRUE, !.broadcast = @ \/ ~reader.closed, !.listed = FALSE]

OnStreamTrailer ==
  /\ Receive("trailer")
  /\ reader' = IF reader.listed THEN CloseReader ELSE reader
  /\ UNCHANGED room

Broadcast ==
  /\ reader.broadcast
  /\ reader' = [reader EXCEPT !.broadcast = FALSE, !.app = IF @ = "waiting" THEN "reading" ELSE @]
  /\ UNCHANGED <<writerVars, channel, room>>

\* Mutant: the readers are forgotten, not closed.
CloseReaders_Not == UNCHANGED reader

\* cleanup closes the readers it finds.
CloseReaders == reader' = IF reader.listed THEN [CloseReader EXCEPT !.listed = TRUE] ELSE reader

\* Room.cleanup: the handlers go, then the readers.
Cleanup ==
  /\ \/ room.at = "up" /\ room' = [room EXCEPT !.at = "handlers", !.raced = room.reading = "header"]
        /\ UNCHANGED reader
     \/ room.at = "handlers" /\ room' = [room EXCEPT !.at = "closing"] /\ CloseReaders
     \/ room.at = "closing" /\ room' = [room EXCEPT !.at = "cleared"]
        /\ reader' = [reader EXCEPT !.listed = FALSE]
  /\ UNCHANGED <<writerVars, channel>>

\* ReadAll waits, under the lock, until the stream is closed.
ReadAll ==
  /\ reader.app = "reading"
  /\ reader' = [reader EXCEPT !.app = IF reader.closed THEN "ended" ELSE "waiting"]
  /\ UNCHANGED <<writerVars, channel, room>>

-----------------------------------------------------------------------------
WriterStep ==
  \/ Take \/ Ends \/ Lock \/ SendChunk \/ OnDone \/ Closed
  \/ \E c \in Closers : Once(c) \/ SendTrailer(c) \/ Break(c)
  \/ EngineClosed
ReaderStep ==
  \/ OnStreamHeader \/ HeaderIgnored \/ StoreReader \/ OnStreamChunk \/ OnStreamTrailer
  \/ Broadcast \/ ReadAll

Next ==
  \/ \E c \in Callers : Write(c) \/ WriteGivesUp(c)
  \/ WriterStep \/ Close \/ EngineCloses \/ LinkDies \/ ReplaceChannel \/ ReaderStep \/ Cleanup

Spec == Init /\ [][Next]_vars
FairSpec == Spec /\ WF_vars(WriterStep)

-----------------------------------------------------------------------------
\* The tasks some chunk of which is in messages.
TasksOf(messages) == {messages[i].task : i \in DOMAIN messages}

\* Tasks one after the other, none twice and each with its chunks in order.
WholeTasks(messages) ==
  /\ messages # <<>> => messages[1].chunk = 1
  /\ \A i \in DOMAIN messages :
       IF messages[i].chunk # Chunks
       THEN i + 1 \in DOMAIN messages /\ messages[i + 1] = Chunk(messages[i].task, messages[i].chunk + 1)
       ELSE i + 1 \in DOMAIN messages => messages[i + 1].chunk = 1
  /\ \A i, j \in DOMAIN messages : messages[i] = messages[j] => i = j

\* What is read was published, in that order and each chunk once, whatever is lost.
ReadInOrder ==
  \A i, j \in DOMAIN reader.buf : i <= j =>
    \E p, q \in DOMAIN channel.sent :
      /\ channel.sent[p] = reader.buf[i] /\ channel.sent[q] = reader.buf[j]
      /\ i < j => p < q /\ reader.buf[i] # reader.buf[j]

\* When nobody but a task's onDone closes the stream, as with SendText and SendFile,
\* and no message was lost, all that was published is read, whole task by whole task.
ReadWhole ==
  channel.lost = 0 =>
    (reader.app = "ended" /\ room.at = "up" /\ {closer["app"], closer["engine"]} = {"idle"} =>
       /\ channel.sent = Append(reader.buf, Trailer)
       /\ WholeTasks(reader.buf) /\ reader.buf # <<>> /\ TasksOf(reader.buf) \subseteq finished)

\* What was handed over before the close is published.
SentWhole ==
  /\ ReadInOrder /\ ReadWhole
  /\ ~broken => \A t \in finished : \A i \in 1 .. Chunks :
       \E j \in DOMAIN channel.sent : channel.sent[j] = Chunk(t, i)

\* The trailer ends the stream: a task is not cut in two by it (it is
\* whole before it, or whole after it when the fuse breaks last).
TrailerBetweenTasks ==
  \A i \in 2 .. Len(channel.sent) - 1 : channel.sent[i].type = "trailer" =>
    channel.sent[i + 1].chunk = 1

\* Nobody is left waiting for the end of a stream that was closed, by its
\* trailer or by the room's cleanup, unless its header was being handled while
\* the room was cleaned up.
ReadersReleased ==
  reader.app = "waiting" /\ ~reader.broadcast => ~reader.closed /\ (room.at # "cleared" \/ room.raced)

\* Closing the engine is not stuck on a stream while its data channel drains: the
\* worker or somebody who closes can go on.
WorkerGoesOn ==
  \/ worker.at = "select" /\ (broken \/ \E c \in Callers : offer[c] # 0)
  \/ worker.at = "taken" /\ lock = Free
  \/ worker.at = "waiting" /\ ~channel.dead
  \/ worker.at = "onDone"
  \/ worker.at = "closing" /\ closer["worker"] = "returned"
CloserGoesOn(c) ==
  \/ closer[c] = "once" /\ once # "running"
  \/ closer[c] = "lock" /\ lock = Free
  \/ closer[c] = "break"
EngineCloseGoesOn ==
  engine = "closing" =>
    channel.dead \/ WorkerGoesOn \/ (\E c \in Closers : CloserGoesOn(c)) \/ closer["engine"] = "returned"

\* Violated: a chunk whose error is ignored (streams.go:199), or that was in a replaced
\* channel, is missing between those that are read, and the reader ends as usual.
ReadWithoutGap ==
  reader.app = "ended" /\ room.at = "up" /\ {closer["app"], closer["engine"]} = {"idle"} =>
    channel.sent = Append(reader.buf, Trailer)

\* "close sends a trailer and no data should be sent after that" (streams.go:138).
NothingAfterTrailer ==
  \A i \in 1 .. Len(channel.sent) - 1 : channel.sent[i].type # "trailer"

\* onDone is called "when the data provided is written to the stream" (streams.go:151).
DoneMeansWritten ==
  \A t \in finished : \A i \in 1 .. Chunks :
    \E j \in 1 .. Len(channel.sent) : channel.sent[j] = Chunk(t, i)

\* RTCEngine.Close closes the peer connections in the end.
EngineCloseReturns == engine = "closing" ~> engine = "closed"
=============================================================================
