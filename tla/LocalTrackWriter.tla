-------------------------- MODULE LocalTrackWriter --------------------------
(***************************************************************************)
(* The writers of a LocalTrack (localtrack.go).  Each Bind by a peer       *)
(* connection, and each StartWrite while bound, starts a goroutine         *)
(* (writeWorker) that reads samples from a provider; a new one cancels the *)
(* one before it and waits for its end, since NextSample is not            *)
(* thread-safe.                                                            *)
(***************************************************************************)
EXTENDS Naturals

CONSTANTS
  Providers,
  NONE,
  MaxWorkers    \* bound: writers started

WriterAssumption == MaxWorkers \in Nat /\ NONE \notin Providers

Workers == 1 .. MaxWorkers

VARIABLES
  track,      \* bound, provider, the writer cancelWrite belongs to (or 0)
  startup,    \* the writer that holds writeStartupLock, or 0
  writer,     \* each goroutine: its place, provider, predecessor, context
  source,     \* each provider: "open", "ended" (EOF) or "closed"
  completed,  \* calls of onWriteComplete, and those while the provider had more
  failed      \* goroutines ended by an error of NextSample or WriteSample

vars == <<track, startup, writer, source, completed, failed>>

Places == {"none", "start", "wait", "next", "sleep", "done"}

TypeOK ==
  /\ track.bound \in BOOLEAN /\ track.provider \in Providers \cup {NONE}
  /\ track.cancelWrite \in 0 .. MaxWorkers /\ startup \in 0 .. MaxWorkers
  /\ \A w \in Workers : writer[w].at \in Places /\ writer[w].previous \in 0 .. MaxWorkers
  /\ source \in [Providers -> {"open", "ended", "closed"}]
  /\ completed.early <= completed.calls /\ completed.calls <= MaxWorkers
  /\ failed \subseteq Workers

Init ==
  /\ track = [bound |-> FALSE, provider |-> NONE, cancelWrite |-> 0]
  /\ startup = 0
  /\ writer = [w \in Workers |->
                 [at |-> "none", provider |-> NONE, previous |-> 0, cancelled |-> FALSE]]
  /\ source = [p \in Providers |-> "open"]
  /\ completed = [calls |-> 0, early |-> 0] /\ failed = {}

-----------------------------------------------------------------------------
(* The peer connection and the application.                                *)

Unused == {w \in Workers : writer[w].at = "none"}
NextWorker == CHOOSE w \in Unused : TRUE

\* Mutant: a track that was written before needs no new writer.
Spawn_Once(p) ==
  writer' = IF track.cancelWrite # 0 THEN writer
            ELSE [writer EXCEPT ![NextWorker].at = "start", ![NextWorker].provider = p]

Spawn(p) ==
  writer' = [writer EXCEPT ![NextWorker].at = "start", ![NextWorker].provider = p]

Bind ==
  /\ ~track.bound /\ Unused # {}
  /\ track' = [track EXCEPT !.bound = TRUE]
  /\ IF track.provider # NONE THEN Spawn(track.provider) ELSE UNCHANGED writer
  /\ UNCHANGED <<startup, source, completed, failed>>

Cancelled(w) == IF w = 0 THEN writer ELSE [writer EXCEPT ![w].cancelled = TRUE]

Unbind ==
  /\ track.bound
  /\ track' = [track EXCEPT !.bound = FALSE]
  /\ writer' = Cancelled(track.cancelWrite)
  /\ UNCHANGED <<startup, source, completed, failed>>

StartWrite(p) ==
  /\ track.provider # p /\ Unused # {}
  /\ track' = [track EXCEPT !.provider = p]
  /\ IF track.bound THEN Spawn(p) ELSE UNCHANGED writer
  /\ UNCHANGED <<startup, source, completed, failed>>

Close ==
  /\ track.provider # NONE /\ source[track.provider] # "closed"
  /\ writer' = Cancelled(track.cancelWrite)
  /\ source' = [source EXCEPT ![track.provider] = "closed"]
  /\ UNCHANGED <<track, startup, completed, failed>>

-----------------------------------------------------------------------------
(* writeWorker.                                                            *)

Lock(w) ==
  /\ writer[w].at = "start" /\ startup = 0
  /\ startup' = w
  /\ writer' = [Cancelled(track.cancelWrite) EXCEPT ![w].at = "wait", ![w].previous = track.cancelWrite]
  /\ UNCHANGED <<track, source, completed, failed>>

\* Mutant: the writer before is cancelled, its end not waited for.
PreviousClosed_Not(w) == TRUE

\* <-previousWriteClosed.
PreviousClosed(w) == writer[w].previous # 0 => writer[writer[w].previous].at = "done"

Begin(w) ==
  /\ writer[w].at = "wait" /\ PreviousClosed(w)
  /\ track' = [track EXCEPT !.cancelWrite = w] /\ startup' = 0
  /\ writer' = [writer EXCEPT ![w].at = "next"]
  /\ UNCHANGED <<source, completed, failed>>

\* onWriteComplete, whatever ended the writer.
End(w) ==
  /\ writer' = [writer EXCEPT ![w].at = "done"]
  /\ completed' = [calls |-> completed.calls + 1,
                   early |-> completed.early + IF source'[writer[w].provider] = "open" THEN 1 ELSE 0]

\* NextSample returns a sample, or EOF.  A writer that is late for the next
\* sample takes it at once, without a look at its context.
NextSample(w) ==
  /\ writer[w].at = "next" /\ source[writer[w].provider] = "open"
  /\ \/ writer' = [writer EXCEPT ![w].at = "sleep"] /\ UNCHANGED <<source, completed>>
     \/ UNCHANGED <<writer, source, completed>>
     \/ source' = [source EXCEPT ![writer[w].provider] = "ended"] /\ End(w)
  /\ UNCHANGED <<track, startup, failed>>

\* NextSample or WriteSample fails, whatever the provider still has.
SampleFails(w) ==
  /\ writer[w].at = "next"
  /\ failed' = failed \cup {w}
  /\ UNCHANGED <<track, startup, source>> /\ End(w)

NextSampleFails(w) ==
  /\ writer[w].at = "next" /\ source[writer[w].provider] # "open"
  /\ UNCHANGED <<track, startup, source, failed>> /\ End(w)

\* The timer and the context are waited for together.
Sleep(w) ==
  /\ writer[w].at = "sleep"
  /\ UNCHANGED <<track, startup, source, failed>>
  /\ \/ writer' = [writer EXCEPT ![w].at = "next"] /\ UNCHANGED completed
     \/ writer[w].cancelled /\ End(w)

-----------------------------------------------------------------------------
Next ==
  \/ Bind \/ Unbind \/ Close
  \/ \E p \in Providers : StartWrite(p)
  \/ \E w \in Workers : Lock(w) \/ Begin(w) \/ NextSample(w) \/ SampleFails(w) \/ NextSampleFails(w) \/ Sleep(w)

Spec == Init /\ [][Next]_vars

-----------------------------------------------------------------------------
Live == {w \in Workers : writer[w].at \in {"next", "sleep"}}
Starting == {w \in Workers : writer[w].at \in {"start", "wait"}}

\* "NextSample is not thread-safe" (localtrack.go:670): one goroutine at a
\* time reads the samples, whatever binds, unbinds and rebinds.
OneReader == \A v, w \in Live : v = w

\* A bound track whose provider has more is being written, or about to be:
\* no unbind, rebind or late goroutine leaves it without a live writer; but
\* for two cases: the goroutine that began last was started for another
\* provider, or an error of NextSample or WriteSample ended it.
WriterRuns ==
  track.bound /\ track.provider # NONE /\ source[track.provider] = "open" =>
    \/ Starting # {} \/ \E w \in Live : ~writer[w].cancelled
    \/ track.cancelWrite # 0 /\ writer[track.cancelWrite].provider # track.provider
    \/ track.cancelWrite \in failed

\* Violated: "could not write sample" (localtrack.go:691) ends the goroutine,
\* and nothing starts another while the track stays bound.
ErrorsOutlived ==
  track.bound /\ Starting = {} /\ track.cancelWrite \in failed =>
    source[writer[track.cancelWrite].provider] # "open"

\* The samples written are those of the provider given last, once its writer
\* has started.  Two goroutines started in turn may begin in the other order.
LastProviderWins ==
  track.bound /\ Starting = {} =>
    \A w \in Live : writer[w].cancelled \/ writer[w].provider = track.provider

\* onWriteComplete is to "notify when sample provider responds with EOF"
\* (localtrack.go:94).
CompleteMeansEOF == completed.early = 0
=============================================================================
