------------------------------ MODULE Failover ------------------------------
(***************************************************************************)
(* Region failover of the API clients (failover.go) over the shared cache  *)
(* of region lists (regionurlprovider.go).  Each request is a goroutine    *)
(* inside failoverTransport.RoundTrip; all of them go to one project,      *)
(* whose region list they share.  The fetch of a list runs outside the     *)
(* cache's lock.                                                           *)
(***************************************************************************)
EXTENDS Naturals, Sequences, SequencesExt

CONSTANTS
  Requests, Deadlines, \* API calls, and those whose context has a deadline
  Project,             \* the host the requests are for
  Lists,               \* the region lists the server may answer: sequences of hosts
  failoverMaxAttempts,
  DefaultTTL,          \* whether a list without max-age is cached: FALSE for API calls
  CloudAPI,            \* the host is a Cloud API domain: no regions
  NONE

Hosts == {Project} \cup UNION {ToSet(l) : l \in Lists}

\* A list may be empty, and may list the project's own host.
FailoverAssumption ==
  /\ Deadlines \subseteq Requests
  /\ failoverMaxAttempts \in Nat \ {0}
  /\ {DefaultTTL, CloudAPI} \subseteq BOOLEAN
  /\ Lists \subseteq Seq(Hosts) /\ NONE \notin Lists \cup Hosts

VARIABLES
  req,     \* each request: the locals of failover, its context
  cache    \* the cached list, and whether its TTL still runs

vars == <<req, cache>>

\* live counts the per-attempt contexts not cancelled yet, path records each
\* attempt: its host, whether a list was heard, the regions known by it, and
\* whether a list was cached.
Fresh ==
  [at |-> "idle", host |-> Project, tried |-> {Project}, regions |-> NONE, path |-> <<>>,
   live |-> 0, body |-> FALSE,
   cause |-> "none", gaveUp |-> FALSE, forwarded |-> FALSE, watched |-> FALSE]

Places == {"idle", "send", "sending", "failed", "fetching", "backoff", "returned"}

TypeOK ==
  /\ \A r \in Requests :
       /\ req[r].at \in Places /\ req[r].host \in Hosts /\ req[r].tried \subseteq Hosts
       /\ req[r].regions \in Lists \cup {NONE} /\ req[r].live \in Nat
       /\ Len(req[r].path) <= failoverMaxAttempts
  /\ cache.list \in Lists \cup {NONE} /\ cache.fresh \in BOOLEAN

Init ==
  /\ req = [r \in Requests |-> Fresh]
  /\ cache = [list |-> NONE, fresh |-> FALSE]

-----------------------------------------------------------------------------
(* The caller's context.                                                   *)

\* withFailoverTimeout: a deadline is detached, and a goroutine watches it.
Call(r) ==
  /\ req[r].at = "idle"
  /\ req' = [req EXCEPT ![r].at = "send", ![r].watched = r \in Deadlines]
  /\ UNCHANGED cache

\* A context ends once: by its deadline or by its cancellation.
Ended(q, cause) == IF q.cause = "none" THEN cause ELSE q.cause

Cancel(r) ==
  /\ req[r].at # "idle" /\ ~req[r].gaveUp
  /\ req' = [req EXCEPT ![r].gaveUp = TRUE, ![r].forwarded = @ \/ r \notin Deadlines,
                         ![r].cause = Ended(req[r], "cancelled")]
  /\ UNCHANGED cache

Lapse(r) ==
  /\ req[r].at # "idle" /\ r \in Deadlines /\ req[r].cause = "none"
  /\ req' = [req EXCEPT ![r].cause = "lapsed"]
  /\ UNCHANGED cache

\* Mutant: the deadline of the request ends the attempts too.
Forwards_Always(q) == TRUE

Forwards(q) == q.cause = "cancelled"

\* detachDeadline's goroutine.
Watch(r) ==
  /\ req[r].watched /\ req[r].cause # "none"
  /\ req' = [req EXCEPT ![r].watched = FALSE, ![r].forwarded = @ \/ Forwards(req[r])]
  /\ UNCHANGED cache

-----------------------------------------------------------------------------
(* failover.                                                               *)

\* terminate: the attempt's context lasts until the body is closed.
Return(q, body) ==
  [q EXCEPT !.at = "returned", !.body = body, !.live = IF body THEN @ ELSE @ - 1]

Attempt(r) ==
  LET q == req[r]
      known == IF q.regions = NONE THEN {} ELSE ToSet(q.regions)
      sent == [q EXCEPT !.at = "sending", !.live = @ + 1,
                 !.path = Append(@, [host |-> q.host, heard |-> q.regions # NONE, known |-> known,
                                     cached |-> cache.list # NONE])]
  IN /\ q.at = "send"
     /\ req' = [req EXCEPT ![r] = sent]
     /\ UNCHANGED cache

LastAttempt(q) == Len(q.path) = failoverMaxAttempts

\* The attempt ends: answered or refused by the server, failed (5xx or an
\* error), or stopped by the cancellation.
Ends(r) ==
  LET q == req[r] IN
  /\ q.at = "sending"
  /\ \/ req' = [req EXCEPT ![r] = Return(q, TRUE)]
     \/ LastAttempt(q) /\ req' = [req EXCEPT ![r] = Return(q, FALSE)]
     \/ ~LastAttempt(q) /\ req' = [req EXCEPT ![r].at = "failed"]
  /\ UNCHANGED cache

Stopped(r) ==
  /\ req[r].at = "sending" /\ req[r].forwarded
  /\ req' = [req EXCEPT ![r] = Return(req[r], FALSE)]
  /\ UNCHANGED cache

\* The first region that has not been tried.
nextRegion(regions, tried) ==
  LET fresh == IF regions = NONE THEN {} ELSE {i \in DOMAIN regions : regions[i] \notin tried}
  IN IF fresh = {} THEN NONE ELSE regions[Min(fresh)]

\* Mutant: the response is read to its end, its context is not cancelled.
Retire_KeepsContext(q) == q

\* drainResponse and cancel.
Retire(q) == [q EXCEPT !.live = @ - 1]

\* The next host is chosen and the backoff begins.
Chosen(q, regions) ==
  LET next == nextRegion(regions, q.tried) IN
  [Retire(q) EXCEPT !.at = "backoff", !.regions = regions, !.host = IF next = NONE THEN @ ELSE next]

\* regionCache.get, while its entry is fresh.
Discover(r) ==
  LET q == req[r] IN
  /\ q.at = "failed"
  /\ req' = [req EXCEPT ![r] =
       IF q.regions # NONE \/ CloudAPI THEN Chosen(q, q.regions)
       ELSE IF cache.fresh THEN Chosen(q, cache.list)
       ELSE [q EXCEPT !.at = "fetching"]]
  /\ UNCHANGED cache

FetchOk(r) ==
  /\ req[r].at = "fetching"
  /\ \E list \in Lists, maxAge \in BOOLEAN :
       /\ req' = [req EXCEPT ![r] = Chosen(@, list)]
       /\ cache' = IF maxAge \/ DefaultTTL THEN [list |-> list, fresh |-> TRUE] ELSE cache

\* Mutant: an entry past its TTL is not served.
Stale_Nothing == IF cache.fresh THEN cache.list ELSE NONE

Stale == cache.list

FetchFails(r) ==
  /\ req[r].at = "fetching"
  /\ req' = [req EXCEPT ![r] = Chosen(@, Stale)]
  /\ UNCHANGED cache

Expires ==
  /\ cache.fresh /\ cache' = [cache EXCEPT !.fresh = FALSE]
  /\ UNCHANGED req

\* Mutant: the hosts tried are not remembered.
Mark_Forgets(q) == q.tried

Mark(q) == q.tried \cup {q.host}

\* sleepCtx: when both are due, either may be taken.
Backoff(r) ==
  LET q == req[r] IN
  /\ q.at = "backoff"
  /\ \/ req' = [req EXCEPT ![r].at = "send", ![r].tried = Mark(q)]
     \/ q.forwarded /\ req' = [req EXCEPT ![r].at = "returned"]
  /\ UNCHANGED cache

\* cancelOnClose.Close.
Close(r) ==
  /\ req[r].at = "returned" /\ req[r].body
  /\ req' = [req EXCEPT ![r].body = FALSE, ![r].live = @ - 1]
  /\ UNCHANGED cache

-----------------------------------------------------------------------------
Next ==
  \/ \E r \in Requests :
       \/ Call(r) \/ Cancel(r) \/ Lapse(r) \/ Watch(r)
       \/ Attempt(r) \/ Ends(r) \/ Stopped(r) \/ Discover(r)
       \/ FetchOk(r) \/ FetchFails(r) \/ Backoff(r) \/ Close(r)
  \/ Expires

Spec == Init /\ [][Next]_vars

-----------------------------------------------------------------------------
\* A host is tried twice only when every region known by then was tried; if a
\* list was cached when an attempt began, one is known once it has failed.
FreshRegions ==
  \A r \in Requests : LET path == req[r].path IN
    \A j \in 2 .. Len(path) :
      /\ path[j - 1].cached => path[j].heard
      /\ (\E i \in 1 .. j - 1 : path[i].host = path[j].host) =>
           path[j].known \subseteq {path[i].host : i \in 1 .. j - 1}

\* A request holds the context of at most one attempt, and none once it has
\* returned and its body, if any, was closed.
ContextsReleased ==
  \A r \in Requests :
    req[r].live = IF req[r].at \in {"sending", "failed", "fetching"} \/ req[r].body THEN 1 ELSE 0

\* The contexts of the attempts end by the caller's cancellation only: a
\* deadline that lapses during the failover does not cut it short.
DeadlineDetached ==
  \A r \in Requests : req[r].forwarded => req[r].gaveUp

\* detachDeadline "propagates parent's explicit cancellation" (failover.go:138):
\* the attempts of a request its caller gave up hear of it, now or soon.
CancelForwarded ==
  \A r \in Requests : req[r].gaveUp => req[r].forwarded \/ req[r].watched
=============================================================================
