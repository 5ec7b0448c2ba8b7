--------------------------- MODULE ServerShutdown ---------------------------
(***************************************************************************)
(* The requests of the server and its graceful shutdown: the middlewares   *)
(* that count and limit requests, the update handler with its audit event, *)
(* and waitForShutdown (internal/server/server.go, handler/middlewares,    *)
(* metricsservice, observers, cmd/server/main.go).                         *)
(*                                                                         *)
(* Each request is one POST /updates on a connection of its own.  The      *)
(* storage is seen from outside: the updates it holds and those its Close  *)
(* saved; MemStorage has its inside.                                       *)
(***************************************************************************)
EXTENDS Integers, FiniteSets

CONSTANTS Requests,   \* the requests of a run
          Limit,      \* flag -l: concurrent requests, 0 for no limit
          AuditFile   \* whether an audit file is configured

ASSUME RequestsAssumption == IsFiniteSet(Requests)
ASSUME LimitAssumption == Limit \in Nat
ASSUME AuditAssumption == AuditFile \in BOOLEAN

VARIABLES
  listener,    \* "starting", "open", "failed", "closed"
  req,         \* per request: where its goroutine is
  status,      \* per request: the status the handler has chosen, 0 before
  event,       \* per request: its audit event's goroutines
  active,      \* the counter of the WaitGroup activeRequests
  semaphore,   \* tokens in the limiter's channel
  shutdownCh,  \* the channel is closed
  main,        \* the main goroutine
  late,        \* history: Shutdown or the wait for requests timed out
  stored,      \* the updates applied to the storage
  saved,       \* the updates in the file written by the storage's Close
  saveFailed,  \* the storage's Close returned an error
  auditOpen,   \* the audit file is open
  pprof        \* the pprof server runs

requests == <<req, status>>
counts == <<active, semaphore>>
storage == <<stored, saved, saveFailed>>
vars == <<listener, requests, event, counts, shutdownCh, main, late, storage, auditOpen, pprof>>

Init ==
  /\ listener = "starting"
  /\ req = [r \in Requests |-> "new"] /\ status = [r \in Requests |-> 0]
  /\ event = [r \in Requests |-> "none"]
  /\ active = 0 /\ semaphore = 0
  /\ shutdownCh = FALSE /\ main = "serve" /\ late = FALSE
  /\ stored = {} /\ saved = {} /\ saveFailed = FALSE
  /\ auditOpen = AuditFile /\ pprof = TRUE

Alive == main # "exited"

\* The request moves from one place to the next.
Moves(r, from, to) == req[r] = from /\ req' = [req EXCEPT ![r] = to]

\* net/http: the connection is not idle.
InProgress == {r \in Requests : req[r] \notin {"new", "refused", "answered"}}

-----------------------------------------------------------------------------
(* The listener.                                                           *)

\* A failed ListenAndServe is logged; the server goes on without listening.
Listen ==
  /\ Alive /\ listener = "starting"
  /\ listener' \in {"open", "failed"}
  /\ UNCHANGED <<requests, event, counts, shutdownCh, main, late, storage, auditOpen, pprof>>

Arrive(r) ==
  /\ Alive
  /\ \/ listener = "open" /\ Moves(r, "new", "check")
     \/ listener \in {"failed", "closed"} /\ Moves(r, "new", "refused")
  /\ UNCHANGED <<listener, status, event, counts, shutdownCh, main, late, storage, auditOpen,
                 pprof>>

-----------------------------------------------------------------------------
(* TrackActiveRequests: the check and the Add are two steps.               *)

Check(r) ==
  /\ Alive
  /\ \/ ~shutdownCh /\ Moves(r, "check", "add") /\ UNCHANGED status
     \/ shutdownCh /\ Moves(r, "check", "flush") /\ status' = [status EXCEPT ![r] = 503]
  /\ UNCHANGED <<listener, event, counts, shutdownCh, main, late, storage, auditOpen, pprof>>

Add(r) ==
  /\ Alive /\ Moves(r, "add", "limit")
  /\ active' = active + 1
  /\ UNCHANGED <<listener, status, event, semaphore, shutdownCh, main, late, storage, auditOpen,
                 pprof>>

-----------------------------------------------------------------------------
(* RateLimiter.                                                            *)

\* A limit of 0 lets every request through.
LimitPasses(r) ==
  /\ Alive /\ Moves(r, "limit", "handle")
  /\ Limit = 0 \/ semaphore < Limit
  /\ semaphore' = IF Limit = 0 THEN semaphore ELSE semaphore + 1
  /\ UNCHANGED <<listener, status, event, active, shutdownCh, main, late, storage, auditOpen,
                 pprof>>

LimitRejects(r) ==
  /\ Alive /\ Limit > 0 /\ semaphore = Limit
  /\ Moves(r, "limit", "leave")
  /\ status' = [status EXCEPT ![r] = 429]
  /\ UNCHANGED <<listener, event, counts, shutdownCh, main, late, storage, auditOpen, pprof>>

-----------------------------------------------------------------------------
(* The handler: UpdateMetrics of the service stores the batch and, if that *)
(* succeeded, starts the goroutine that publishes the event.               *)

Handle(r) ==
  /\ Alive /\ Moves(r, "handle", "release")
  /\ \/ /\ stored' = stored \cup {r}
        /\ event' = [event EXCEPT ![r] = "publish"]
        /\ status' = [status EXCEPT ![r] = 200]
     \/ status' = [status EXCEPT ![r] = 500] /\ UNCHANGED <<stored, event>>
  /\ UNCHANGED <<listener, counts, shutdownCh, main, late, saved, saveFailed, auditOpen, pprof>>

\* Mutant: the token stays in the semaphore.
ReleaseNot(r) ==
  /\ Alive /\ Moves(r, "release", "leave")
  /\ UNCHANGED <<listener, status, event, counts, shutdownCh, main, late, storage, auditOpen,
                 pprof>>

\* The deferred functions: the semaphore's, then the WaitGroup's.
Release(r) ==
  /\ Alive /\ Moves(r, "release", "leave")
  /\ semaphore' = IF Limit = 0 THEN semaphore ELSE semaphore - 1
  /\ UNCHANGED <<listener, status, event, active, shutdownCh, main, late, storage, auditOpen,
                 pprof>>

Leave(r) ==
  /\ Alive /\ Moves(r, "leave", "flush")
  /\ active' = active - 1
  /\ UNCHANGED <<listener, status, event, semaphore, shutdownCh, main, late, storage, auditOpen,
                 pprof>>

\* net/http sends the response after the handler has returned.
Flush(r) ==
  /\ Alive /\ Moves(r, "flush", "answered")
  /\ UNCHANGED <<listener, status, event, counts, shutdownCh, main, late, storage, auditOpen,
                 pprof>>

-----------------------------------------------------------------------------
(* The audit event: Publish starts a goroutine per observer; the file      *)
(* observer writes under its mutex, and fails once the file is closed.     *)

Publish(r) ==
  /\ Alive /\ event[r] = "publish"
  /\ event' = [event EXCEPT ![r] = IF AuditFile THEN "observe" ELSE "published"]
  /\ UNCHANGED <<listener, requests, counts, shutdownCh, main, late, storage, auditOpen, pprof>>

OnMetricProcessed(r) ==
  /\ Alive /\ event[r] = "observe"
  /\ event' = [event EXCEPT ![r] = IF auditOpen THEN "written" ELSE "lost"]
  /\ UNCHANGED <<listener, requests, counts, shutdownCh, main, late, storage, auditOpen, pprof>>

-----------------------------------------------------------------------------
(* waitForShutdown, and the end of main.                                   *)

\* Where main goes next, when nothing else about it changes.
MainMoves(from, to) == Alive /\ main = from /\ main' = to

\* The signal arrives and shutdownCh is closed.
Signal ==
  /\ MainMoves("serve", "shutdown")
  /\ shutdownCh' = TRUE
  /\ UNCHANGED <<listener, requests, event, counts, late, storage, auditOpen, pprof>>

\* http.Server.Shutdown closes the listener ...
ShutdownCloses ==
  /\ MainMoves("shutdown", "draining")
  /\ listener' = "closed"
  /\ UNCHANGED <<requests, event, counts, shutdownCh, late, storage, auditOpen, pprof>>

\* Mutant: Shutdown does not wait for the connections.
ShutdownDrainsNot ==
  /\ MainMoves("draining", "wait")
  /\ UNCHANGED <<listener, requests, event, counts, shutdownCh, late, storage, auditOpen, pprof>>

\* ... and waits until every connection is idle ...
ShutdownDrains ==
  /\ MainMoves("draining", "wait")
  /\ InProgress = {}
  /\ UNCHANGED <<listener, requests, event, counts, shutdownCh, late, storage, auditOpen, pprof>>

\* ... or 30 seconds have passed.
ShutdownTimesOut ==
  /\ MainMoves("draining", "wait")
  /\ InProgress # {} /\ late' = TRUE
  /\ UNCHANGED <<listener, requests, event, counts, shutdownCh, storage, auditOpen, pprof>>

\* activeRequests.Wait() returns ...
WaitDone ==
  /\ MainMoves("wait", "close")
  /\ active = 0
  /\ UNCHANGED <<listener, requests, event, counts, shutdownCh, late, storage, auditOpen, pprof>>

\* Mutant: the wait for the requests has no timeout.
WaitTimesOutNot == WaitDone

\* ... or 10 seconds have passed.
WaitTimesOut ==
  /\ MainMoves("wait", "close")
  /\ active > 0 /\ late' = TRUE
  /\ UNCHANGED <<listener, requests, event, counts, shutdownCh, storage, auditOpen, pprof>>

\* The resources are closed in order, the storage first; errors are logged.
\* Close of the storage is one step here: its race with the periodic saver and
\* with the ticker that it sets to nil (memstorage.go:253-262) is in MemStorage.
CloseStorage ==
  /\ MainMoves("close", "closeAudit")
  /\ \/ saved' = stored /\ saveFailed' = FALSE
     \/ saveFailed' = TRUE /\ UNCHANGED saved
  /\ UNCHANGED <<listener, requests, event, counts, shutdownCh, late, stored, auditOpen, pprof>>

CloseAudit ==
  /\ MainMoves("closeAudit", "stopped")
  /\ auditOpen' = FALSE
  /\ UNCHANGED <<listener, requests, event, counts, shutdownCh, late, storage, pprof>>

\* main returns from Run and waits for the goroutine of the pprof server.
Exit ==
  /\ MainMoves("stopped", "exited")
  /\ ~pprof
  /\ UNCHANGED <<listener, requests, event, counts, shutdownCh, late, storage, auditOpen, pprof>>

\* ListenAndServe of the pprof server returns only if it cannot listen.
PprofFails ==
  /\ Alive /\ pprof /\ pprof' = FALSE
  /\ UNCHANGED <<listener, requests, event, counts, shutdownCh, main, late, storage, auditOpen>>

Shutdown ==
  \/ ShutdownCloses \/ ShutdownDrains \/ ShutdownTimesOut \/ WaitDone \/ WaitTimesOut
  \/ CloseStorage \/ CloseAudit \/ Exit

Request(r) ==
  \/ Arrive(r) \/ Check(r) \/ Add(r) \/ LimitPasses(r) \/ LimitRejects(r)
  \/ Handle(r) \/ Release(r) \/ Leave(r) \/ Flush(r)

Audit(r) == Publish(r) \/ OnMetricProcessed(r)

Next ==
  \/ Listen \/ PprofFails \/ Signal \/ Shutdown
  \/ \E r \in Requests : Request(r) \/ Audit(r)

Spec == Init /\ [][Next]_vars

\* The main goroutine and the timers go on; a handler may hang for ever (a
\* client that does not send its body), and no signal needs to come.
FairSpec == Spec /\ WF_vars(Shutdown)

-----------------------------------------------------------------------------
(* Properties.                                                             *)

\* Types of the server's state.
TypeOK ==
  /\ listener \in {"starting", "open", "failed", "closed"}
  /\ req \in [Requests -> {"new", "refused", "check", "add", "limit", "handle", "release",
                           "leave", "flush", "answered"}]
  /\ status \in [Requests -> {0, 200, 429, 500, 503}]
  /\ event \in [Requests -> {"none", "publish", "published", "observe", "written", "lost"}]
  /\ active \in Nat /\ semaphore \in 0 .. Limit
  /\ shutdownCh \in BOOLEAN /\ late \in BOOLEAN
  /\ main \in {"serve", "shutdown", "draining", "wait", "close", "closeAudit", "stopped",
               "exited"}
  /\ stored \in SUBSET Requests /\ saved \in SUBSET Requests /\ saveFailed \in BOOLEAN
  /\ auditOpen \in BOOLEAN /\ pprof \in BOOLEAN

Counted == {r \in Requests : req[r] \in {"limit", "handle", "release", "leave"}}
Holding == {r \in Requests : req[r] \in {"handle", "release"}}

\* The WaitGroup counts exactly the requests between Add and Done, also those
\* answered 429, and the limiter's tokens are exactly the requests in the
\* handler, never more than the limit: no path through the middlewares leaks a
\* count or a token.
CountsExact ==
  /\ active = Cardinality(Counted)
  /\ Limit > 0 => semaphore = Cardinality(Holding) /\ semaphore <= Limit

\* Unless a timeout cut the shutdown short, the resources are closed when no
\* request is left, so every update a client was told is stored (200) is in
\* the file, whatever request slipped past the check of shutdownCh before it
\* was counted.
GracefulSaves ==
  main \in {"closeAudit", "stopped", "exited"} /\ ~late =>
    /\ InProgress = {}
    /\ ~saveFailed => \A r \in Requests : status[r] = 200 => r \in saved

\* After the signal the resources get closed, even if a handler hangs (the
\* panic of the periodic saver that Close can cause is MemStorage's matter).
ResourcesGetClosed == main = "shutdown" ~> main \in {"stopped", "exited"}
=============================================================================
