------------------------------- MODULE Audit -------------------------------
(***************************************************************************)
(* The audit events of the server (internal/observers): the goroutine that *)
(* publishes an event starts one goroutine per observer.  The file         *)
(* observer writes a line under its mutex; the HTTP observer posts the     *)
(* event with retries, under its mutex during each attempt; the server     *)
(* closes both at the end of its shutdown, while goroutines may be left.   *)
(* ServerShutdown has the requests that publish the events.                *)
(***************************************************************************)
EXTENDS Naturals

CONSTANTS Events,     \* the events of a run
          AuditFile,  \* whether an audit file is configured
          AuditURL,   \* whether an audit URL is configured
          Attempts,   \* MaxRetries + 1
          Closer,     \* main, as the owner of a mutex
          Free        \* no owner

ASSUME AuditAssumption ==
  /\ AuditFile \in BOOLEAN /\ AuditURL \in BOOLEAN
  /\ Attempts \in Nat \ {0}
  /\ Closer \notin Events /\ Free \notin Events /\ Closer # Free

VARIABLES
  pub,       \* per event: the goroutine of the service, "none", "publish", "published"
  main,      \* "run", "closeFile", "sync", "closeHTTP", "stopped", "exited"
  file,      \* f.file: "open", "closed" (Close failed), "nil"
  fmu,       \* f.mu: its owner
  fpc,       \* per event: the file observer's goroutine, "none", "lock", "write", "over"
  foundOpen, \* history, per event: the file was open when its goroutine got f.mu
  line,      \* history, per event: "none", "written", "torn", "lost"
  hmu,       \* h.mu: its owner
  hpc,       \* per event: the HTTP observer's, "none", "lock", "post", "delay", "over"
  failures,  \* per event: attempts that failed with a network error
  outcome,   \* history, per event: "none", "sent", "refused", "failed"
  received,  \* history, per event: how often the audit server got it
  answers,   \* history, per event: how often the observer got an answer below 500
  broken     \* history, per event: how often it got a 5xx answer

fileVars == <<file, fmu, fpc, foundOpen, line>>
httpVars == <<hmu, hpc, failures, outcome, received, answers, broken>>
auditVars == <<pub, main, fileVars, httpVars>>

\* NewFileObserver, NewHTTPObserver: one that cannot be made ends the server.
AuditInit ==
  /\ pub = [e \in Events |-> "none"] /\ main = "run"
  /\ file = (IF AuditFile THEN "open" ELSE "nil") /\ fmu = Free
  /\ fpc = [e \in Events |-> "none"] /\ foundOpen = [e \in Events |-> FALSE]
  /\ line = [e \in Events |-> "none"]
  /\ hmu = Free /\ hpc = [e \in Events |-> "none"]
  /\ failures = [e \in Events |-> 0] /\ outcome = [e \in Events |-> "none"]
  /\ received = [e \in Events |-> 0] /\ answers = [e \in Events |-> 0]
  /\ broken = [e \in Events |-> 0]

Alive == main # "exited"

-----------------------------------------------------------------------------
(* The publisher.                                                          *)

\* The service starts the goroutine after a batch was stored.
Processed(e) ==
  /\ Alive /\ pub[e] = "none"
  /\ pub' = [pub EXCEPT ![e] = "publish"]
  /\ UNCHANGED <<main, fileVars, httpVars>>

\* A goroutine per registered observer; the HTTP observer starts another one.
Publish(e) ==
  /\ Alive /\ pub[e] = "publish"
  /\ pub' = [pub EXCEPT ![e] = "published"]
  /\ fpc' = [fpc EXCEPT ![e] = IF AuditFile THEN "lock" ELSE "over"]
  /\ hpc' = [hpc EXCEPT ![e] = IF AuditURL THEN "lock" ELSE "over"]
  /\ UNCHANGED <<main, file, fmu, foundOpen, line, hmu, failures, outcome, received, answers,
                 broken>>

-----------------------------------------------------------------------------
(* FileObserver.                                                           *)

FileLock(e) ==
  /\ Alive /\ fpc[e] = "lock" /\ fmu = Free
  /\ fmu' = e /\ fpc' = [fpc EXCEPT ![e] = "write"]
  /\ foundOpen' = [foundOpen EXCEPT ![e] = file = "open"]
  /\ UNCHANGED <<pub, main, file, line, httpVars>>

\* Write succeeds or fails half-way on an open file, and returns an error for a
\* closed or a nil one; then the mutex is released.
FileWrite(e) ==
  /\ Alive /\ fpc[e] = "write"
  /\ \E l \in IF file = "open" THEN {"written", "torn"} ELSE {"lost"} :
       line' = [line EXCEPT ![e] = l]
  /\ fmu' = Free /\ fpc' = [fpc EXCEPT ![e] = "over"]
  /\ UNCHANGED <<pub, main, file, foundOpen, httpVars>>

\* Mutant: Close does not take the mutex.
FileCloseUnlocked ==
  /\ Alive /\ main = "closeFile"
  /\ main' = "sync"
  /\ UNCHANGED <<pub, fileVars, httpVars>>

\* Close: lock, and nothing more for a nil file; Sync ...
FileClose ==
  /\ Alive /\ main = "closeFile" /\ fmu = Free
  /\ IF file = "nil" THEN main' = "closeHTTP" /\ UNCHANGED fmu ELSE main' = "sync" /\ fmu' = Closer
  /\ UNCHANGED <<pub, file, fpc, foundOpen, line, httpVars>>

\* ... and Close of the file; after an error f.file keeps the closed file.
FileCloses ==
  /\ Alive /\ main = "sync"
  /\ file' \in {"nil", "closed"}
  /\ main' = "closeHTTP" /\ fmu' = Free
  /\ UNCHANGED <<pub, fpc, foundOpen, line, httpVars>>

-----------------------------------------------------------------------------
(* HTTPObserver: sendEventAsync with retry.Do, whose context is never done. *)

HTTPLock(e) ==
  /\ Alive /\ hpc[e] = "lock" /\ hmu = Free
  /\ hmu' = e /\ hpc' = [hpc EXCEPT ![e] = "post"]
  /\ UNCHANGED <<pub, main, fileVars, failures, outcome, received, answers, broken>>

\* The attempt of e ends: the deferred Unlock, and where retry.Do goes.
AttemptEnds(e, to, k) ==
  /\ Alive /\ hpc[e] = "post"
  /\ hmu' = Free /\ hpc' = [hpc EXCEPT ![e] = to]
  /\ received' = [received EXCEPT ![e] = @ + k]
  /\ UNCHANGED <<pub, main, fileVars>>

Accepted(e) ==
  /\ AttemptEnds(e, "over", 1)
  /\ outcome' = [outcome EXCEPT ![e] = "sent"] /\ answers' = [answers EXCEPT ![e] = @ + 1]
  /\ UNCHANGED <<failures, broken>>

\* Mutant: the branch for a client error returns with the mutex locked.
ClientErrorKeepsLock(e) ==
  /\ Alive /\ hpc[e] = "post"
  /\ hpc' = [hpc EXCEPT ![e] = "over"] /\ received' = [received EXCEPT ![e] = @ + 1]
  /\ outcome' = [outcome EXCEPT ![e] = "refused"] /\ answers' = [answers EXCEPT ![e] = @ + 1]
  /\ UNCHANGED <<pub, main, fileVars, hmu, failures, broken>>

\* Mutant: the branch for a client error returns an error that is retried.
ClientErrorRetried(e) ==
  /\ failures' = [failures EXCEPT ![e] = @ + 1]
  /\ IF failures[e] + 1 < Attempts
       THEN AttemptEnds(e, "delay", 1) /\ UNCHANGED outcome
       ELSE AttemptEnds(e, "over", 1) /\ outcome' = [outcome EXCEPT ![e] = "failed"]
  /\ answers' = [answers EXCEPT ![e] = @ + 1]
  /\ UNCHANGED broken

\* 4xx: op returns nil.
ClientError(e) ==
  /\ AttemptEnds(e, "over", 1)
  /\ outcome' = [outcome EXCEPT ![e] = "refused"] /\ answers' = [answers EXCEPT ![e] = @ + 1]
  /\ UNCHANGED <<failures, broken>>

\* A network error may come before or after the audit server got the event.
NetworkError(e, k) ==
  /\ failures' = [failures EXCEPT ![e] = @ + 1]
  /\ IF failures[e] + 1 < Attempts
       THEN AttemptEnds(e, "delay", k) /\ UNCHANGED outcome
       ELSE AttemptEnds(e, "over", k) /\ outcome' = [outcome EXCEPT ![e] = "failed"]
  /\ UNCHANGED <<answers, broken>>

\* 5xx: the error "HTTP n" is not one isNetworkError knows.
ServerError(e) ==
  /\ AttemptEnds(e, "over", 1)
  /\ outcome' = [outcome EXCEPT ![e] = "failed"] /\ broken' = [broken EXCEPT ![e] = @ + 1]
  /\ UNCHANGED <<failures, answers>>

\* Any other error, a timeout of the client ("Client.Timeout") among them.
OtherError(e, k) ==
  /\ AttemptEnds(e, "over", k)
  /\ outcome' = [outcome EXCEPT ![e] = "failed"]
  /\ UNCHANGED <<failures, answers, broken>>

Delay(e) ==
  /\ Alive /\ hpc[e] = "delay"
  /\ hpc' = [hpc EXCEPT ![e] = "lock"]
  /\ UNCHANGED <<pub, main, fileVars, hmu, failures, outcome, received, answers, broken>>

Attempt(e) ==
  \/ Accepted(e) \/ ClientError(e) \/ ServerError(e)
  \/ \E k \in {0, 1} : NetworkError(e, k) \/ OtherError(e, k)

-----------------------------------------------------------------------------
(* The end of waitForShutdown, and of the process.                         *)

\* The resources are closed in the order they were made.
CloseObservers ==
  /\ main = "run" /\ main' = "closeFile"
  /\ UNCHANGED <<pub, fileVars, httpVars>>

\* CloseIdleConnections leaves the requests under way alone.
HTTPClose ==
  /\ main = "closeHTTP" /\ main' = "stopped"
  /\ UNCHANGED <<pub, fileVars, httpVars>>

Exit ==
  /\ main = "stopped" /\ main' = "exited"
  /\ UNCHANGED <<pub, fileVars, httpVars>>

OnMetricProcessed(e) == FileWrite(e) \/ Attempt(e) \/ Delay(e)

Locks(e) == FileLock(e) \/ HTTPLock(e)

Close == FileClose \/ FileCloses \/ HTTPClose

AuditNext ==
  \/ \E e \in Events : Processed(e) \/ Publish(e) \/ Locks(e) \/ OnMetricProcessed(e)
  \/ CloseObservers \/ Close \/ Exit

AuditSpec == AuditInit /\ [][AuditNext]_auditVars

\* Goroutines go on (a POST ends: the client's timeout is 10 seconds), and
\* nobody waits for ever for a mutex that becomes free again and again:
\* sync.Mutex hands itself to a waiter that starves.
Fairness ==
  /\ \A e \in Events :
       /\ WF_auditVars(Publish(e)) /\ WF_auditVars(FileWrite(e)) /\ WF_auditVars(Attempt(e))
       /\ WF_auditVars(Delay(e)) /\ SF_auditVars(FileLock(e)) /\ SF_auditVars(HTTPLock(e))
  /\ SF_auditVars(FileClose) /\ WF_auditVars(FileCloses) /\ WF_auditVars(HTTPClose)

AuditFairSpec == AuditSpec /\ Fairness

-----------------------------------------------------------------------------
(* Properties.                                                             *)

\* An event whose goroutine found the audit file open is in the file, or the
\* write itself failed: Close never takes the file away from a writer
\* (file_observer.go:36, :64), and what is lost came after Close.
WritesSurviveClose ==
  \A e \in Events : line[e] = "lost" => ~foundOpen[e] /\ file # "open"

\* "Client error, not retrying" (http_observer.go:94): once the audit server
\* has taken or refused an event, the event is never sent again, whatever
\* failed before; and it is sent at most once per attempt.
AnswerIsFinal ==
  \A e \in Events :
    /\ received[e] <= Attempts
    /\ answers[e] <= 1
    /\ answers[e] = 1 => hpc[e] = "over" /\ failures[e] + broken[e] < Attempts
    /\ outcome[e] \in {"sent", "refused"} => received[e] > 0

\* "Server error, will retry" (http_observer.go:86): an event the audit server
\* answered with a 5xx is given up only after the last attempt.
ServerErrorsRetried ==
  \A e \in Events :
    outcome[e] = "failed" /\ broken[e] > 0 => failures[e] + broken[e] >= Attempts

\* Unless the process ends before, each event that is published is settled by
\* both observers, although every attempt holds the mutex for a whole POST and
\* the events compete for it with their retries.
EventsSettle ==
  \A e \in Events :
    pub[e] = "publish" ~> (fpc[e] = "over" /\ hpc[e] = "over") \/ main = "exited"
=============================================================================
