------------------------------- MODULE Agent -------------------------------
(***************************************************************************)
(* The agent with a rate limit: the collector's goroutine polls and counts *)
(* the polls, the reporter's goroutine hands what was collected to the     *)
(* worker pool and resets the count, the workers post it to the server     *)
(* with retries, and the main goroutine stops everything on a signal       *)
(* (internal/agent: app.go, collector, reporter, sender, client).          *)
(*                                                                         *)
(* Report number n is the task n of the pool.  The history variables keep, *)
(* for each report, the polls whose count it carries and how often the     *)
(* server applied it.                                                      *)
(***************************************************************************)
EXTENDS WorkerPool

CONSTANTS MaxReports,  \* bound: reports made in a run
          MaxPolls,    \* bound: polls made in a run
          Attempts,    \* MaxRetries + 1
          Delays       \* number of configured retry delays

ASSUME AgentAssumption ==
  /\ MaxReports \in Nat /\ MaxPolls \in Nat
  /\ Attempts \in Nat \ {0} /\ Delays \in Nat
  /\ Task = 1 .. MaxReports
ASSUME LimitAssumption == QueueSize = 2 * Cardinality(Workers)

VARIABLES
  signalled,  \* the context of main is done
  main,       \* "run", "ticker", "sender", "wait", "exited": see the shutdown
  cticker,    \* the collector's ticker runs
  cpc,        \* the collector's goroutine: "select", "collect", "returned"
  pollCount,  \* mc.pollCount
  polls,      \* history: number of polls
  fresh,      \* history: the polls counted in pollCount
  rticker,    \* the reporter's ticker runs
  rpc,        \* the reporter's goroutine: "select", "send", "reset", "returned"
  rn,         \* number of the last report
  delta,      \* per report: the count it carries
  covers,     \* history, per report: the polls it counts
  att,        \* per worker: failed attempts of the send it runs
  applied     \* history, per report: how often the server applied it

collectorVars == <<cticker, cpc, pollCount, polls, fresh>>
reporterVars == <<rticker, rpc, rn, delta, covers>>
sendVars == <<att, applied>>
agentVars == <<poolVars, signalled, main, collectorVars, reporterVars, sendVars>>

Init ==
  /\ PoolInit
  /\ signalled = FALSE /\ main = "run"
  /\ cticker = TRUE /\ cpc = "select" /\ pollCount = 0 /\ polls = 0 /\ fresh = {}
  /\ rticker = TRUE /\ rpc = "select" /\ rn = 0
  /\ delta = [n \in Task |-> 0] /\ covers = [n \in Task |-> {}]
  /\ att = [w \in Workers |-> 0] /\ applied = [n \in Task |-> 0]

\* The process runs: it has neither returned from main nor panicked.
Alive == ~panicked /\ main # "exited"

-----------------------------------------------------------------------------
(* The collector.                                                          *)

PollTick ==
  /\ Alive /\ cpc = "select" /\ cticker /\ polls < MaxPolls
  /\ cpc' = "collect"
  /\ UNCHANGED <<poolVars, signalled, main, cticker, pollCount, polls, fresh, reporterVars,
                 sendVars>>

\* collectFromAllProviders, under the mutex: the poll counts even if every
\* provider fails.
Collect ==
  /\ Alive /\ cpc = "collect"
  /\ cpc' = "select"
  /\ pollCount' = pollCount + 1
  /\ polls' = polls + 1 /\ fresh' = fresh \cup {polls + 1}
  /\ UNCHANGED <<poolVars, signalled, main, cticker, reporterVars, sendVars>>

CollectorReturns ==
  /\ Alive /\ cpc = "select" /\ signalled
  /\ cpc' = "returned"
  /\ UNCHANGED <<poolVars, signalled, main, cticker, pollCount, polls, fresh, reporterVars,
                 sendVars>>

-----------------------------------------------------------------------------
(* The reporter: GetMetrics, Send, ResetCount are three separate calls.    *)

\* Tick and GetMetrics.
GetMetrics ==
  /\ Alive /\ rpc = "select" /\ rticker /\ rn < MaxReports
  /\ rpc' = "send" /\ rn' = rn + 1
  /\ delta' = [delta EXCEPT ![rn + 1] = pollCount]
  /\ covers' = [covers EXCEPT ![rn + 1] = fresh]
  /\ UNCHANGED <<poolVars, signalled, main, collectorVars, rticker, sendVars>>

\* Send: its error is nil whether or not the pool took the task.
Send ==
  /\ Alive /\ rpc = "send"
  /\ SubmitTakes(rn) \/ SubmitDrops(rn) \/ SubmitPanics(rn)
  /\ rpc' = "reset"
  /\ UNCHANGED <<signalled, main, collectorVars, rticker, rn, delta, covers, sendVars>>

\* Mutant: the count is not reset after a report.
ResetCountNot ==
  /\ Alive /\ rpc = "reset"
  /\ rpc' = "select"
  /\ UNCHANGED <<poolVars, signalled, main, collectorVars, rticker, rn, delta, covers,
                 sendVars>>

\* ResetCount forgets also the polls made since GetMetrics.
ResetCount ==
  /\ Alive /\ rpc = "reset"
  /\ rpc' = "select"
  /\ pollCount' = 0 /\ fresh' = {}
  /\ UNCHANGED <<poolVars, signalled, main, cticker, cpc, polls, rticker, rn, delta, covers,
                 sendVars>>

\* Mutant: the reporter's loop has no case for the context.
ReporterReturnsNever ==
  /\ FALSE
  /\ UNCHANGED agentVars

ReporterReturns ==
  /\ Alive /\ rpc = "select" /\ signalled
  /\ rpc' = "returned"
  /\ UNCHANGED <<poolVars, signalled, main, collectorVars, rticker, rn, delta, covers,
                 sendVars>>

-----------------------------------------------------------------------------
(* The workers: a task is a POST with retries (client, retry).             *)

WorkerStep(w) ==
  /\ Alive /\ Worker(w)
  /\ UNCHANGED <<signalled, main, collectorVars, reporterVars, sendVars>>

\* The server gets the report k more times and the send returns.
SendReturns(w, k) ==
  /\ Alive /\ Finish(w)
  /\ applied' = [applied EXCEPT ![wtask[w]] = @ + k]
  /\ att' = [att EXCEPT ![w] = 0]
  /\ UNCHANGED <<signalled, main, collectorVars, reporterVars>>

\* Success; or an error that is not retried, which may have hit the answer
\* only; or the last attempt has failed.
LastAttempt(w) == \E k \in {0, 1} : SendReturns(w, k)

\* Mutant: the loop does not count its attempts.
AttemptFailsUncounted(w, k) ==
  /\ Alive /\ wpc[w] = "run" /\ att[w] + 1 < Attempts
  /\ applied' = [applied EXCEPT ![wtask[w]] = @ + k]
  /\ UNCHANGED <<att, poolVars, signalled, main, collectorVars, reporterVars>>

\* A network error, before or after the server applied the report.
AttemptFails(w, k) ==
  /\ Alive /\ wpc[w] = "run" /\ att[w] + 1 < Attempts
  /\ att' = [att EXCEPT ![w] = @ + 1]
  /\ applied' = [applied EXCEPT ![wtask[w]] = @ + k]
  /\ UNCHANGED <<poolVars, signalled, main, collectorVars, reporterVars>>

\* The context ends the wait for the next attempt.
RetryCancelled(w) ==
  /\ signalled /\ att[w] \in 1 .. Delays
  /\ SendReturns(w, 0)

Sending(w) ==
  \/ LastAttempt(w)
  \/ \E k \in {0, 1} : AttemptFails(w, k)
  \/ RetryCancelled(w)

-----------------------------------------------------------------------------
(* Shutdown: App.Run returns on the signal, App.Wait stops the collector's *)
(* ticker, the reporter's ticker, the sender, and waits for the reporter.  *)

Signal ==
  /\ Alive /\ ~signalled
  /\ signalled' = TRUE
  /\ UNCHANGED <<poolVars, main, collectorVars, reporterVars, sendVars>>

CollectorStop ==
  /\ Alive /\ main = "run" /\ signalled
  /\ cticker' = FALSE /\ main' = "ticker"
  /\ UNCHANGED <<poolVars, signalled, cpc, pollCount, polls, fresh, reporterVars, sendVars>>

ReporterStopTicker ==
  /\ Alive /\ main = "ticker"
  /\ rticker' = FALSE /\ main' = "sender"
  /\ UNCHANGED <<poolVars, signalled, collectorVars, rpc, rn, delta, covers, sendVars>>

\* Mutant: the pool is stopped a second time.
SenderStopAgain ==
  /\ Alive /\ main = "sender"
  /\ \/ (StopCancels \/ StopCloses) /\ main' = main
     \/ StopReturns /\ main' = "wait"
     \/ /\ stop = "closing" /\ stop' = "idle" /\ main' = main
        /\ UNCHANGED <<channel, workers, stats, panicked, history>>
  /\ UNCHANGED <<signalled, collectorVars, reporterVars, sendVars>>

\* sender.Stop is the pool's Stop.
SenderStop ==
  /\ Alive /\ main = "sender"
  /\ \/ (StopCancels \/ StopCloses) /\ main' = main
     \/ StopReturns /\ main' = "wait"
  /\ UNCHANGED <<signalled, collectorVars, reporterVars, sendVars>>

\* Mutant: Stop does not wait for the reporter's goroutine.
ReporterStopWaitsNot ==
  /\ Alive /\ main = "wait"
  /\ main' = "exited"
  /\ UNCHANGED <<poolVars, signalled, collectorVars, reporterVars, sendVars>>

\* mr.wg.Wait(), and main returns.
ReporterStopWaits ==
  /\ Alive /\ main = "wait" /\ rpc = "returned"
  /\ main' = "exited"
  /\ UNCHANGED <<poolVars, signalled, collectorVars, reporterVars, sendVars>>

Shutdown == CollectorStop \/ ReporterStopTicker \/ SenderStop \/ ReporterStopWaits

Reporter == GetMetrics \/ Send \/ ResetCount \/ ReporterReturns

Collector == PollTick \/ Collect \/ CollectorReturns

Next ==
  \/ Collector \/ Reporter
  \/ \E w \in Workers : WorkerStep(w) \/ Sending(w)
  \/ Signal \/ Shutdown

Spec == Init /\ [][Next]_agentVars

\* Every goroutine that can go on does; a POST ends (the client's timeout is
\* 20 seconds).  No ticker needs to fire and no signal needs to come.
Fairness ==
  /\ WF_agentVars(Send \/ ResetCount) /\ WF_agentVars(ReporterReturns)
  /\ WF_agentVars(Shutdown)
  /\ \A w \in Workers : WF_agentVars(WorkerStep(w)) /\ WF_agentVars(LastAttempt(w))

FairSpec == Spec /\ Fairness

-----------------------------------------------------------------------------
(* Properties.                                                             *)

\* No poll is counted in two reports: although GetMetrics and ResetCount are
\* separate critical sections, the counts sent to the server never add up to
\* more than the polls (retries of the same report aside).
PollsReportedOnce ==
  /\ \A m, n \in Task : m # n => covers[m] \cap covers[n] = {}
  /\ \A n \in Task : delta[n] = Cardinality(covers[n])

\* The server applies a report at most once per attempt, and a report that the
\* pool dropped, or that no worker has received, never.
DeliveryBounded ==
  \A n \in Task : /\ applied[n] <= Attempts
                  /\ applied[n] > 0 => \E i \in DOMAIN started : started[i] = n

\* When the agent has exited, its reporter and all its workers have returned,
\* so no report is being sent, and nothing uses the closed pool any more.
ExitIsQuiet ==
  main = "exited" =>
    /\ rpc = "returned" /\ stop = "stopped" /\ active = 0
    /\ \A w \in Workers : wpc[w] = "returned" /\ att[w] = 0

\* The agent uses the pool as the pool's own specification allows, so what
\* holds for the pool holds in the agent.
AgentImplementsPool == PoolSpec

\* After a signal the agent exits, with whatever is queued and in flight; the
\* send to the closed channel is the only other end.
ShutdownEnds == signalled ~> main = "exited" \/ panicked

\* "Stop stops the sending of metrics" (metrics_reporter.go:70): stopping the
\* agent does not panic.
NoPanic == ~panicked
=============================================================================
