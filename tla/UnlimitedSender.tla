--------------------------- MODULE UnlimitedSender ---------------------------
(***************************************************************************)
(* The agent without a rate limit (internal/agent/sender: unlimited_sender *)
(* .go, metric_service.go, pools.go; pkg/objpool): every report is sent by *)
(* a goroutine of its own, counted by a WaitGroup that Stop waits for, and *)
(* builds its batch in a slice borrowed from a pool.  The goroutines run   *)
(* against the reporter and the shutdown of App.Wait.                      *)
(*                                                                         *)
(* Report number n is sent by goroutine n.  What a slice or a payload      *)
(* holds is the set of the reports whose measurements are in it.           *)
(***************************************************************************)
EXTENDS Naturals, FiniteSets

CONSTANTS MaxReports,    \* bound: reports made in a run
          MetricsCount,  \* metrics in a report: 30, and one per processor
          Capacity,      \* capacity of a pooled slice: 20
          Attempts,      \* MaxRetries + 1
          Delays,        \* number of configured retry delays
          NoBatch        \* no slice

Reports == 1 .. MaxReports

ASSUME SenderAssumption ==
  /\ MaxReports \in Nat /\ MetricsCount \in Nat /\ Capacity \in Nat
  /\ Attempts \in Nat \ {0} /\ Delays \in Nat
  /\ NoBatch \notin Reports

VARIABLES
  signalled,  \* the context of main is done
  main,       \* "run", "ticker", "stop", "blocked", "woken", "reporter", "exited"
  crashed,   \* a goroutine has crashed: the process is over
  rticker,    \* the reporter's ticker runs
  rpc,        \* the reporter's goroutine: "select", "send", "returned"
  rn,         \* number of the last report
  count,      \* us.wg: its counter
  waiter,     \* us.wg: main is registered as waiting
  spc,        \* per report: where its goroutine is
  att,        \* per report: failed attempts
  batch,      \* per report: batchWrapper, the slice it has borrowed
  own,        \* per report: its slice after append has moved it
  pool,       \* the slices that lie in the pool
  made,       \* number of slices made so far
  array,      \* per slice: what its array holds
  payload,    \* per report: what the body of the POST under way holds
  underWay    \* history: the report that was under way when Stop returned

mainVars == <<signalled, main, underWay>>
reporterVars == <<rticker, rpc, rn>>
wgVars == <<count, waiter>>
sliceVars == <<batch, own, pool, made, array>>
vars == <<mainVars, crashed, reporterVars, wgVars, spc, att, sliceVars, payload>>

Positions == {"none", "get", "fill", "grow", "marshal", "post", "delay", "put", "done",
              "release", "over"}

\* The goroutine of report n is running.
Unfinished(n) == spc[n] \notin {"none", "over"}

Init ==
  /\ signalled = FALSE /\ main = "run" /\ crashed = FALSE
  /\ rticker = TRUE /\ rpc = "select" /\ rn = 0
  /\ count = 0 /\ waiter = FALSE
  /\ spc = [n \in Reports |-> "none"] /\ att = [n \in Reports |-> 0]
  /\ batch = [n \in Reports |-> NoBatch] /\ own = [n \in Reports |-> {}]
  /\ pool = {} /\ made = 0 /\ array = [b \in Reports |-> {}]
  /\ payload = [n \in Reports |-> {}] /\ underWay = {}

Alive == ~crashed /\ main # "exited"

-----------------------------------------------------------------------------
(* The reporter.                                                           *)

\* Tick and GetMetrics.
Report ==
  /\ Alive /\ rpc = "select" /\ rticker /\ rn < MaxReports
  /\ rpc' = "send" /\ rn' = rn + 1
  /\ UNCHANGED <<mainVars, crashed, rticker, wgVars, spc, att, sliceVars, payload>>

\* Mutant: the goroutine is not counted before it is started.
SendUncounted ==
  /\ Alive /\ rpc = "send"
  /\ rpc' = "select" /\ spc' = [spc EXCEPT ![rn] = "get"]
  /\ UNCHANGED <<mainVars, crashed, rticker, rn, wgVars, att, sliceVars, payload>>

\* wg.Add(1), go func; then ResetCount, for Send returns nil.
Send ==
  /\ Alive /\ rpc = "send" /\ ~(waiter /\ count = 0)
  /\ rpc' = "select" /\ count' = count + 1 /\ spc' = [spc EXCEPT ![rn] = "get"]
  /\ UNCHANGED <<mainVars, crashed, rticker, rn, waiter, att, sliceVars, payload>>

\* Add finds the counter back at zero and a waiter that is not yet released:
\* "WaitGroup misuse: Add called concurrently with Wait".
SendPanics ==
  /\ Alive /\ rpc = "send" /\ waiter /\ count = 0
  /\ crashed' = TRUE
  /\ UNCHANGED <<mainVars, reporterVars, wgVars, spc, att, sliceVars, payload>>

ReporterReturns ==
  /\ Alive /\ rpc = "select" /\ signalled
  /\ rpc' = "returned"
  /\ UNCHANGED <<mainVars, crashed, rticker, rn, wgVars, spc, att, sliceVars, payload>>

-----------------------------------------------------------------------------
(* metricsService.send, in the goroutine of report n.                      *)

Goes(n, from, to) ==
  /\ Alive /\ spc[n] = from
  /\ spc' = [spc EXCEPT ![n] = to]
  /\ UNCHANGED <<mainVars, crashed, reporterVars>>

\* sync.Pool hands out any slice put into it, or makes one.  No report takes
\* two, so there are never more slices than reports.
Available == pool \cup ({made + 1} \cap Reports)

\* Mutant: PutBatch is called at once instead of deferred.
GetBatchPutsBack(n) ==
  /\ Goes(n, "get", "fill")
  /\ \E b \in Available :
       /\ batch' = [batch EXCEPT ![n] = b]
       /\ pool' = pool \cup {b} /\ made' = IF b \in pool THEN made ELSE b
  /\ UNCHANGED <<wgVars, att, own, array, payload>>

GetBatch(n) ==
  /\ Goes(n, "get", "fill")
  /\ \E b \in Available :
       /\ batch' = [batch EXCEPT ![n] = b]
       /\ pool' = pool \ {b} /\ made' = IF b \in pool THEN made ELSE b
  /\ UNCHANGED <<wgVars, att, own, array, payload>>

\* append writes to the array of the pooled slice while there is room ...
Fill(n) ==
  /\ Goes(n, "fill", IF MetricsCount > Capacity THEN "grow" ELSE "marshal")
  /\ array' = [array EXCEPT ![batch[n]] = {n}]
  /\ UNCHANGED <<wgVars, att, batch, own, pool, made, payload>>

\* ... and then copies it to a larger one, which only this call knows.
Grow(n) ==
  /\ Goes(n, "grow", "marshal")
  /\ own' = [own EXCEPT ![n] = array[batch[n]] \cup {n}]
  /\ UNCHANGED <<wgVars, att, batch, pool, made, array, payload>>

\* What the local variable batch holds.
Batch(n) == IF MetricsCount > Capacity THEN own[n] ELSE array[batch[n]]

\* Every attempt marshals the batch anew.
Marshal(n) ==
  /\ Goes(n, "marshal", "post")
  /\ payload' = [payload EXCEPT ![n] = Batch(n)]
  /\ UNCHANGED <<wgVars, att, sliceVars>>

\* A value JSON cannot write, or delays that cannot be parsed: no attempt.
MarshalFails(n) ==
  /\ Goes(n, "marshal", "put")
  /\ UNCHANGED <<wgVars, att, sliceVars, payload>>

\* Success, an error that is not retried, or the last attempt has failed.
PostEnds(n) ==
  /\ Goes(n, "post", "put")
  /\ payload' = [payload EXCEPT ![n] = {}]
  /\ UNCHANGED <<wgVars, att, sliceVars>>

PostFails(n) ==
  /\ att[n] + 1 < Attempts
  /\ Goes(n, "post", "delay")
  /\ att' = [att EXCEPT ![n] = @ + 1] /\ payload' = [payload EXCEPT ![n] = {}]
  /\ UNCHANGED <<wgVars, sliceVars>>

RetryDelay(n) ==
  /\ Goes(n, "delay", "marshal")
  /\ UNCHANGED <<wgVars, att, sliceVars, payload>>

RetryCancelled(n) ==
  /\ signalled /\ att[n] <= Delays
  /\ Goes(n, "delay", "put")
  /\ UNCHANGED <<wgVars, att, sliceVars, payload>>

\* The deferred PutBatch: Reset keeps the array, and with it what it holds.
\* The send returns, and its own variables are gone.
PutBatch(n) ==
  /\ Goes(n, "put", "done")
  /\ pool' = pool \cup {batch[n]} /\ batch' = [batch EXCEPT ![n] = NoBatch]
  /\ own' = [own EXCEPT ![n] = {}] /\ att' = [att EXCEPT ![n] = 0]
  /\ UNCHANGED <<wgVars, made, array, payload>>

\* Mutant: the goroutine ends without wg.Done, as after an error that returns
\* before a call that is not deferred.
DoneForgotten(n) ==
  /\ Goes(n, "done", "over")
  /\ UNCHANGED <<wgVars, att, sliceVars, payload>>

\* The deferred wg.Done.
Done(n) ==
  /\ Goes(n, "done", IF count = 1 /\ waiter THEN "release" ELSE "over")
  /\ count' = count - 1
  /\ UNCHANGED <<waiter, att, sliceVars, payload>>

\* The last Done takes the waiter out of the WaitGroup and wakes it.
Release(n) ==
  /\ Alive /\ spc[n] = "release"
  /\ spc' = [spc EXCEPT ![n] = "over"]
  /\ waiter' = FALSE /\ main' = "woken"
  /\ UNCHANGED <<signalled, underWay, crashed, reporterVars, count, att, sliceVars, payload>>

Sending(n) ==
  \/ GetBatch(n) \/ Fill(n) \/ Grow(n) \/ Marshal(n) \/ MarshalFails(n) \/ PostEnds(n)
  \/ PostFails(n) \/ RetryDelay(n) \/ RetryCancelled(n) \/ PutBatch(n) \/ Done(n) \/ Release(n)

-----------------------------------------------------------------------------
(* Shutdown: the reporter's ticker, the sender, the reporter's goroutine.  *)

Signal ==
  /\ Alive /\ ~signalled
  /\ signalled' = TRUE
  /\ UNCHANGED <<main, underWay, crashed, reporterVars, wgVars, spc, att, sliceVars, payload>>

Steps(from, to) ==
  /\ Alive /\ main = from
  /\ main' = to
  /\ UNCHANGED <<signalled, rpc, rn, count, spc, att, sliceVars, payload>>

\* us.wg.Wait() is over: a report between its tick and its Send goes on.
StopDone(from) ==
  /\ count = 0 /\ Steps(from, "reporter")
  /\ underWay' = IF rpc = "send" THEN {rn} ELSE {}
  /\ UNCHANGED <<crashed, rticker, waiter>>

AppWait ==
  signalled /\ Steps("run", "ticker") /\ UNCHANGED <<underWay, crashed, rticker, waiter>>

StopTicker ==
  Steps("ticker", "stop") /\ rticker' = FALSE /\ UNCHANGED <<underWay, crashed, waiter>>

\* us.wg.Wait() returns at once ...
StopFindsNone == StopDone("stop")

\* ... or registers and blocks.
StopBlocks ==
  /\ count > 0 /\ Steps("stop", "blocked")
  /\ waiter' = TRUE /\ UNCHANGED <<underWay, crashed, rticker>>

StopWakes == StopDone("woken")

\* A report has called Add since: "WaitGroup is reused before previous Wait
\* has returned".
StopPanics ==
  /\ count > 0 /\ Steps("woken", "woken")
  /\ crashed' = TRUE /\ UNCHANGED <<underWay, rticker, waiter>>

\* mr.wg.Wait(), and main returns.
ReporterStopWaits ==
  /\ rpc = "returned" /\ Steps("reporter", "exited")
  /\ UNCHANGED <<underWay, crashed, rticker, waiter>>

Shutdown ==
  \/ AppWait \/ StopTicker \/ StopFindsNone \/ StopBlocks \/ StopWakes \/ StopPanics
  \/ ReporterStopWaits

Reporter == Report \/ Send \/ SendPanics \/ ReporterReturns

Next == Reporter \/ (\E n \in Reports : Sending(n)) \/ Signal \/ Shutdown

Spec == Init /\ [][Next]_vars

\* Every goroutine that can go on does, and a POST ends (the client has a
\* timeout).  No ticker has to fire and no signal has to come.
Fairness ==
  /\ WF_vars(Send \/ SendPanics) /\ WF_vars(ReporterReturns) /\ WF_vars(Shutdown)
  /\ \A n \in Reports : WF_vars(Sending(n))

FairSpec == Spec /\ Fairness

-----------------------------------------------------------------------------
(* Properties.                                                             *)

\* A payload carries the measurements of its own report only, on every
\* attempt, although slices go from one send to the next with what they held
\* (Reset cuts the length, metric_service.go:36 builds the batch in place).
PostsOwnMetrics == \A n \in Reports : payload[n] \subseteq {n}

\* What Stop does wait for: once it has returned, a send runs only for the
\* report that was between its tick and its wg.Add at that moment; every send
\* counted before has ended, however Add, Done and Wait interleave.
StopCovers ==
  main \in {"reporter", "exited"} =>
    \A n \in Reports : Unfinished(n) => n \in underWay

\* "Stop waits for the completion of all sends" (unlimited_sender.go:49), and
\* Stop logs "all unlimited sends completed" (unlimited_sender.go:53).
StopWaitsForAll == main \in {"reporter", "exited"} => \A n \in Reports : ~Unfinished(n)

\* After a signal the agent exits, whatever is being sent; the panics of the
\* WaitGroup are the only other end.
UnlimitedEnds == signalled ~> main = "exited" \/ crashed
=============================================================================
