----------------------------- MODULE WorkerPool -----------------------------
(***************************************************************************)
(* The agent's worker pool (internal/agent/sender/worker_pool.go): a       *)
(* buffered channel of tasks, workers that select between the channel and  *)
(* the pool's context, Submit that never blocks, and Stop.                 *)
(*                                                                         *)
(* A Go select chooses among the cases that are ready; sending to a closed *)
(* channel is ready and panics, which ends the process.                    *)
(***************************************************************************)
EXTENDS Integers, Sequences, FiniteSets

CONSTANTS Workers,    \* the worker goroutines
          QueueSize,  \* capacity of the channel
          Task,       \* the tasks, each submitted at most once
          NoTask

ASSUME WorkersAssumption == IsFiniteSet(Workers) /\ Workers # {}
ASSUME QueueSizeAssumption == QueueSize \in Nat \ {0}
ASSUME TaskAssumption == IsFiniteSet(Task) /\ NoTask \notin Task

VARIABLES
  tasks,      \* the channel's buffer
  closed,     \* the channel is closed
  ctxDone,    \* wp.ctx is cancelled
  wpc,        \* per worker: "select", "took", "run", "ran", "returned"
  wtask,      \* per worker: the task it runs
  active,     \* activeWorkers
  processed,  \* processedTasks
  dropped,    \* droppedTasks
  stop,       \* the call of Stop: "idle", "cancelled", "closing", "stopped"
  panicked,   \* a send to the closed channel ended the process
  submitted,  \* history: the tasks Submit was called with
  accepted,   \* history: the tasks Submit took, in order
  started     \* history: the tasks workers received, in order

channel == <<tasks, closed, ctxDone>>
workers == <<wpc, wtask>>
stats == <<active, processed, dropped>>
history == <<submitted, accepted, started>>
poolVars == <<channel, workers, stats, stop, panicked, history>>

PoolInit ==
  /\ tasks = <<>> /\ closed = FALSE /\ ctxDone = FALSE
  /\ wpc = [w \in Workers |-> "select"] /\ wtask = [w \in Workers |-> NoTask]
  /\ active = 0 /\ processed = 0 /\ dropped = 0
  /\ stop = "idle" /\ panicked = FALSE
  /\ submitted = {} /\ accepted = <<>> /\ started = <<>>

-----------------------------------------------------------------------------
(* Submit: one select with a default.                                      *)

SubmitTakes(t) ==
  /\ ~panicked /\ ~closed /\ Len(tasks) < QueueSize
  /\ tasks' = Append(tasks, t)
  /\ submitted' = submitted \cup {t} /\ accepted' = Append(accepted, t)
  /\ UNCHANGED <<closed, ctxDone, workers, stats, stop, panicked, started>>

\* Mutant: the default case returns without counting.
SubmitDropsSilently(t) ==
  /\ ~panicked
  /\ ctxDone \/ Len(tasks) = QueueSize
  /\ submitted' = submitted \cup {t}
  /\ UNCHANGED <<channel, workers, stats, stop, panicked, accepted, started>>

\* The context's case, or the default when the buffer is full.
SubmitDrops(t) ==
  /\ ~panicked
  /\ ctxDone \/ Len(tasks) = QueueSize
  /\ dropped' = dropped + 1
  /\ submitted' = submitted \cup {t}
  /\ UNCHANGED <<channel, workers, active, processed, stop, panicked, accepted, started>>

SubmitPanics(t) ==
  /\ ~panicked /\ closed
  /\ panicked' = TRUE
  /\ submitted' = submitted \cup {t}
  /\ UNCHANGED <<channel, workers, stats, stop, accepted, started>>

Submit(t) == SubmitTakes(t) \/ SubmitDrops(t) \/ SubmitPanics(t)

-----------------------------------------------------------------------------
(* The workers.                                                            *)

Take(w) ==
  /\ ~panicked /\ wpc[w] = "select" /\ tasks # <<>>
  /\ tasks' = Tail(tasks)
  /\ wpc' = [wpc EXCEPT ![w] = "took"] /\ wtask' = [wtask EXCEPT ![w] = Head(tasks)]
  /\ started' = Append(started, Head(tasks))
  /\ UNCHANGED <<closed, ctxDone, stats, stop, panicked, submitted, accepted>>

\* The counters are atomics: each changes in a step of its own.
Run(w) ==
  /\ ~panicked /\ wpc[w] = "took"
  /\ wpc' = [wpc EXCEPT ![w] = "run"]
  /\ active' = active + 1
  /\ UNCHANGED <<channel, wtask, processed, dropped, stop, panicked, history>>

\* Mutant: a failed task goes back to the queue.
FinishRequeues(w) ==
  /\ ~panicked /\ wpc[w] = "run" /\ Len(tasks) < QueueSize
  /\ tasks' = Append(tasks, wtask[w])
  /\ wpc' = [wpc EXCEPT ![w] = "ran"]
  /\ active' = active - 1
  /\ UNCHANGED <<closed, ctxDone, wtask, processed, dropped, stop, panicked, history>>

\* The task has returned, with or without an error.
Finish(w) ==
  /\ ~panicked /\ wpc[w] = "run"
  /\ wpc' = [wpc EXCEPT ![w] = "ran"]
  /\ active' = active - 1
  /\ UNCHANGED <<channel, wtask, processed, dropped, stop, panicked, history>>

Count(w) ==
  /\ ~panicked /\ wpc[w] = "ran"
  /\ wpc' = [wpc EXCEPT ![w] = "select"] /\ wtask' = [wtask EXCEPT ![w] = NoTask]
  /\ processed' = processed + 1
  /\ UNCHANGED <<channel, active, dropped, stop, panicked, history>>

\* Mutant: an idle worker returns.
WorkerReturnsIdle(w) ==
  /\ ~panicked /\ wpc[w] = "select" /\ tasks = <<>>
  /\ wpc' = [wpc EXCEPT ![w] = "returned"]
  /\ UNCHANGED <<channel, wtask, stats, stop, panicked, history>>

\* The channel is closed and drained, or the context is done: in that case
\* whatever is left in the channel stays there.
WorkerReturns(w) ==
  /\ ~panicked /\ wpc[w] = "select"
  /\ (closed /\ tasks = <<>>) \/ ctxDone
  /\ wpc' = [wpc EXCEPT ![w] = "returned"]
  /\ UNCHANGED <<channel, wtask, stats, stop, panicked, history>>

Worker(w) == Take(w) \/ Run(w) \/ Count(w) \/ WorkerReturns(w)

-----------------------------------------------------------------------------
(* Stop.                                                                   *)

StopCancels ==
  /\ ~panicked /\ stop = "idle"
  /\ ctxDone' = TRUE /\ stop' = "cancelled"
  /\ UNCHANGED <<tasks, closed, workers, stats, panicked, history>>

StopCloses ==
  /\ ~panicked /\ stop = "cancelled"
  /\ closed' = TRUE /\ stop' = "closing"
  /\ UNCHANGED <<tasks, ctxDone, workers, stats, panicked, history>>

\* Mutant: Stop waits for the channel to be drained.
StopReturnsDrained ==
  /\ ~panicked /\ stop = "closing" /\ tasks = <<>>
  /\ \A w \in Workers : wpc[w] = "returned"
  /\ stop' = "stopped"
  /\ UNCHANGED <<channel, workers, stats, panicked, history>>

\* wg.Wait()
StopReturns ==
  /\ ~panicked /\ stop = "closing"
  /\ \A w \in Workers : wpc[w] = "returned"
  /\ stop' = "stopped"
  /\ UNCHANGED <<channel, workers, stats, panicked, history>>

StopProgress == StopCloses \/ StopReturns

-----------------------------------------------------------------------------
(* The pool on its own: any task may be submitted at any time.             *)

PoolNext ==
  \/ \E t \in Task \ submitted : Submit(t)
  \/ \E w \in Workers : Worker(w) \/ Finish(w)
  \/ StopCancels \/ StopProgress

PoolSpec == PoolInit /\ [][PoolNext]_poolVars

\* Goroutines run; a task ends (the HTTP client has a timeout); Stop, once
\* called, goes on.  Nothing makes anybody call Stop.
PoolFairness ==
  /\ \A w \in Workers : WF_poolVars(Worker(w)) /\ WF_poolVars(Finish(w))
  /\ WF_poolVars(StopProgress)

FairPoolSpec == PoolSpec /\ PoolFairness

-----------------------------------------------------------------------------
(* Properties.                                                             *)

Running == {w \in Workers : wpc[w] = "run"}

\* A worker here has a task that no counter counts at this moment.
Between == {w \in Workers : wpc[w] \in {"took", "ran"}}

\* Types of the pool's fields; the channel never holds more than its capacity.
PoolTypeOK ==
  /\ tasks \in Seq(Task) /\ Len(tasks) \in 0 .. QueueSize
  /\ closed \in BOOLEAN /\ ctxDone \in BOOLEAN /\ panicked \in BOOLEAN
  /\ wpc \in [Workers -> {"select", "took", "run", "ran", "returned"}]
  /\ wtask \in [Workers -> Task \cup {NoTask}]
  /\ active \in Nat /\ processed \in Nat /\ dropped \in Nat
  /\ stop \in {"idle", "cancelled", "closing", "stopped"}
  /\ submitted \in SUBSET Task
  /\ accepted \in Seq(Task) /\ started \in Seq(Task)

\* Every accepted task is either still in the channel or was handed to a worker
\* exactly once, in the order of submission: none is lost, repeated or
\* overtaken, however workers, submitters and Stop interleave.
StartedInOrder == accepted = started \o tasks

\* The counters account for every call of Submit: at every moment each task is
\* processed, running, queued or dropped, except for the tasks of workers that
\* are between two counters.  (GetStats loads the counters one after the other,
\* so what it returns may mix several moments.)
StatsAddUp ==
  ~panicked => /\ processed + active + Len(tasks) + dropped + Cardinality(Between)
                    = Cardinality(submitted)
               /\ active = Cardinality(Running)

\* Stop returns, whatever is queued or running when it is called, unless a
\* concurrent Submit has ended the process.
StopEnds == stop = "cancelled" ~> stop = "stopped" \/ panicked

\* While the pool is not being stopped, a submitted task that was accepted is
\* eventually executed.
AcceptedRuns ==
  \A t \in Task : (\E i \in DOMAIN tasks : tasks[i] = t)
                    ~> (\E i \in DOMAIN started : started[i] = t) \/ ctxDone
=============================================================================
