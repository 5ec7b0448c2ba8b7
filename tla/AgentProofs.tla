---------------------------- MODULE AgentProofs -----------------------------
(***************************************************************************)
(* The worker pool keeps its promises, and the agent implements the pool's *)
(* specification, reports no poll twice, has no report applied more often  *)
(* than it is sent and exits with nothing running, for any number of       *)
(* workers, reports, polls, attempts and delays.                           *)
(***************************************************************************)
EXTENDS Agent, FiniteSetTheorems, TLAPS

-----------------------------------------------------------------------------
(* The worker pool.                                                        *)

USE WorkersAssumption, QueueSizeAssumption, TaskAssumption

\* When Stop has returned the workers have.
StoppedIsIdle == stop = "stopped" => \A w \in Workers : wpc[w] = "returned"

\* The four invariants together are inductive.
PoolInv ==
  /\ PoolTypeOK
  /\ StartedInOrder
  /\ StatsAddUp
  /\ StoppedIsIdle

LEMMA CountedAreFinite ==
  ASSUME PoolTypeOK
  PROVE  /\ IsFiniteSet(submitted) /\ Cardinality(submitted) \in Nat
         /\ IsFiniteSet(Running) /\ Cardinality(Running) \in Nat
         /\ IsFiniteSet(Between) /\ Cardinality(Between) \in Nat
  BY FS_Subset, FS_CardinalityType DEF PoolTypeOK, Running, Between

LEMMA PoolInitInv == PoolInit => PoolInv
  <1> SUFFICES ASSUME PoolInit PROVE PoolInv
    OBVIOUS
  <1>1. PoolTypeOK
    <2>1. closed \in BOOLEAN /\ ctxDone \in BOOLEAN /\ panicked \in BOOLEAN
      BY Zenon DEF PoolInit
    <2> QED
      BY <2>1 DEF PoolInit, PoolTypeOK
  <1>2. StartedInOrder /\ StoppedIsIdle
    BY DEF PoolInit, StartedInOrder, StoppedIsIdle
  <1>3. StatsAddUp
    <2>1. Running = {} /\ Between = {}
      BY DEF PoolInit, Running, Between
    <2> QED
      BY <2>1, FS_EmptySet DEF PoolInit, StatsAddUp
  <1> QED
    BY <1>1, <1>2, <1>3 DEF PoolInv

LEMMA SubmitInv ==
  ASSUME PoolInv, NEW t \in Task \ submitted, Submit(t)
  PROVE  PoolInv'
  <1> USE DEF channel, workers, stats, history, PoolInv
  <1>1. Cardinality(submitted') = Cardinality(submitted) + 1
    BY CountedAreFinite, FS_AddElement DEF Submit, SubmitTakes, SubmitDrops, SubmitPanics
  <1>2. UNCHANGED <<wpc, Running, Between>>
    BY DEF Submit, SubmitTakes, SubmitDrops, SubmitPanics, Running, Between
  <1>3. CASE SubmitTakes(t)
    <2>1. PoolTypeOK'
      BY <1>3 DEF SubmitTakes, PoolTypeOK
    <2>2. StartedInOrder'
      <3>1. started \o Append(tasks, t) = Append(started \o tasks, t)
        BY DEF PoolTypeOK
      <3> QED
        BY <1>3, <3>1 DEF SubmitTakes, StartedInOrder
    <2>3. StatsAddUp'
      <3>1. ~panicked /\ Len(tasks') = Len(tasks) + 1 /\ UNCHANGED stats
        BY <1>3 DEF SubmitTakes, PoolTypeOK
      <3>2. processed \in Nat /\ active \in Nat /\ dropped \in Nat /\ Len(tasks) \in Nat
        BY DEF PoolTypeOK
      <3>3. processed + active + Len(tasks) + dropped + Cardinality(Between) = Cardinality(submitted)
            /\ active = Cardinality(Running)
        BY <3>1 DEF StatsAddUp
      <3>4. Cardinality(submitted) \in Nat /\ Cardinality(Between) \in Nat
        BY CountedAreFinite
      <3>5. processed + active + (Len(tasks) + 1) + dropped + Cardinality(Between)
              = Cardinality(submitted) + 1
        BY <3>2, <3>3, <3>4
      <3> QED
        BY <1>1, <1>2, <3>1, <3>3, <3>5 DEF StatsAddUp
    <2> QED
      BY <1>3, <2>1, <2>2, <2>3 DEF SubmitTakes, StoppedIsIdle
  <1>4. CASE SubmitDrops(t)
    <2>1. PoolTypeOK'
      BY <1>4 DEF SubmitDrops, PoolTypeOK
    <2>2. StatsAddUp'
      <3>1. ~panicked /\ dropped' = dropped + 1 /\ UNCHANGED <<tasks, active, processed>>
        BY <1>4 DEF SubmitDrops
      <3>2. processed \in Nat /\ active \in Nat /\ dropped \in Nat /\ Len(tasks) \in Nat
        BY DEF PoolTypeOK
      <3>3. processed + active + Len(tasks) + dropped + Cardinality(Between) = Cardinality(submitted)
            /\ active = Cardinality(Running)
        BY <3>1 DEF StatsAddUp
      <3>4. Cardinality(submitted) \in Nat /\ Cardinality(Between) \in Nat
        BY CountedAreFinite
      <3>5. processed + active + Len(tasks) + (dropped + 1) + Cardinality(Between)
              = Cardinality(submitted) + 1
        BY <3>2, <3>3, <3>4
      <3> QED
        BY <1>1, <1>2, <3>1, <3>3, <3>5 DEF StatsAddUp
    <2> QED
      BY <1>4, <2>1, <2>2 DEF SubmitDrops, StoppedIsIdle, StartedInOrder
  <1>5. CASE SubmitPanics(t)
    <2>1. panicked' = TRUE
      BY <1>5 DEF SubmitPanics
    <2>2. PoolTypeOK'
      <3>1. panicked' \in BOOLEAN
        BY <2>1, Zenon
      <3> QED
        BY <1>5, <3>1 DEF SubmitPanics, PoolTypeOK
    <2>3. StatsAddUp'
      BY <2>1, Zenon DEF StatsAddUp
    <2> QED
      BY <1>5, <2>2, <2>3 DEF SubmitPanics, StoppedIsIdle, StartedInOrder
  <1> QED
    BY <1>3, <1>4, <1>5 DEF Submit

LEMMA TakeInv ==
  ASSUME PoolInv, NEW w \in Workers, Take(w)
  PROVE  PoolInv'
  <1> USE DEF channel, workers, stats, history, PoolInv
  <1> tasks \in Seq(Task) /\ tasks # <<>> /\ started \in Seq(Task)
    BY DEF Take, PoolTypeOK
  <1>1. Head(tasks) \in Task /\ Tail(tasks) \in Seq(Task) /\ Len(tasks') = Len(tasks) - 1
    BY DEF Take
  <1>2. PoolTypeOK'
    BY <1>1 DEF Take, PoolTypeOK
  <1>3. StartedInOrder'
    <2>1. Append(started, Head(tasks)) \o Tail(tasks) = started \o tasks
      OBVIOUS
    <2> QED
      BY <2>1 DEF Take, StartedInOrder
  <1>4. StatsAddUp'
    <2>1. Between' = Between \cup {w} /\ w \notin Between /\ Running' = Running
      BY DEF Take, Running, Between, PoolTypeOK
    <2>2. Cardinality(Between') = Cardinality(Between) + 1
      BY <2>1, CountedAreFinite, FS_AddElement
    <2>3. ~panicked /\ UNCHANGED <<active, processed, dropped, submitted>>
      BY DEF Take
    <2>4. processed \in Nat /\ active \in Nat /\ dropped \in Nat /\ Len(tasks) \in Nat
      BY DEF PoolTypeOK
    <2> QED
      BY <1>1, <2>1, <2>2, <2>3, <2>4, CountedAreFinite DEF StatsAddUp
  <1>5. StoppedIsIdle'
    BY DEF Take, StoppedIsIdle
  <1> QED
    BY <1>2, <1>3, <1>4, <1>5

LEMMA RunInv ==
  ASSUME PoolInv, NEW w \in Workers, Run(w)
  PROVE  PoolInv'
  <1> USE DEF channel, workers, stats, history, PoolInv
  <1>1. /\ Running' = Running \cup {w} /\ w \notin Running
        /\ Between' = Between \ {w} /\ w \in Between
    BY DEF Run, Running, Between, PoolTypeOK
  <1>2. Cardinality(Running') = Cardinality(Running) + 1
    BY <1>1, CountedAreFinite, FS_AddElement
  <1>3. Cardinality(Between') = Cardinality(Between) - 1
    BY <1>1, CountedAreFinite, FS_RemoveElement
  <1>4. PoolTypeOK'
    BY DEF Run, PoolTypeOK
  <1>5. StatsAddUp'
    <2>1. ~panicked /\ active' = active + 1 /\ UNCHANGED <<tasks, processed, dropped, submitted>>
      BY DEF Run
    <2>2. processed \in Nat /\ active \in Nat /\ dropped \in Nat /\ Len(tasks) \in Nat
      BY DEF PoolTypeOK
    <2>3. processed + active + Len(tasks) + dropped + Cardinality(Between) = Cardinality(submitted)
          /\ active = Cardinality(Running)
      BY <2>1 DEF StatsAddUp
    <2>4. Cardinality(submitted) \in Nat /\ Cardinality(Between) \in Nat
      BY CountedAreFinite
    <2>5. processed + (active + 1) + Len(tasks) + dropped + (Cardinality(Between) - 1)
            = Cardinality(submitted)
      BY <2>2, <2>3, <2>4
    <2> QED
      BY <1>2, <1>3, <2>1, <2>3, <2>5 DEF StatsAddUp
  <1> QED
    BY <1>4, <1>5 DEF Run, StoppedIsIdle, StartedInOrder

LEMMA FinishInv ==
  ASSUME PoolInv, NEW w \in Workers, Finish(w)
  PROVE  PoolInv'
  <1> USE DEF channel, workers, stats, history, PoolInv
  <1>1. /\ Running' = Running \ {w} /\ w \in Running
        /\ Between' = Between \cup {w} /\ w \notin Between
    BY DEF Finish, Running, Between, PoolTypeOK
  <1>2. Cardinality(Running') = Cardinality(Running) - 1 /\ Cardinality(Running') \in Nat
    BY <1>1, CountedAreFinite, FS_RemoveElement, FS_CardinalityType
  <1>3. Cardinality(Between') = Cardinality(Between) + 1
    BY <1>1, CountedAreFinite, FS_AddElement
  <1>4. ~panicked /\ active = Cardinality(Running)
    BY DEF Finish, StatsAddUp
  <1>5. active' \in Nat
    BY <1>2, <1>4 DEF Finish
  <1>6. PoolTypeOK'
    BY <1>5 DEF Finish, PoolTypeOK
  <1>7. StatsAddUp'
    <2>1. active' = active - 1 /\ UNCHANGED <<tasks, processed, dropped, submitted>>
      BY DEF Finish
    <2>2. processed \in Nat /\ active \in Nat /\ dropped \in Nat /\ Len(tasks) \in Nat
      BY DEF PoolTypeOK
    <2>3. processed + active + Len(tasks) + dropped + Cardinality(Between) = Cardinality(submitted)
      BY <1>4 DEF StatsAddUp
    <2>4. Cardinality(submitted) \in Nat /\ Cardinality(Between) \in Nat
      BY CountedAreFinite
    <2>5. processed + (active - 1) + Len(tasks) + dropped + (Cardinality(Between) + 1)
            = Cardinality(submitted)
      BY <2>2, <2>3, <2>4
    <2> QED
      BY <1>2, <1>3, <1>4, <2>1, <2>3, <2>5 DEF StatsAddUp
  <1> QED
    BY <1>6, <1>7 DEF Finish, StoppedIsIdle, StartedInOrder

LEMMA CountInv ==
  ASSUME PoolInv, NEW w \in Workers, Count(w)
  PROVE  PoolInv'
  <1> USE DEF channel, workers, stats, history, PoolInv
  <1>1. Between' = Between \ {w} /\ w \in Between /\ Running' = Running
    BY DEF Count, Running, Between, PoolTypeOK
  <1>2. Cardinality(Between') = Cardinality(Between) - 1
    BY <1>1, CountedAreFinite, FS_RemoveElement
  <1>3. PoolTypeOK'
    BY DEF Count, PoolTypeOK
  <1>4. StatsAddUp'
    <2>1. ~panicked /\ processed' = processed + 1 /\ UNCHANGED <<tasks, active, dropped, submitted>>
      BY DEF Count
    <2>2. processed \in Nat /\ active \in Nat /\ dropped \in Nat /\ Len(tasks) \in Nat
      BY DEF PoolTypeOK
    <2> QED
      BY <1>1, <1>2, <2>1, <2>2, CountedAreFinite DEF StatsAddUp
  <1> QED
    BY <1>3, <1>4 DEF Count, StoppedIsIdle, StartedInOrder

LEMMA WorkerReturnsInv ==
  ASSUME PoolInv, NEW w \in Workers, WorkerReturns(w)
  PROVE  PoolInv'
  <1> USE DEF channel, workers, stats, history, PoolInv
  <1>1. UNCHANGED <<Running, Between>>
    BY DEF WorkerReturns, Running, Between, PoolTypeOK
  <1>2. PoolTypeOK' /\ StoppedIsIdle' /\ StartedInOrder'
    BY DEF WorkerReturns, PoolTypeOK, StoppedIsIdle, StartedInOrder
  <1>3. StatsAddUp'
    BY <1>1 DEF WorkerReturns, StatsAddUp
  <1> QED
    BY <1>2, <1>3

LEMMA StopInv ==
  ASSUME PoolInv, StopCancels \/ StopProgress
  PROVE  PoolInv'
  <1> USE DEF channel, workers, stats, history, PoolInv, StopCancels, StopProgress, StopCloses,
              StopReturns
  <1>1. UNCHANGED <<Running, Between>>
    BY DEF Running, Between
  <1>2. StatsAddUp' /\ StartedInOrder' /\ StoppedIsIdle'
    BY <1>1 DEF StatsAddUp, StartedInOrder, StoppedIsIdle
  <1>3. closed' \in BOOLEAN /\ ctxDone' \in BOOLEAN
    BY Zenon DEF PoolTypeOK
  <1>4. PoolTypeOK'
    BY <1>3 DEF PoolTypeOK
  <1> QED
    BY <1>2, <1>4

LEMMA PoolNextInv ==
  ASSUME PoolInv, [PoolNext]_poolVars
  PROVE  PoolInv'
  <1>1. CASE UNCHANGED poolVars
    BY <1>1 DEF poolVars, channel, workers, stats, history, PoolInv, PoolTypeOK, StartedInOrder,
                StatsAddUp, StoppedIsIdle, Running, Between
  <1> QED
    BY <1>1, SubmitInv, TakeInv, RunInv, FinishInv, CountInv, WorkerReturnsInv, StopInv DEF PoolNext, Worker

\* The inductive invariant holds in every reachable state.
THEOREM PoolInvHolds == PoolSpec => []PoolInv
  BY PoolInitInv, PoolNextInv, PTL DEF PoolSpec

\* Type correctness; the channel never exceeds its capacity.
THEOREM PoolTypeCorrect == PoolSpec => []PoolTypeOK
  <1>1. PoolInv => PoolTypeOK
    BY DEF PoolInv
  <1> QED
    BY <1>1, PoolInvHolds, PTL

\* Accepted tasks are started exactly once and in order, or still queued.
THEOREM TasksStartInOrder == PoolSpec => []StartedInOrder
  <1>1. PoolInv => StartedInOrder
    BY DEF PoolInv
  <1> QED
    BY <1>1, PoolInvHolds, PTL

\* The counters of GetStats account for every Submit, but for the workers that
\* are between two counters.
THEOREM StatsAreExact == PoolSpec => []StatsAddUp
  <1>1. PoolInv => StatsAddUp
    BY DEF PoolInv
  <1> QED
    BY <1>1, PoolInvHolds, PTL

USE AgentAssumption

-----------------------------------------------------------------------------
(* The agent implements the pool.                                          *)

\* The reporter numbers its reports, and submits each number once.
Numbering ==
  /\ rn \in 0 .. MaxReports
  /\ submitted \subseteq 1 .. rn
  /\ rpc = "send" => rn \in Task \ submitted

LEMMA InitNumbering == Init => Numbering
  BY DEF Init, PoolInit, Numbering

LEMMA NextNumbering ==
  ASSUME Numbering, [Next]_agentVars
  PROVE  Numbering'
  <1> USE DEF Numbering, poolVars, channel, workers, stats, history, collectorVars, reporterVars,
              sendVars
  <1>1. CASE GetMetrics
    BY <1>1 DEF GetMetrics
  <1>2. CASE Send
    <2>1. submitted' = submitted \cup {rn} /\ rn' = rn /\ rpc' = "reset" /\ rpc = "send"
      BY <1>2 DEF Send, SubmitTakes, SubmitDrops, SubmitPanics
    <2> QED
      BY <2>1
  <1>3. CASE ResetCount \/ ReporterReturns
    BY <1>3 DEF ResetCount, ReporterReturns
  <1>4. CASE Collector
    BY <1>4 DEF Collector, PollTick, Collect, CollectorReturns
  <1>5. ASSUME NEW w \in Workers, WorkerStep(w) PROVE Numbering'
    BY <1>5 DEF WorkerStep, Worker, Take, Run, Count, WorkerReturns
  <1>6. ASSUME NEW w \in Workers, Sending(w) PROVE Numbering'
    BY <1>6 DEF Sending, LastAttempt, RetryCancelled, SendReturns, AttemptFails, Finish
  <1>7. CASE Signal \/ Shutdown
    BY <1>7 DEF Signal, Shutdown, CollectorStop, ReporterStopTicker, SenderStop,
                ReporterStopWaits, StopCancels, StopCloses, StopReturns
  <1>8. CASE UNCHANGED agentVars
    BY <1>8 DEF agentVars
  <1> QED
    BY <1>1, <1>2, <1>3, <1>4, <1>5, <1>6, <1>7, <1>8 DEF Next, Reporter

\* Every step of the agent is a step of the pool or leaves the pool alone.
LEMMA NextPool ==
  ASSUME Numbering, [Next]_agentVars
  PROVE  [PoolNext]_poolVars
  <1>1. CASE Send
    <2>1. Submit(rn)
      BY <1>1 DEF Send, Submit
    <2> QED
      BY <1>1, <2>1 DEF Send, Numbering, PoolNext
  <1>2. CASE GetMetrics \/ ResetCount \/ ReporterReturns
    BY <1>2 DEF GetMetrics, ResetCount, ReporterReturns
  <1>3. CASE Collector
    BY <1>3 DEF Collector, PollTick, Collect, CollectorReturns
  <1>4. ASSUME NEW w \in Workers, WorkerStep(w) PROVE PoolNext
    BY <1>4 DEF WorkerStep, PoolNext
  <1>5. ASSUME NEW w \in Workers, Sending(w) PROVE [PoolNext]_poolVars
    BY <1>5 DEF Sending, LastAttempt, RetryCancelled, SendReturns, AttemptFails, PoolNext
  <1>6. CASE Signal \/ Shutdown
    BY <1>6 DEF Signal, Shutdown, CollectorStop, ReporterStopTicker, SenderStop,
                ReporterStopWaits, PoolNext, StopProgress
  <1>7. CASE UNCHANGED agentVars
    BY <1>7 DEF agentVars
  <1> QED
    BY <1>1, <1>2, <1>3, <1>4, <1>5, <1>6, <1>7 DEF Next, Reporter

\* The reporter, the workers' sends and the shutdown use the pool only as its
\* own specification allows.
THEOREM ImplementsPool == Spec => AgentImplementsPool
  <1>1. Init => PoolInit
    BY DEF Init
  <1> QED
    BY <1>1, InitNumbering, NextNumbering, NextPool, PTL DEF Spec, AgentImplementsPool, PoolSpec

\* So the pool's invariant holds in the agent.
LEMMA AgentPoolInv == Spec => []PoolInv
  BY ImplementsPool, PoolInvHolds, PTL DEF AgentImplementsPool

-----------------------------------------------------------------------------
(* No poll is reported twice.                                              *)

\* The count is that of the fresh polls; only the report being made shares
\* polls with it, until ResetCount has forgotten them.
Counting ==
  /\ Numbering
  /\ polls \in Nat
  /\ fresh \in SUBSET (1 .. polls) /\ pollCount = Cardinality(fresh)
  /\ covers \in [Task -> SUBSET (1 .. polls)]
  /\ delta \in [Task -> Nat]
  /\ \A n \in Task : n > rn => covers[n] = {}
  /\ \A n \in Task : covers[n] \cap fresh # {} => n = rn /\ rpc \in {"send", "reset"}
  /\ PollsReportedOnce

LEMMA PollSetsFinite ==
  ASSUME NEW k \in Nat, NEW S \in SUBSET (1 .. k)
  PROVE  IsFiniteSet(S) /\ Cardinality(S) \in Nat
  <1>1. IsFiniteSet(1 .. k)
    BY FS_Interval
  <1> QED
    BY <1>1, FS_Subset, FS_CardinalityType

LEMMA InitCounting == Init => Counting
  <1> SUFFICES ASSUME Init PROVE Counting
    OBVIOUS
  <1>1. Numbering
    BY InitNumbering
  <1>2. PollsReportedOnce
    BY FS_EmptySet DEF Init, PollsReportedOnce
  <1> QED
    BY <1>1, <1>2, FS_EmptySet DEF Init, Counting

LEMMA NextCounting ==
  ASSUME Counting, [Next]_agentVars
  PROVE  Counting'
  <1> USE DEF poolVars, channel, workers, stats, history, collectorVars, reporterVars, sendVars
  <1>0. Numbering'
    BY NextNumbering DEF Counting
  <1>1. CASE GetMetrics
    <2>1. rn + 1 \in Task /\ covers' = [covers EXCEPT ![rn + 1] = fresh]
          /\ delta' = [delta EXCEPT ![rn + 1] = pollCount] /\ rn' = rn + 1
          /\ rpc = "select" /\ rpc' = "send" /\ UNCHANGED <<fresh, pollCount, polls>>
      BY <1>1 DEF GetMetrics, Counting, Numbering
    <2>2. \A n \in Task : covers[n] \cap fresh = {}
      BY <2>1 DEF Counting
    <2>3. pollCount \in Nat
      BY PollSetsFinite DEF Counting
    <2>4. PollsReportedOnce'
      BY <2>1, <2>2 DEF Counting, PollsReportedOnce
    <2> QED
      BY <1>0, <2>1, <2>2, <2>3, <2>4 DEF Counting, Numbering
  <1>2. CASE Collect
    <2>1. polls' = polls + 1 /\ fresh' = fresh \cup {polls + 1} /\ pollCount' = pollCount + 1
          /\ UNCHANGED <<covers, delta, rn, rpc>>
      BY <1>2 DEF Collect
    <2>2. polls + 1 \notin fresh /\ \A n \in Task : polls + 1 \notin covers[n]
      BY DEF Counting
    <2>3. pollCount' = Cardinality(fresh')
      BY <2>1, <2>2, PollSetsFinite, FS_AddElement DEF Counting
    <2>4. fresh' \in SUBSET (1 .. polls') /\ covers' \in [Task -> SUBSET (1 .. polls')]
      BY <2>1 DEF Counting
    <2> QED
      BY <1>0, <2>1, <2>2, <2>3, <2>4 DEF Counting, PollsReportedOnce
  <1>3. CASE ResetCount
    BY <1>0, <1>3, FS_EmptySet DEF ResetCount, Counting, PollsReportedOnce
  <1>4. CASE Send
    BY <1>0, <1>4 DEF Send, Counting, PollsReportedOnce
  <1>5. CASE ReporterReturns
    BY <1>0, <1>5 DEF ReporterReturns, Counting, PollsReportedOnce
  <1>6. CASE UNCHANGED <<collectorVars, reporterVars>>
    BY <1>0, <1>6 DEF Counting, PollsReportedOnce
  <1>7. CASE PollTick \/ CollectorReturns
    BY <1>0, <1>7 DEF PollTick, CollectorReturns, Counting, PollsReportedOnce
  <1>8. ASSUME NEW w \in Workers, WorkerStep(w) \/ Sending(w) PROVE Counting'
    BY <1>6, <1>8 DEF WorkerStep, Sending, LastAttempt, RetryCancelled, SendReturns, AttemptFails
  <1>9. CASE Signal \/ SenderStop \/ ReporterStopWaits
    BY <1>6, <1>9 DEF Signal, SenderStop, ReporterStopWaits
  <1>10. CASE CollectorStop \/ ReporterStopTicker
    BY <1>0, <1>10 DEF CollectorStop, ReporterStopTicker, Counting, PollsReportedOnce
  <1>11. CASE UNCHANGED agentVars
    BY <1>6, <1>11 DEF agentVars
  <1> QED
    BY <1>1, <1>2, <1>3, <1>4, <1>5, <1>7, <1>8, <1>9, <1>10, <1>11
    DEF Next, Reporter, Collector, Shutdown

\* The counts of different reports count different polls, although the poll
\* count is read and reset in two separate critical sections.
THEOREM NoPollTwice == Spec => []PollsReportedOnce
  <1>1. Counting => PollsReportedOnce
    BY DEF Counting
  <1> QED
    BY <1>1, InitCounting, NextCounting, PTL DEF Spec

-----------------------------------------------------------------------------
(* Exit.                                                                   *)

\* The order of the shutdown: the main goroutine waits for the reporter only
\* after the pool has stopped, and failed attempts belong to a running send.
Stopping ==
  /\ main \in {"run", "ticker", "sender", "wait", "exited"}
  /\ wpc \in [Workers -> {"select", "took", "run", "ran", "returned"}]
  /\ att \in [Workers -> Nat]
  /\ main \in {"wait", "exited"} => stop = "stopped"
  /\ main = "exited" => rpc = "returned" /\ ~panicked
  /\ \A w \in Workers : wpc[w] # "run" => att[w] = 0

LEMMA InitStopping == Init => Stopping
  BY DEF Init, PoolInit, Stopping

LEMMA NextStopping ==
  ASSUME Stopping, [Next]_agentVars
  PROVE  Stopping'
  <1> USE DEF Stopping, Alive, poolVars, channel, workers, stats, history, collectorVars,
              reporterVars, sendVars
  <1>1. CASE Collector
    BY <1>1 DEF Collector, PollTick, Collect, CollectorReturns
  <1>2. CASE Reporter
    BY <1>2 DEF Reporter, GetMetrics, Send, ResetCount, ReporterReturns, SubmitTakes, SubmitDrops,
                SubmitPanics
  <1>3. ASSUME NEW w \in Workers, WorkerStep(w) PROVE Stopping'
    BY <1>3 DEF WorkerStep, Worker, Take, Run, Count, WorkerReturns
  <1>4. ASSUME NEW w \in Workers, NEW k, SendReturns(w, k) PROVE Stopping'
    BY <1>4 DEF SendReturns, Finish
  <1>5. ASSUME NEW w \in Workers, NEW k, AttemptFails(w, k) PROVE Stopping'
    BY <1>5 DEF AttemptFails
  <1>6. CASE Signal \/ CollectorStop \/ ReporterStopTicker \/ ReporterStopWaits
    BY <1>6 DEF Signal, CollectorStop, ReporterStopTicker, ReporterStopWaits
  <1>7. CASE SenderStop
    BY <1>7 DEF SenderStop, StopCancels, StopCloses, StopReturns
  <1>8. CASE UNCHANGED agentVars
    BY <1>8 DEF agentVars
  <1> QED
    BY <1>1, <1>2, <1>3, <1>4, <1>5, <1>6, <1>7, <1>8
    DEF Next, Shutdown, Sending, LastAttempt, RetryCancelled

\* When main has returned, no goroutine that sends reports is left.
THEOREM AgentExitsQuiet == Spec => []ExitIsQuiet
  <1>1. PoolInv /\ Stopping => ExitIsQuiet
    <2> SUFFICES ASSUME PoolInv, Stopping, main = "exited"
                 PROVE  /\ rpc = "returned" /\ stop = "stopped" /\ active = 0
                        /\ \A w \in Workers : wpc[w] = "returned" /\ att[w] = 0
      BY DEF ExitIsQuiet
    <2>1. stop = "stopped" /\ rpc = "returned" /\ ~panicked
      BY DEF Stopping
    <2>2. \A w \in Workers : wpc[w] = "returned"
      BY <2>1 DEF PoolInv, StoppedIsIdle
    <2>3. Running = {}
      BY <2>2 DEF Running
    <2>4. active = 0
      BY <2>1, <2>3, FS_EmptySet DEF PoolInv, StatsAddUp
    <2> QED
      BY <2>1, <2>2, <2>4 DEF Stopping
  <1> QED
    BY <1>1, AgentPoolInv, InitStopping, NextStopping, PTL DEF Spec

-----------------------------------------------------------------------------
(* No report is applied more often than it is sent.                        *)

\* The tasks that workers have received, and the workers that have one.
Handed == {started[i] : i \in DOMAIN started}
Busy == {w \in Workers : wpc[w] \in {"took", "run", "ran"}}

\* No task is accepted twice.
AcceptedOnce ==
  /\ \A i \in 1 .. Len(accepted) : accepted[i] \in submitted
  /\ \A i, j \in 1 .. Len(accepted) : accepted[i] = accepted[j] => i = j

\* A busy worker has a task of its own; the server has applied it at most once
\* for each attempt that has failed, and it has applied nothing that no worker
\* has received.
Delivering ==
  /\ applied \in [Task -> Nat]
  /\ \A w \in Busy : wtask[w] \in Handed
  /\ \A v, w \in Busy : wtask[v] = wtask[w] => v = w
  /\ \A w \in Workers : wpc[w] = "took" => applied[wtask[w]] = 0
  /\ \A w \in Workers : wpc[w] = "run" => applied[wtask[w]] <= att[w] /\ att[w] < Attempts
  /\ \A n \in Task : applied[n] <= Attempts
  /\ \A n \in Task : applied[n] > 0 => n \in Handed

LEMMA InitAcceptedOnce == Init => AcceptedOnce
  BY DEF Init, PoolInit, AcceptedOnce

LEMMA NextAcceptedOnce ==
  ASSUME PoolInv, AcceptedOnce, [PoolNext]_poolVars
  PROVE  AcceptedOnce'
  <1> USE DEF poolVars, channel, workers, stats, history
  <1>1. accepted \in Seq(Task)
    BY DEF PoolInv, PoolTypeOK
  <1>2. ASSUME NEW t \in Task \ submitted, SubmitTakes(t) PROVE AcceptedOnce'
    <2>1. accepted' = Append(accepted, t) /\ submitted' = submitted \cup {t}
      BY <1>2 DEF SubmitTakes
    <2>2. Len(accepted') = Len(accepted) + 1 /\ accepted'[Len(accepted) + 1] = t
          /\ \A i \in 1 .. Len(accepted) : accepted'[i] = accepted[i]
      BY <1>1, <2>1
    <2>3. Len(accepted) \in Nat
      BY <1>1
    <2> QED
      BY <2>1, <2>2, <2>3 DEF AcceptedOnce
  <1>3. ASSUME accepted' = accepted, submitted \subseteq submitted' PROVE AcceptedOnce'
    BY <1>3 DEF AcceptedOnce
  <1>4. ASSUME NEW t \in Task \ submitted, SubmitDrops(t) \/ SubmitPanics(t) PROVE AcceptedOnce'
    BY <1>3, <1>4 DEF SubmitDrops, SubmitPanics
  <1>5. ASSUME NEW w \in Workers, Worker(w) \/ Finish(w) PROVE AcceptedOnce'
    BY <1>3, <1>5 DEF Worker, Take, Run, Count, WorkerReturns, Finish
  <1>6. CASE StopCancels \/ StopProgress
    BY <1>3, <1>6 DEF StopCancels, StopProgress, StopCloses, StopReturns
  <1>7. CASE UNCHANGED poolVars
    BY <1>3, <1>7
  <1> QED
    BY <1>2, <1>4, <1>5, <1>6, <1>7 DEF PoolNext, Submit

\* The task at the head of the channel has not been handed out before.
LEMMA HeadIsNew ==
  ASSUME PoolInv, AcceptedOnce, tasks # <<>>
  PROVE  Head(tasks) \in Task \ Handed
  <1>1. started \in Seq(Task) /\ tasks \in Seq(Task) /\ accepted = started \o tasks
    BY DEF PoolInv, PoolTypeOK, StartedInOrder
  <1>2. Len(started) \in Nat /\ Len(tasks) \in Nat \ {0} /\ DOMAIN started = 1 .. Len(started)
    BY <1>1
  <1>3. Len(accepted) = Len(started) + Len(tasks)
        /\ accepted[Len(started) + 1] = tasks[1]
        /\ \A i \in 1 .. Len(started) : accepted[i] = started[i]
    BY <1>1, <1>2
  <1>4. \A i \in 1 .. Len(started) : started[i] # tasks[1]
    BY <1>2, <1>3 DEF AcceptedOnce
  <1>5. Head(tasks) = tasks[1] /\ tasks[1] \in Task
    BY <1>1, <1>2
  <1> QED
    BY <1>2, <1>4, <1>5 DEF Handed

LEMMA InitDelivering == Init => Delivering
  BY DEF Init, PoolInit, Delivering, Busy, Handed

\* What does not touch the workers, their tasks and what was applied.
LEMMA SameDelivering ==
  ASSUME Delivering, UNCHANGED <<wpc, wtask, started, att, applied>>
  PROVE  Delivering'
  BY DEF Delivering, Busy, Handed

LEMMA TakeDelivering ==
  ASSUME PoolInv, AcceptedOnce, Stopping, Delivering, NEW w \in Workers, Take(w),
         UNCHANGED sendVars
  PROVE  Delivering'
  <1> USE DEF channel, workers, stats, history, sendVars
  <1>1. Head(tasks) \in Task \ Handed
    BY HeadIsNew DEF Take
  <1>2. started \in Seq(Task) /\ started' = Append(started, Head(tasks))
    BY DEF Take, PoolInv, PoolTypeOK
  <1>3. Handed' = Handed \cup {Head(tasks)}
    <2>1. DOMAIN started = 1 .. Len(started) /\ Len(started) \in Nat
          /\ DOMAIN started' = 1 .. Len(started) + 1
      BY <1>1, <1>2
    <2>2. started'[Len(started) + 1] = Head(tasks)
          /\ \A i \in 1 .. Len(started) : started'[i] = started[i]
      BY <1>1, <1>2
    <2> QED
      BY <2>1, <2>2 DEF Handed
  <1>4. wpc \in [Workers -> {"select", "took", "run", "ran", "returned"}]
        /\ wtask \in [Workers -> Task \cup {NoTask}]
    BY DEF PoolInv, PoolTypeOK
  <1>5. wpc' = [wpc EXCEPT ![w] = "took"] /\ wtask' = [wtask EXCEPT ![w] = Head(tasks)]
        /\ wpc[w] = "select" /\ UNCHANGED <<att, applied>>
    BY DEF Take
  <1>6. Busy' = Busy \cup {w} /\ w \notin Busy
    BY <1>4, <1>5 DEF Busy
  <1>7. \A v \in Busy : wtask'[v] = wtask[v] /\ wtask[v] \in Handed
    BY <1>4, <1>5, <1>6 DEF Delivering, Busy
  <1>8. wtask'[w] = Head(tasks) /\ applied[Head(tasks)] = 0
    BY <1>1, <1>4, <1>5 DEF Delivering
  <1>9. \A v \in Busy' : wtask'[v] \in Handed'
    BY <1>3, <1>6, <1>7, <1>8
  <1>10. \A u, v \in Busy' : wtask'[u] = wtask'[v] => u = v
    BY <1>1, <1>6, <1>7, <1>8 DEF Delivering
  <1>11. \A v \in Workers : v # w => wpc'[v] = wpc[v] /\ wtask'[v] = wtask[v]
    BY <1>4, <1>5
  <1>12. wpc'[w] = "took"
    BY <1>4, <1>5
  <1>13. \A v \in Workers : wpc'[v] = "took" => applied'[wtask'[v]] = 0
    BY <1>5, <1>8, <1>11 DEF Delivering
  <1>14. \A v \in Workers : wpc'[v] = "run" => applied'[wtask'[v]] <= att'[v] /\ att'[v] < Attempts
    BY <1>5, <1>11, <1>12 DEF Delivering
  <1> QED
    BY <1>3, <1>5, <1>9, <1>10, <1>13, <1>14 DEF Delivering

\* An attempt, whether or not it is the last: the server applies the report
\* at most once more.
LEMMA AttemptDelivering ==
  ASSUME PoolInv, Stopping, Delivering, NEW w \in Workers, NEW k \in {0, 1},
         AttemptFails(w, k) \/ SendReturns(w, k)
  PROVE  Delivering'
  <1> USE DEF poolVars, channel, workers, stats, history
  <1>1. wpc \in [Workers -> {"select", "took", "run", "ran", "returned"}]
        /\ wtask \in [Workers -> Task \cup {NoTask}]
        /\ att \in [Workers -> Nat] /\ applied \in [Task -> Nat] /\ started \in Seq(Task)
    BY DEF PoolInv, PoolTypeOK, Stopping, Delivering
  <1>2. wpc[w] = "run" /\ applied' = [applied EXCEPT ![wtask[w]] = @ + k]
        /\ UNCHANGED <<wtask, started>>
    BY DEF AttemptFails, SendReturns, Finish
  <1>3. w \in Busy /\ wtask[w] \in Handed /\ Handed' = Handed
    BY <1>2 DEF Delivering, Busy, Handed
  <1>4. wtask[w] \in Task
    <2>1. \A i \in DOMAIN started : started[i] \in Task
      BY <1>1
    <2> QED
      BY <1>3, <2>1 DEF Handed
  <1>5. applied[wtask[w]] <= att[w] /\ att[w] < Attempts /\ att[w] \in Nat
        /\ applied[wtask[w]] \in Nat
    BY <1>1, <1>2, <1>4 DEF Delivering
  <1>6. applied' \in [Task -> Nat] /\ applied'[wtask[w]] = applied[wtask[w]] + k
        /\ \A n \in Task : n # wtask[w] => applied'[n] = applied[n]
    BY <1>1, <1>2, <1>4, <1>5
  <1>7. applied'[wtask[w]] <= att[w] + 1 /\ att[w] + 1 <= Attempts
        /\ applied'[wtask[w]] <= Attempts
    BY <1>5, <1>6
  <1>8. Busy' = Busy /\ \A v \in Workers : v # w => wpc'[v] = wpc[v] /\ att'[v] = att[v]
    BY <1>1, <1>2 DEF AttemptFails, SendReturns, Finish, Busy
  <1>9. \A v \in Busy : v # w => applied'[wtask[v]] = applied[wtask[v]]
    <2>1. \A v \in Busy : wtask[v] \in Task
      <3>1. \A i \in DOMAIN started : started[i] \in Task
        BY <1>1
      <3> QED
        BY <3>1 DEF Delivering, Handed
    <2> QED
      BY <1>3, <1>6, <2>1 DEF Delivering
  <1>10. \A n \in Task : applied'[n] <= Attempts /\ (applied'[n] > 0 => n \in Handed)
    BY <1>3, <1>6, <1>7 DEF Delivering
  <1>11. wpc'[w] = "ran" \/ (wpc'[w] = "run" /\ att'[w] = att[w] + 1 /\ att[w] + 1 < Attempts)
    BY <1>1, <1>2 DEF AttemptFails, SendReturns, Finish
  <1>12. \A v \in Workers : wpc'[v] = "took" => applied'[wtask[v]] = 0
    BY <1>8, <1>9, <1>11 DEF Delivering, Busy
  <1>13. \A v \in Workers : wpc'[v] = "run" => applied'[wtask[v]] <= att'[v] /\ att'[v] < Attempts
    BY <1>7, <1>8, <1>9, <1>11 DEF Delivering, Busy
  <1> QED
    BY <1>2, <1>3, <1>6, <1>8, <1>10, <1>12, <1>13 DEF Delivering

LEMMA WorkerDelivering ==
  ASSUME PoolInv, Stopping, Delivering, NEW w \in Workers, Run(w) \/ Count(w) \/ WorkerReturns(w),
         UNCHANGED sendVars
  PROVE  Delivering'
  <1> USE DEF channel, workers, stats, history, sendVars
  <1>1. wpc \in [Workers -> {"select", "took", "run", "ran", "returned"}]
        /\ wtask \in [Workers -> Task \cup {NoTask}]
        /\ att \in [Workers -> Nat]
    BY DEF PoolInv, PoolTypeOK, Stopping
  <1>2. UNCHANGED <<started, att, applied, Handed>>
    BY DEF Run, Count, WorkerReturns, Handed
  <1>3. \A v \in Workers : v # w => wpc'[v] = wpc[v] /\ wtask'[v] = wtask[v]
    BY <1>1 DEF Run, Count, WorkerReturns
  <1>4. CASE Run(w)
    <2>1. wpc[w] = "took" /\ wpc'[w] = "run" /\ wtask' = wtask /\ Busy' = Busy
      BY <1>1, <1>4 DEF Run, Busy
    <2>2. att[w] = 0 /\ applied[wtask[w]] = 0
      BY <2>1 DEF Stopping, Delivering
    <2>3. \A v \in Workers : wpc'[v] = "took" => wpc[v] = "took"
      BY <1>3, <2>1
    <2>4. \A v \in Workers : wpc'[v] = "run" => applied[wtask[v]] <= att[v] /\ att[v] < Attempts
      BY <1>3, <2>2 DEF Delivering
    <2> QED
      BY <1>2, <2>1, <2>3, <2>4 DEF Delivering
  <1>5. CASE Count(w) \/ WorkerReturns(w)
    <2>1. wpc'[w] \in {"select", "returned"} /\ Busy' = Busy \ {w}
      BY <1>1, <1>5 DEF Count, WorkerReturns, Busy
    <2>2. \A v \in Workers : wpc'[v] \in {"took", "run"} => v # w
      BY <2>1
    <2>3. \A v \in Workers : wpc'[v] = "took" => applied[wtask'[v]] = 0
      BY <1>3, <2>2 DEF Delivering
    <2>4. \A v \in Workers : wpc'[v] = "run" => applied[wtask'[v]] <= att[v] /\ att[v] < Attempts
      BY <1>3, <2>2 DEF Delivering
    <2>5. /\ \A v \in Busy' : wtask'[v] \in Handed
          /\ \A u, v \in Busy' : wtask'[u] = wtask'[v] => u = v
      BY <1>3, <2>1 DEF Delivering, Busy
    <2> QED
      BY <1>2, <2>3, <2>4, <2>5 DEF Delivering
  <1> QED
    BY <1>4, <1>5

LEMMA NextDelivering ==
  ASSUME PoolInv, AcceptedOnce, Stopping, Delivering, [Next]_agentVars
  PROVE  Delivering'
  <1> USE DEF poolVars, channel, workers, stats, history, collectorVars, reporterVars, sendVars
  <1>1. CASE Collector
    BY <1>1, SameDelivering DEF Collector, PollTick, Collect, CollectorReturns
  <1>2. CASE Reporter
    BY <1>2, SameDelivering DEF Reporter, GetMetrics, Send, ResetCount, ReporterReturns,
                                SubmitTakes, SubmitDrops, SubmitPanics
  <1>3. ASSUME NEW w \in Workers, WorkerStep(w) PROVE Delivering'
    BY <1>3, TakeDelivering, WorkerDelivering DEF WorkerStep, Worker
  <1>4. ASSUME NEW w \in Workers, Sending(w) PROVE Delivering'
    BY <1>4, AttemptDelivering DEF Sending, LastAttempt, RetryCancelled
  <1>5. CASE Signal \/ Shutdown
    BY <1>5, SameDelivering DEF Signal, Shutdown, CollectorStop, ReporterStopTicker, SenderStop,
                                ReporterStopWaits, StopCancels, StopCloses, StopReturns
  <1>6. CASE UNCHANGED agentVars
    BY <1>6, SameDelivering DEF agentVars
  <1> QED
    BY <1>1, <1>2, <1>3, <1>4, <1>5, <1>6 DEF Next

\* However workers, retries and the shutdown interleave, the server applies a
\* report at most once per attempt, and only a report that a worker received.
THEOREM DeliveryIsBounded == Spec => []DeliveryBounded
  <1>1. Delivering => DeliveryBounded
    BY DEF Delivering, DeliveryBounded, Handed
  <1>2. PoolInv /\ Numbering /\ AcceptedOnce /\ [Next]_agentVars => AcceptedOnce'
    BY NextPool, NextAcceptedOnce
  <1> QED
    BY <1>1, <1>2, AgentPoolInv, InitNumbering, NextNumbering, InitAcceptedOnce, InitStopping,
       NextStopping, InitDelivering, NextDelivering, PTL DEF Spec
=============================================================================
