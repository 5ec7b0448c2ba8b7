-------------------------- MODULE AgentPartsProofs --------------------------
(***************************************************************************)
(* What a report of the agent carries: the merge of the collector, for any *)
(* fields and any number of polls, and the batches of the unlimited sender,*)
(* for any number of reports, attempts and metrics.                        *)
(***************************************************************************)
EXTENDS Collector, UnlimitedSender, FiniteSetTheorems, TLAPS

-----------------------------------------------------------------------------
(* The collector.                                                          *)

USE KeyAssumption, PollsAssumption

\* The runtime provider is asked first, and a poll that gets past it while the
\* context is not done has measured the key fields; before the first such poll
\* nothing at all has been measured.
Polling ==
  /\ mutex /\ next > 1 /\ ~cancelled => \A f \in KeyFields : metrics[f] = polls + 1
  /\ ~cancelled /\ (~mutex \/ next = 1) => \A f \in KeyFields : metrics[f] = polls
  /\ IsZero(metrics) => metrics = Zero

CInv ==
  /\ TypeOK
  /\ Polling
  /\ MergeKeepsLast
  /\ ReadsWholePoll

LEMMA SampleType ==
  ASSUME NEW p, NEW k \in Nat, NEW s \in Samples(p, k)
  PROVE  s \in [Fields -> Nat]
  BY DEF Samples

LEMMA RuntimeSample ==
  ASSUME NEW k \in Nat, NEW s \in Samples("runtime", k)
  PROVE  \A f \in KeyFields : s[f] = k
  BY DEF Samples, Fields

LEMMA GopsutilSample ==
  ASSUME NEW k \in Nat, NEW s \in Samples("gopsutil", k)
  PROVE  \A f \in KeyFields : s[f] = 0
  BY FieldsAssumption DEF Samples, Fields

\* Over metrics that are all zero the shortcut and the merge agree.
LEMMA MergeIsOver ==
  ASSUME NEW m \in [Fields -> Nat], NEW s \in [Fields -> Nat], IsZero(m) => m = Zero
  PROVE  Merge(m, s) = Over(m, s) /\ Merge(m, s) \in [Fields -> Nat]
  <1>1. Over(m, s) \in [Fields -> Nat]
    BY DEF Over
  <1>2. CASE IsZero(m)
    <2>1. \A f \in Fields : Over(m, s)[f] = s[f]
      BY <1>2 DEF Over, Zero
    <2>2. Over(m, s) = s
      BY <1>1, <2>1
    <2> QED
      BY <1>1, <1>2, <2>2 DEF Merge
  <1>3. CASE ~IsZero(m)
    BY <1>1, <1>3 DEF Merge
  <1> QED
    BY <1>2, <1>3

LEMMA InitCInv == CollectorInit => CInv
  <1> SUFFICES ASSUME CollectorInit PROVE CInv
    OBVIOUS
  <1>1. Zero \in [Fields -> Nat] /\ \A f \in KeyFields : Zero[f] = 0
    BY DEF Zero, Fields
  <1>2. mutex \in BOOLEAN /\ cancelled \in BOOLEAN /\ returned \in BOOLEAN
    BY Zenon DEF CollectorInit
  <1>3. seen \in [fields : [Fields -> Nat], count : Nat, poll : Nat, done : BOOLEAN]
    BY <1>1 DEF CollectorInit, Unseen
  <1>4. TypeOK
    BY <1>1, <1>2, <1>3 DEF CollectorInit, TypeOK
  <1>5. ReadsWholePoll
    BY <1>1 DEF CollectorInit, Unseen, ReadsWholePoll
  <1> QED
    BY <1>1, <1>4, <1>5 DEF CollectorInit, CInv, Polling, MergeKeepsLast

LEMMA CollectOKInv ==
  ASSUME CInv, CollectOK
  PROVE  CInv'
  <1>1. PICK s \in Samples(Providers[next], polls + 1) :
          metrics' = Merge(metrics, s) /\ last' = Over(last, s)
    BY DEF CollectOK
  <1>2. s \in [Fields -> Nat]
    BY SampleType DEF CInv, TypeOK
  <1>3. metrics' = Over(metrics, s) /\ metrics' \in [Fields -> Nat]
    BY <1>1, <1>2, MergeIsOver DEF CInv, TypeOK, Polling
  <1>4. last' = metrics'
    BY <1>1, <1>3 DEF CInv, MergeKeepsLast
  <1>5. next \in {1, 2} /\ next' = next + 1 /\ mutex /\ ~cancelled
        /\ UNCHANGED <<pollCount, mutex, cancelled, returned, polls, seen>>
    BY DEF CollectOK, CInv, TypeOK, Providers
  <1>6. \A f \in KeyFields : metrics'[f] = polls + 1
    <2> SUFFICES ASSUME NEW f \in KeyFields PROVE metrics'[f] = polls + 1
      OBVIOUS
    <2>1. f \in Fields /\ metrics'[f] = IF s[f] # 0 THEN s[f] ELSE metrics[f]
      BY <1>3 DEF Over, Fields
    <2>2. polls \in Nat
      BY DEF CInv, TypeOK
    <2>3. CASE next = 1
      <3>1. s[f] = polls + 1
        BY <2>2, <2>3, RuntimeSample DEF Providers
      <3> QED
        BY <2>1, <2>2, <3>1
    <2>4. CASE next = 2
      <3>1. s[f] = 0
        BY <2>2, <2>4, GopsutilSample DEF Providers
      <3>2. metrics[f] = polls + 1
        BY <1>5, <2>4 DEF CInv, Polling
      <3> QED
        BY <2>1, <3>1, <3>2
    <2> QED
      BY <1>5, <2>3, <2>4
  <1>7. ~IsZero(metrics')
    BY <1>6 DEF IsZero, CInv, TypeOK
  <1>8. TypeOK'
    BY <1>3, <1>4, <1>5 DEF CInv, TypeOK
  <1>9. Polling'
    BY <1>5, <1>6, <1>7 DEF Polling
  <1>10. MergeKeepsLast' /\ ReadsWholePoll'
    BY <1>4, <1>5 DEF CInv, MergeKeepsLast, ReadsWholePoll
  <1> QED
    BY <1>8, <1>9, <1>10 DEF CInv

LEMMA NextCInv ==
  ASSUME CInv, [CollectorNext]_collectorVars
  PROVE  CInv'
  <1> USE DEF CInv
  <1>1. CASE Tick
    <2>1. mutex' \in BOOLEAN /\ UNCHANGED <<metrics, last, pollCount, polls, cancelled, returned, seen>>
          /\ next' = 1 /\ ~mutex
      BY <1>1, Zenon DEF Tick
    <2> QED
      BY <2>1 DEF TypeOK, Polling, MergeKeepsLast, ReadsWholePoll
  <1>2. CASE CollectOK
    BY <1>2, CollectOKInv
  <1>3. CASE CollectFails
    <2>1. next \in {1, 2} /\ next' = next + 1 /\ mutex
      BY <1>3 DEF CollectFails, TypeOK, Providers
    <2>2. cancelled \/ next = 2
      BY <1>3, <2>1 DEF CollectFails, Providers
    <2> QED
      BY <1>3, <2>1, <2>2 DEF CollectFails, TypeOK, Polling, MergeKeepsLast, ReadsWholePoll
  <1>4. CASE CollectEnds
    <2>1. next > 2 /\ mutex /\ polls' = polls + 1 /\ pollCount' = pollCount + 1 /\ ~mutex'
          /\ UNCHANGED <<metrics, next, cancelled, returned, last, seen>>
      BY <1>4 DEF CollectEnds, TypeOK, Providers
    <2>2. mutex' \in BOOLEAN
      BY <1>4, Zenon DEF CollectEnds
    <2>3. TypeOK'
      BY <2>1, <2>2 DEF TypeOK
    <2> QED
      BY <2>1, <2>3 DEF TypeOK, Polling, MergeKeepsLast, ReadsWholePoll
  <1>5. CASE Returns
    <2>1. returned' \in BOOLEAN
      BY <1>5, Zenon DEF Returns
    <2> QED
      BY <1>5, <2>1 DEF Returns, TypeOK, Polling, MergeKeepsLast, ReadsWholePoll
  <1>6. CASE GetMetrics
    <2>1. seen' \in [fields : [Fields -> Nat], count : Nat, poll : Nat, done : BOOLEAN]
      BY <1>6 DEF GetMetrics, TypeOK
    <2>2. ReadsWholePoll'
      BY <1>6 DEF GetMetrics, ReadsWholePoll, Polling
    <2> QED
      BY <1>6, <2>1, <2>2 DEF GetMetrics, TypeOK, Polling, MergeKeepsLast
  <1>7. CASE ResetCount
    BY <1>7 DEF ResetCount, TypeOK, Polling, MergeKeepsLast, ReadsWholePoll
  <1>8. CASE Cancel
    <2>1. cancelled' = TRUE /\ cancelled' \in BOOLEAN
      BY <1>8, Zenon DEF Cancel
    <2>2. Polling'
      BY <1>8, <2>1 DEF Cancel, Polling
    <2> QED
      BY <1>8, <2>1, <2>2 DEF Cancel, TypeOK, MergeKeepsLast, ReadsWholePoll
  <1>9. CASE UNCHANGED collectorVars
    BY <1>9 DEF collectorVars, TypeOK, Polling, MergeKeepsLast, ReadsWholePoll
  <1> QED
    BY <1>1, <1>2, <1>3, <1>4, <1>5, <1>6, <1>7, <1>8, <1>9 DEF CollectorNext, Poll

\* The inductive invariant holds in every reachable state.
THEOREM CInvHolds == CollectorSpec => []CInv
  BY InitCInv, NextCInv, PTL DEF CollectorSpec

\* mergeMetrics never loses a non-zero measurement, for any set of fields.
THEOREM MergeIsExact == CollectorSpec => []MergeKeepsLast
  <1>1. CInv => MergeKeepsLast
    BY DEF CInv
  <1> QED
    BY <1>1, CInvHolds, PTL

\* GetMetrics sees complete polls only.
THEOREM ReadsAreWhole == CollectorSpec => []ReadsWholePoll
  <1>1. CInv => ReadsWholePoll
    BY DEF CInv
  <1> QED
    BY <1>1, CInvHolds, PTL

-----------------------------------------------------------------------------
(* The unlimited sender.                                                   *)

USE SenderAssumption

SenderTypes ==
  /\ signalled \in BOOLEAN /\ crashed \in BOOLEAN
  /\ main \in {"run", "ticker", "stop", "blocked", "woken", "reporter", "exited"}
  /\ rticker \in BOOLEAN /\ rpc \in {"select", "send", "returned"} /\ rn \in 0 .. MaxReports
  /\ count \in Int /\ waiter \in BOOLEAN
  /\ spc \in [Reports -> Positions] /\ att \in [Reports -> Nat]
  /\ batch \in [Reports -> Reports \cup {NoBatch}] /\ own \in [Reports -> SUBSET Reports]
  /\ pool \subseteq Reports /\ made \in Nat
  /\ array \in [Reports -> SUBSET Reports] /\ payload \in [Reports -> SUBSET Reports]

\* The goroutine has a slice.
Building == {"fill", "grow", "marshal", "post", "delay", "put"}

\* A slice is in the pool or with one goroutine, which has filled it with its
\* own report.
Slices ==
  /\ \A b \in pool : b <= made
  /\ \A n \in Reports :
       /\ spc[n] \in Building => batch[n] # NoBatch
       /\ batch[n] # NoBatch =>
            /\ batch[n] \notin pool /\ batch[n] <= made
            /\ \A m \in Reports \ {n} : batch[m] # batch[n]
       /\ spc[n] \in Building \ {"fill"} => array[batch[n]] = {n}
       /\ own[n] \subseteq {n}

\* The goroutines between wg.Add and wg.Done.
Counted == {n \in Reports : spc[n] \notin {"none", "release", "over"}}

\* The reports that are still to come have no goroutine, and one that is about
\* to get it was under way when Stop returned.
Numbering ==
  /\ \A n \in Reports : n > rn => spc[n] = "none"
  /\ rpc = "send" => rn \in Reports /\ spc[rn] = "none"
  /\ rpc = "send" /\ main \in {"reporter", "exited"} => rn \in underWay

\* The counter of the WaitGroup, its waiter and the last Done.
Waiting ==
  /\ count = Cardinality(Counted)
  /\ waiter <=> main = "blocked"
  /\ main \notin {"run", "ticker"} => ~rticker
  /\ \A n \in Reports : spc[n] = "release" => waiter /\ count = 0
  /\ \A n, m \in Reports : spc[n] = "release" /\ spc[m] = "release" => n = m

UInv == SenderTypes /\ Slices /\ Numbering /\ Waiting /\ PostsOwnMetrics /\ StopCovers

LEMMA InitUInv == Init => UInv
  <1> SUFFICES ASSUME Init PROVE UInv
    OBVIOUS
  <1>1. SenderTypes
    <2>1. rn \in 0 .. MaxReports /\ count \in Int /\ made \in Nat
      BY DEF Init
    <2>2. spc \in [Reports -> Positions] /\ att \in [Reports -> Nat]
      BY DEF Init, Positions
    <2>3. batch \in [Reports -> Reports \cup {NoBatch}]
      BY DEF Init
    <2> QED
      BY <2>1, <2>2, <2>3 DEF Init, SenderTypes
  <1>2. Slices /\ Numbering /\ PostsOwnMetrics /\ StopCovers
    BY DEF Init, Slices, Building, Numbering, PostsOwnMetrics, StopCovers, Unfinished, Reports
  <1>3. Counted = {}
    BY DEF Init, Counted
  <1>4. Waiting
    BY <1>3, FS_EmptySet DEF Init, Waiting
  <1> QED
    BY <1>1, <1>2, <1>4 DEF UInv

\* The counter is that of a finite set of goroutines.
LEMMA CountedFinite ==
  ASSUME UInv
  PROVE  /\ IsFiniteSet(Counted) /\ count \in Nat /\ count = Cardinality(Counted)
         /\ count = 0 <=> Counted = {}
  <1>1. IsFiniteSet(Reports)
    BY FS_Interval DEF Reports
  <1>2. Counted \subseteq Reports
    BY DEF Counted
  <1>3. IsFiniteSet(Counted)
    BY <1>1, <1>2, FS_Subset
  <1> QED
    BY <1>3, FS_CardinalityType, FS_EmptySet DEF UInv, Waiting

\* The steps of the reporter but wg.Add.
LEMMA ReporterUInv ==
  ASSUME UInv, Report \/ SendPanics \/ ReporterReturns
  PROVE  UInv'
  <1> USE DEF UInv, Alive, mainVars, reporterVars, wgVars, sliceVars
  <1>1. SenderTypes'
    <2>1. rn' \in 0 .. MaxReports
      BY DEF SenderTypes, Report, SendPanics, ReporterReturns
    <2> QED
      BY <2>1 DEF SenderTypes, Report, SendPanics, ReporterReturns
  <1>2. UNCHANGED <<main, underWay, count, waiter, rticker, spc, sliceVars, payload>>
    BY DEF Report, SendPanics, ReporterReturns
  <1>3. Slices' /\ PostsOwnMetrics' /\ Counted' = Counted
    BY <1>2 DEF Slices, PostsOwnMetrics, Counted
  <1>4. Waiting'
    BY <1>2, <1>3 DEF Waiting
  <1>5. Numbering'
    <2>1. Report => main \in {"run", "ticker"}
      BY DEF SenderTypes, Waiting, Report
    <2> QED
      BY <2>1, <1>2 DEF SenderTypes, Numbering, Reports, Report, SendPanics, ReporterReturns
  <1>6. StopCovers'
    BY <1>2 DEF StopCovers, Unfinished
  <1> QED
    BY <1>1, <1>3, <1>4, <1>5, <1>6

\* wg.Add and the start of the goroutine.
LEMMA SendUInv ==
  ASSUME UInv, Send
  PROVE  UInv'
  <1> USE DEF UInv, Alive, mainVars, wgVars, sliceVars
  <1>1. /\ rn \in Reports /\ spc[rn] = "none" /\ spc \in [Reports -> Positions]
        /\ spc' = [spc EXCEPT ![rn] = "get"]
    BY DEF Send, Numbering, SenderTypes
  <1>2. \A n \in Reports : spc[n] # "release"
    BY DEF Send, Waiting
  <1>3. SenderTypes'
    BY <1>1 DEF SenderTypes, Send, Positions
  <1>4. Slices'
    BY <1>1 DEF SenderTypes, Slices, Building, Send
  <1>5. Numbering'
    BY <1>1 DEF SenderTypes, Numbering, Reports, Send
  <1>6. count' = Cardinality(Counted')
    <2>1. Counted' = Counted \cup {rn} /\ rn \notin Counted
      BY <1>1 DEF Counted
    <2> QED
      BY <2>1, CountedFinite, FS_AddElement DEF Send
  <1>7. \A n \in Reports : spc'[n] # "release"
    BY <1>1, <1>2
  <1>8. (waiter <=> main = "blocked")' /\ (main \notin {"run", "ticker"} => ~rticker)'
    BY DEF Send, Waiting
  <1>9. Waiting'
    BY <1>6, <1>7, <1>8 DEF Waiting
  <1>10. PostsOwnMetrics'
    BY DEF PostsOwnMetrics, Send
  <1>11. StopCovers'
    BY <1>1 DEF StopCovers, Unfinished, Numbering, Send
  <1> QED
    BY <1>3, <1>4, <1>5, <1>9, <1>10, <1>11

\* A step of a goroutine that stays between wg.Add and wg.Done changes none of
\* what the WaitGroup and the numbers of the reports depend on.
Between == {"get", "fill", "grow", "marshal", "post", "delay", "put", "done"}

LEMMA BetweenKeeps ==
  ASSUME UInv, NEW n \in Reports, NEW to \in Between, spc[n] \in Between,
         spc' = [spc EXCEPT ![n] = to],
         UNCHANGED <<main, underWay, reporterVars, wgVars>>
  PROVE  Numbering' /\ Waiting' /\ StopCovers'
  <1> USE DEF UInv, reporterVars, wgVars, Between
  <1>1. spc \in [Reports -> Positions]
    BY DEF SenderTypes
  <1>2. Numbering'
    BY <1>1 DEF Numbering
  <1>3. Counted' = Counted
    BY <1>1 DEF Counted
  <1>4. \A m \in Reports : spc'[m] = "release" => spc[m] = "release"
    BY <1>1
  <1>5. Waiting'
    BY <1>3, <1>4 DEF Waiting
  <1>6. StopCovers'
    BY <1>1 DEF StopCovers, Unfinished
  <1> QED
    BY <1>2, <1>5, <1>6

\* A slice taken from the pool, or a new one, is nobody else's.
LEMMA GetBatchUInv ==
  ASSUME UInv, NEW n \in Reports, GetBatch(n)
  PROVE  UInv'
  <1> USE DEF UInv, Goes, GetBatch, mainVars, wgVars
  <1>1. PICK b \in Available :
          /\ batch' = [batch EXCEPT ![n] = b]
          /\ pool' = pool \ {b} /\ made' = IF b \in pool THEN made ELSE b
    OBVIOUS
  <1>2. b \in Reports /\ (b \in pool \/ b = made + 1)
    BY DEF Available, SenderTypes
  <1>3. spc \in [Reports -> Positions] /\ batch \in [Reports -> Reports \cup {NoBatch}] /\ made \in Nat
    BY DEF SenderTypes
  <1>4. SenderTypes'
    <2>1. made' \in Nat /\ pool' \subseteq Reports
      BY <1>1, <1>2, <1>3 DEF SenderTypes, Reports
    <2>2. spc' \in [Reports -> Positions]
      BY <1>3 DEF Positions
    <2>3. batch' \in [Reports -> Reports \cup {NoBatch}]
      BY <1>1, <1>2, <1>3
    <2> QED
      BY <2>1, <2>2, <2>3 DEF SenderTypes, reporterVars
  <1>5. Slices'
    <2>1. made <= made' /\ b <= made'
      BY <1>1, <1>2, <1>3 DEF Slices, Reports
    <2>2. \A c \in pool' : c <= made'
      BY <1>1, <1>2, <1>3, <2>1 DEF Slices, Reports, SenderTypes
    <2>3. \A m \in Reports : batch[m] # b
      BY <1>2, <1>3 DEF Slices, Reports
    <2>4. b # NoBatch
      BY <1>2
    <2>5. ASSUME NEW m \in Reports PROVE
            /\ spc'[m] \in Building => batch'[m] # NoBatch
            /\ batch'[m] # NoBatch =>
                 /\ batch'[m] \notin pool'
                 /\ \A k \in Reports \ {m} : batch'[k] # batch'[m]
            /\ spc'[m] \in Building \ {"fill"} => array'[batch'[m]] = {m}
            /\ own'[m] \subseteq {m}
      BY <1>1, <1>3, <2>3, <2>4 DEF Slices, Building
    <2>6. ASSUME NEW m \in Reports, batch'[m] # NoBatch PROVE batch'[m] <= made'
      <3>1. batch'[m] = IF m = n THEN b ELSE batch[m]
        BY <1>1, <1>3
      <3>2. batch[m] \in Reports /\ batch[m] # NoBatch => batch[m] <= made'
        BY <1>1, <1>2, <1>3, <2>1 DEF Slices, Reports
      <3> QED
        BY <3>1, <3>2, <2>1, <2>6, <1>3
    <2> QED
      BY <2>2, <2>5, <2>6 DEF Slices
  <1>6. PostsOwnMetrics'
    BY DEF PostsOwnMetrics
  <1>7. Numbering' /\ Waiting' /\ StopCovers'
    BY BetweenKeeps DEF Between
  <1> QED
    BY <1>4, <1>5, <1>6, <1>7

\* append overwrites what the slice holds from an earlier send.
LEMMA FillUInv ==
  ASSUME UInv, NEW n \in Reports, Fill(n)
  PROVE  UInv'
  <1> USE DEF UInv, Goes, Fill, mainVars, wgVars
  <1>1. PICK to \in {"grow", "marshal"} :
          to = (IF MetricsCount > Capacity THEN "grow" ELSE "marshal")
    OBVIOUS
  <1>2. spc' = [spc EXCEPT ![n] = to] /\ spc[n] = "fill"
    BY <1>1
  <1>3. /\ spc \in [Reports -> Positions] /\ batch \in [Reports -> Reports \cup {NoBatch}]
        /\ array \in [Reports -> SUBSET Reports]
    BY DEF SenderTypes
  <1>4. batch[n] \in Reports /\ \A m \in Reports \ {n} : batch[m] # batch[n]
    BY <1>2, <1>3 DEF Slices, Building
  <1>5. array' = [array EXCEPT ![batch[n]] = {n}]
    OBVIOUS
  <1>6. SenderTypes'
    <2>1. spc' \in [Reports -> Positions] /\ array' \in [Reports -> SUBSET Reports]
      BY <1>2, <1>3, <1>4, <1>5 DEF Positions
    <2> QED
      BY <2>1 DEF SenderTypes, reporterVars
  <1>7. Slices'
    BY <1>2, <1>3, <1>4, <1>5 DEF Slices, Building
  <1>8. PostsOwnMetrics'
    BY DEF PostsOwnMetrics
  <1>9. Numbering' /\ Waiting' /\ StopCovers'
    BY <1>2, BetweenKeeps DEF Between
  <1> QED
    BY <1>6, <1>7, <1>8, <1>9

LEMMA GrowUInv ==
  ASSUME UInv, NEW n \in Reports, Grow(n)
  PROVE  UInv'
  <1> USE DEF UInv, Goes, Grow, mainVars, wgVars
  <1>1. array[batch[n]] = {n}
    BY DEF Slices, Building
  <1>2. own' = [own EXCEPT ![n] = {n}]
    BY <1>1
  <1>3. SenderTypes'
    <2>1. spc' \in [Reports -> Positions]
      BY DEF SenderTypes, Positions
    <2>2. own' \in [Reports -> SUBSET Reports]
      BY <1>2 DEF SenderTypes
    <2> QED
      BY <2>1, <2>2 DEF SenderTypes, reporterVars
  <1>4. Slices'
    BY <1>1, <1>2 DEF Slices, Building, SenderTypes
  <1>5. PostsOwnMetrics'
    BY DEF PostsOwnMetrics
  <1>6. Numbering' /\ Waiting' /\ StopCovers'
    BY BetweenKeeps DEF Between
  <1> QED
    BY <1>3, <1>4, <1>5, <1>6

\* The batch is in the slice, or where append has moved it.
LEMMA MarshalUInv ==
  ASSUME UInv, NEW n \in Reports, Marshal(n)
  PROVE  UInv'
  <1> USE DEF UInv, Goes, Marshal, mainVars, wgVars, sliceVars
  <1>1. Batch(n) \subseteq {n}
    BY DEF Slices, Building, Batch
  <1>2. payload' \in [Reports -> SUBSET Reports] /\ PostsOwnMetrics'
    BY <1>1 DEF SenderTypes, PostsOwnMetrics
  <1>3. SenderTypes'
    <2>1. spc' \in [Reports -> Positions]
      BY DEF SenderTypes, Positions
    <2> QED
      BY <1>2, <2>1 DEF SenderTypes, reporterVars
  <1>4. Slices'
    BY DEF Slices, Building, SenderTypes
  <1>5. Numbering' /\ Waiting' /\ StopCovers'
    BY BetweenKeeps DEF Between
  <1> QED
    BY <1>2, <1>3, <1>4, <1>5

\* The ends of an attempt and of a delay.
LEMMA AttemptUInv ==
  ASSUME UInv, NEW n \in Reports,
         MarshalFails(n) \/ PostEnds(n) \/ PostFails(n) \/ RetryDelay(n) \/ RetryCancelled(n)
  PROVE  UInv'
  <1> USE DEF UInv, Goes, mainVars, wgVars, sliceVars
  <1>1. PICK to \in {"marshal", "delay", "put"} : spc' = [spc EXCEPT ![n] = to]
    BY DEF MarshalFails, PostEnds, PostFails, RetryDelay, RetryCancelled
  <1>2. /\ spc[n] \in {"marshal", "post", "delay"}
        /\ UNCHANGED <<mainVars, crashed, reporterVars, wgVars, sliceVars>>
        /\ payload' = payload \/ payload' = [payload EXCEPT ![n] = {}]
    BY DEF MarshalFails, PostEnds, PostFails, RetryDelay, RetryCancelled
  <1>3. att' \in [Reports -> Nat] /\ payload' \in [Reports -> SUBSET Reports]
    BY <1>2 DEF SenderTypes, MarshalFails, PostEnds, PostFails, RetryDelay, RetryCancelled
  <1>4. SenderTypes'
    <2>1. spc' \in [Reports -> Positions]
      BY <1>1 DEF SenderTypes, Positions
    <2> QED
      BY <1>2, <1>3, <2>1 DEF SenderTypes, reporterVars
  <1>5. Slices' /\ PostsOwnMetrics'
    BY <1>1, <1>2 DEF Slices, Building, SenderTypes, PostsOwnMetrics
  <1>6. Numbering' /\ Waiting' /\ StopCovers'
    BY <1>1, <1>2, BetweenKeeps DEF Between
  <1> QED
    BY <1>4, <1>5, <1>6

LEMMA PutBatchUInv ==
  ASSUME UInv, NEW n \in Reports, PutBatch(n)
  PROVE  UInv'
  <1> USE DEF UInv, Goes, PutBatch, mainVars, wgVars
  <1>1. batch[n] \in Reports /\ batch[n] <= made
    BY DEF Slices, Building, SenderTypes
  <1>2. SenderTypes'
    <2>1. spc' \in [Reports -> Positions]
      BY DEF SenderTypes, Positions
    <2>2. batch' \in [Reports -> Reports \cup {NoBatch}] /\ pool' \subseteq Reports
      BY <1>1 DEF SenderTypes
    <2>3. own' \in [Reports -> SUBSET Reports] /\ att' \in [Reports -> Nat]
      BY DEF SenderTypes
    <2> QED
      BY <2>1, <2>2, <2>3 DEF SenderTypes, reporterVars
  <1>3. Slices'
    BY <1>1 DEF Slices, Building, SenderTypes
  <1>4. PostsOwnMetrics'
    BY DEF PostsOwnMetrics
  <1>5. Numbering' /\ Waiting' /\ StopCovers'
    BY BetweenKeeps DEF Between
  <1> QED
    BY <1>2, <1>3, <1>4, <1>5

\* wg.Done: the last one with a waiter goes on to release it.
LEMMA DoneUInv ==
  ASSUME UInv, NEW n \in Reports, Done(n)
  PROVE  UInv'
  <1> USE DEF UInv, Goes, Done, mainVars, reporterVars, sliceVars
  <1>1. PICK to \in {"release", "over"} : to = (IF count = 1 /\ waiter THEN "release" ELSE "over")
    OBVIOUS
  <1>2. spc' = [spc EXCEPT ![n] = to] /\ spc[n] = "done" /\ spc \in [Reports -> Positions]
    BY <1>1 DEF SenderTypes
  <1>3. n \in Counted /\ Counted' = Counted \ {n}
    BY <1>2 DEF Counted
  <1>4. count' = Cardinality(Counted') /\ count' \in Int
    <2>1. Cardinality(Counted \ {n}) = Cardinality(Counted) - 1
      BY <1>3, CountedFinite, FS_RemoveElement
    <2> QED
      BY <2>1, <1>3, CountedFinite
  <1>5. \A m \in Reports : spc[m] # "release"
    BY <1>3, CountedFinite DEF Waiting
  <1>6. SenderTypes'
    <2>1. spc' \in [Reports -> Positions]
      BY <1>2 DEF Positions
    <2> QED
      BY <1>4, <2>1 DEF SenderTypes
  <1>7. Slices' /\ PostsOwnMetrics'
    BY <1>2 DEF Slices, Building, PostsOwnMetrics
  <1>8. Numbering'
    BY <1>2 DEF Numbering
  <1>9. StopCovers'
    BY <1>2 DEF StopCovers, Unfinished
  <1>10. Waiting'
    <2>1. \A m \in Reports : spc'[m] = "release" => m = n
      BY <1>2, <1>5
    <2>2. spc'[n] = "release" => count = 1 /\ waiter
      BY <1>1, <1>2
    <2>3. count = 1 => count' = 0
      OBVIOUS
    <2>4. (waiter <=> main = "blocked")' /\ (main \notin {"run", "ticker"} => ~rticker)'
      BY DEF Waiting
    <2> QED
      BY <1>4, <2>1, <2>2, <2>3, <2>4 DEF Waiting
  <1> QED
    BY <1>6, <1>7, <1>8, <1>9, <1>10

\* The waiter is woken by one goroutine.
LEMMA ReleaseUInv ==
  ASSUME UInv, NEW n \in Reports, Release(n)
  PROVE  UInv'
  <1> USE DEF UInv, Release, reporterVars, sliceVars
  <1>1. spc' = [spc EXCEPT ![n] = "over"] /\ spc[n] = "release" /\ spc \in [Reports -> Positions]
    BY DEF SenderTypes
  <1>2. Counted' = Counted
    BY <1>1 DEF Counted
  <1>3. \A m \in Reports : spc'[m] # "release"
    BY <1>1 DEF Waiting
  <1>4. main = "blocked" /\ ~rticker
    BY DEF Waiting
  <1>5. SenderTypes'
    <2>1. spc' \in [Reports -> Positions]
      BY <1>1 DEF Positions
    <2> QED
      BY <2>1 DEF SenderTypes
  <1>6. Slices' /\ PostsOwnMetrics'
    BY <1>1 DEF Slices, Building, PostsOwnMetrics
  <1>7. Numbering' /\ StopCovers'
    BY <1>1, <1>4 DEF Numbering, StopCovers
  <1>8. Waiting'
    BY <1>2, <1>3, <1>4 DEF Waiting
  <1> QED
    BY <1>5, <1>6, <1>7, <1>8

\* The steps of main.  Stop goes on when the counter is zero, and then nobody
\* sends: who has not passed wg.Done is counted, and who releases a waiter finds
\* main blocked.
LEMMA MainUInv ==
  ASSUME UInv, Signal \/ Shutdown
  PROVE  UInv'
  <1> USE DEF UInv, Steps, sliceVars, reporterVars, wgVars
  <1>1. UNCHANGED <<rpc, rn, count, spc, att, sliceVars, payload>>
    BY DEF Signal, Shutdown, AppWait, StopTicker, StopFindsNone, StopDone, StopBlocks, StopWakes,
           StopPanics, ReporterStopWaits
  <1>2. Slices' /\ PostsOwnMetrics' /\ Counted' = Counted
    BY <1>1 DEF Slices, PostsOwnMetrics, Counted
  <1>3. SenderTypes'
    <2>1. /\ signalled' \in BOOLEAN /\ crashed' \in BOOLEAN
          /\ rticker' \in BOOLEAN /\ waiter' \in BOOLEAN
          /\ main' \in {"run", "ticker", "stop", "blocked", "woken", "reporter", "exited"}
      BY Zenon DEF SenderTypes, Signal, Shutdown, AppWait, StopTicker, StopFindsNone, StopDone, StopBlocks,
                   StopWakes, StopPanics, ReporterStopWaits
    <2> QED
      BY <1>1, <2>1 DEF SenderTypes
  <1>4. Waiting'
    <2>1. /\ (waiter <=> main = "blocked")' /\ (main \notin {"run", "ticker"} => ~rticker)'
          /\ waiter => waiter'
      BY DEF SenderTypes, Waiting, Signal, Shutdown, AppWait, StopTicker, StopFindsNone, StopDone, StopBlocks,
             StopWakes, StopPanics, ReporterStopWaits
    <2> QED
      BY <1>1, <1>2, <2>1 DEF Waiting
  <1>5. Numbering' /\ StopCovers'
    <2>1. CASE StopFindsNone \/ StopWakes
      <3>1. /\ count = 0 /\ main \in {"stop", "woken"}
            /\ underWay' = IF rpc = "send" THEN {rn} ELSE {}
        BY <2>1 DEF StopFindsNone, StopWakes, StopDone
      <3>2. \A n \in Reports : ~Unfinished(n)
        BY <3>1, CountedFinite DEF Unfinished, Counted, Waiting
      <3> QED
        BY <3>1, <3>2, <1>1 DEF Numbering, StopCovers, Unfinished
    <2>2. CASE ~(StopFindsNone \/ StopWakes)
      <3>1. /\ main' \in {"reporter", "exited"} => main \in {"reporter", "exited"}
            /\ underWay' = underWay
        BY <2>2 DEF Signal, Shutdown, AppWait, StopTicker, StopBlocks, StopPanics, ReporterStopWaits
      <3> QED
        BY <3>1, <1>1 DEF Numbering, StopCovers, Unfinished
    <2> QED
      BY <2>1, <2>2
  <1> QED
    BY <1>2, <1>3, <1>4, <1>5

LEMMA NextUInv == UInv /\ [Next]_vars => UInv'
  <1> SUFFICES ASSUME UInv, [Next]_vars PROVE UInv'
    OBVIOUS
  <1>1. CASE Reporter
    BY <1>1, ReporterUInv, SendUInv DEF Reporter
  <1>2. ASSUME NEW n \in Reports, Sending(n) PROVE UInv'
    BY <1>2, GetBatchUInv, FillUInv, GrowUInv, MarshalUInv, AttemptUInv, PutBatchUInv,
       DoneUInv, ReleaseUInv DEF Sending
  <1>3. CASE Signal \/ Shutdown
    BY <1>3, MainUInv
  <1>4. CASE UNCHANGED vars
    BY <1>4 DEF vars, mainVars, reporterVars, wgVars, sliceVars, UInv, SenderTypes, Slices, Numbering,
                Waiting, Counted, PostsOwnMetrics, StopCovers, Unfinished
  <1> QED
    BY <1>1, <1>2, <1>3, <1>4 DEF Next

\* The inductive invariant of the unlimited sender.
THEOREM UInvHolds == Spec => []UInv
  BY InitUInv, NextUInv, PTL DEF Spec

\* Payloads carry their own report only, whatever the order in which the
\* goroutines borrow, grow and return the slices of batchPool.
THEOREM PayloadsAreOwn == Spec => []PostsOwnMetrics
  <1>1. UInv => PostsOwnMetrics
    BY DEF UInv
  <1> QED
    BY <1>1, UInvHolds, PTL

\* Once unlimitedSender.Stop has returned, a send runs only for the report that
\* was between its tick and wg.Add at that moment, for any number of reports and
\* of attempts: the WaitGroup covers every send counted before.
THEOREM StopCoversSends == Spec => []StopCovers
  <1>1. UInv => StopCovers
    BY DEF UInv
  <1> QED
    BY <1>1, UInvHolds, PTL
=============================================================================
