-------------------------- MODULE MemStorageProofs --------------------------
(***************************************************************************)
(* The safety of MemStorage for every set of ids and values, every width   *)
(* of the counters and every choice of the flags.                          *)
(***************************************************************************)
EXTENDS MemStorage, SumTheorems

USE WidthAssumption, DeltasAssumption, NilAssumption, ValuesAssumption, FlagsAssumption

-----------------------------------------------------------------------------
(* Lemmas about the operators.                                             *)

LEMMA ZeroInt64 == 0 \in Int64
  BY DEF Int64

\* Wrapping any integer gives an integer of the code's width.
LEMMA WrapType == ASSUME NEW x \in Int PROVE Wrap(x) \in Int64
  BY WrappedType DEF Wrap, Wrapped, Int64

\* Adding an increment keeps the map of counters well typed.
LEMMA AddedType ==
  ASSUME NEW c \in [CNames -> Int64 \cup {Nil}], NEW n, NEW d \in Int64
  PROVE  Added(c, n, d) \in [CNames -> Int64 \cup {Nil}]
  <1>1. ASSUME n \in CNames, c[n] # Nil PROVE Wrap(c[n] + d) \in Int64
    <2>1. c[n] + d \in Int
      BY <1>1 DEF Int64
    <2> QED
      BY <2>1, WrapType
  <1>2. CASE n \in CNames
    BY <1>1, <1>2 DEF Added
  <1>3. CASE n \notin CNames
    BY <1>3 DEF Added
  <1> QED
    BY <1>2, <1>3

\* The gauges JSON can represent.
FiniteGauges == [GNames -> Finite \cup {Nil}]

LEMMA MarshalableFinite ==
  ASSUME gauges \in [GNames -> Values \cup {Nil}], Marshalable
  PROVE  gauges \in FiniteGauges
  BY DEF Marshalable, FiniteGauges, Values

LEMMA SnapshotType ==
  ASSUME NEW c \in [CNames -> Int64 \cup {Nil}], NEW g \in FiniteGauges
  PROVE  Snapshot(c, g) \in SUBSET Metrics
  BY DEF Snapshot, CounterEntry, GaugeEntry, Metrics, FiniteGauges

LEMMA LoadedType ==
  ASSUME NEW es
  PROVE  /\ LoadedCounters(es) \in [CNames -> Int64 \cup {Nil}]
         /\ LoadedGauges(es) \in FiniteGauges
  BY DEF LoadedCounters, LoadedGauges, FiniteGauges

LEMMA NoneTyped == NoCounters \in [CNames -> Int64 \cup {Nil}] /\ NoGauges \in FiniteGauges
  BY DEF NoCounters, NoGauges, FiniteGauges

\* Loading what SaveToFile marshalled gives the maps back.
LEMMA RoundTrip ==
  ASSUME NEW c \in [CNames -> Int64 \cup {Nil}], NEW g \in FiniteGauges
  PROVE  LoadedCounters(Snapshot(c, g)) = c /\ LoadedGauges(Snapshot(c, g)) = g
  <1> DEFINE es == Snapshot(c, g)
  <1>1. \A n \in CNames : \A d \in Int64 : CounterEntry(n, d) \in es <=> c[n] = d
    BY DEF Snapshot, CounterEntry, GaugeEntry
  <1>2. \A n \in GNames : \A x \in Finite : GaugeEntry(n, x) \in es <=> g[n] = x
    BY DEF Snapshot, CounterEntry, GaugeEntry, Values
  <1> HIDE DEF es
  <1>3. ASSUME NEW n \in CNames PROVE LoadedCounters(es)[n] = c[n]
    BY <1>1 DEF LoadedCounters
  <1>4. ASSUME NEW n \in GNames PROVE LoadedGauges(es)[n] = g[n]
    BY <1>2 DEF LoadedGauges, FiniteGauges
  <1> QED
    BY <1>3, <1>4, LoadedType DEF LoadedCounters, LoadedGauges, FiniteGauges, es

-----------------------------------------------------------------------------
(* The inductive invariant.                                                *)

\* How the positions of the saver and of Close hang together: a process that
\* is not up has neither, once Close has begun no ticker is left, and a Close
\* that found the saver in its select never meets it in a save.
Control ==
  /\ proc # "up" => /\ mu = "free" /\ batch = <<>> /\ saver = "none"
                    /\ closer \in {"idle", "closed"}
  /\ proc = "up" /\ closer # "idle" => ~ticker
  /\ closer # "idle" /\ quiet => saver \in {"none", "select", "returned"}

\* What was marshalled last came from well-typed maps.
DataMarshalled ==
  \E c \in [CNames -> Int64 \cup {Nil}], g \in FiniteGauges : data = Snapshot(c, g)

IInv ==
  /\ TypeOK
  /\ MutexOwner
  /\ Control
  /\ SnapshotExact
  /\ DataMarshalled
  /\ DurableClose

\* The types of the flags, which need another prover than the rest.
FlagTypes == ticker \in BOOLEAN /\ done \in BOOLEAN /\ closeErr \in BOOLEAN /\ quiet \in BOOLEAN

LEMMA EmptySnapshot == Snapshot(NoCounters, NoGauges) = {}
  BY DEF Snapshot, NoCounters, NoGauges

LEMMA InitIInv == Init => IInv
  <1> SUFFICES ASSUME Init PROVE IInv
    OBVIOUS
  <1>1. TypeOK
    <2>1. file \in [state : {"absent", "torn", "ok"}, entries : SUBSET Metrics]
      BY DEF Init, Absent
    <2>2. resp \in Replies
      BY DEF Init, Replies
    <2>3. FlagTypes
      BY Zenon DEF Init, FlagTypes
    <2> QED
      BY <2>1, <2>2, <2>3, NoneTyped DEF Init, TypeOK, FlagTypes, FiniteGauges, Values
  <1>2. MutexOwner /\ Control /\ SnapshotExact /\ DurableClose
    BY DEF Init, MutexOwner, Control, SnapshotExact, DurableClose, DurablyClosed
  <1>3. DataMarshalled
    BY EmptySnapshot, NoneTyped DEF Init, DataMarshalled
  <1> QED
    BY <1>1, <1>2, <1>3 DEF IInv

\* SaveOpens, whoever calls it, marshals well-typed entries.
LEMMA SaveOpensData ==
  ASSUME TypeOK, NEW p, SaveOpens(p)
  PROVE  /\ data' \in SUBSET Metrics /\ DataMarshalled'
         /\ file' = Torn /\ mu' = p
  <1>1. gauges \in FiniteGauges /\ counters \in [CNames -> Int64 \cup {Nil}]
    BY MarshalableFinite DEF SaveOpens, TypeOK
  <1>2. data' = Snapshot(counters, gauges)
    BY DEF SaveOpens
  <1> QED
    BY <1>1, <1>2, SnapshotType DEF SaveOpens, DataMarshalled


LEMMA StepTypeOK ==
  ASSUME TypeOK, Step, resp' = NoReply
  PROVE  TypeOK'
  <1> USE DEF mem, saving, closing, disk
  <1>0. resp' \in Replies
    BY DEF Replies
  <1>1. ASSUME NEW c \in [CNames -> Int64 \cup {Nil}], NEW g \in FiniteGauges, StartWith(c, g)
        PROVE  TypeOK'
    <2>1. FlagTypes'
      BY <1>1 DEF FlagTypes, StartWith, FreshProcess
    <2> QED
      BY <1>0, <1>1, <2>1 DEF TypeOK, FlagTypes, StartWith, FreshProcess, FiniteGauges, Values
  <1>2. ASSUME NEW why \in {"killed", "clean", "ticker_panic", "nil_storage_panic"}, Dies(why)
        PROVE  TypeOK'
    <2>1. FlagTypes'
      BY <1>2, Zenon DEF TypeOK, FlagTypes, Dies
    <2> QED
      BY <1>0, <1>2, <2>1, NoneTyped DEF TypeOK, FlagTypes, Dies, FiniteGauges, Values
  <1>3. CASE Start
    <2>1. CASE StartEmpty
      BY <1>1, <2>1, NoneTyped DEF StartEmpty
    <2>2. CASE StartLoaded
      BY <1>1, <2>2, LoadedType DEF StartLoaded
    <2>3. CASE StartNil
      <3>1. FlagTypes'
        BY <2>3, Zenon DEF TypeOK, FlagTypes, StartNil, FreshProcess
      <3> QED
        BY <1>0, <2>3, <3>1 DEF TypeOK, FlagTypes, StartNil, FreshProcess
    <2> QED
      BY <1>3, <2>1, <2>2, <2>3 DEF Start
  <1>4. CASE Update
    <2>1. ASSUME NEW n \in GNames, NEW v \in Values, UpdateGauge(n, v) PROVE TypeOK'
      BY <1>0, <2>1 DEF TypeOK, UpdateGauge
    <2>2. ASSUME NEW n \in CNames, NEW d \in Deltas, UpdateCounter(n, d) PROVE TypeOK'
      BY <1>0, <2>2, AddedType DEF TypeOK, UpdateCounter
    <2>3. ASSUME NEW b \in Batches, UpdateMetricsBegin(b) PROVE TypeOK'
      BY <1>0, <2>3, BatchesAssumption DEF TypeOK, UpdateMetricsBegin
    <2> QED
      BY <1>4, <2>1, <2>2, <2>3 DEF Update
  <1>5. CASE UpdateMetricsStep
    <2> DEFINE m == Head(batch)
    <2>1. m \in Metrics /\ Tail(batch) \in Seq(Metrics)
      BY <1>5 DEF UpdateMetricsStep, TypeOK
    <2> HIDE DEF m
    <2>2. counters' \in [CNames -> Int64 \cup {Nil}]
      <3>1. m.delta \in Int64 \cup {Nil}
        BY <2>1 DEF Metrics
      <3>2. m.delta # Nil => Added(counters, m.id, m.delta) \in [CNames -> Int64 \cup {Nil}]
        BY <3>1, AddedType DEF TypeOK
      <3> QED
        BY <1>5, <3>2 DEF UpdateMetricsStep, TypeOK, m
    <2>3. gauges' \in [GNames -> Values \cup {Nil}]
      BY <1>5, <2>1 DEF UpdateMetricsStep, TypeOK, m, Metrics, Values
    <2> QED
      BY <1>0, <1>5, <2>1, <2>2, <2>3 DEF UpdateMetricsStep, TypeOK, m
  <1>6. CASE UpdateMetricsEnd
    BY <1>0, <1>6 DEF TypeOK, UpdateMetricsEnd
  <1>7. CASE SaverEval \/ SaverTick \/ SaverDone \/ SaverSaveFails
    BY <1>0, <1>7 DEF TypeOK, SaverEval, SaverTick, SaverDone, SaverSaveFails, SaveFails
  <1>8. CASE SaverSaves
    BY <1>0, <1>8, SaveOpensData DEF TypeOK, SaverSaves, Torn
  <1>9. CASE SaverWrites
    BY <1>0, <1>9 DEF TypeOK, SaverWrites, SaveWrites, SaveWriteFails, Complete
  <1>10. CASE CloseBegin \/ CloseSaveFails
    <2>1. FlagTypes'
      <3>1. CASE CloseBegin
        <4>1. quiet' = (saver \in {"none", "select"}) /\ ticker' = FALSE /\ done' = TRUE
              /\ closeErr' = closeErr
          BY <3>1 DEF CloseBegin
        <4>2. (saver \in {"none", "select"}) \in BOOLEAN
          OBVIOUS
        <4> QED
          BY <4>1, <4>2, Zenon DEF TypeOK, FlagTypes
      <3>2. CASE CloseSaveFails
        BY <3>2, Zenon DEF TypeOK, FlagTypes, CloseSaveFails
      <3> QED
        BY <1>10, <3>1, <3>2
    <2> QED
      BY <1>0, <1>10, <2>1 DEF TypeOK, FlagTypes, CloseBegin, CloseSaveFails, SaveFails
  <1>11. CASE CloseSaves
    BY <1>0, <1>11, SaveOpensData DEF TypeOK, CloseSaves, Torn
  <1>12. CASE CloseWrites
    <2>1. FlagTypes'
      BY <1>12, Zenon DEF TypeOK, FlagTypes, CloseWrites, SaveWrites, SaveWriteFails
    <2> QED
      BY <1>0, <1>12, <2>1 DEF TypeOK, FlagTypes, CloseWrites, SaveWrites, SaveWriteFails, Complete
  <1>13. CASE SaverEvalNil \/ CloseNil \/ Kill \/ Exit
    BY <1>2, <1>13 DEF SaverEvalNil, CloseNil, Kill, Exit
  <1> QED
    BY <1>3, <1>4, <1>5, <1>6, <1>7, <1>8, <1>9, <1>10, <1>11, <1>12, <1>13
    DEF Step, BatchProgress, SaverLocal, SaverLocks, CloserLocks

LEMMA StepMutexOwner ==
  ASSUME IInv, Step
  PROVE  MutexOwner'
  <1> USE DEF IInv, MutexOwner, mem, saving, closing, disk
  <1>1. CASE Start
    BY <1>1 DEF Start, StartEmpty, StartLoaded, StartNil, StartWith, FreshProcess, Control, TypeOK
  <1>2. CASE Update
    BY <1>2, BatchesAssumption DEF Update, UpdateGauge, UpdateCounter, UpdateMetricsBegin, TypeOK
  <1>3. CASE BatchProgress
    BY <1>3 DEF BatchProgress, UpdateMetricsStep, UpdateMetricsEnd, TypeOK
  <1>4. CASE SaverEval \/ SaverTick \/ SaverDone \/ SaverWrites
    BY <1>4 DEF SaverEval, SaverTick, SaverDone, SaverWrites, SaveWrites, SaveWriteFails, TypeOK
  <1>5. CASE SaverLocks
    BY <1>5 DEF SaverLocks, SaverSaves, SaverSaveFails, SaveOpens, SaveFails, TypeOK
  <1>6. CASE CloseBegin \/ CloserLocks \/ CloseWrites
    BY <1>6 DEF CloseBegin, CloserLocks, CloseSaves, CloseSaveFails, CloseWrites, SaveOpens,
                SaveFails, SaveWrites, SaveWriteFails, TypeOK
  <1>7. CASE SaverEvalNil \/ CloseNil \/ Kill \/ Exit
    BY <1>7 DEF SaverEvalNil, CloseNil, Kill, Exit, Dies
  <1> QED
    BY <1>1, <1>2, <1>3, <1>4, <1>5, <1>6, <1>7 DEF Step, SaverLocal

LEMMA StepControl ==
  ASSUME IInv, Step
  PROVE  Control'
  <1> USE DEF IInv, MutexOwner, Control, mem, saving, closing, disk
  <1>1. CASE Start
    BY <1>1 DEF Start, StartEmpty, StartLoaded, StartNil, StartWith, FreshProcess, TypeOK
  <1>2. CASE Update
    BY <1>2 DEF Update, UpdateGauge, UpdateCounter, UpdateMetricsBegin, TypeOK
  <1>3. CASE BatchProgress
    BY <1>3 DEF BatchProgress, UpdateMetricsStep, UpdateMetricsEnd, TypeOK
  <1>4. CASE SaverEval \/ SaverTick \/ SaverDone \/ SaverWrites
    BY <1>4 DEF SaverEval, SaverTick, SaverDone, SaverWrites, SaveWrites, SaveWriteFails, TypeOK
  <1>5. CASE SaverLocks
    BY <1>5 DEF SaverLocks, SaverSaves, SaverSaveFails, SaveOpens, SaveFails, TypeOK
  <1>6. CASE CloseBegin
    BY <1>6 DEF CloseBegin, TypeOK
  <1>7. CASE CloserLocks \/ CloseWrites
    BY <1>7 DEF CloserLocks, CloseSaves, CloseSaveFails, CloseWrites, SaveOpens,
                SaveFails, SaveWrites, SaveWriteFails, TypeOK
  <1>8. CASE SaverEvalNil \/ CloseNil \/ Kill \/ Exit
    BY <1>8 DEF SaverEvalNil, CloseNil, Kill, Exit, Dies
  <1> QED
    BY <1>1, <1>2, <1>3, <1>4, <1>5, <1>6, <1>7, <1>8 DEF Step, SaverLocal

\* The maps change only when nobody is writing the file.
LEMMA StepSnapshot ==
  ASSUME IInv, Step
  PROVE  SnapshotExact'
  <1> USE DEF IInv, MutexOwner, SnapshotExact, mem, saving, closing, disk
  <1>1. CASE Start
    BY <1>1 DEF Start, StartEmpty, StartLoaded, StartNil, StartWith, FreshProcess
  <1>2. CASE Update
    BY <1>2 DEF Update, UpdateGauge, UpdateCounter, UpdateMetricsBegin
  <1>3. CASE BatchProgress
    BY <1>3 DEF BatchProgress, UpdateMetricsStep, UpdateMetricsEnd
  <1>4. CASE SaverEval \/ SaverTick \/ SaverDone \/ SaverWrites
    BY <1>4 DEF SaverEval, SaverTick, SaverDone, SaverWrites, SaveWrites, SaveWriteFails
  <1>5. CASE SaverLocks
    BY <1>5 DEF SaverLocks, SaverSaves, SaverSaveFails, SaveOpens, SaveFails
  <1>6. CASE CloseBegin \/ CloserLocks \/ CloseWrites
    BY <1>6 DEF CloseBegin, CloserLocks, CloseSaves, CloseSaveFails, CloseWrites, SaveOpens,
                SaveFails, SaveWrites, SaveWriteFails
  <1>7. CASE SaverEvalNil \/ CloseNil \/ Kill \/ Exit
    BY <1>7 DEF SaverEvalNil, CloseNil, Kill, Exit, Dies
  <1> QED
    BY <1>1, <1>2, <1>3, <1>4, <1>5, <1>6, <1>7 DEF Step, SaverLocal

LEMMA StepData ==
  ASSUME IInv, Step
  PROVE  DataMarshalled'
  <1> USE DEF mem, saving, closing, disk
  <1>1. CASE UNCHANGED data
    BY <1>1 DEF IInv, DataMarshalled
  <1>2. CASE Start
    <2>1. data' = Snapshot(NoCounters, NoGauges)
      BY <1>2, EmptySnapshot
      DEF Start, StartEmpty, StartLoaded, StartNil, StartWith, FreshProcess
    <2> QED
      BY <2>1, NoneTyped DEF DataMarshalled
  <1>3. CASE SaverLocks \/ CloserLocks
    BY <1>1, <1>3, SaveOpensData
    DEF IInv, SaverLocks, SaverSaves, SaverSaveFails, CloserLocks, CloseSaves, CloseSaveFails,
        SaveFails
  <1>4. CASE Update \/ BatchProgress
    BY <1>1, <1>4 DEF Update, UpdateGauge, UpdateCounter, UpdateMetricsBegin, BatchProgress,
                      UpdateMetricsStep, UpdateMetricsEnd
  <1>5. CASE SaverLocal
    BY <1>1, <1>5 DEF SaverLocal, SaverEval, SaverTick, SaverDone, SaverWrites, SaveWrites,
                      SaveWriteFails, SaverEvalNil, Dies
  <1>6. CASE CloseBegin \/ CloseWrites \/ CloseNil \/ Kill \/ Exit
    BY <1>1, <1>6 DEF CloseBegin, CloseWrites, SaveWrites, SaveWriteFails, CloseNil, Kill, Exit,
                      Dies
  <1> QED
    BY <1>2, <1>3, <1>4, <1>5, <1>6 DEF Step

\* Once Close has returned, only a save it raced with could touch the file.
LEMMA StepDurable ==
  ASSUME IInv, Step
  PROVE  DurableClose'
  <1> USE DEF mem, saving, closing, disk, IInv, DurableClose, DurablyClosed
  <1>1. CASE Start
    BY <1>1 DEF Start, StartEmpty, StartLoaded, StartNil, StartWith, FreshProcess
  <1>2. CASE Update \/ BatchProgress
    BY <1>2 DEF Update, UpdateGauge, UpdateCounter, UpdateMetricsBegin, BatchProgress,
                UpdateMetricsStep, UpdateMetricsEnd
  <1>3. CASE SaverEval \/ SaverTick \/ SaverDone
    BY <1>3 DEF SaverEval, SaverTick, SaverDone
  <1>4. CASE SaverWrites \/ SaverLocks
    BY <1>4 DEF Control, SaverWrites, SaverLocks, SaverSaves, SaverSaveFails
  <1>5. CASE CloseBegin \/ CloseSaves
    BY <1>5 DEF CloseBegin, CloseSaves
  <1>6. CASE CloseSaveFails
    BY <1>6, Zenon DEF CloseSaveFails
  <1>7. CASE CloseWrites
    BY <1>7, Zenon DEF CloseWrites, SaveWrites, SaveWriteFails
  <1>8. CASE SaverEvalNil \/ CloseNil \/ Kill \/ Exit
    BY <1>8 DEF SaverEvalNil, CloseNil, Kill, Exit, Dies
  <1> QED
    BY <1>1, <1>2, <1>3, <1>4, <1>5, <1>6, <1>7, <1>8 DEF Step, SaverLocal, CloserLocks

LEMMA ReadTypeOK ==
  ASSUME TypeOK, Read, UNCHANGED core
  PROVE  TypeOK'
  <1>1. resp' \in Replies
    <2>1. ASSUME NEW n \in CNames, GetCounter(n) PROVE resp' \in Replies
      <3>1. (IF counters[n] # Nil THEN counters[n] ELSE 0) \in Int64
        BY ZeroInt64 DEF TypeOK
      <3> QED
        BY <2>1, <3>1 DEF GetCounter, Replies
    <2>2. ASSUME NEW n \in GNames, GetGauge(n) PROVE resp' \in Replies
      BY <2>2 DEF GetGauge, Replies, TypeOK
    <2>3. CASE GetAllMetrics
      BY <2>3 DEF GetAllMetrics, Replies, TypeOK
    <2> QED
      BY <2>1, <2>2, <2>3 DEF Read
  <1> QED
    BY <1>1 DEF TypeOK, core, mem, saving, closing, disk

LEMMA CoreUnchanged ==
  ASSUME IInv, UNCHANGED core, TypeOK'
  PROVE  IInv'
  BY DEF IInv, MutexOwner, Control, SnapshotExact, DataMarshalled, DurableClose, DurablyClosed,
         core, mem, saving, closing, disk

LEMMA NextIInv ==
  ASSUME IInv, [Next]_vars
  PROVE  IInv'
  <1>1. CASE Step /\ resp' = NoReply
    BY <1>1, StepTypeOK, StepMutexOwner, StepControl, StepSnapshot, StepData, StepDurable DEF IInv
  <1>2. CASE Read /\ UNCHANGED core
    BY <1>2, ReadTypeOK, CoreUnchanged DEF IInv
  <1>3. CASE UNCHANGED vars
    <2>1. UNCHANGED core /\ UNCHANGED resp
      BY <1>3 DEF vars
    <2>2. TypeOK'
      BY <2>1 DEF IInv, TypeOK, core, mem, saving, closing, disk
    <2> QED
      BY <2>1, <2>2, CoreUnchanged
  <1> QED
    BY <1>1, <1>2, <1>3 DEF Next

\* The inductive invariant holds in every reachable state.
THEOREM IInvHolds == Spec => []IInv
  BY InitIInv, NextIInv, PTL DEF Spec

\* Type correctness: in particular the counters never leave the width of
\* int64, whatever UpdateCounter and UpdateMetrics add to them.
THEOREM TypeCorrect == Spec => []TypeOK
  <1>1. IInv => TypeOK
    BY DEF IInv
  <1> QED
    BY <1>1, IInvHolds, PTL

\* The mutex of memStorage excludes UpdateMetrics, the periodic save and the
\* save of Close from each other.
THEOREM MutualExclusion == Spec => []MutexOwner
  <1>1. IInv => MutexOwner
    BY DEF IInv
  <1> QED
    BY <1>1, IInvHolds, PTL

\* What SaveToFile writes is what the maps hold until the write has ended.
THEOREM SnapshotsExact == Spec => []SnapshotExact
  <1>1. IInv => SnapshotExact
    BY DEF IInv
  <1> QED
    BY <1>1, IInvHolds, PTL

\* A successful Close that raced with no periodic save leaves a complete file
\* for ever after.
THEOREM CloseIsDurable == Spec => []DurableClose
  <1>1. IInv => DurableClose
    BY DEF IInv
  <1> QED
    BY <1>1, IInvHolds, PTL

\* NewMemStorage with -r after such a Close holds what Close saved.
THEOREM RestoresAfterClose == Spec => RestartRestores
  <1>1. IInv /\ [Next]_vars => [proc = "down" /\ proc' = "up" /\ Restore /\ DurablyClosed
                                 => Snapshot(counters', gauges') = data]_vars
    <2> SUFFICES ASSUME IInv, Next, proc = "down", proc' = "up", Restore, DurablyClosed
                 PROVE  Snapshot(counters', gauges') = data
      OBVIOUS
    <2>1. file = Complete(data)
      BY DEF IInv, DurableClose
    <2>2. file.state = "ok" /\ file.entries = data
      BY <2>1 DEF Complete
    <2>3. Start
      <3>1. saver = "none" /\ mu = "free"
        BY DEF IInv, Control
      <3>2. Step
        BY DEF Next, Read, core
      <3>3. ~Update /\ ~BatchProgress /\ ~SaverLocal /\ ~SaverLocks
        BY <3>1 DEF Update, UpdateGauge, UpdateCounter, UpdateMetricsBegin, BatchProgress,
             UpdateMetricsStep, UpdateMetricsEnd, SaverLocal, SaverEval, SaverEvalNil, SaverTick,
             SaverDone, SaverWrites, SaverLocks, SaverSaves, SaverSaveFails
      <3>4. ~CloseBegin /\ ~CloserLocks /\ ~CloseWrites /\ ~CloseNil /\ ~Kill /\ ~Exit
        BY DEF DurablyClosed, CloseBegin, CloserLocks, CloseSaves, CloseSaveFails, CloseWrites,
               CloseNil, Kill, Exit
      <3> QED
        BY <3>2, <3>3, <3>4 DEF Step
    <2>4. counters' = LoadedCounters(data) /\ gauges' = LoadedGauges(data)
      BY <2>2, <2>3 DEF Start, StartEmpty, StartLoaded, StartNil, StartWith
    <2>5. PICK c \in [CNames -> Int64 \cup {Nil}], g \in FiniteGauges : data = Snapshot(c, g)
      BY DEF IInv, DataMarshalled
    <2> QED
      BY <2>4, <2>5, RoundTrip
  <1> QED
    BY <1>1, IInvHolds, PTL DEF RestartRestores, Spec

-----------------------------------------------------------------------------
(* The effect of a batch.                                                  *)

\* What UpdateMetrics and the single updates apply.
Written == [id : CNames \cup GNames, mtype : {"counter", "gauge", "other"},
            delta : Int64 \cup {Nil}, value : Values \cup {Nil}]

CounterMaps == [CNames -> Int64 \cup {Nil}]
GaugeMaps == [GNames -> Values \cup {Nil}]

\* UpdateMetrics's loop body on one metric.
CountersWith(c, m) == IF m.mtype = "counter" /\ m.delta # Nil THEN Added(c, m.id, m.delta) ELSE c
GaugesWith(g, m) == IF m.mtype = "gauge" /\ m.value # Nil THEN [g EXCEPT ![m.id] = m.value] ELSE g

\* A number within the width stays, and wrapping on the way changes nothing.
LEMMA WrapSmall == ASSUME NEW x \in Int64 PROVE Wrap(x) = x
  BY WrappedSmall DEF Wrap, Wrapped, Int64

LEMMA WrapAdd == ASSUME NEW x \in Int, NEW y \in Int PROVE Wrap(Wrap(x) + y) = Wrap(x + y)
  BY WrappedAdd DEF Wrap, Wrapped

LEMMA ReferenceTotal == \A f, S : Reference!Total(f, S) = Total(f, S)
  BY DEF Reference!Total, Total, Reference!MapThenSumSet, MapThenSumSet,
         Reference!MapThenFoldSet, MapThenFoldSet

\* The positions of the increments of n, the increments, and their sum.
Places(b, n) == Reference!DeltasOf(b, n)
Increments(b, n) == [i \in Places(b, n) |-> b[i].delta]
Growth(b, n) == Total(Increments(b, n), Places(b, n))
Old(x) == IF x = Nil THEN 0 ELSE x

LEMMA CounterAfter ==
  ASSUME NEW c, NEW b, NEW n \in CNames
  PROVE  Reference!CountersAfter(c, b)[n] =
           IF Places(b, n) = {} THEN c[n] ELSE Wrap(Old(c[n]) + Growth(b, n))
  BY ReferenceTotal DEF Reference!CountersAfter, Places, Increments, Growth, Old, Wrap

Counts(m, n) == m.mtype = "counter" /\ m.id = n /\ m.delta # Nil

LEMMA PlacesTyped ==
  ASSUME NEW b \in Seq(Written), NEW n
  PROVE  /\ Places(b, n) = {i \in 1 .. Len(b) : Counts(b[i], n)}
         /\ IsFiniteSet(Places(b, n))
         /\ Integral(Increments(b, n), Places(b, n))
         /\ Growth(b, n) \in Int
         /\ Places(b, n) = {} => Growth(b, n) = 0
  <1>1. Places(b, n) = {i \in 1 .. Len(b) : Counts(b[i], n)}
    BY DEF Places, Reference!DeltasOf, Counts
  <1>2. IsFiniteSet(1 .. Len(b))
    BY FS_Interval
  <1>3. IsFiniteSet(Places(b, n))
    BY <1>1, <1>2, FS_Subset
  <1>4. ASSUME NEW i \in Places(b, n) PROVE Increments(b, n)[i] \in Int
    <2>1. b[i] \in Written /\ b[i].delta # Nil
      BY <1>1 DEF Counts
    <2>2. b[i].delta \in Int64
      BY <2>1 DEF Written
    <2> QED
      BY <2>2 DEF Increments, Int64
  <1>5. Integral(Increments(b, n), Places(b, n))
    BY <1>4 DEF Integral
  <1> QED
    BY <1>1, <1>3, <1>5, TotalType DEF Growth

LEMMA HeadAndTail ==
  ASSUME NEW b \in Seq(Written), b # <<>>
  PROVE  /\ Head(b) = b[1] /\ Head(b) \in Written /\ Tail(b) \in Seq(Written)
         /\ Len(b) \in Nat \ {0} /\ Len(Tail(b)) = Len(b) - 1
         /\ \A i \in 1 .. Len(b) - 1 : Tail(b)[i] = b[i + 1]
  OBVIOUS

\* The sum of a batch is that of its first metric and that of the rest.
LEMMA GrowthStep ==
  ASSUME NEW b \in Seq(Written), b # <<>>, NEW n
  PROVE  /\ Places(b, n) = {} <=> ~Counts(Head(b), n) /\ Places(Tail(b), n) = {}
         /\ Growth(b, n) = (IF Counts(Head(b), n) THEN Head(b).delta ELSE 0) + Growth(Tail(b), n)
  <1> DEFINE t == Tail(b)
             I == Places(b, n)
             J == Places(t, n)
             f == Increments(b, n)
             e == Increments(t, n)
             h == [i \in J |-> i + 1]
             K == {h[i] : i \in J}
  <1>1. /\ Head(b) = b[1] /\ Head(b) \in Written /\ t \in Seq(Written)
        /\ Len(b) \in Nat \ {0} /\ Len(t) = Len(b) - 1
        /\ \A i \in 1 .. Len(b) - 1 : t[i] = b[i + 1]
    BY HeadAndTail
  <1>2. I = {i \in 1 .. Len(b) : Counts(b[i], n)} /\ IsFiniteSet(I) /\ Integral(f, I)
    BY PlacesTyped
  <1>3. J = {i \in 1 .. Len(t) : Counts(t[i], n)} /\ IsFiniteSet(J) /\ Integral(e, J)
        /\ Growth(t, n) \in Int
    BY <1>1, PlacesTyped
  <1>4. \A i \in I : f[i] = b[i].delta
    BY DEF Increments
  <1>5. \A i \in J : e[i] = t[i].delta
    BY DEF Increments
  <1>6. Growth(b, n) = Total(f, I) /\ Growth(t, n) = Total(e, J)
    BY DEF Growth
  <1> HIDE DEF t, I, J, f, e
  <1>7. K = {i \in I : i # 1}
    <2>1. \A i \in J : i + 1 \in I /\ i + 1 # 1
      BY <1>1, <1>2, <1>3
    <2>2. \A i \in I : i # 1 => i - 1 \in J /\ i = (i - 1) + 1
      BY <1>1, <1>2, <1>3
    <2>3. \A i \in J : h[i] = i + 1
      OBVIOUS
    <2> HIDE DEF h
    <2> QED
      BY <2>1, <2>2, <2>3
  <1>8. Total(f, K) = Total(e, J)
    <2>1. \A x, y \in J : h[x] = h[y] => x = y
      BY <1>3
    <2>2. \A x \in J : f[h[x]] = e[x]
      <3>1. \A x \in J : x + 1 \in I /\ b[x + 1] = t[x]
        BY <1>1, <1>2, <1>3
      <3> QED
        BY <1>4, <1>5, <3>1
    <2> HIDE DEF h
    <2> QED
      BY <1>3, <2>1, <2>2, TotalReindex, SMTT(30)
  <1>9. 1 \in I <=> Counts(Head(b), n)
    BY <1>1, <1>2
  <1>10. CASE Counts(Head(b), n)
    <2>1. 1 \in I /\ I \ {1} = K
      BY <1>7, <1>9, <1>10
    <2> HIDE DEF K
    <2>2. Total(f, I) = f[1] + Total(f, K)
      BY <1>2, <2>1, TotalRemove
    <2> QED
      BY <1>1, <1>4, <1>6, <1>8, <1>10, <2>1, <2>2 DEF t, I, J
  <1>11. CASE ~Counts(Head(b), n)
    <2>1. I = K
      BY <1>7, <1>9, <1>11
    <2>2. I = {} <=> J = {}
      BY <2>1
    <2> QED
      BY <1>3, <1>6, <1>8, <1>11, <2>1, <2>2 DEF t, I, J
  <1> QED
    BY <1>10, <1>11

\* Applying the first metric and then the rest is applying the batch.
LEMMA CountersStep ==
  ASSUME NEW c \in CounterMaps, NEW b \in Seq(Written), b # <<>>
  PROVE  Reference!CountersAfter(CountersWith(c, Head(b)), Tail(b)) = Reference!CountersAfter(c, b)
  <1> DEFINE m == Head(b)
             t == Tail(b)
             k == CountersWith(c, m)
  <1>1. m \in Written /\ t \in Seq(Written)
    BY HeadAndTail
  <1>2. ASSUME NEW n \in CNames
        PROVE  Reference!CountersAfter(k, t)[n] = Reference!CountersAfter(c, b)[n]
    <2> DEFINE x == Old(c[n])
               g == Growth(t, n)
    <2>0. x \in Int /\ (c[n] # Nil => x = c[n]) /\ (c[n] = Nil => x = 0)
      BY DEF CounterMaps, Old, Int64
    <2>1. g \in Int /\ (Places(t, n) = {} => g = 0)
      BY <1>1, PlacesTyped
    <2>2. /\ Places(b, n) = {} <=> ~Counts(m, n) /\ Places(t, n) = {}
          /\ Growth(b, n) = (IF Counts(m, n) THEN m.delta ELSE 0) + g
      BY GrowthStep
    <2>3. Reference!CountersAfter(c, b)[n]
            = IF Places(b, n) = {} THEN c[n] ELSE Wrap(x + Growth(b, n))
      BY CounterAfter
    <2>4. Reference!CountersAfter(k, t)[n]
            = IF Places(t, n) = {} THEN k[n] ELSE Wrap(Old(k[n]) + g)
      BY CounterAfter
    <2> HIDE DEF x, g, t
    <2>5. CASE ~Counts(m, n)
      <3>1. k[n] = c[n]
        BY <2>5 DEF CountersWith, Added, Counts, CounterMaps
      <3> QED
        BY <2>1, <2>2, <2>3, <2>4, <2>5, <3>1 DEF x
    <2>6. CASE Counts(m, n)
      <3> DEFINE d == m.delta
      <3>1. d \in Int64 /\ d \in Int
        BY <1>1, <2>6 DEF Counts, Written, Int64
      <3>2. k[n] = IF c[n] # Nil THEN Wrap(c[n] + d) ELSE d
        BY <2>6 DEF CountersWith, Added, Counts, CounterMaps
      <3> HIDE DEF k, d
      <3>3. k[n] = Wrap(x + d)
        BY <2>0, <3>1, <3>2, WrapSmall
      <3>4. k[n] \in Int64 /\ k[n] # Nil
        BY <2>0, <3>1, <3>3, WrapType
      <3>5. Old(k[n]) = Wrap(x + d)
        BY <3>3, <3>4 DEF Old
      <3>6. Reference!CountersAfter(c, b)[n] = Wrap(x + (d + g))
        BY <2>2, <2>3, <2>6 DEF d
      <3>7. x + (d + g) = (x + d) + g
        BY <2>0, <2>1, <3>1
      <3>8. Wrap(Wrap(x + d) + g) = Wrap((x + d) + g)
        BY <2>0, <2>1, <3>1, WrapAdd
      <3>9. CASE Places(t, n) = {}
        <4>1. (x + d) + g = x + d
          BY <2>0, <2>1, <3>1, <3>9
        <4> QED
          BY <2>4, <3>3, <3>6, <3>7, <3>9, <4>1
      <3>10. CASE Places(t, n) # {}
        BY <2>4, <3>5, <3>6, <3>7, <3>8, <3>10
      <3> QED
        BY <3>9, <3>10
    <2> QED
      BY <2>5, <2>6
  <1> QED
    BY <1>2 DEF Reference!CountersAfter

\* The positions of the values of gauge n.
Settings(b, n) == Reference!ValuesOf(b, n)
Sets(m, n) == m.mtype = "gauge" /\ m.id = n /\ m.value # Nil

LEMMA ReferenceMax == \A S : Reference!Max(S) = Max(S)
  BY DEF Reference!Max, Max

LEMMA GaugeAfter ==
  ASSUME NEW g, NEW b, NEW n \in GNames
  PROVE  Reference!GaugesAfter(g, b)[n] =
           IF Settings(b, n) = {} THEN g[n] ELSE b[Max(Settings(b, n))].value
  BY ReferenceMax DEF Reference!GaugesAfter, Settings

LEMMA SettingsTyped ==
  ASSUME NEW b \in Seq(Written), NEW n
  PROVE  /\ Settings(b, n) = {i \in 1 .. Len(b) : Sets(b[i], n)}
         /\ Settings(b, n) \in SUBSET Int /\ IsFiniteSet(Settings(b, n))
  <1>1. Settings(b, n) = {i \in 1 .. Len(b) : Sets(b[i], n)}
    BY DEF Settings, Reference!ValuesOf, Sets
  <1>2. IsFiniteSet(1 .. Len(b))
    BY FS_Interval
  <1> QED
    BY <1>1, <1>2, FS_Subset

LEMMA GaugesStep ==
  ASSUME NEW g \in GaugeMaps, NEW b \in Seq(Written), b # <<>>
  PROVE  Reference!GaugesAfter(GaugesWith(g, Head(b)), Tail(b)) = Reference!GaugesAfter(g, b)
  <1> DEFINE m == Head(b)
             t == Tail(b)
             k == GaugesWith(g, m)
  <1>1. /\ m = b[1] /\ m \in Written /\ t \in Seq(Written)
        /\ Len(b) \in Nat \ {0} /\ Len(t) = Len(b) - 1
        /\ \A i \in 1 .. Len(b) - 1 : t[i] = b[i + 1]
    BY HeadAndTail
  <1>2. ASSUME NEW n \in GNames
        PROVE  Reference!GaugesAfter(k, t)[n] = Reference!GaugesAfter(g, b)[n]
    <2> DEFINE I == Settings(b, n)
               J == Settings(t, n)
    <2>1. I = {i \in 1 .. Len(b) : Sets(b[i], n)} /\ I \in SUBSET Int /\ IsFiniteSet(I)
      BY SettingsTyped
    <2>2. J = {i \in 1 .. Len(t) : Sets(t[i], n)} /\ J \in SUBSET Int /\ IsFiniteSet(J)
      BY <1>1, SettingsTyped
    <2>3. Reference!GaugesAfter(g, b)[n] = IF I = {} THEN g[n] ELSE b[Max(I)].value
      BY GaugeAfter
    <2>4. Reference!GaugesAfter(k, t)[n] = IF J = {} THEN k[n] ELSE t[Max(J)].value
      BY GaugeAfter
    <2>5. k[n] = IF Sets(m, n) THEN m.value ELSE g[n]
      BY DEF GaugesWith, Sets, GaugeMaps
    <2> HIDE DEF I, J, m, t, k
    <2>6. (1 \in I <=> Sets(m, n)) /\ (\A i \in I : i # 1 => i - 1 \in J)
          /\ (\A j \in J : j + 1 \in I)
      <3>1. 1 \in I <=> Sets(m, n)
        BY <1>1, <2>1
      <3>2. ASSUME NEW i \in I, i # 1 PROVE i - 1 \in J
        <4>1. i \in 1 .. Len(b) /\ i - 1 \in 1 .. Len(b) - 1 /\ Sets(b[i], n)
          BY <1>1, <2>1, <3>2
        <4>2. t[i - 1] = b[(i - 1) + 1] /\ (i - 1) + 1 = i
          BY <1>1, <4>1
        <4> QED
          BY <1>1, <2>2, <4>1, <4>2
      <3>3. ASSUME NEW j \in J PROVE j + 1 \in I
        BY <1>1, <2>1, <2>2
      <3> QED
        BY <3>1, <3>2, <3>3
    <2>7. CASE J # {}
      <3>1. PICK j \in Int : j = Max(J) /\ Bounds(j, J)
        BY <2>2, <2>7, MaxIsBound DEF Bounds
      <3>2. j \in J /\ \A i \in J : j >= i
        BY <3>1 DEF Bounds
      <3>3. j \in 1 .. Len(b) - 1
        BY <1>1, <2>2, <3>2
      <3>4. \A i \in I : j + 1 >= i
        <4>1. ASSUME NEW i \in I PROVE j + 1 >= i
          <5>1. i \in Int
            BY <2>1
          <5>2. CASE i = 1
            BY <3>3, <5>2
          <5>3. CASE i # 1
            <6>1. i - 1 \in J /\ j >= i - 1
              BY <2>6, <3>2, <5>3
            <6> QED
              BY <3>1, <5>1, <6>1
          <5> QED
            BY <5>2, <5>3
        <4> QED
          BY <4>1
      <3>5. Bounds(j + 1, I)
        BY <2>6, <3>2, <3>4 DEF Bounds
      <3>6. Max(I) = j + 1
        BY <2>1, <3>5, MaxIs
      <3>7. I # {} /\ t[j] = b[j + 1]
        BY <1>1, <2>6, <3>2, <3>3
      <3> QED
        BY <2>3, <2>4, <2>7, <3>1, <3>6, <3>7
    <2>8. CASE J = {} /\ Sets(m, n)
      <3>1. I = {1}
        <4>1. \A i \in I : i = 1
          BY <2>6, <2>8
        <4> QED
          BY <2>6, <2>8, <4>1
      <3>2. Max(I) = 1
        BY <2>1, <3>1, MaxIs DEF Bounds
      <3> QED
        BY <1>1, <2>3, <2>4, <2>5, <2>8, <3>1, <3>2
    <2>9. CASE J = {} /\ ~Sets(m, n)
      <3>1. I = {}
        <4>1. \A i \in I : i = 1
          BY <2>6, <2>9
        <4> QED
          BY <2>6, <2>9, <4>1
      <3> QED
        BY <2>3, <2>4, <2>5, <2>9, <3>1
    <2> QED
      BY <2>7, <2>8, <2>9
  <1> QED
    BY <1>2 DEF Reference!GaugesAfter

\* The empty batch.
LEMMA EmptyBatch ==
  ASSUME NEW c \in CounterMaps, NEW g \in GaugeMaps
  PROVE  Reference!CountersAfter(c, <<>>) = c /\ Reference!GaugesAfter(g, <<>>) = g
  <1>1. \A n : Reference!DeltasOf(<<>>, n) = {} /\ Reference!ValuesOf(<<>>, n) = {}
    BY DEF Reference!DeltasOf, Reference!ValuesOf
  <1>2. \A n \in CNames : Reference!CountersAfter(c, <<>>)[n] = c[n]
    BY <1>1, CounterAfter DEF Places
  <1>3. \A n \in GNames : Reference!GaugesAfter(g, <<>>)[n] = g[n]
    BY <1>1, GaugeAfter DEF Settings
  <1> QED
    BY <1>2, <1>3 DEF Reference!CountersAfter, Reference!GaugesAfter, CounterMaps, GaugeMaps

\* The batch of one metric.
LEMMA OneMetric ==
  ASSUME NEW c \in CounterMaps, NEW g \in GaugeMaps, NEW m \in Written
  PROVE  /\ Reference!CountersAfter(c, <<m>>) = CountersWith(c, m)
         /\ Reference!GaugesAfter(g, <<m>>) = GaugesWith(g, m)
  <1>1. <<m>> \in Seq(Written) /\ <<m>> # <<>> /\ Head(<<m>>) = m /\ Tail(<<m>>) = <<>>
    OBVIOUS
  <1>2. CountersWith(c, m) \in CounterMaps
    <2>1. m.delta # Nil => m.delta \in Int64
      BY DEF Written
    <2> QED
      BY <2>1, AddedType DEF CountersWith, CounterMaps
  <1>3. GaugesWith(g, m) \in GaugeMaps
    <2>1. m.value # Nil => m.value \in Values
      BY DEF Written
    <2> QED
      BY <2>1 DEF GaugesWith, GaugeMaps
  <1> QED
    BY <1>1, <1>2, <1>3, CountersStep, GaugesStep, EmptyBatch

-----------------------------------------------------------------------------
(* MemStorage implements MetricStore.                                      *)

\* A file that is absent or torn has no entries, and it is torn while
\* SaveToFile writes it.
FileShape ==
  /\ file.state # "ok" => file.entries = {}
  /\ Writing => file.state = "torn"

LEMMA InitFileShape == Init => FileShape
  BY DEF Init, FileShape, Writing, Absent

LEMMA NextFileShape ==
  ASSUME IInv, FileShape, [Next]_vars
  PROVE  FileShape'
  <1> USE DEF FileShape, Writing, mem, saving, closing, disk
  <1>1. CASE Start
    BY <1>1 DEF Start, StartEmpty, StartLoaded, StartNil, StartWith, FreshProcess
  <1>2. CASE Update \/ BatchProgress
    BY <1>2 DEF Update, UpdateGauge, UpdateCounter, UpdateMetricsBegin, BatchProgress,
                UpdateMetricsStep, UpdateMetricsEnd
  <1>3. CASE SaverLocal
    BY <1>3 DEF SaverLocal, SaverEval, SaverTick, SaverDone, SaverWrites, SaveWrites,
                SaveWriteFails, SaverEvalNil, Dies, Complete
  <1>4. CASE SaverLocks \/ CloserLocks
    BY <1>4 DEF SaverLocks, SaverSaves, SaverSaveFails, CloserLocks, CloseSaves, CloseSaveFails,
                SaveOpens, SaveFails, Torn
  <1>5. CASE CloseBegin \/ CloseWrites \/ CloseNil \/ Kill \/ Exit
    BY <1>5 DEF CloseBegin, CloseWrites, SaveWrites, SaveWriteFails, Complete, CloseNil, Kill,
                Exit, Dies
  <1>6. CASE UNCHANGED core
    BY <1>6 DEF core
  <1> QED
    BY <1>1, <1>2, <1>3, <1>4, <1>5, <1>6 DEF Next, Step, vars

\* The maps as a client sees them: those of a batch that holds the mutex are
\* the maps it will leave.
SeenCounters == Reference!CountersAfter(counters, batch)
SeenGauges == Reference!GaugesAfter(gauges, batch)
SeenState == IF proc = "nilstore" THEN "failed" ELSE proc

LEMMA StoreCountersAfter ==
  \A c, b : Store!CountersAfter(c, b) = Reference!CountersAfter(c, b)
  BY DEF Store!CountersAfter, Reference!CountersAfter, Store!DeltasOf, Reference!DeltasOf,
         Store!Total, Reference!Total, Store!MapThenSumSet, Reference!MapThenSumSet,
         Store!MapThenFoldSet, Reference!MapThenFoldSet

LEMMA StoreGaugesAfter ==
  \A g, b : Store!GaugesAfter(g, b) = Reference!GaugesAfter(g, b)
  BY DEF Store!GaugesAfter, Reference!GaugesAfter, Store!ValuesOf, Reference!ValuesOf,
         Store!Max, Reference!Max

LEMMA StoreNone ==
  /\ Store!NoCounters = NoCounters /\ Store!NoGauges = NoGauges /\ Store!NoReply = NoReply
  /\ Store!Damaged = [state |-> "damaged", counters |-> NoCounters, gauges |-> NoGauges]
  BY DEF Store!NoCounters, Store!NoGauges, Store!NoReply, Store!Damaged, NoCounters, NoGauges,
         NoReply

\* Without a batch the maps are seen as they are.
LEMMA SeenAsIs ==
  ASSUME TypeOK, batch = <<>>
  PROVE  SeenCounters = counters /\ SeenGauges = gauges
  BY EmptyBatch DEF TypeOK, SeenCounters, SeenGauges, CounterMaps, GaugeMaps

LEMMA MapsOfEmptyFile == LoadedCounters({}) = NoCounters /\ LoadedGauges({}) = NoGauges
  BY DEF LoadedCounters, LoadedGauges, NoCounters, NoGauges

\* What a start would find, by the state of the file.
LEMMA SavedNowIs ==
  ASSUME FileShape
  PROVE  /\ Writing => SavedNow = [state |-> "ok", counters |-> LoadedCounters(data),
                                   gauges |-> LoadedGauges(data)]
         /\ ~Writing /\ file.state = "torn" => SavedNow = Store!Damaged
         /\ ~Writing /\ file.state # "torn" =>
              SavedNow = [state |-> file.state, counters |-> LoadedCounters(file.entries),
                          gauges |-> LoadedGauges(file.entries)]
  <1>1. CASE Writing
    BY <1>1 DEF SavedNow
  <1>2. CASE ~Writing /\ file.state = "torn"
    <2>1. SavedNow = [state |-> "damaged", counters |-> LoadedCounters(file.entries),
                      gauges |-> LoadedGauges(file.entries)]
      BY <1>2 DEF SavedNow
    <2>2. file.entries = {}
      BY <1>2 DEF FileShape
    <2> QED
      BY <1>2, <2>1, <2>2, StoreNone, MapsOfEmptyFile
  <1>3. CASE ~Writing /\ file.state # "torn"
    BY <1>3 DEF SavedNow
  <1> QED
    BY <1>1, <1>2, <1>3

LEMMA SavedNowSame ==
  ASSUME UNCHANGED <<mu, file, data>>
  PROVE  SavedNow' = SavedNow
  BY DEF SavedNow, Writing, LoadedCounters, LoadedGauges

LEMMA InitRefines == Init => Store!Init
  <1> SUFFICES ASSUME Init PROVE Store!Init
    OBVIOUS
  <1>1. counters \in CounterMaps /\ gauges \in GaugeMaps
    BY NoneTyped DEF Init, CounterMaps, GaugeMaps, FiniteGauges, Values
  <1>2. Reference!CountersAfter(counters, batch) = Store!NoCounters
        /\ Reference!GaugesAfter(gauges, batch) = Store!NoGauges
    BY <1>1, EmptyBatch, StoreNone DEF Init
  <1>3. SavedNow = [state |-> "absent", counters |-> Store!NoCounters, gauges |-> Store!NoGauges]
    BY SavedNowIs, InitFileShape, StoreNone, MapsOfEmptyFile DEF Init, Writing, Absent
  <1> QED
    BY <1>2, <1>3, StoreNone DEF Init, Store!Init

\* A step that changes nothing a client could see but the reply.
LEMMA Forgets ==
  ASSUME resp' = NoReply, UNCHANGED <<SeenState, SeenCounters, SeenGauges, SavedNow>>
  PROVE  Store!Next
  BY StoreNone DEF Store!Next, Store!Forget, SeenState, SeenCounters, SeenGauges

LEMMA SeenSame ==
  ASSUME UNCHANGED <<counters, gauges, batch>>
  PROVE  UNCHANGED <<SeenCounters, SeenGauges>>
  BY DEF SeenCounters, SeenGauges

LEMMA SeenSoon ==
  /\ SeenCounters' = Reference!CountersAfter(counters', batch')
  /\ SeenGauges' = Reference!GaugesAfter(gauges', batch')
  BY DEF SeenCounters, SeenGauges

LEMMA MetricsAreWritten == Seq(Metrics) \subseteq Seq(Written)
  <1>1. Metrics \subseteq Written
    BY DEF Metrics, Written, Values
  <1> QED
    BY <1>1

\* Applying one metric of the batch shows nothing new.
LEMMA StepRefines ==
  ASSUME IInv, UpdateMetricsStep, resp' = NoReply
  PROVE  Store!Next
  <1>1. batch \in Seq(Written) /\ batch # <<>> /\ counters \in CounterMaps /\ gauges \in GaugeMaps
    BY MetricsAreWritten DEF IInv, TypeOK, UpdateMetricsStep, CounterMaps, GaugeMaps
  <1>2. /\ counters' = CountersWith(counters, Head(batch))
        /\ gauges' = GaugesWith(gauges, Head(batch))
        /\ batch' = Tail(batch)
    BY DEF UpdateMetricsStep, CountersWith, GaugesWith
  <1>3. UNCHANGED <<SeenCounters, SeenGauges>>
    BY <1>1, <1>2, SeenSoon, CountersStep, GaugesStep DEF SeenCounters, SeenGauges
  <1>4. UNCHANGED <<SeenState, SavedNow>>
    BY SavedNowSame DEF UpdateMetricsStep, SeenState, disk
  <1> QED
    BY <1>3, <1>4, Forgets

\* A write that gets the mutex takes effect as a whole.
LEMMA WriteRefines ==
  ASSUME IInv, resp' = NoReply, proc = "up", UNCHANGED <<SeenState, SavedNow>>,
         NEW b \in Store!Writes,
         SeenCounters' = Reference!CountersAfter(SeenCounters, b),
         SeenGauges' = Reference!GaugesAfter(SeenGauges, b)
  PROVE  Store!Next
  <1>1. SeenState = "up"
    BY DEF SeenState
  <1>2. Store!Update
    BY <1>1, StoreNone, StoreCountersAfter, StoreGaugesAfter
       DEF Store!Update, SeenState, SeenCounters, SeenGauges
  <1> QED
    BY <1>2 DEF Store!Next

LEMMA FreeMutex ==
  ASSUME IInv, mu = "free"
  PROVE  batch = <<>> /\ SeenCounters = counters /\ SeenGauges = gauges
         /\ counters \in CounterMaps /\ gauges \in GaugeMaps
  BY SeenAsIs DEF IInv, MutexOwner, TypeOK, CounterMaps, GaugeMaps

LEMMA UpdateRefines ==
  ASSUME IInv, Update, resp' = NoReply
  PROVE  Store!Next
  <1> USE DEF saving, closing, disk, mem
  <1>1. ASSUME NEW n \in GNames, NEW v \in Values, UpdateGauge(n, v) PROVE Store!Next
    <2> DEFINE m == [id |-> n, mtype |-> "gauge", delta |-> Nil, value |-> v]
    <2>1. proc = "up" /\ mu = "free" /\ UNCHANGED <<SeenState, SavedNow>>
          /\ counters' = counters /\ gauges' = [gauges EXCEPT ![n] = v] /\ batch' = batch
      BY <1>1, SavedNowSame DEF UpdateGauge, SeenState
    <2>2. batch = <<>> /\ SeenCounters = counters /\ SeenGauges = gauges
          /\ counters \in CounterMaps /\ gauges \in GaugeMaps
      BY <2>1, FreeMutex
    <2>3. m \in Written /\ v # Nil
      BY DEF Written, Values
    <2>4. <<m>> \in Store!Writes
      BY DEF Store!Writes, Store!One, Values
    <2>5. counters' = CountersWith(counters, m) /\ gauges' = GaugesWith(gauges, m)
      BY <2>1, <2>3 DEF CountersWith, GaugesWith
    <2>6. counters' \in CounterMaps /\ gauges' \in GaugeMaps
      BY <2>1, <2>2 DEF GaugeMaps
    <2> HIDE DEF m
    <2>7. SeenCounters' = counters' /\ SeenGauges' = gauges'
      BY <2>1, <2>2, <2>6, SeenSoon, EmptyBatch
    <2>8. /\ SeenCounters' = Reference!CountersAfter(SeenCounters, <<m>>)
          /\ SeenGauges' = Reference!GaugesAfter(SeenGauges, <<m>>)
      BY <2>2, <2>3, <2>5, <2>7, OneMetric
    <2> QED
      BY <2>1, <2>4, <2>8, WriteRefines
  <1>2. ASSUME NEW n \in CNames, NEW d \in Deltas, UpdateCounter(n, d) PROVE Store!Next
    <2> DEFINE m == [id |-> n, mtype |-> "counter", delta |-> d, value |-> Nil]
    <2>1. proc = "up" /\ mu = "free" /\ UNCHANGED <<SeenState, SavedNow>>
          /\ counters' = Added(counters, n, d) /\ gauges' = gauges /\ batch' = batch
      BY <1>2, SavedNowSame DEF UpdateCounter, SeenState
    <2>2. batch = <<>> /\ SeenCounters = counters /\ SeenGauges = gauges
          /\ counters \in CounterMaps /\ gauges \in GaugeMaps
      BY <2>1, FreeMutex
    <2>3. m \in Written /\ d # Nil /\ d \in Int64
      BY DEF Written
    <2>4. <<m>> \in Store!Writes
      BY DEF Store!Writes, Store!One
    <2>5. counters' = CountersWith(counters, m) /\ gauges' = GaugesWith(gauges, m)
      BY <2>1, <2>3 DEF CountersWith, GaugesWith
    <2>6. counters' \in CounterMaps /\ gauges' \in GaugeMaps
      BY <2>1, <2>2, <2>3, AddedType DEF CounterMaps
    <2> HIDE DEF m
    <2>7. SeenCounters' = counters' /\ SeenGauges' = gauges'
      BY <2>1, <2>2, <2>6, SeenSoon, EmptyBatch
    <2>8. /\ SeenCounters' = Reference!CountersAfter(SeenCounters, <<m>>)
          /\ SeenGauges' = Reference!GaugesAfter(SeenGauges, <<m>>)
      BY <2>2, <2>3, <2>5, <2>7, OneMetric
    <2> QED
      BY <2>1, <2>4, <2>8, WriteRefines
  <1>3. ASSUME NEW b \in Batches, UpdateMetricsBegin(b) PROVE Store!Next
    <2>1. proc = "up" /\ mu = "free" /\ UNCHANGED SeenState
          /\ counters' = counters /\ gauges' = gauges /\ batch' = b
      BY <1>3 DEF UpdateMetricsBegin, SeenState
    <2>2. SeenCounters = counters /\ SeenGauges = gauges
      BY <2>1, FreeMutex
    <2>3. SavedNow' = SavedNow
      BY <1>3 DEF UpdateMetricsBegin, SavedNow, Writing, LoadedCounters, LoadedGauges
    <2>4. b \in Store!Writes
      BY DEF Store!Writes
    <2>5. /\ SeenCounters' = Reference!CountersAfter(SeenCounters, b)
          /\ SeenGauges' = Reference!GaugesAfter(SeenGauges, b)
      BY <2>1, <2>2, SeenSoon
    <2> QED
      BY <2>1, <2>3, <2>4, <2>5, WriteRefines
  <1> QED
    BY <1>1, <1>2, <1>3 DEF Update

\* SaveToFile takes effect when it opens the file.
LEMMA SaveOpensRefines ==
  ASSUME IInv, IInv', FileShape', NEW p \in {"saver", "closer"}, SaveOpens(p), proc = "up",
         UNCHANGED <<proc, mem, batch>>, resp' = NoReply
  PROVE  Store!Next
  <1>1. mu = "free" /\ Marshalable /\ mu' = p /\ data' = Snapshot(counters, gauges)
    BY DEF SaveOpens
  <1>2. SeenCounters = counters /\ SeenGauges = gauges
        /\ counters \in CounterMaps /\ gauges \in GaugeMaps
    BY <1>1, FreeMutex
  <1>3. SeenState = "up" /\ UNCHANGED <<SeenState, SeenCounters, SeenGauges>>
    BY SeenSame DEF mem, SeenState
  <1>4. Writing'
    BY <1>1 DEF Writing
  <1>5. SavedNow' = [state |-> "ok", counters |-> LoadedCounters(data'),
                     gauges |-> LoadedGauges(data')]
    BY <1>4 DEF SavedNow, LoadedCounters, LoadedGauges
  <1>6. LoadedCounters(data') = counters /\ LoadedGauges(data') = gauges
    BY <1>1, <1>2, MarshalableFinite, RoundTrip DEF CounterMaps, GaugeMaps
  <1>7. \A n \in GNames : SeenGauges[n] \notin NonFinite
    BY <1>1, <1>2 DEF Marshalable
  <1>8. Store!Save
    BY <1>2, <1>3, <1>5, <1>6, <1>7, StoreNone DEF Store!Save, SeenState, SeenCounters, SeenGauges
  <1> QED
    BY <1>8 DEF Store!Next

\* Finishing it shows nothing new, failing it leaves nothing usable.
LEMMA SaveWritesRefines ==
  ASSUME IInv, FileShape, NEW p \in {"saver", "closer"}, SaveWrites(p),
         UNCHANGED <<proc, mem, batch>>, resp' = NoReply
  PROVE  Store!Next
  <1>1. UNCHANGED <<SeenState, SeenCounters, SeenGauges>>
    BY SeenSame DEF mem, SeenState
  <1>2. Writing /\ ~Writing' /\ file' = Complete(data) /\ data' = data
    BY DEF SaveWrites, Writing
  <1>3. SavedNow = [state |-> "ok", counters |-> LoadedCounters(data), gauges |-> LoadedGauges(data)]
    BY <1>2, SavedNowIs
  <1>4. file'.state = "ok" /\ file'.entries = data
    BY <1>2 DEF Complete
  <1>5. SavedNow' = [state |-> "ok", counters |-> LoadedCounters(data), gauges |-> LoadedGauges(data)]
    BY <1>2, <1>4 DEF SavedNow, LoadedCounters, LoadedGauges
  <1> QED
    BY <1>1, <1>3, <1>5, Forgets

LEMMA SaveWriteFailsRefines ==
  ASSUME IInv, FileShape, NEW p \in {"saver", "closer"}, SaveWriteFails(p), proc = "up",
         UNCHANGED <<proc, mem, batch>>, resp' = NoReply
  PROVE  Store!Next
  <1>1. SeenState = "up" /\ UNCHANGED <<SeenState, SeenCounters, SeenGauges>>
    BY SeenSame DEF mem, SeenState
  <1>2. ~Writing' /\ file.state = "torn" /\ file.entries = {} /\ file' = file
    BY DEF SaveWriteFails, Writing, FileShape, disk
  <1>3. SavedNow' = [state |-> "damaged", counters |-> LoadedCounters({}),
                     gauges |-> LoadedGauges({})]
    BY <1>2 DEF SavedNow, LoadedCounters, LoadedGauges
  <1>4. Store!SaveBreaks
    BY <1>1, <1>3, StoreNone, MapsOfEmptyFile
       DEF Store!SaveBreaks, SeenState, SeenCounters, SeenGauges
  <1> QED
    BY <1>4 DEF Store!Next

\* A failed attempt, and the steps that touch neither the maps nor the file.
LEMMA OthersRefine ==
  ASSUME UNCHANGED <<proc, mem, batch, mu, disk>>, resp' = NoReply
  PROVE  Store!Next
  BY SeenSame, SavedNowSame, Forgets DEF mem, disk, SeenState

\* The end of the process: a save under way is lost.
LEMMA DiesRefines ==
  ASSUME IInv, FileShape, NEW why, Dies(why), proc # "down", resp' = NoReply
  PROVE  Store!Next
  <1>1. SeenState # "down" /\ SeenState' = "down"
    BY DEF Dies, SeenState
  <1>2. NoCounters \in CounterMaps /\ NoGauges \in GaugeMaps
    BY NoneTyped DEF CounterMaps, GaugeMaps, FiniteGauges, Values
  <1>3. SeenCounters' = NoCounters /\ SeenGauges' = NoGauges
    BY <1>2, SeenSoon, EmptyBatch DEF Dies
  <1>4. ~Writing' /\ file' = file /\ data' = data
    BY DEF Dies, Writing, disk
  <1>5. SavedNow' \in {SavedNow, Store!Damaged}
    <2>1. CASE Writing
      <3>1. file.state = "torn" /\ file.entries = {}
        BY <2>1 DEF FileShape
      <3>2. SavedNow' = [state |-> "damaged", counters |-> LoadedCounters({}),
                         gauges |-> LoadedGauges({})]
        BY <1>4, <3>1 DEF SavedNow, LoadedCounters, LoadedGauges
      <3> QED
        BY <3>2, StoreNone, MapsOfEmptyFile
    <2>2. CASE ~Writing
      BY <1>4, <2>2 DEF SavedNow, LoadedCounters, LoadedGauges
    <2> QED
      BY <2>1, <2>2
  <1>6. Store!Stop
    BY <1>1, <1>3, <1>5, StoreNone DEF Store!Stop, SeenState, SeenCounters, SeenGauges
  <1> QED
    BY <1>6 DEF Store!Next

\* A start takes what the file holds, or nothing.
LEMMA StartRefines ==
  ASSUME IInv, FileShape, Start, resp' = NoReply
  PROVE  Store!Next
  <1>1. proc = "down" /\ mu = "free" /\ mu' = "free" /\ file' = file /\ batch' = <<>>
    BY DEF Start, StartEmpty, StartLoaded, StartNil, StartWith, FreshProcess, IInv, Control
  <1>2. SeenState = "down" /\ SeenCounters = counters /\ SeenGauges = gauges
        /\ counters \in CounterMaps /\ gauges \in GaugeMaps
    BY <1>1, FreeMutex DEF SeenState
  <1>3. SavedNow' = SavedNow
    BY <1>1 DEF SavedNow, Writing, LoadedCounters, LoadedGauges
  <1>4. /\ file.state = "torn" => SavedNow.state = "damaged"
        /\ file.state # "torn" => SavedNow = [state |-> file.state,
               counters |-> LoadedCounters(file.entries), gauges |-> LoadedGauges(file.entries)]
    BY <1>1 DEF SavedNow, Writing
  <1>5. ASSUME NEW c \in CounterMaps, NEW g \in GaugeMaps, StartWith(c, g),
               Restore => /\ SavedNow.state # "damaged"
                          /\ c = SavedNow.counters /\ g = SavedNow.gauges,
               ~Restore => c = NoCounters /\ g = NoGauges
        PROVE  Store!Next
    <2>1. SeenState' = "up" /\ SeenCounters' = c /\ SeenGauges' = g
      BY <1>1, <1>5, SeenSoon, EmptyBatch DEF StartWith, SeenState
    <2>2. Store!Start
      BY <1>2, <1>3, <1>5, <2>1, StoreNone DEF Store!Start, SeenState, SeenCounters, SeenGauges
    <2> QED
      BY <2>2 DEF Store!Next
  <1>6. NoCounters \in CounterMaps /\ NoGauges \in GaugeMaps
    BY NoneTyped DEF CounterMaps, GaugeMaps, FiniteGauges, Values
  <1>7. CASE StartEmpty
    <2>1. StartWith(NoCounters, NoGauges) /\ (Restore => file.state = "absent")
      BY <1>7 DEF StartEmpty
    <2>2. Restore => SavedNow.state # "damaged"
                     /\ NoCounters = SavedNow.counters /\ NoGauges = SavedNow.gauges
      BY <1>4, <2>1, MapsOfEmptyFile DEF FileShape
    <2> QED
      BY <1>5, <1>6, <2>1, <2>2
  <1>8. CASE StartLoaded
    <2> DEFINE c == LoadedCounters(file.entries)
               g == LoadedGauges(file.entries)
    <2>1. StartWith(c, g) /\ Restore /\ file.state = "ok"
      BY <1>8 DEF StartLoaded
    <2>2. c \in CounterMaps /\ g \in GaugeMaps
      BY LoadedType DEF CounterMaps, GaugeMaps, FiniteGauges, Values
    <2>3. SavedNow.state # "damaged" /\ c = SavedNow.counters /\ g = SavedNow.gauges
      BY <1>4, <2>1
    <2> HIDE DEF c, g
    <2> QED
      BY <1>5, <2>1, <2>2, <2>3
  <1>9. CASE StartNil
    <2>1. SeenState' = "failed" /\ counters' = counters /\ gauges' = gauges
      BY <1>9 DEF StartNil, SeenState, mem
    <2>2. SeenCounters' = counters /\ SeenGauges' = gauges
      BY <1>1, <1>2, <2>1, SeenSoon, EmptyBatch
    <2>3. SavedNow.state # "absent"
      BY <1>4, <1>9 DEF StartNil
    <2>4. Store!Start
      BY <1>2, <1>3, <2>1, <2>2, <2>3, StoreNone DEF Store!Start, SeenState, SeenCounters, SeenGauges
    <2> QED
      BY <2>4 DEF Store!Next
  <1> QED
    BY <1>7, <1>8, <1>9 DEF Start

\* A read holds the mutex, so it sees no batch half applied.
LEMMA ReadRefines ==
  ASSUME IInv, Read, UNCHANGED core
  PROVE  Store!Next
  <1>1. proc = "up" /\ mu = "free"
    BY DEF Read, GetCounter, GetGauge, GetAllMetrics
  <1>2. SeenState = "up" /\ SeenCounters = counters /\ SeenGauges = gauges
        /\ counters \in CounterMaps /\ gauges \in GaugeMaps
    BY <1>1, FreeMutex DEF SeenState
  <1>3. UNCHANGED <<SeenState, SeenCounters, SeenGauges, SavedNow>>
    BY SeenSame, SavedNowSame DEF core, mem, disk, SeenState
  <1>4. ASSUME NEW n \in CNames, GetCounter(n) PROVE Store!Read
    BY <1>2, <1>3, <1>4 DEF GetCounter, Store!Read, Store!Reply, SeenState, SeenCounters, SeenGauges
  <1>5. ASSUME NEW n \in GNames, GetGauge(n) PROVE Store!Read
    BY <1>2, <1>3, <1>5 DEF GetGauge, Store!Read, Store!Reply, SeenState, SeenCounters, SeenGauges
  <1>6. ASSUME GetAllMetrics PROVE Store!Read
    <2> DEFINE some == (\E n \in CNames : counters[n] # Nil) \/ \E k \in GNames : gauges[k] # Nil
               other == <<counters, gauges>> # <<NoCounters, NoGauges>>
    <2>1. counters = NoCounters <=> \A n \in CNames : counters[n] = Nil
      BY <1>2 DEF NoCounters, CounterMaps
    <2>2. gauges = NoGauges <=> \A n \in GNames : gauges[n] = Nil
      BY <1>2 DEF NoGauges, GaugeMaps
    <2>3. some = other
      BY <2>1, <2>2, Zenon
    <2>4. resp' = [op |-> "all", found |-> some, counters |-> counters, gauges |-> gauges]
      BY <1>6 DEF GetAllMetrics
    <2> HIDE DEF some
    <2>5. resp' = [op |-> "all", found |-> other, counters |-> counters, gauges |-> gauges]
      BY <2>3, <2>4
    <2> HIDE DEF other
    <2>6. other = (<<SeenCounters, SeenGauges>> # <<Store!NoCounters, Store!NoGauges>>)
      BY <1>2, StoreNone DEF other
    <2>7. Store!Read
      BY <1>2, <1>3, <2>5, <2>6 DEF Store!Read, SeenState, SeenCounters, SeenGauges
    <2> QED
      BY <2>7
  <1> QED
    BY <1>4, <1>5, <1>6 DEF Read, Store!Next

LEMMA NextRefines ==
  ASSUME IInv, FileShape, IInv', FileShape', [Next]_vars
  PROVE  [Store!Next]_(Store!vars)
  <1> USE DEF mem, saving, closing, disk
  <1>1. ASSUME Step, resp' = NoReply PROVE Store!Next
    <2>1. CASE Start
      BY <1>1, <2>1, StartRefines
    <2>2. CASE Update
      BY <1>1, <2>2, UpdateRefines
    <2>3. CASE UpdateMetricsStep
      BY <1>1, <2>3, StepRefines
    <2>4. CASE UpdateMetricsEnd
      <3>1. UNCHANGED <<SeenState, SeenCounters, SeenGauges>>
        BY <2>4, SeenSame DEF UpdateMetricsEnd, SeenState
      <3>2. SavedNow' = SavedNow
        BY <2>4 DEF UpdateMetricsEnd, SavedNow, Writing, LoadedCounters, LoadedGauges
      <3> QED
        BY <1>1, <3>1, <3>2, Forgets
    <2>5. CASE SaverEval \/ SaverTick \/ SaverDone \/ SaverSaveFails \/ CloseBegin \/ CloseSaveFails
      <3>1. UNCHANGED <<proc, mem, batch, mu, disk>>
        BY <2>5 DEF SaverEval, SaverTick, SaverDone, SaverSaveFails, CloseBegin, CloseSaveFails,
                    SaveFails
      <3> QED
        BY <1>1, <3>1, OthersRefine
    <2>6. CASE SaverEvalNil \/ CloseNil \/ Kill \/ Exit
      <3>1. proc # "down" /\ \E why \in {"killed", "clean", "ticker_panic", "nil_storage_panic"} :
                               Dies(why)
        BY <2>6 DEF SaverEvalNil, CloseNil, Kill, Exit, IInv, Control
      <3> QED
        BY <1>1, <3>1, DiesRefines
    <2>7. CASE SaverSaves \/ CloseSaves
      <3>1. proc = "up" /\ UNCHANGED <<proc, mem, batch>>
            /\ \E p \in {"saver", "closer"} : SaveOpens(p)
        BY <2>7 DEF SaverSaves, CloseSaves, IInv, Control, TypeOK
      <3> QED
        BY <1>1, <3>1, SaveOpensRefines
    <2>8. CASE SaverWrites \/ CloseWrites
      <3>1. proc = "up" /\ UNCHANGED <<proc, mem, batch>>
            /\ \E p \in {"saver", "closer"} : SaveWrites(p) \/ SaveWriteFails(p)
        BY <2>8 DEF SaverWrites, CloseWrites, IInv, Control, TypeOK
      <3> QED
        BY <1>1, <3>1, SaveWritesRefines, SaveWriteFailsRefines
    <2> QED
      BY <1>1, <2>1, <2>2, <2>3, <2>4, <2>5, <2>6, <2>7, <2>8
         DEF Step, BatchProgress, SaverLocal, SaverLocks, CloserLocks
  <1>2. ASSUME Read, UNCHANGED core PROVE Store!Next
    BY <1>2, ReadRefines
  <1>3. ASSUME UNCHANGED vars PROVE UNCHANGED Store!vars
    <2>1. UNCHANGED <<SeenState, SeenCounters, SeenGauges, SavedNow, resp>>
      BY <1>3, SeenSame, SavedNowSame DEF vars, core, SeenState
    <2> QED
      BY <2>1 DEF Store!vars, SeenState, SeenCounters, SeenGauges
  <1> QED
    BY <1>1, <1>2, <1>3 DEF Next

\* The in-memory storage implements the atomic store (RefinesStore): a request,
\* a whole batch included, takes effect at one moment, no read sees half of it,
\* and what a later start finds in the file is a snapshot of such a moment or
\* nothing usable -- for every set of ids, values and batches, and every width.
THEOREM ImplementsStore == Spec => RefinesStore
  <1>1. Init => IInv /\ FileShape /\ Store!Init
    BY InitIInv, InitFileShape, InitRefines
  <1>2. IInv /\ FileShape /\ [Next]_vars => IInv' /\ FileShape'
    BY NextIInv, NextFileShape
  <1>3. IInv /\ FileShape /\ IInv' /\ FileShape' /\ [Next]_vars => [Store!Next]_(Store!vars)
    BY NextRefines
  <1> QED
    BY <1>1, <1>2, <1>3, PTL DEF Spec, RefinesStore, Store!Spec
=============================================================================
