-------------------------- MODULE DbStorageProofs --------------------------
(***************************************************************************)
(* Proofs about DbStorage for any calls, ids, operations and retry         *)
(* settings.  The inductive invariant DInv adds to the properties that all *)
(* rows satisfy chk_metric and how far retry.Do has counted at each point. *)
(***************************************************************************)
EXTENDS DbStorage, SumTheorems

\* A row of the table or of an open transaction passed chk_metric.
RowsValid ==
  /\ \A id \in Ids : table[id] # Null => Accepted(table[id])
  /\ \A c \in Calls, id \in Ids : written[c][id] # Null => Accepted(written[c][id])

\* A call that has begun has an operation; an attempt begins only while
\* attempts are left, and every failed attempt committed at most once.
Counted ==
  \A c \in Calls :
    /\ pc[c] # "idle" => op[c] \in Ops
    /\ pc[c] \in {"idle", "attempt", "tx"} => applied[c] <= att[c] /\ att[c] < Attempts
    /\ pc[c] = "retry" => applied[c] <= att[c]
    /\ applied[c] <= Attempts
    /\ result[c] = "ok" => pc[c] = "returned" /\ (op[c].kind \in Updates => applied[c] >= 1)

DInv == TypeOK /\ RowsValid /\ LocksExclusive /\ Counted

LEMMA OpShape ==
  ASSUME NEW o \in Ops
  PROVE  /\ o.kind \in Reads \cup Updates
         /\ o.metrics \in Seq(Metrics)
         /\ o.kind # "batch" => o.metrics[1] \in Metrics
         /\ o.kind = "gauge" => o.metrics[1].mtype = "gauge" /\ o.metrics[1].value # Null
         /\ o.kind = "counter" => o.metrics[1].mtype = "counter" /\ o.metrics[1].delta # Null
<1>1. o.kind \in Reads \cup Updates /\ o.metrics \in Seq(Metrics)
  BY OpsAssumption
<1>2. o.kind # "batch" => o.metrics[1] \in Metrics
  <2>1. o.kind # "batch" => Len(o.metrics) = 1
    BY OpsAssumption
  <2> QED
    BY <1>1, <2>1
<1> QED
  BY <1>1, <1>2, OpsAssumption

\* A row that an upsert makes and the table accepts is a row of the table.
LEMMA UpsertTyped ==
  ASSUME NEW row \in Rows \cup {Null}, NEW m \in Metrics, ~Skipped(m), Accepted(Upsert(row, m))
  PROVE  Upsert(row, m) \in Rows /\ Upsert(row, m) # Null
<1>1. Null \notin Rows
  BY NullAssumption
<1>2. m.mtype \in {"counter", "gauge"}
  BY DEF Skipped, Metrics
<1>3. CASE row = Null
  BY <1>1, <1>2, <1>3 DEF Upsert, Inserted, Rows, Metrics, Accepted
<1>4. CASE row # Null /\ m.mtype = "gauge"
  <2>1. Upsert(row, m) = [row EXCEPT !.value = m.value]
    BY <1>4 DEF Upsert
  <2> QED
    BY <1>1, <1>4, <2>1 DEF Rows, Metrics
<1>5. CASE row # Null /\ m.mtype = "counter"
  <2> DEFINE d == IF row.delta = Null THEN Null ELSE row.delta + m.delta
  <2>1. Upsert(row, m) = [row EXCEPT !.delta = d]
    BY <1>5 DEF Upsert
  <2>2. row \in Rows
    BY <1>5
  <2>3. Upsert(row, m).delta = d
    BY <2>1, <2>2 DEF Rows
  <2>4. d \in BigInt \cup {Null}
    BY <2>3 DEF Accepted
  <2> QED
    BY <1>1, <2>1, <2>2, <2>4 DEF Rows
<1> QED
  BY <1>2, <1>3, <1>4, <1>5

LEMMA DInvInit == Init => DInv
<1> SUFFICES ASSUME Init PROVE DInv
  OBVIOUS
<1>1. TypeOK
  BY AttemptsAssumption, HalfAssumption DEF Init, TypeOK, NoRows, NotFound
<1>2. RowsValid /\ LocksExclusive
  BY DEF Init, RowsValid, LocksExclusive, LockedBy, NoRows
<1>3. Counted
  BY AttemptsAssumption DEF Init, Counted
<1> QED
  BY <1>1, <1>2, <1>3 DEF DInv

\* Steps that change no row keep the rows valid and the locks exclusive.
LEMMA RowsKept ==
  ASSUME DInv, NEW c \in Calls, UNCHANGED <<table, written>>,
         \A d \in Calls : pc[d] = "tx" => pc'[d] = "tx" \/ (d = c /\ \A id \in Ids : written[c][id] = Null)
  PROVE  RowsValid' /\ LocksExclusive'
BY DEF DInv, RowsValid, LocksExclusive, LockedBy, Accepted, BigInt

\* A rollback leaves the other transactions as they are.
LEMMA RolledBack ==
  ASSUME DInv, NEW c \in Calls, UNCHANGED table, written' = [written EXCEPT ![c] = NoRows],
         \A d \in Calls \ {c} : pc'[d] = pc[d]
  PROVE  RowsValid' /\ LocksExclusive'
<1>1. written'[c] = NoRows /\ \A d \in Calls \ {c} : written'[d] = written[d]
  BY DEF DInv, TypeOK
<1> QED
  BY <1>1 DEF DInv, RowsValid, LocksExclusive, LockedBy, Accepted, NoRows

LEMMA CallStep ==
  ASSUME DInv, NEW c \in Calls, Call(c)
  PROVE  DInv'
<1> USE DEF DInv
<1>1. TypeOK'
  BY DEF Call, TypeOK
<1>2. RowsValid' /\ LocksExclusive'
  BY RowsKept DEF Call, TypeOK
<1>3. Counted'
  BY DEF Call, TypeOK, Counted
<1> QED
  BY <1>1, <1>2, <1>3

\* retry.Do's part of a step: an attempt of c that committed at most once ends.
LEMMA AttemptEnds ==
  ASSUME DInv, NEW c \in Calls, pc[c] \in {"attempt", "tx"}, NEW n \in 0 .. 1,
         \/ Returns(c, "ok") /\ (op[c].kind \in Updates => n = 1)
         \/ Returns(c, "error")
         \/ Errs(c),
         applied' = [applied EXCEPT ![c] = @ + n], UNCHANGED op
  PROVE  /\ Counted'
         /\ pc' \in [Calls -> {"idle", "attempt", "tx", "retry", "returned"}]
         /\ att' \in [Calls -> 0 .. Attempts]
         /\ result' \in [Calls -> {"none", "ok", "error"}]
         /\ applied' \in [Calls -> Nat]
         /\ \A d \in Calls \ {c} : pc'[d] = pc[d]
<1> USE DEF DInv, TypeOK
<1>1. applied[c] <= att[c] /\ att[c] < Attempts /\ result[c] # "ok"
  BY DEF Counted
<1>2. applied' \in [Calls -> Nat] /\ applied'[c] = applied[c] + n
  OBVIOUS
<1>3. \A d \in Calls \ {c} : applied'[d] = applied[d] /\ op'[d] = op[d]
  OBVIOUS
<1>4. CASE Returns(c, "ok") /\ (op[c].kind \in Updates => n = 1)
  <2>1. /\ pc'[c] = "returned" /\ result'[c] = "ok" /\ att' = att
        /\ \A d \in Calls \ {c} : pc'[d] = pc[d] /\ result'[d] = result[d]
    BY <1>4 DEF Returns
  <2>2. Counted'
    BY <1>1, <1>2, <1>3, <1>4, <2>1, AttemptsAssumption DEF Counted
  <2> QED
    BY <1>2, <1>4, <2>1, <2>2 DEF Returns
<1>5. CASE Returns(c, "error")
  <2>1. /\ pc'[c] = "returned" /\ result'[c] = "error" /\ att' = att
        /\ \A d \in Calls \ {c} : pc'[d] = pc[d] /\ result'[d] = result[d]
    BY <1>5 DEF Returns
  <2>2. Counted'
    BY <1>1, <1>2, <1>3, <2>1, AttemptsAssumption DEF Counted
  <2> QED
    BY <1>2, <1>5, <2>1, <2>2 DEF Returns
<1>6. CASE att' = [att EXCEPT ![c] = @ + 1] /\ pc' = [pc EXCEPT ![c] = "retry"] /\ UNCHANGED result
  <2>1. /\ pc'[c] = "retry" /\ result' = result /\ att'[c] = att[c] + 1
        /\ \A d \in Calls \ {c} : pc'[d] = pc[d] /\ att'[d] = att[d]
    BY <1>6
  <2>2. Counted'
    BY <1>1, <1>2, <1>3, <2>1, AttemptsAssumption DEF Counted
  <2> QED
    BY <1>1, <1>2, <1>6, <2>1, <2>2, AttemptsAssumption
<1> QED
  BY <1>4, <1>5, <1>6 DEF Errs

\* The same for an attempt that committed nothing.
LEMMA AttemptEndsEmpty ==
  ASSUME DInv, NEW c \in Calls, pc[c] \in {"attempt", "tx"},
         \/ Returns(c, "ok") /\ op[c].kind \notin Updates
         \/ Returns(c, "error")
         \/ Errs(c),
         UNCHANGED <<applied, op>>
  PROVE  /\ Counted'
         /\ pc' \in [Calls -> {"idle", "attempt", "tx", "retry", "returned"}]
         /\ att' \in [Calls -> 0 .. Attempts]
         /\ result' \in [Calls -> {"none", "ok", "error"}]
         /\ \A d \in Calls \ {c} : pc'[d] = pc[d]
<1>1. applied' = [applied EXCEPT ![c] = @ + 0]
  BY DEF DInv, TypeOK
<1>2. \/ Returns(c, "ok") /\ (op[c].kind \in Updates => 0 = 1)
      \/ Returns(c, "error")
      \/ Errs(c)
  OBVIOUS
<1>3. 0 \in 0 .. 1
  OBVIOUS
<1> QED
  BY <1>1, <1>2, <1>3, AttemptEnds

LEMMA RetryStep ==
  ASSUME DInv, NEW c \in Calls, Retry(c) \/ RetryEnds(c) \/ RetryCancelled(c)
  PROVE  DInv'
<1> USE DEF DInv
<1>1. TypeOK'
  BY DEF Retry, RetryEnds, RetryCancelled, Returns, TypeOK
<1>2. RowsValid' /\ LocksExclusive'
  BY RowsKept DEF Retry, RetryEnds, RetryCancelled, Returns, TypeOK
<1>3. Counted'
  BY AttemptsAssumption DEF Retry, RetryEnds, RetryCancelled, Returns, TypeOK, Counted
<1> QED
  BY <1>1, <1>2, <1>3

LEMMA UpdateOneStep ==
  ASSUME DInv, NEW c \in Calls, UpdateOne(c)
  PROVE  DInv'
<1> USE DEF DInv
<1> DEFINE m == op[c].metrics[1]
           row == Upsert(table[m.id], m)
<1>1. pc[c] = "attempt" /\ op[c] \in Ops /\ op[c].kind \in {"gauge", "counter"}
  BY DEF UpdateOne, Attempting, Counted
<1>2. m \in Metrics /\ ~Skipped(m)
  BY <1>1, OpShape DEF Skipped
<1>3. m.id \in Ids /\ table[m.id] \in Rows \cup {Null}
  BY <1>2 DEF Metrics, TypeOK
<1>4. Accepted(row) /\ table' = [table EXCEPT ![m.id] = row]
  BY DEF UpdateOne
<1>5. row \in Rows /\ row # Null
  BY <1>2, <1>3, <1>4, UpsertTyped
<1>6. /\ Counted'
      /\ pc' \in [Calls -> {"idle", "attempt", "tx", "retry", "returned"}]
      /\ att' \in [Calls -> 0 .. Attempts]
      /\ result' \in [Calls -> {"none", "ok", "error"}]
      /\ applied' \in [Calls -> Nat]
      /\ \A d \in Calls \ {c} : pc'[d] = pc[d]
  <2>1. /\ applied' = [applied EXCEPT ![c] = @ + 1] /\ UNCHANGED op
        /\ \/ Returns(c, "ok") /\ (op[c].kind \in Updates => 1 = 1)
           \/ Returns(c, "error")
           \/ Errs(c)
    BY DEF UpdateOne
  <2>2. 1 \in 0 .. 1
    OBVIOUS
  <2> QED
    BY <1>1, <2>1, <2>2, AttemptEnds
<1>7. TypeOK'
  BY <1>3, <1>4, <1>5, <1>6 DEF UpdateOne, TypeOK
<1>8. \A id \in Ids : table'[id] = (IF id = m.id THEN row ELSE table[id])
  BY <1>3, <1>4 DEF TypeOK
<1>9. written' = written
  BY DEF UpdateOne
<1>10. RowsValid'
  <2>1. \A id \in Ids : table'[id] # Null => Accepted(table'[id])
    BY <1>4, <1>8 DEF RowsValid
  <2> QED
    BY <2>1, <1>9 DEF RowsValid, Accepted
<1>11. LocksExclusive'
  BY <1>1, <1>6, <1>9 DEF LocksExclusive, LockedBy
<1> QED
  BY <1>6, <1>7, <1>10, <1>11

\* Steps that end an attempt outside a transaction and write no row.
LEMMA AttemptStep ==
  ASSUME DInv, NEW c \in Calls,
         UpdateOneRefused(c) \/ AttemptFails(c) \/ GetAllMetrics(c) \/ GetAllMetricsFails(c)
           \/ GetGauge(c) \/ GetCounter(c)
  PROVE  DInv'
<1> USE DEF DInv
<1>1. pc[c] = "attempt" /\ UNCHANGED <<table, op, next, written, applied>>
  BY DEF UpdateOneRefused, AttemptFails, GetAllMetrics, GetAllMetricsFails, GetGauge, GetCounter,
         Attempting
<1>2. \/ Returns(c, "ok") /\ op[c].kind \notin Updates
      \/ Returns(c, "error")
      \/ Errs(c)
  BY DEF UpdateOneRefused, AttemptFails, GetAllMetrics, GetAllMetricsFails, GetGauge, GetCounter,
         Attempting, Updates
<1>3. /\ Counted'
      /\ pc' \in [Calls -> {"idle", "attempt", "tx", "retry", "returned"}]
      /\ att' \in [Calls -> 0 .. Attempts]
      /\ result' \in [Calls -> {"none", "ok", "error"}]
      /\ \A d \in Calls \ {c} : pc'[d] = pc[d]
  BY <1>1, <1>2, AttemptEndsEmpty
<1>4. RowsValid' /\ LocksExclusive'
  BY <1>1, <1>3, RowsKept
<1>5. page' \in [Calls -> [Ids -> Nat]]
  <2>1. CASE UNCHANGED page
    BY <2>1 DEF TypeOK
  <2>2. CASE \E S \in SUBSET Ids : Listed(c, S)
    BY <2>2 DEF Listed, TypeOK
  <2> QED
    BY <2>1, <2>2 DEF UpdateOneRefused, AttemptFails, GetAllMetrics, GetAllMetricsFails,
                      GetGauge, GetCounter, Present
<1>6. reply' \in [Calls -> [found : BOOLEAN, value : BigInt \cup Values \cup {0}]]
  <2>1. CASE UNCHANGED reply
    BY <2>1 DEF TypeOK
  <2> DEFINE id == op[c].metrics[1].id
  <2>2. CASE GetGauge(c) \/ GetCounter(c)
    <3>1. op[c] \in Ops /\ op[c].kind # "batch"
      BY <1>1, <2>2 DEF Counted, GetGauge, GetCounter, Attempting
    <3>2. id \in Ids
      BY <3>1, OpShape DEF Metrics
    <3>3. HasType(id, "gauge") => table[id].value \in Values
      BY <3>2 DEF HasType, RowsValid, Accepted, TypeOK, Rows
    <3>4. HasType(id, "counter") => table[id].delta \in BigInt
      BY <3>2 DEF HasType, RowsValid, Accepted
    <3>5. CASE GetGauge(c)
      BY <3>3, <3>5 DEF GetGauge, NotFound, TypeOK
    <3>6. CASE GetCounter(c)
      BY <3>4, <3>6 DEF GetCounter, TypeOK
    <3> QED
      BY <2>2, <3>5, <3>6
  <2> QED
    BY <2>1, <2>2 DEF UpdateOneRefused, AttemptFails, GetAllMetrics, GetAllMetricsFails
<1> QED
  BY <1>1, <1>3, <1>4, <1>5, <1>6 DEF TypeOK

LEMMA BeginStep ==
  ASSUME DInv, NEW c \in Calls, Begin(c)
  PROVE  DInv'
<1> USE DEF DInv
<1>1. TypeOK'
  BY DEF Begin, TypeOK
<1>2. RowsValid' /\ LocksExclusive'
  BY RowsKept DEF Begin, TypeOK
<1>3. Counted'
  BY DEF Begin, Attempting, TypeOK, Counted
<1> QED
  BY <1>1, <1>2, <1>3

LEMMA SkipStep ==
  ASSUME DInv, NEW c \in Calls, Skip(c)
  PROVE  DInv'
<1> USE DEF DInv
<1>1. TypeOK'
  BY DEF Skip, TypeOK
<1>2. RowsValid' /\ LocksExclusive'
  BY RowsKept DEF Skip
<1>3. Counted'
  BY DEF Skip, Counted
<1> QED
  BY <1>1, <1>2, <1>3

LEMMA ExecStep ==
  ASSUME DInv, NEW c \in Calls, Exec(c)
  PROVE  DInv'
<1> USE DEF DInv
<1> DEFINE m == Metric(c)
           row == Upsert(Row(c, m.id), m)
<1>1. pc[c] = "tx" /\ op[c] \in Ops
  BY DEF Exec, Pending, InTx, Counted
<1>2. m \in Metrics /\ ~Skipped(m)
  <2>1. op[c].metrics \in Seq(Metrics)
    BY <1>1, OpShape
  <2>2. next[c] + 1 \in 1 .. Len(op[c].metrics)
    BY <2>1 DEF Exec, Pending, TypeOK
  <2> QED
    BY <2>1, <2>2 DEF Exec, Metric
<1>3. m.id \in Ids /\ Row(c, m.id) \in Rows \cup {Null}
  BY <1>2 DEF Metrics, TypeOK, Row
<1>4. Accepted(row) /\ written' = [written EXCEPT ![c][m.id] = row]
  BY DEF Exec
<1>5. row \in Rows /\ row # Null
  BY <1>2, <1>3, <1>4, UpsertTyped
<1>6. TypeOK'
  BY <1>3, <1>4, <1>5 DEF Exec, TypeOK
<1>7. \A d \in Calls, id \in Ids :
        written'[d][id] = IF d = c /\ id = m.id THEN row ELSE written[d][id]
  BY <1>3, <1>4 DEF TypeOK
<1>8. RowsValid'
  <2>1. table' = table
    BY DEF Exec
  <2> QED
    BY <1>4, <1>7, <2>1 DEF RowsValid, Accepted
<1>9. LocksExclusive'
  <2>1. pc' = pc /\ \A d \in Calls \ {c} : written[d][m.id] = Null
    BY DEF Exec, Free, LockedBy
  <2> QED
    BY <1>1, <1>5, <1>7, <2>1 DEF LocksExclusive, LockedBy
<1>10. Counted'
  BY DEF Exec, Counted
<1> QED
  BY <1>6, <1>8, <1>9, <1>10

\* Steps that end a transaction without committing it.
LEMMA RollbackStep ==
  ASSUME DInv, NEW c \in Calls, ExecRefused(c) \/ Deadlock(c) \/ TxFails(c)
  PROVE  DInv'
<1> USE DEF DInv
<1>1. pc[c] = "tx"
  BY DEF ExecRefused, Deadlock, Stuck, Waits, TxFails, Pending, InTx
<1>2. Rollback(c) /\ (Returns(c, "error") \/ Errs(c))
  BY DEF ExecRefused, Deadlock, TxFails
<1>3. UNCHANGED <<table, op, next, reply, page, applied>> /\ written' = [written EXCEPT ![c] = NoRows]
  BY <1>2 DEF Rollback
<1>4. /\ Counted'
      /\ pc' \in [Calls -> {"idle", "attempt", "tx", "retry", "returned"}]
      /\ att' \in [Calls -> 0 .. Attempts]
      /\ result' \in [Calls -> {"none", "ok", "error"}]
      /\ \A d \in Calls \ {c} : pc'[d] = pc[d]
  BY <1>1, <1>2, <1>3, AttemptEndsEmpty
<1>5. RowsValid' /\ LocksExclusive'
  BY <1>3, <1>4, RolledBack
<1>6. written' \in [Calls -> [Ids -> Rows \cup {Null}]]
  BY <1>3 DEF TypeOK, NoRows
<1> QED
  BY <1>3, <1>4, <1>5, <1>6 DEF TypeOK

LEMMA CommitStep ==
  ASSUME DInv, NEW c \in Calls, Commit(c)
  PROVE  DInv'
<1> USE DEF DInv
<1>1. pc[c] = "tx" /\ table' = [id \in Ids |-> Row(c, id)]
      /\ written' = [written EXCEPT ![c] = NoRows]
      /\ UNCHANGED <<op, next, reply, page>>
  BY DEF Commit, InTx
<1>2. /\ Counted'
      /\ pc' \in [Calls -> {"idle", "attempt", "tx", "retry", "returned"}]
      /\ att' \in [Calls -> 0 .. Attempts]
      /\ result' \in [Calls -> {"none", "ok", "error"}]
      /\ applied' \in [Calls -> Nat]
      /\ \A d \in Calls \ {c} : pc'[d] = pc[d]
  <2>1. /\ applied' = [applied EXCEPT ![c] = @ + 1] /\ UNCHANGED op
        /\ \/ Returns(c, "ok") /\ (op[c].kind \in Updates => 1 = 1)
           \/ Returns(c, "error")
           \/ Errs(c)
    BY DEF Commit
  <2>2. 1 \in 0 .. 1
    OBVIOUS
  <2> QED
    BY <1>1, <2>1, <2>2, AttemptEnds
<1>3. written' \in [Calls -> [Ids -> Rows \cup {Null}]]
  BY <1>1 DEF TypeOK, NoRows
<1>4. table' \in [Ids -> Rows \cup {Null}]
  BY <1>1 DEF TypeOK, Row
<1>5. TypeOK'
  BY <1>1, <1>2, <1>3, <1>4 DEF TypeOK
<1>6. written'[c] = NoRows /\ \A d \in Calls \ {c} : written'[d] = written[d]
  BY <1>1 DEF TypeOK
<1>7. \A id \in Ids : table'[id] # Null => Accepted(table'[id])
  <2>1. \A id \in Ids : Row(c, id) # Null => Accepted(Row(c, id))
    BY DEF Row, RowsValid, LockedBy
  <2>2. \A id \in Ids : table'[id] = Row(c, id)
    BY <1>1
  <2> QED
    BY <2>1, <2>2
<1>8. RowsValid' /\ LocksExclusive'
  BY <1>2, <1>6, <1>7 DEF RowsValid, LocksExclusive, LockedBy, Accepted, NoRows
<1> QED
  BY <1>2, <1>5, <1>8

LEMMA DInvNext == DInv /\ [Next]_vars => DInv'
<1> SUFFICES ASSUME DInv, [Next]_vars PROVE DInv'
  OBVIOUS
<1>1. CASE Next
  <2>1. PICK c \in Calls : Call(c) \/ Advance(c) \/ Fault(c)
    BY <1>1 DEF Next
  <2> QED
    BY <2>1, CallStep, RetryStep, UpdateOneStep, AttemptStep, BeginStep, SkipStep, ExecStep,
       RollbackStep, CommitStep DEF Advance, Fault
<1>2. CASE UNCHANGED vars
  BY <1>2 DEF vars, DInv, TypeOK, RowsValid, LocksExclusive, Counted, LockedBy, Accepted
<1> QED
  BY <1>1, <1>2

\* The inductive invariant of the database storage.
THEOREM DInvHolds == Spec => []DInv
BY DInvInit, DInvNext, PTL DEF Spec

\* The types of the calls and the table, for any calls, ids and operations:
\* no upsert leaves a row that is not a counter or a gauge in range.
THEOREM DbTypeCorrect == Spec => []TypeOK
<1>1. DInv => TypeOK
  BY DEF DInv
<1> QED
  BY <1>1, DInvHolds, PTL

\* No row is ever locked by two transactions, and no return of UpdateMetrics
\* leaves a lock behind, for any number of concurrent calls.
THEOREM LocksAreExclusive == Spec => []LocksExclusive
<1>1. DInv => LocksExclusive
  BY DEF DInv
<1> QED
  BY <1>1, DInvHolds, PTL

\* An update that returned nil was committed, and none is committed more often
\* than MaxRetries + 1 times, for any retry settings.
THEOREM AckedMeansApplied == Spec => []AckedIsApplied
<1>1. DInv => AckedIsApplied
  BY DEF DInv, Counted, AckedIsApplied
<1> QED
  BY <1>1, DInvHolds, PTL

-----------------------------------------------------------------------------
(* The counters are the sums of what was committed.                        *)

\* The metrics of an operation that add to the counter id, what they add, and
\* the sum of what the first k metrics of the operation add.
Adds(m, id) == m.id = id /\ m.mtype = "counter" /\ ~Skipped(m)
Places(o, id) == {i \in DOMAIN o.metrics : Adds(o.metrics[i], id)}
Increments(o, id) == [i \in Places(o, id) |-> o.metrics[i].delta]
Handled(o, id, k) == {i \in Places(o, id) : i <= k}
Prefix(o, id, k) == Total(Increments(o, id), Handled(o, id, k))

LEMMA DeltaIs == \A o, id : DeltaOf(o, id) = Total(Increments(o, id), Places(o, id))
BY DEF DeltaOf, Increments, Places, Adds

LEMMA PlacesTyped ==
  ASSUME NEW o \in Ops, NEW id
  PROVE  /\ Places(o, id) = {i \in 1 .. Len(o.metrics) : Adds(o.metrics[i], id)}
         /\ IsFiniteSet(Places(o, id))
         /\ \A i \in Places(o, id) : o.metrics[i].delta \in Int
         /\ Integral(Increments(o, id), Places(o, id))
         /\ Len(o.metrics) \in Nat
<1>1. o.metrics \in Seq(Metrics)
  BY OpShape
<1>2. Places(o, id) = {i \in 1 .. Len(o.metrics) : Adds(o.metrics[i], id)}
      /\ Len(o.metrics) \in Nat
  BY <1>1 DEF Places
<1>3. IsFiniteSet(Places(o, id))
  <2>1. \A n \in Nat : IsFiniteSet(1 .. n)
    BY FS_Interval
  <2> QED
    BY <1>2, <2>1, FS_Subset
<1>4. ASSUME NEW i \in Places(o, id) PROVE o.metrics[i].delta \in Int
  <2>1. o.metrics[i] \in Metrics /\ Adds(o.metrics[i], id)
    BY <1>1, <1>2
  <2> QED
    BY <2>1, HalfAssumption DEF Adds, Skipped, Metrics, BigInt
<1>5. Integral(Increments(o, id), Places(o, id))
  BY <1>4 DEF Increments, Integral
<1> QED
  BY <1>2, <1>3, <1>4, <1>5

LEMMA DeltaTyped == ASSUME NEW o \in Ops, NEW id PROVE DeltaOf(o, id) \in Int
BY PlacesTyped, TotalType, DeltaIs

\* The sums of the prefixes: none, one metric more, and all.
LEMMA PrefixTyped ==
  ASSUME NEW o \in Ops, NEW id, NEW k \in Nat
  PROVE  /\ IsFiniteSet(Handled(o, id, k)) /\ Integral(Increments(o, id), Handled(o, id, k))
         /\ Prefix(o, id, k) \in Int
<1>1. IsFiniteSet(Handled(o, id, k)) /\ Integral(Increments(o, id), Handled(o, id, k))
  BY PlacesTyped, FS_Subset DEF Handled, Integral
<1> QED
  BY <1>1, TotalType DEF Prefix

LEMMA PrefixNone == ASSUME NEW o \in Ops, NEW id PROVE Prefix(o, id, 0) = 0
<1>1. Handled(o, id, 0) = {}
  BY PlacesTyped DEF Handled
<1> QED
  BY <1>1, PrefixTyped, TotalType DEF Prefix

LEMMA PrefixAll ==
  ASSUME NEW o \in Ops, NEW id
  PROVE  Prefix(o, id, Len(o.metrics)) = DeltaOf(o, id)
<1>1. Handled(o, id, Len(o.metrics)) = Places(o, id)
  BY PlacesTyped DEF Handled
<1> QED
  BY <1>1, DeltaIs DEF Prefix

LEMMA PrefixMore ==
  ASSUME NEW o \in Ops, NEW id, NEW k \in Nat, k < Len(o.metrics)
  PROVE  Prefix(o, id, k + 1) =
           (IF Adds(o.metrics[k + 1], id) THEN o.metrics[k + 1].delta ELSE 0) + Prefix(o, id, k)
<1> DEFINE H == Handled(o, id, k)
           f == Increments(o, id)
           y == k + 1
<1>0. Prefix(o, id, k) = Total(f, H) /\ Prefix(o, id, k) \in Int
  BY PrefixTyped DEF Prefix
<1>1. IsFiniteSet(H) /\ Integral(f, H) /\ Integral(f, Places(o, id))
  BY PrefixTyped, PlacesTyped
<1>2. Places(o, id) = {i \in 1 .. Len(o.metrics) : Adds(o.metrics[i], id)} /\ Len(o.metrics) \in Nat
  BY PlacesTyped
<1>3. CASE Adds(o.metrics[y], id)
  <2>1. y \in Places(o, id)
    BY <1>2, <1>3
  <2>2. Handled(o, id, y) = H \cup {y} /\ y \notin H
    BY <1>2, <2>1 DEF Handled
  <2>3. f[y] = o.metrics[y].delta
    BY <2>1 DEF Increments
  <2>4. Integral(f, H \cup {y})
    BY <1>1, <2>1 DEF Integral
  <2>5. Prefix(o, id, y) = Total(f, H \cup {y})
    BY <2>2 DEF Prefix
  <2> HIDE DEF H, f, y
  <2>6. Total(f, H \cup {y}) = f[y] + Total(f, H)
    BY <1>1, <2>2, <2>4, TotalAdd
  <2> QED
    BY <1>0, <1>3, <2>3, <2>5, <2>6 DEF y
<1>4. CASE ~Adds(o.metrics[y], id)
  <2>1. Handled(o, id, y) = H
    BY <1>2, <1>4 DEF Handled
  <2> QED
    BY <1>0, <1>4, <2>1 DEF Prefix
<1> QED
  BY <1>3, <1>4

\* What the committed attempts of all calls add to the counter id.
Committed == {c \in Calls : applied[c] > 0}
Shares(id) == [c \in Committed |-> applied[c] * DeltaOf(op[c], id)]
Sum(id) == Total(Shares(id), Committed)

\* A call that has not begun committed nothing.
Begun == \A c \in Calls : pc[c] = "idle" => applied[c] = 0

LEMMA SharesTyped ==
  ASSUME DInv, Begun, NEW id
  PROVE  /\ IsFiniteSet(Committed) /\ Integral(Shares(id), Committed) /\ Sum(id) \in Int
         /\ \A c \in Committed : Shares(id)[c] = applied[c] * DeltaOf(op[c], id)
<1>1. IsFiniteSet(Committed)
  BY CallsAssumption, FS_Subset DEF Committed
<1>2. ASSUME NEW c \in Committed PROVE Shares(id)[c] \in Int
  <2>1. c \in Calls /\ applied[c] \in Nat /\ op[c] \in Ops
    BY <1>2 DEF DInv, TypeOK, Counted, Begun, Committed
  <2>2. PICK x \in Int : DeltaOf(op[c], id) = x
    BY <2>1, DeltaTyped
  <2>3. applied[c] * x \in Int
    BY <2>1
  <2> QED
    BY <2>2, <2>3 DEF Shares
<1>3. Integral(Shares(id), Committed)
  BY <1>2 DEF Integral
<1> QED
  BY <1>1, <1>3, TotalType DEF Sum, Shares

\* A step that commits nothing changes no sum.
LEMMA SumSame ==
  ASSUME DInv, Begun, NEW id, applied' = applied,
         \A c \in Calls : applied[c] > 0 => op'[c] = op[c]
  PROVE  Sum(id)' = Sum(id)
<1>1. Committed' = Committed
  BY DEF Committed
<1>2. Shares(id)' = [c \in Committed |-> applied[c] * DeltaOf(op'[c], id)]
  BY <1>1 DEF Shares
<1>3. \A c \in Committed : op'[c] = op[c]
  BY DEF Committed
<1>4. Shares(id)' = Shares(id)
  BY <1>2, <1>3 DEF Shares
<1>5. Sum(id)' = Total(Shares(id)', Committed')
  BY DEF Sum
<1> QED
  BY <1>1, <1>4, <1>5 DEF Sum

\* A commit adds what the operation of the call adds.
LEMMA SumMore ==
  ASSUME DInv, Begun, NEW id, NEW c \in Calls, op[c] \in Ops,
         applied' = [applied EXCEPT ![c] = @ + 1], op' = op
  PROVE  Sum(id)' = Sum(id) + DeltaOf(op[c], id)
<1> DEFINE C == Committed
           D == Committed'
           f == Shares(id)
           g == Shares(id)'
           R == C \ {c}
<1>1. PICK x \in Int : DeltaOf(op[c], id) = x
  BY DeltaTyped
<1>2. PICK n \in Nat : applied[c] = n
  BY DEF DInv, TypeOK
<1>3. /\ applied'[c] = n + 1
      /\ \A d \in Calls \ {c} : applied'[d] = applied[d]
  BY <1>2 DEF DInv, TypeOK
<1>4. D = C \cup {c} /\ C \subseteq Calls /\ (c \in C <=> n > 0)
  BY <1>2, <1>3 DEF Committed
<1>5. g = [d \in D |-> applied'[d] * DeltaOf(op[d], id)]
  BY DEF Shares
<1>6. /\ IsFiniteSet(C) /\ Integral(f, C) /\ Sum(id) \in Int
      /\ \A d \in C : f[d] = applied[d] * DeltaOf(op[d], id)
  BY SharesTyped
<1>7. g[c] = (n + 1) * x
  BY <1>1, <1>3, <1>4, <1>5
<1>8. \A d \in R : g[d] = f[d]
  BY <1>3, <1>4, <1>5, <1>6
<1>9. IsFiniteSet(R) /\ Integral(f, R)
  BY <1>6, FS_Subset DEF Integral
<1>10. Sum(id)' = Total(g, D) /\ Sum(id) = Total(f, C)
  BY DEF Sum
<1>11. D = R \cup {c} /\ c \notin R
  BY <1>4
<1>12. f[c] = n * x \/ c \notin C
  BY <1>1, <1>2, <1>6
<1> HIDE DEF C, D, f, g, R
<1>13. Integral(g, R \cup {c})
  <2>1. (n + 1) * x \in Int
    OBVIOUS
  <2> QED
    BY <1>7, <1>8, <1>9, <2>1 DEF Integral
<1>14. Total(g, D) = g[c] + Total(g, R)
  BY <1>9, <1>11, <1>13, TotalAdd
<1>15. Total(g, R) = Total(f, R)
  BY <1>8, <1>9, TotalSame
<1>16. PICK t \in Int : Total(f, R) = t
  BY <1>9, TotalType
<1>17. (n + 1) * x = n * x + x
  OBVIOUS
<1>18. CASE c \in C
  <2>1. Total(f, C) = f[c] + Total(f, C \ {c})
    BY <1>6, <1>18, TotalRemove
  <2>2. Total(f, C) = n * x + t
    BY <1>12, <1>16, <1>18, <2>1 DEF R
  <2>3. Total(g, D) = (n + 1) * x + t
    BY <1>7, <1>14, <1>15, <1>16
  <2>4. PICK y \in Int : y = n * x
    OBVIOUS
  <2> QED
    BY <1>1, <1>10, <1>17, <2>2, <2>3, <2>4
<1>19. CASE c \notin C
  <2>1. n = 0 /\ R = C
    BY <1>4, <1>19 DEF R
  <2>2. (n + 1) * x = x
    BY <2>1
  <2> QED
    BY <1>1, <1>7, <1>10, <1>14, <1>15, <1>16, <2>1, <2>2
<1> QED
  BY <1>18, <1>19

\* The row t of the table agrees with the sum s of what was committed.
Agrees(t, s) ==
  /\ t = Null => s = 0
  /\ t # Null /\ t.mtype = "counter" => t.delta = s

\* A transaction whose metrics so far add p to an id has the row w for it, over
\* the row t of the table: no row without an increment, and in the row of a
\* counter the increments and nothing else.
Carries(t, w, p) ==
  IF w = Null THEN p = 0
  ELSE w.mtype = "counter" =>
         \/ t = Null /\ w.delta = p
         \/ t # Null /\ t.mtype = "counter" /\ w.delta = t.delta + p

Adding ==
  /\ Begun
  /\ \A id \in Ids : Agrees(table[id], Sum(id))
  /\ \A c \in Calls : pc[c] = "tx" =>
       /\ next[c] <= Len(op[c].metrics)
       /\ \A id \in Ids : Carries(table[id], written[c][id], Prefix(op[c], id, next[c]))

\* A row as the table or a transaction may hold it.
Valid(row) == row = Null \/ (row \in Rows /\ Accepted(row))

\* An upsert the table accepts makes the row of a counter only from none or
\* from the row of a counter, and adds the increment.
LEMMA UpsertCounts ==
  ASSUME NEW row, Valid(row), NEW m \in Metrics, ~Skipped(m), Accepted(Upsert(row, m)),
         Upsert(row, m).mtype = "counter"
  PROVE  /\ m.mtype = "counter" /\ m.delta \in Int
         /\ \/ row = Null /\ Upsert(row, m).delta = m.delta
            \/ /\ row # Null /\ row.mtype = "counter" /\ row.delta \in Int
               /\ Upsert(row, m).delta = row.delta + m.delta
<1>1. m.mtype \in {"counter", "gauge"} /\ (m.mtype = "counter" => m.delta \in BigInt)
  BY DEF Skipped, Metrics
<1>2. BigInt \subseteq Int /\ Null \notin BigInt
  BY HalfAssumption, NullAssumption DEF BigInt
<1>3. CASE row = Null
  BY <1>1, <1>2, <1>3 DEF Upsert, Inserted
<1>4. CASE row # Null /\ m.mtype = "gauge"
  <2>1. row \in Rows /\ Accepted(row)
    BY <1>4 DEF Valid
  <2>2. Upsert(row, m) = [row EXCEPT !.value = m.value]
    BY <1>4 DEF Upsert
  <2>3. Upsert(row, m).mtype = row.mtype /\ Upsert(row, m).value = m.value
    BY <2>1, <2>2 DEF Rows
  <2>4. m.value # Null
    BY <1>4 DEF Skipped
  <2> QED
    BY <2>3, <2>4 DEF Accepted
<1>5. CASE row # Null /\ m.mtype = "counter"
  <2> DEFINE d == IF row.delta = Null THEN Null ELSE row.delta + m.delta
  <2>1. row \in Rows /\ Accepted(row)
    BY <1>5 DEF Valid
  <2>2. Upsert(row, m) = [row EXCEPT !.delta = d]
    BY <1>5 DEF Upsert
  <2>3. Upsert(row, m).mtype = row.mtype /\ Upsert(row, m).delta = d
    BY <2>1, <2>2 DEF Rows
  <2>4. row.delta \in BigInt
    BY <2>1, <2>3 DEF Accepted
  <2> QED
    BY <1>1, <1>2, <1>5, <2>3, <2>4
<1> QED
  BY <1>1, <1>3, <1>4, <1>5

\* One more metric of a transaction.
LEMMA CarryMore ==
  ASSUME NEW t, Valid(t), NEW w, Valid(w), NEW p \in Int, Carries(t, w, p),
         NEW m \in Metrics, ~Skipped(m),
         NEW r, r = (IF w # Null THEN w ELSE t), Accepted(Upsert(r, m)), Upsert(r, m) # Null
  PROVE  Carries(t, Upsert(r, m), (IF m.mtype = "counter" THEN m.delta ELSE 0) + p)
<1> DEFINE u == Upsert(r, m)
<1> SUFFICES ASSUME u.mtype = "counter"
             PROVE  \/ t = Null /\ u.delta = m.delta + p
                    \/ t # Null /\ t.mtype = "counter" /\ u.delta = t.delta + (m.delta + p)
  <2>1. m.mtype = "counter" \/ u.mtype # "counter"
    BY UpsertCounts DEF Valid
  <2> QED
    BY <2>1 DEF Carries
<1>1. /\ m.mtype = "counter" /\ m.delta \in Int
      /\ \/ r = Null /\ u.delta = m.delta
         \/ /\ r # Null /\ r.mtype = "counter" /\ r.delta \in Int
            /\ u.delta = r.delta + m.delta
  BY UpsertCounts DEF Valid
<1>2. t # Null /\ t.mtype = "counter" => t.delta \in Int
  BY HalfAssumption DEF Valid, Accepted, BigInt
<1> QED
  BY <1>1, <1>2 DEF Carries

\* A commit of the row.
LEMMA CommitAgrees ==
  ASSUME NEW t, Valid(t), NEW w, NEW p \in Int, NEW s \in Int, Agrees(t, s), Carries(t, w, p)
  PROVE  Agrees(IF w # Null THEN w ELSE t, s + p)
<1>1. t # Null /\ t.mtype = "counter" => t.delta \in Int
  BY HalfAssumption DEF Valid, Accepted, BigInt
<1> QED
  BY <1>1 DEF Agrees, Carries

\* A single update.
LEMMA UpdateAgrees ==
  ASSUME NEW t, Valid(t), NEW s \in Int, Agrees(t, s), NEW m \in Metrics, ~Skipped(m),
         Accepted(Upsert(t, m)), Upsert(t, m) # Null
  PROVE  Agrees(Upsert(t, m), s + (IF m.mtype = "counter" THEN m.delta ELSE 0))
<1> DEFINE u == Upsert(t, m)
<1>1. CASE u.mtype = "counter"
  <2>1. /\ m.mtype = "counter" /\ m.delta \in Int
        /\ \/ t = Null /\ u.delta = m.delta
           \/ /\ t # Null /\ t.mtype = "counter" /\ t.delta \in Int
              /\ u.delta = t.delta + m.delta
    BY <1>1, UpsertCounts
  <2> QED
    BY <2>1 DEF Agrees
<1>2. CASE u.mtype # "counter"
  BY <1>2 DEF Agrees
<1> QED
  BY <1>1, <1>2

LEMMA AllValid ==
  ASSUME DInv, NEW id \in Ids
  PROVE  Valid(table[id]) /\ \A c \in Calls : Valid(written[c][id])
BY DEF DInv, TypeOK, RowsValid, Valid

LEMMA AddingInit == Init => Adding
<1> SUFFICES ASSUME Init PROVE Adding
  OBVIOUS
<1>1. Begun /\ DInv
  BY DInvInit DEF Init, Begun
<1>2. Committed = {}
  BY DEF Init, Committed
<1>3. \A id \in Ids : Sum(id) = 0
  BY <1>1, <1>2, SharesTyped, TotalType DEF Sum
<1> QED
  BY <1>1, <1>3 DEF Init, Adding, Agrees, NoRows

\* A step that commits nothing, and leaves the transactions that stay open.
LEMMA NothingCommitted ==
  ASSUME DInv, Adding, table' = table, applied' = applied,
         \A d \in Calls : pc'[d] = "idle" => pc[d] = "idle",
         \A d \in Calls : pc[d] # "idle" => op'[d] = op[d],
         \A d \in Calls : pc'[d] = "tx" => pc[d] = "tx" /\ next'[d] = next[d]
                                           /\ written'[d] = written[d]
  PROVE  Adding'
<1>1. Begun'
  BY DEF Adding, Begun
<1>2. \A d \in Calls : applied[d] > 0 => op'[d] = op[d]
  BY DEF DInv, TypeOK, Adding, Begun
<1>3. ASSUME NEW id \in Ids PROVE Agrees(table[id], Sum(id))'
  <2>1. Sum(id)' = Sum(id)
    BY <1>2, SumSame DEF Adding
  <2> QED
    BY <2>1 DEF Adding, Agrees
<1>4. ASSUME NEW d \in Calls, pc'[d] = "tx", NEW id \in Ids
      PROVE  Carries(table'[id], written'[d][id], Prefix(op'[d], id, next'[d]))
  BY <1>4 DEF Adding
<1>5. ASSUME NEW d \in Calls, pc'[d] = "tx" PROVE next'[d] <= Len(op'[d].metrics)
  BY <1>5 DEF Adding
<1> QED
  BY <1>1, <1>3, <1>4, <1>5 DEF Adding

\* A transaction of c goes on: nothing is committed, the others stay.
LEMMA TxGoesOn ==
  ASSUME DInv, Adding, NEW c \in Calls, table' = table, applied' = applied, op' = op,
         \A d \in Calls \ {c} : pc'[d] = pc[d] /\ next'[d] = next[d] /\ written'[d] = written[d],
         pc'[c] = "tx", next'[c] <= Len(op[c].metrics),
         \A id \in Ids : Carries(table[id], written'[c][id], Prefix(op[c], id, next'[c]))
  PROVE  Adding'
<1>1. Begun'
  BY DEF Adding, Begun
<1>2. ASSUME NEW id \in Ids PROVE Agrees(table[id], Sum(id))'
  <2>1. Sum(id)' = Sum(id)
    BY SumSame DEF Adding
  <2> QED
    BY <2>1 DEF Adding, Agrees
<1>3. ASSUME NEW d \in Calls, pc'[d] = "tx"
      PROVE  /\ next'[d] <= Len(op'[d].metrics)
             /\ \A id \in Ids : Carries(table'[id], written'[d][id], Prefix(op'[d], id, next'[d]))
  <2>1. CASE d = c
    BY <2>1
  <2>2. CASE d # c
    BY <1>3, <2>2 DEF Adding
  <2> QED
    BY <2>1, <2>2
<1> QED
  BY <1>1, <1>2, <1>3 DEF Adding

LEMMA BeginAdds ==
  ASSUME DInv, Adding, NEW c \in Calls, Begin(c)
  PROVE  Adding'
<1>1. pc[c] = "attempt" /\ op[c] \in Ops
  BY DEF Begin, Attempting, DInv, Counted
<1>2. /\ table' = table /\ applied' = applied /\ op' = op /\ written' = written
      /\ pc'[c] = "tx" /\ next'[c] = 0
      /\ \A d \in Calls \ {c} : pc'[d] = pc[d] /\ next'[d] = next[d]
  BY DEF Begin, DInv, TypeOK
<1>3. \A id \in Ids : written[c][id] = Null
  BY <1>1 DEF DInv, LocksExclusive, LockedBy
<1>4. \A id \in Ids : Carries(table[id], written'[c][id], Prefix(op[c], id, next'[c]))
  BY <1>1, <1>2, <1>3, PrefixNone DEF Carries
<1>5. 0 <= Len(op[c].metrics)
  BY <1>1, PlacesTyped
<1> QED
  BY <1>2, <1>4, <1>5, TxGoesOn

\* The metric a pending transaction is at.
LEMMA MetricTyped ==
  ASSUME DInv, Adding, NEW c \in Calls, Pending(c)
  PROVE  /\ pc[c] = "tx" /\ op[c] \in Ops /\ next[c] \in Nat /\ next[c] < Len(op[c].metrics)
         /\ Metric(c) \in Metrics /\ Metric(c) = op[c].metrics[next[c] + 1]
         /\ next[c] + 1 <= Len(op[c].metrics)
         /\ \A id \in Ids : /\ Prefix(op[c], id, next[c]) \in Int
                            /\ Carries(table[id], written[c][id], Prefix(op[c], id, next[c]))
<1>1. pc[c] = "tx" /\ op[c] \in Ops /\ next[c] \in Nat /\ next[c] < Len(op[c].metrics)
  BY DEF Pending, InTx, DInv, Counted, TypeOK
<1>2. op[c].metrics \in Seq(Metrics) /\ Len(op[c].metrics) \in Nat
  BY <1>1, OpShape
<1>3. next[c] + 1 \in 1 .. Len(op[c].metrics)
  BY <1>1, <1>2
<1> QED
  BY <1>1, <1>2, <1>3, PrefixTyped DEF Metric, Adding

LEMMA SkipAdds ==
  ASSUME DInv, Adding, NEW c \in Calls, Skip(c)
  PROVE  Adding'
<1>1. Pending(c) /\ Skipped(Metric(c))
  BY DEF Skip
<1>2. /\ table' = table /\ applied' = applied /\ op' = op /\ written' = written /\ pc' = pc
      /\ next'[c] = next[c] + 1
      /\ \A d \in Calls \ {c} : next'[d] = next[d]
  BY DEF Skip, DInv, TypeOK
<1>3. ASSUME NEW id \in Ids
      PROVE  Carries(table[id], written'[c][id], Prefix(op[c], id, next'[c]))
  <2>1. ~Adds(Metric(c), id)
    BY <1>1 DEF Adds
  <2>2. Prefix(op[c], id, next[c] + 1) = Prefix(op[c], id, next[c])
    BY <1>1, <2>1, MetricTyped, PrefixMore
  <2> QED
    BY <1>1, <1>2, <2>2, MetricTyped
<1> QED
  BY <1>1, <1>2, <1>3, MetricTyped, TxGoesOn

LEMMA ExecAdds ==
  ASSUME DInv, Adding, NEW c \in Calls, Exec(c)
  PROVE  Adding'
<1> DEFINE m == Metric(c)
           r == Row(c, m.id)
           u == Upsert(r, m)
<1>1. Pending(c) /\ ~Skipped(m)
  BY DEF Exec
<1>2. /\ m \in Metrics /\ m.id \in Ids /\ pc[c] = "tx"
      /\ m = op[c].metrics[next[c] + 1]
  BY <1>1, MetricTyped DEF Metrics
<1>3. /\ table' = table /\ applied' = applied /\ op' = op /\ pc' = pc
      /\ next'[c] = next[c] + 1
      /\ \A d \in Calls \ {c} : next'[d] = next[d]
  BY DEF Exec, DInv, TypeOK
<1>4. Accepted(u) /\ written' = [written EXCEPT ![c][m.id] = u]
  BY DEF Exec
<1>5. /\ written'[c][m.id] = u
      /\ \A id \in Ids \ {m.id} : written'[c][id] = written[c][id]
      /\ \A d \in Calls \ {c} : written'[d] = written[d]
  BY <1>2, <1>4 DEF DInv, TypeOK
<1>6. r = IF written[c][m.id] # Null THEN written[c][m.id] ELSE table[m.id]
  BY DEF Row, LockedBy
<1>7. Valid(table[m.id]) /\ Valid(written[c][m.id]) /\ r \in Rows \cup {Null}
  BY <1>2, <1>6, AllValid DEF Valid
<1>8. u # Null
  BY <1>1, <1>2, <1>4, <1>7, UpsertTyped
<1>9. ASSUME NEW id \in Ids
      PROVE  Carries(table[id], written'[c][id], Prefix(op[c], id, next'[c]))
  <2> DEFINE p == Prefix(op[c], id, next[c])
  <2>1. p \in Int /\ Carries(table[id], written[c][id], p)
    BY <1>1, MetricTyped
  <2>2. Prefix(op[c], id, next'[c]) = (IF Adds(m, id) THEN m.delta ELSE 0) + p
    BY <1>1, <1>2, <1>3, MetricTyped, PrefixMore
  <2> HIDE DEF p, m, r, u
  <2>3. CASE id = m.id
    <3>1. Adds(m, id) <=> m.mtype = "counter"
      BY <1>1, <2>3 DEF Adds
    <3>2. Carries(table[m.id], Upsert(r, m), (IF m.mtype = "counter" THEN m.delta ELSE 0) + p)
      BY <1>1, <1>2, <1>4, <1>6, <1>7, <1>8, <2>1, <2>3, CarryMore DEF u
    <3> QED
      BY <1>5, <2>2, <2>3, <3>1, <3>2 DEF u
  <2>4. CASE id # m.id
    <3>1. ~Adds(m, id)
      BY <2>4 DEF Adds
    <3> QED
      BY <1>5, <2>1, <2>2, <2>4, <3>1
  <2> QED
    BY <2>3, <2>4
<1> QED
  BY <1>1, <1>2, <1>3, <1>5, <1>9, MetricTyped, TxGoesOn

\* A commit of c: each row agrees with its new sum, and no other transaction
\* has written a row that changes.
LEMMA Commits ==
  ASSUME DInv, Adding, NEW c \in Calls, op[c] \in Ops, op' = op,
         applied' = [applied EXCEPT ![c] = @ + 1],
         pc'[c] \notin {"idle", "tx"},
         \A d \in Calls \ {c} : pc'[d] = pc[d] /\ next'[d] = next[d] /\ written'[d] = written[d],
         \A id \in Ids : Agrees(table'[id], Sum(id) + DeltaOf(op[c], id)),
         \A d \in Calls \ {c}, id \in Ids : written[d][id] # Null => table'[id] = table[id]
  PROVE  Adding'
<1>1. Begun'
  BY DEF Adding, Begun, DInv, TypeOK
<1>2. ASSUME NEW id \in Ids PROVE Agrees(table[id], Sum(id))'
  <2>1. Sum(id)' = Sum(id) + DeltaOf(op[c], id)
    BY SumMore DEF Adding
  <2>2. Agrees(table'[id], Sum(id)')
    BY <2>1
  <2> QED
    BY <2>2 DEF Agrees
<1>3. ASSUME NEW d \in Calls, pc'[d] = "tx"
      PROVE  /\ next'[d] <= Len(op'[d].metrics)
             /\ \A id \in Ids : Carries(table'[id], written'[d][id], Prefix(op'[d], id, next'[d]))
  <2>1. d # c /\ pc[d] = "tx" /\ next'[d] = next[d] /\ written'[d] = written[d] /\ op' = op
    BY <1>3
  <2>2. next[d] <= Len(op[d].metrics)
        /\ \A id \in Ids : Carries(table[id], written[d][id], Prefix(op[d], id, next[d]))
    BY <2>1 DEF Adding
  <2>3. ASSUME NEW id \in Ids
        PROVE  Carries(table'[id], written[d][id], Prefix(op[d], id, next[d]))
    BY <2>1, <2>2 DEF Carries
  <2> QED
    BY <2>1, <2>2, <2>3
<1> QED
  BY <1>1, <1>2, <1>3 DEF Adding

\* The end of an attempt, whether its answer arrives or not.
LEMMA EndsOutside ==
  ASSUME DInv, NEW c \in Calls, Returns(c, "ok") \/ Returns(c, "error") \/ Errs(c)
  PROVE  pc'[c] \in {"returned", "retry"} /\ \A d \in Calls \ {c} : pc'[d] = pc[d]
BY DEF Returns, Errs, DInv, TypeOK

LEMMA CommitAdds ==
  ASSUME DInv, Adding, NEW c \in Calls, Commit(c)
  PROVE  Adding'
<1>1. /\ pc[c] = "tx" /\ op[c] \in Ops /\ op' = op /\ next' = next
      /\ applied' = [applied EXCEPT ![c] = @ + 1]
      /\ table' = [id \in Ids |-> Row(c, id)]
      /\ written' = [written EXCEPT ![c] = NoRows]
      /\ next[c] \in Nat
  BY DEF Commit, InTx, DInv, Counted, TypeOK
<1>2. Len(op[c].metrics) \in Nat
  BY <1>1, PlacesTyped
<1>3. next[c] = Len(op[c].metrics)
  BY <1>1, <1>2 DEF Commit, Pending, InTx, Adding
<1>4. ASSUME NEW id \in Ids PROVE Agrees(table'[id], Sum(id) + DeltaOf(op[c], id))
  <2> DEFINE p == Prefix(op[c], id, next[c])
             s == Sum(id)
             t == table[id]
             w == written[c][id]
  <2>1. p = DeltaOf(op[c], id) /\ p \in Int
    BY <1>1, <1>3, PrefixAll, DeltaTyped
  <2>2. s \in Int /\ Agrees(t, s) /\ Carries(t, w, p)
    BY <1>1, SharesTyped DEF Adding
  <2>3. Valid(t)
    BY AllValid
  <2>4. table'[id] = IF w # Null THEN w ELSE t
    BY <1>1 DEF Row, LockedBy
  <2> HIDE DEF p, s, t, w
  <2>5. Agrees(IF w # Null THEN w ELSE t, s + p)
    BY <2>1, <2>2, <2>3, CommitAgrees
  <2> QED
    BY <2>1, <2>4, <2>5 DEF s
<1>5. ASSUME NEW d \in Calls \ {c}, NEW id \in Ids, written[d][id] # Null
      PROVE  table'[id] = table[id]
  <2>1. written[c][id] = Null
    BY <1>5 DEF DInv, LocksExclusive, LockedBy
  <2> QED
    BY <1>1, <2>1 DEF Row, LockedBy
<1>6. \A d \in Calls \ {c} : written'[d] = written[d]
  BY <1>1 DEF DInv, TypeOK
<1>7. pc'[c] \in {"returned", "retry"} /\ \A d \in Calls \ {c} : pc'[d] = pc[d]
  BY EndsOutside DEF Commit
<1> QED
  BY <1>1, <1>4, <1>5, <1>6, <1>7, Commits

LEMMA UpdateAdds ==
  ASSUME DInv, Adding, NEW c \in Calls, UpdateOne(c)
  PROVE  Adding'
<1> DEFINE m == op[c].metrics[1]
           u == Upsert(table[m.id], m)
<1>1. pc[c] = "attempt" /\ op[c] \in Ops /\ op[c].kind \in {"gauge", "counter"}
  BY DEF UpdateOne, Attempting, DInv, Counted
<1>2. m \in Metrics /\ ~Skipped(m) /\ m.id \in Ids /\ Len(op[c].metrics) = 1
  BY <1>1, OpShape, OpsAssumption DEF Skipped, Metrics
<1>3. /\ op' = op /\ next' = next /\ written' = written
      /\ applied' = [applied EXCEPT ![c] = @ + 1]
      /\ table' = [table EXCEPT ![m.id] = u]
      /\ Accepted(u) /\ Free(c, m.id)
  BY DEF UpdateOne
<1>4. table'[m.id] = u /\ \A id \in Ids \ {m.id} : table'[id] = table[id]
  BY <1>2, <1>3 DEF DInv, TypeOK
<1>5. Valid(table[m.id]) /\ table[m.id] \in Rows \cup {Null}
  BY <1>2, AllValid DEF Valid
<1>6. u # Null
  BY <1>2, <1>3, <1>5, UpsertTyped
<1>7. ASSUME NEW id \in Ids PROVE Agrees(table'[id], Sum(id) + DeltaOf(op[c], id))
  <2> DEFINE s == Sum(id)
  <2>1. s \in Int /\ Agrees(table[id], s)
    BY SharesTyped DEF Adding
  <2>2. PICK x \in Int : x = DeltaOf(op[c], id)
    BY <1>1, DeltaTyped
  <2>3. x = IF Adds(m, id) THEN m.delta ELSE 0
    <3>1. Prefix(op[c], id, 0) = 0
      BY <1>1, PrefixNone
    <3>2. Prefix(op[c], id, 0 + 1)
            = (IF Adds(op[c].metrics[0 + 1], id) THEN op[c].metrics[0 + 1].delta ELSE 0)
              + Prefix(op[c], id, 0)
      BY <1>1, <1>2, PrefixMore
    <3>3. Prefix(op[c], id, 1) = DeltaOf(op[c], id)
      BY <1>1, <1>2, PrefixAll
    <3>4. Adds(m, id) => m.delta \in Int
      BY <1>2, HalfAssumption DEF Adds, Skipped, Metrics, BigInt
    <3> QED
      BY <2>2, <3>1, <3>2, <3>3, <3>4
  <2> HIDE DEF m, u, s
  <2>4. CASE id = m.id
    <3>1. Adds(m, id) <=> m.mtype = "counter"
      BY <1>2, <2>4 DEF Adds
    <3>2. Agrees(u, s + (IF m.mtype = "counter" THEN m.delta ELSE 0))
      BY <1>2, <1>3, <1>5, <1>6, <2>1, <2>4, UpdateAgrees DEF u
    <3> QED
      BY <1>4, <2>2, <2>3, <2>4, <3>1, <3>2 DEF s
  <2>5. CASE id # m.id
    <3>1. x = 0 /\ s + x = s
      BY <2>1, <2>2, <2>3, <2>5 DEF Adds
    <3> QED
      BY <1>4, <2>1, <2>2, <2>5, <3>1 DEF s
  <2> QED
    BY <2>4, <2>5
<1>8. ASSUME NEW d \in Calls \ {c}, NEW id \in Ids, written[d][id] # Null
      PROVE  table'[id] = table[id]
  BY <1>3, <1>4, <1>8 DEF Free, LockedBy
<1>9. pc'[c] \in {"returned", "retry"} /\ \A d \in Calls \ {c} : pc'[d] = pc[d]
  BY EndsOutside DEF UpdateOne
<1> QED
  BY <1>1, <1>3, <1>7, <1>8, <1>9, Commits

\* The other steps.
LEMMA OthersAdd ==
  ASSUME DInv, Adding, NEW c \in Calls,
         \/ Call(c) \/ Retry(c) \/ RetryEnds(c) \/ RetryCancelled(c)
         \/ UpdateOneRefused(c) \/ AttemptFails(c) \/ GetGauge(c) \/ GetCounter(c)
         \/ GetAllMetrics(c) \/ GetAllMetricsFails(c)
         \/ ExecRefused(c) \/ Deadlock(c) \/ TxFails(c)
  PROVE  Adding'
<1>1. CASE Call(c)
  <2>1. /\ UNCHANGED <<table, applied, next, written>> /\ pc[c] = "idle" /\ pc'[c] = "attempt"
        /\ \A d \in Calls \ {c} : pc'[d] = pc[d] /\ op'[d] = op[d]
    BY <1>1 DEF Call, DInv, TypeOK
  <2> QED
    BY <2>1, NothingCommitted
<1>2. CASE Retry(c)
  <2>1. /\ UNCHANGED <<table, applied, next, written, op>> /\ pc'[c] = "attempt"
        /\ \A d \in Calls \ {c} : pc'[d] = pc[d]
    BY <1>2 DEF Retry, DInv, TypeOK
  <2> QED
    BY <2>1, NothingCommitted
<1>3. CASE \/ RetryEnds(c) \/ RetryCancelled(c)
           \/ UpdateOneRefused(c) \/ AttemptFails(c) \/ GetGauge(c) \/ GetCounter(c)
           \/ GetAllMetrics(c) \/ GetAllMetricsFails(c)
           \/ ExecRefused(c) \/ Deadlock(c) \/ TxFails(c)
  <2>1. Returns(c, "ok") \/ Returns(c, "error") \/ Errs(c)
    BY <1>3 DEF RetryEnds, RetryCancelled, UpdateOneRefused, AttemptFails, GetGauge, GetCounter,
                GetAllMetrics, GetAllMetricsFails, ExecRefused, Deadlock, TxFails
  <2>2. pc'[c] \in {"returned", "retry"} /\ \A d \in Calls \ {c} : pc'[d] = pc[d]
    BY <2>1, EndsOutside
  <2>3. UNCHANGED <<table, applied, next, op>> /\ \A d \in Calls \ {c} : written'[d] = written[d]
    BY <1>3 DEF RetryEnds, RetryCancelled, UpdateOneRefused, AttemptFails, GetGauge, GetCounter,
                GetAllMetrics, GetAllMetricsFails, ExecRefused, Deadlock, TxFails, Rollback, DInv,
                TypeOK
  <2> QED
    BY <2>2, <2>3, NothingCommitted
<1> QED
  BY <1>1, <1>2, <1>3

LEMMA AddingNext == DInv /\ Adding /\ [Next]_vars => Adding'
<1> SUFFICES ASSUME DInv, Adding, [Next]_vars PROVE Adding'
  OBVIOUS
<1>1. CASE Next
  <2>1. PICK c \in Calls : Call(c) \/ Advance(c) \/ Fault(c)
    BY <1>1 DEF Next
  <2> QED
    BY <2>1, OthersAdd, BeginAdds, SkipAdds, ExecAdds, CommitAdds, UpdateAdds DEF Advance, Fault
<1>2. CASE UNCHANGED vars
  BY <1>2, NothingCommitted DEF vars
<1> QED
  BY <1>1, <1>2

\* A counter is the sum of the increments of all committed attempts, for any
\* number of concurrent calls, any operations, failures and retries: no update
\* is lost and no batch is applied in part.
THEOREM CountersAlwaysAddUp == Spec => []CountersAddUp
<1>1. Init => DInv /\ Adding
  BY DInvInit, AddingInit
<1>2. DInv /\ Adding /\ [Next]_vars => DInv' /\ Adding'
  BY DInvNext, AddingNext
<1>3. Adding => CountersAddUp
  BY DEF Adding, Agrees, CountersAddUp, HasType, Sum, Shares, Committed
<1> QED
  BY <1>1, <1>2, <1>3, PTL DEF Spec
=============================================================================
