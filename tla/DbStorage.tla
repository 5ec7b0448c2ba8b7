----------------------------- MODULE DbStorage -----------------------------
(***************************************************************************)
(* The storage of the server on PostgreSQL                                 *)
(* (internal/repository/dbstorage/dbstorage.go), every call of which runs  *)
(* in retry.Do (internal/retry/retry.go) against a database that is shared *)
(* by the goroutines of all requests.                                      *)
(*                                                                         *)
(* The database is external and modelled as the queries and the migration  *)
(* use it: one row per id, CHECK chk_metric, a BIGINT delta, READ          *)
(* COMMITTED transactions that lock the rows they write, detection of      *)
(* deadlocks, and errors at every round trip.  An error that isConnection- *)
(* Error accepts is retried; one that arrives in place of the answer to a  *)
(* commit leaves open whether the commit happened.  The transaction of a   *)
(* broken connection is rolled back.                                       *)
(***************************************************************************)
EXTENDS Integers, Sequences, FiniteSets, Sums

CONSTANTS Calls,     \* calls of the storage, each from a goroutine of its own
          Ids,       \* metric ids
          Values,    \* gauge values
          Half,      \* a BIGINT is in -Half .. Half-1 (2^63 in the database)
          Null,      \* SQL's NULL, no row, a nil pointer
          Ops,       \* the operations the calls make
          Attempts,  \* MaxRetries + 1
          Delays     \* number of configured retry delays

BigInt == (-Half) .. (Half - 1)

Metrics == [id : Ids, mtype : {"counter", "gauge", "other"},
            delta : BigInt \cup {Null}, value : Values \cup {Null}]

\* A row of the table metrics; its id is the index of the table.
Rows == [mtype : {"counter", "gauge"}, delta : BigInt \cup {Null}, value : Values \cup {Null}]

Reads == {"getGauge", "getCounter", "getAll"}
Updates == {"gauge", "counter", "batch"}

ASSUME CallsAssumption == IsFiniteSet(Calls)
ASSUME NullAssumption == Null \notin BigInt \cup Values \cup Rows \cup Ops
ASSUME HalfAssumption == Half \in Nat \ {0}
ASSUME AttemptsAssumption == Attempts \in Nat \ {0} /\ Delays \in Nat
ASSUME OpsAssumption ==
  /\ Ops \subseteq [kind : Reads \cup Updates, metrics : Seq(Metrics)]
  /\ \A o \in Ops : /\ o.kind # "batch" => Len(o.metrics) = 1
                    /\ o.kind = "gauge" =>
                         o.metrics[1].mtype = "gauge" /\ o.metrics[1].value # Null
                    /\ o.kind = "counter" =>
                         o.metrics[1].mtype = "counter" /\ o.metrics[1].delta # Null

VARIABLES
  table,    \* the committed rows, Null where there is none
  op,       \* per call: its operation, Null before
  pc,       \* per call: where it is
  next,     \* per call: metrics of the batch already handled in this attempt
  written,  \* per call: the rows its open transaction wrote, and so locked
  att,      \* per call: failed attempts, the i of retry.Do
  result,   \* per call: "none", "ok", "error"
  reply,    \* per call: what a read returns: found and its value
  page,     \* per call: how often GetAllMetrics wrote a row into its builder
  applied   \* history, per call: attempts of it that were committed

vars == <<table, op, pc, next, written, att, result, reply, page, applied>>

NoRows == [id \in Ids |-> Null]
NotFound == [found |-> FALSE, value |-> 0]

Init ==
  /\ table = NoRows
  /\ op = [c \in Calls |-> Null]
  /\ pc = [c \in Calls |-> "idle"]
  /\ next = [c \in Calls |-> 0]
  /\ written = [c \in Calls |-> NoRows]
  /\ att = [c \in Calls |-> 0]
  /\ result = [c \in Calls |-> "none"]
  /\ reply = [c \in Calls |-> NotFound]
  /\ page = [c \in Calls |-> [id \in Ids |-> 0]]
  /\ applied = [c \in Calls |-> 0]

\* The request calls the storage.
Call(c) ==
  /\ pc[c] = "idle"
  /\ pc' = [pc EXCEPT ![c] = "attempt"]
  /\ \E o \in Ops : op' = [op EXCEPT ![c] = o]
  /\ UNCHANGED <<table, next, written, att, result, reply, page, applied>>

-----------------------------------------------------------------------------
(* retry.Do.                                                               *)

Attempting(c, kind) == pc[c] = "attempt" /\ op[c].kind = kind

Returns(c, res) ==
  /\ pc' = [pc EXCEPT ![c] = "returned"]
  /\ result' = [result EXCEPT ![c] = res]
  /\ UNCHANGED att

\* The attempt failed with an error of which isConnectionError says no, or yes.
Errs(c) ==
  \/ Returns(c, "error")
  \/ /\ att' = [att EXCEPT ![c] = @ + 1]
     /\ pc' = [pc EXCEPT ![c] = "retry"]
     /\ UNCHANGED result

\* After the delay, if there is one for this attempt, the next attempt.
Retry(c) ==
  /\ pc[c] = "retry" /\ att[c] < Attempts
  /\ pc' = [pc EXCEPT ![c] = "attempt"]
  /\ UNCHANGED <<table, op, next, written, att, result, reply, page, applied>>

\* The attempts are used up.
RetryEnds(c) ==
  /\ pc[c] = "retry" /\ att[c] = Attempts
  /\ Returns(c, "error")
  /\ UNCHANGED <<table, op, next, written, reply, page, applied>>

\* The request's context ends during the delay.
RetryCancelled(c) ==
  /\ pc[c] = "retry" /\ att[c] <= Delays
  /\ Returns(c, "error")
  /\ UNCHANGED <<table, op, next, written, reply, page, applied>>

-----------------------------------------------------------------------------
(* The upserts.                                                            *)

Inserted(m) ==
  IF m.mtype = "counter" THEN [mtype |-> "counter", delta |-> m.delta, value |-> Null]
                         ELSE [mtype |-> "gauge", delta |-> Null, value |-> m.value]

\* NULL + x is NULL: a counter update leaves the row of a gauge as it is.
Upsert(row, m) ==
  CASE row = Null -> Inserted(m)
    [] row # Null /\ m.mtype = "gauge" -> [row EXCEPT !.value = m.value]
    [] row # Null /\ m.mtype = "counter" ->
         [row EXCEPT !.delta = IF @ = Null THEN Null ELSE @ + m.delta]

\* Mutant: a delta of unbounded width.
AcceptedUnbounded(row) == TRUE

\* BIGINT and chk_metric: a gauge update of the row of a counter is refused.
Accepted(row) ==
  \/ row.mtype = "counter" /\ row.delta \in BigInt /\ row.value = Null
  \/ row.mtype = "gauge" /\ row.delta = Null /\ row.value # Null

\* A row written by an open transaction is locked by it.
LockedBy(id, d) == written[d][id] # Null
Free(c, id) == \A d \in Calls \ {c} : ~LockedBy(id, d)

-----------------------------------------------------------------------------
(* UpdateGauge and UpdateCounter: one statement, committed by itself.      *)

\* Mutant: the new value is computed from the row without waiting for its lock.
UpdateOneUnlocked(c) ==
  LET m == op[c].metrics[1]  row == Upsert(table[m.id], m) IN
  /\ Attempting(c, "gauge") \/ Attempting(c, "counter")
  /\ Accepted(row)
  /\ table' = [table EXCEPT ![m.id] = row]
  /\ applied' = [applied EXCEPT ![c] = @ + 1]
  /\ Returns(c, "ok") \/ Errs(c)
  /\ UNCHANGED <<op, next, written, reply, page>>

\* The statement is committed; its answer arrives or is lost.
UpdateOne(c) ==
  LET m == op[c].metrics[1]  row == Upsert(table[m.id], m) IN
  /\ Attempting(c, "gauge") \/ Attempting(c, "counter")
  /\ Free(c, m.id) /\ Accepted(row)
  /\ table' = [table EXCEPT ![m.id] = row]
  /\ applied' = [applied EXCEPT ![c] = @ + 1]
  /\ Returns(c, "ok") \/ Errs(c)
  /\ UNCHANGED <<op, next, written, reply, page>>

UpdateOneRefused(c) ==
  LET m == op[c].metrics[1] IN
  /\ Attempting(c, "gauge") \/ Attempting(c, "counter")
  /\ Free(c, m.id) /\ ~Accepted(Upsert(table[m.id], m))
  /\ Returns(c, "error")
  /\ UNCHANGED <<table, op, next, written, reply, page, applied>>

\* The connection or the statement fails before the database executes it.
AttemptFails(c) ==
  /\ pc[c] = "attempt"
  /\ Errs(c)
  /\ UNCHANGED <<table, op, next, written, reply, page, applied>>

-----------------------------------------------------------------------------
(* UpdateMetrics: the batch in a transaction.                              *)

Begin(c) ==
  /\ Attempting(c, "batch")
  /\ pc' = [pc EXCEPT ![c] = "tx"]
  /\ next' = [next EXCEPT ![c] = 0]
  /\ UNCHANGED <<table, op, written, att, result, reply, page, applied>>

InTx(c) == pc[c] = "tx"
Pending(c) == InTx(c) /\ next[c] < Len(op[c].metrics)
Metric(c) == op[c].metrics[next[c] + 1]

\* Metrics of unknown type and metrics without a value are skipped.
Skipped(m) ==
  \/ m.mtype = "other"
  \/ m.mtype = "counter" /\ m.delta = Null
  \/ m.mtype = "gauge" /\ m.value = Null

\* The row as the transaction sees it.
Row(c, id) == IF LockedBy(id, c) THEN written[c][id] ELSE table[id]

Skip(c) ==
  /\ Pending(c) /\ Skipped(Metric(c))
  /\ next' = [next EXCEPT ![c] = @ + 1]
  /\ UNCHANGED <<table, op, pc, written, att, result, reply, page, applied>>

Exec(c) ==
  /\ Pending(c) /\ ~Skipped(Metric(c)) /\ Free(c, Metric(c).id)
  /\ LET m == Metric(c)  row == Upsert(Row(c, m.id), m) IN
       Accepted(row) /\ written' = [written EXCEPT ![c][m.id] = row]
  /\ next' = [next EXCEPT ![c] = @ + 1]
  /\ UNCHANGED <<table, op, pc, att, result, reply, page, applied>>

\* Mutant: the attempt returns without the deferred Rollback.
RollbackNot(c) == UNCHANGED <<table, op, next, written, reply, page, applied>>

\* The deferred Rollback.
Rollback(c) ==
  /\ written' = [written EXCEPT ![c] = NoRows]
  /\ UNCHANGED <<table, op, next, reply, page, applied>>

ExecRefused(c) ==
  /\ Pending(c) /\ ~Skipped(Metric(c)) /\ Free(c, Metric(c).id)
  /\ ~Accepted(Upsert(Row(c, Metric(c).id), Metric(c)))
  /\ Returns(c, "error") /\ Rollback(c)

\* Calls that all wait for a row another of them has locked.
Waits(c) == Pending(c) /\ ~Skipped(Metric(c)) /\ ~Free(c, Metric(c).id)
Stuck(S) == \A c \in S : Waits(c) /\ \E d \in S \ {c} : LockedBy(Metric(c).id, d)

\* The deadlock detector fails one of them; the code deadlock_detected is not
\* in the list of isConnectionError.
Deadlock(c) ==
  /\ \E S \in SUBSET Calls : c \in S /\ Stuck(S) /\ \A T \in SUBSET S \ {{}} : Stuck(T) => c \in T
  /\ Returns(c, "error") /\ Rollback(c)

\* Mutant: the error of a statement is logged but not returned.
TxFailsSilently(c) == InTx(c) /\ Returns(c, "ok") /\ Rollback(c)

\* A statement or the commit fails; nothing is committed.
TxFails(c) == InTx(c) /\ Errs(c) /\ Rollback(c)

\* The commit takes effect; its answer arrives or is lost.
Commit(c) ==
  /\ InTx(c) /\ ~Pending(c)
  /\ table' = [id \in Ids |-> Row(c, id)]
  /\ written' = [written EXCEPT ![c] = NoRows]
  /\ applied' = [applied EXCEPT ![c] = @ + 1]
  /\ Returns(c, "ok") \/ Errs(c)
  /\ UNCHANGED <<op, next, reply, page>>

-----------------------------------------------------------------------------
(* The reads.                                                              *)

HasType(id, mtype) == table[id] # Null /\ table[id].mtype = mtype

GetGauge(c) ==
  LET id == op[c].metrics[1].id IN
  /\ Attempting(c, "getGauge")
  /\ reply' = [reply EXCEPT ![c] =
       IF HasType(id, "gauge") THEN [found |-> TRUE, value |-> table[id].value] ELSE NotFound]
  /\ Returns(c, "ok")
  /\ UNCHANGED <<table, op, next, written, page, applied>>

\* No row is no error, and nothing else tells it from a counter of 0.
GetCounter(c) ==
  LET id == op[c].metrics[1].id IN
  /\ Attempting(c, "getCounter")
  /\ reply' = [reply EXCEPT ![c] =
       [found |-> TRUE, value |-> IF HasType(id, "counter") THEN table[id].delta ELSE 0]]
  /\ Returns(c, "ok")
  /\ UNCHANGED <<table, op, next, written, page, applied>>

Present == {id \in Ids : table[id] # Null}
Listed(c, S) == page' = [page EXCEPT ![c] = [id \in Ids |-> @[id] + IF id \in S THEN 1 ELSE 0]]

GetAllMetrics(c) ==
  /\ Attempting(c, "getAll")
  /\ Listed(c, Present)
  /\ Returns(c, IF Present = {} THEN "error" ELSE "ok")
  /\ UNCHANGED <<table, op, next, written, reply, applied>>

\* The rows read before the error stay in the builder.
GetAllMetricsFails(c) ==
  /\ Attempting(c, "getAll")
  /\ \E S \in SUBSET Present : S # {} /\ Listed(c, S)
  /\ Errs(c)
  /\ UNCHANGED <<table, op, next, written, reply, applied>>

-----------------------------------------------------------------------------

\* What a call does unless the database or the network fails it.
Advance(c) ==
  \/ Retry(c) \/ RetryEnds(c)
  \/ UpdateOne(c) \/ UpdateOneRefused(c)
  \/ Begin(c) \/ Skip(c) \/ Exec(c) \/ ExecRefused(c) \/ Deadlock(c) \/ Commit(c)
  \/ GetGauge(c) \/ GetCounter(c) \/ GetAllMetrics(c)

Fault(c) == RetryCancelled(c) \/ AttemptFails(c) \/ TxFails(c) \/ GetAllMetricsFails(c)

Next == \E c \in Calls : Call(c) \/ Advance(c) \/ Fault(c)

Spec == Init /\ [][Next]_vars

\* Goroutines, timers and the database's deadlock detector go on.
FairSpec == Spec /\ \A c \in Calls : WF_vars(Advance(c))

-----------------------------------------------------------------------------
(* Properties.                                                             *)

\* Types of the storage's calls and of the table.
TypeOK ==
  /\ table \in [Ids -> Rows \cup {Null}]
  /\ op \in [Calls -> Ops \cup {Null}]
  /\ pc \in [Calls -> {"idle", "attempt", "tx", "retry", "returned"}]
  /\ next \in [Calls -> Nat]
  /\ written \in [Calls -> [Ids -> Rows \cup {Null}]]
  /\ att \in [Calls -> 0 .. Attempts]
  /\ result \in [Calls -> {"none", "ok", "error"}]
  /\ reply \in [Calls -> [found : BOOLEAN, value : BigInt \cup Values \cup {0}]]
  /\ page \in [Calls -> [Ids -> Nat]]
  /\ applied \in [Calls -> Nat]

\* What one application of the operation adds to the counter id.
DeltaOf(o, id) ==
  LET I == {i \in DOMAIN o.metrics : /\ o.metrics[i].id = id /\ o.metrics[i].mtype = "counter"
                                    /\ ~Skipped(o.metrics[i])} IN
  Total([i \in I |-> o.metrics[i].delta], I)

\* A counter is the sum of what the committed attempts of all calls add to it:
\* concurrent updates are not lost, and a batch is applied whole or not at all,
\* whatever failed, was retried or ran into a deadlock (the upserts of
\* dbstorage.go and the transaction of UpdateMetrics).
CountersAddUp ==
  \A id \in Ids : HasType(id, "counter") =>
    LET C == {c \in Calls : applied[c] > 0} IN
    table[id].delta = Total([c \in C |-> applied[c] * DeltaOf(op[c], id)], C)

\* An update that returned nil was committed, at least once and at most once
\* per attempt; no update is committed more often than MaxRetries + 1 times.
AckedIsApplied ==
  \A c \in Calls :
    /\ applied[c] <= Attempts
    /\ pc[c] \in {"idle", "attempt", "tx"} => applied[c] <= att[c]
    /\ result[c] = "ok" /\ op[c].kind \in Updates => applied[c] >= 1

\* A row is locked by one transaction at most, and a call outside its
\* transaction has no row locked: every return of UpdateMetrics rolls back.
LocksExclusive ==
  \A c \in Calls, id \in Ids :
    LockedBy(id, c) => pc[c] = "tx" /\ \A d \in Calls \ {c} : ~LockedBy(id, d)

\* Every call returns: a failed batch leaves no lock behind that another
\* call waits for, and batches that lock rows in different orders are
\* resolved.
CallsReturn == \A c \in Calls : pc[c] = "attempt" ~> pc[c] = "returned"
=============================================================================
