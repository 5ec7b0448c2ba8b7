----------------------------- MODULE MemStorage -----------------------------
(***************************************************************************)
(* The in-memory metric storage of the server                              *)
(* (internal/repository/memstorage/memstorage.go) through the life of the  *)
(* server process: NewMemStorage, the requests, the goroutine that saves   *)
(* the metrics periodically, Close at shutdown, the death of the process   *)
(* at any point and the next start from the file.                          *)
(*                                                                         *)
(* Every method holds the mutex mu for its whole body.  A single update or *)
(* read is one step; UpdateMetrics and SaveToFile are several steps, so    *)
(* that what the mutex protects is visible.                                *)
(***************************************************************************)
EXTENDS Integers, Sequences, FiniteSets

CONSTANTS CNames,      \* metric ids used for counters
          GNames,      \* metric ids used for gauges (may share ids with CNames)
          Finite,      \* gauge values JSON can represent
          NonFinite,   \* NaN and the infinities: ParseFloat accepts them, JSON does not
          Half,        \* counters are integers in -Half .. Half-1 (2^63 in the code)
          Deltas,      \* counter increments received from clients
          Batches,     \* metric lists received by POST /updates
          Nil,         \* an absent map entry, a nil *int64 or *float64
          Restore,     \* flag -r: load the file at start
          Periodic,    \* flag -i > 0: save periodically
          IOErrors     \* whether opening, reading or writing the file may fail

Int64 == (-Half) .. (Half - 1)

\* Mutant: an integer of unbounded width.
WrapUnbounded(x) == x

\* Two's complement addition of the code's int64.
Wrap(x) == ((x + Half) % (2 * Half)) - Half

Values == Finite \cup NonFinite

\* model.Metrics: a metric in a request, and an entry of the file.
Metrics == [id : CNames \cup GNames, mtype : {"counter", "gauge", "other"},
            delta : Int64 \cup {Nil}, value : Finite \cup {Nil}]

ASSUME WidthAssumption == Half \in Nat \ {0}
ASSUME DeltasAssumption == Deltas \subseteq Int64
ASSUME NilAssumption == Nil \notin Int64 \cup Values
ASSUME ValuesAssumption == Finite \cap NonFinite = {}
ASSUME FlagsAssumption == {Restore, Periodic, IOErrors} \subseteq BOOLEAN
ASSUME BatchesAssumption ==
  /\ Batches \subseteq Seq(Metrics)
  /\ \A b \in Batches : \A i \in DOMAIN b :
        /\ b[i].mtype = "counter" => b[i].id \in CNames
        /\ b[i].mtype = "gauge" => b[i].id \in GNames

VARIABLES
  proc,      \* "down", "up", or "nilstore": running with a nil Storage
  counters,  \* m.counters, Nil where the map has no entry
  gauges,    \* m.gauges, likewise
  mu,        \* holder of m.mu: "free", "batch", "saver", "closer"
  batch,     \* metrics UpdateMetrics has still to apply
  ticker,    \* m.ticker # nil
  done,      \* m.done is closed
  saver,     \* the periodic goroutine: where it is in its loop
  closer,    \* the call of Close at shutdown
  closeErr,  \* the error Close returned
  quiet,     \* history: Close found the saver blocked in its select (or absent)
  file,      \* the storage file: state "absent", "torn" or "ok", and its entries
  data,      \* the entries the last SaveToFile marshalled
  exit,      \* why the process ended, "none" while it runs
  resp       \* the reply of the read that has just returned

mem == <<counters, gauges>>
saving == <<ticker, done, saver>>
closing == <<closer, closeErr, quiet>>
disk == <<file, data>>
core == <<proc, mem, mu, batch, saving, closing, disk, exit>>
vars == <<core, resp>>

NoReply == [op |-> "none"]
NoCounters == [n \in CNames |-> Nil]
NoGauges == [n \in GNames |-> Nil]
Absent == [state |-> "absent", entries |-> {}]
Torn == [state |-> "torn", entries |-> {}]
Complete(es) == [state |-> "ok", entries |-> es]

Init ==
  /\ proc = "down" /\ exit = "none"
  /\ counters = NoCounters /\ gauges = NoGauges
  /\ mu = "free" /\ batch = <<>>
  /\ ticker = FALSE /\ done = FALSE /\ saver = "none"
  /\ closer = "idle" /\ closeErr = FALSE /\ quiet = FALSE
  /\ file = Absent /\ data = {}
  /\ resp = NoReply

-----------------------------------------------------------------------------
(* Marshalling: one entry for every map entry; loading puts them back.     *)

CounterEntry(n, d) == [id |-> n, mtype |-> "counter", delta |-> d, value |-> Nil]
GaugeEntry(n, v) == [id |-> n, mtype |-> "gauge", delta |-> Nil, value |-> v]

Snapshot(c, g) ==
  {CounterEntry(n, c[n]) : n \in {m \in CNames : c[m] # Nil}}
    \cup {GaugeEntry(n, g[n]) : n \in {m \in GNames : g[m] # Nil}}

LoadedCounters(es) ==
  [n \in CNames |->
     IF \E d \in Int64 : CounterEntry(n, d) \in es
     THEN CHOOSE d \in Int64 : CounterEntry(n, d) \in es ELSE Nil]

\* Mutant: the type switch of LoadFromFile has no case for gauges.
LoadedGaugesNoCase(es) == NoGauges

LoadedGauges(es) ==
  [n \in GNames |->
     IF \E v \in Finite : GaugeEntry(n, v) \in es
     THEN CHOOSE v \in Finite : GaugeEntry(n, v) \in es ELSE Nil]

\* json.MarshalIndent refuses NaN and the infinities.
Marshalable == \A n \in GNames : gauges[n] \notin NonFinite

-----------------------------------------------------------------------------
(* Start: NewMemStorage.                                                   *)

FreshProcess ==
  /\ mu' = "free" /\ batch' = <<>>
  /\ done' = FALSE
  /\ closer' = "idle" /\ closeErr' = FALSE /\ quiet' = FALSE
  /\ data' = {} /\ exit' = "none"
  /\ UNCHANGED file

\* The storage starts with the given maps, and the periodic goroutine with it.
StartWith(c, g) ==
  /\ proc = "down" /\ proc' = "up"
  /\ counters' = c /\ gauges' = g
  /\ ticker' = Periodic
  /\ saver' = IF Periodic THEN "eval" ELSE "none"
  /\ FreshProcess

\* Without -r, or with no file yet, the maps are empty.
StartEmpty ==
  /\ ~Restore \/ file.state = "absent"
  /\ StartWith(NoCounters, NoGauges)

StartLoaded ==
  /\ Restore /\ file.state = "ok"
  /\ StartWith(LoadedCounters(file.entries), LoadedGauges(file.entries))

\* LoadFromFile fails: NewMemStorage returns nil and the server runs with it.
StartNil ==
  /\ proc = "down" /\ proc' = "nilstore"
  /\ Restore
  /\ file.state = "torn" \/ (IOErrors /\ file.state = "ok")
  /\ FreshProcess
  /\ UNCHANGED <<mem, ticker, saver>>

-----------------------------------------------------------------------------
(* Updates and reads.                                                      *)

Added(c, n, d) == [c EXCEPT ![n] = IF c[n] # Nil THEN Wrap(c[n] + d) ELSE d]

UpdateGauge(n, v) ==
  /\ proc = "up" /\ mu = "free"
  /\ gauges' = [gauges EXCEPT ![n] = v]
  /\ UNCHANGED <<proc, counters, mu, batch, saving, closing, disk, exit>>

\* Mutant: the increment does not take the mutex.
UpdateCounterUnlocked(n, d) ==
  /\ proc = "up"
  /\ counters' = Added(counters, n, d)
  /\ UNCHANGED <<proc, gauges, mu, batch, saving, closing, disk, exit>>

UpdateCounter(n, d) ==
  /\ proc = "up" /\ mu = "free"
  /\ counters' = Added(counters, n, d)
  /\ UNCHANGED <<proc, gauges, mu, batch, saving, closing, disk, exit>>

\* UpdateMetrics takes the mutex ...
UpdateMetricsBegin(b) ==
  /\ proc = "up" /\ mu = "free"
  /\ mu' = "batch" /\ batch' = b
  /\ UNCHANGED <<proc, mem, saving, closing, disk, exit>>

\* ... applies the metrics one by one, skipping nil values and other types ...
UpdateMetricsStep ==
  /\ mu = "batch" /\ batch # <<>>
  /\ LET m == Head(batch) IN
     /\ counters' = IF m.mtype = "counter" /\ m.delta # Nil
                    THEN Added(counters, m.id, m.delta) ELSE counters
     /\ gauges' = IF m.mtype = "gauge" /\ m.value # Nil
                  THEN [gauges EXCEPT ![m.id] = m.value] ELSE gauges
  /\ batch' = Tail(batch)
  /\ UNCHANGED <<proc, mu, saving, closing, disk, exit>>

\* Mutant: the mutex is not released.
UpdateMetricsEndLocked ==
  /\ mu = "batch" /\ batch = <<>>
  /\ UNCHANGED core

\* ... and releases the mutex after the last one.
UpdateMetricsEnd ==
  /\ mu = "batch" /\ batch = <<>>
  /\ mu' = "free"
  /\ UNCHANGED <<proc, mem, batch, saving, closing, disk, exit>>

\* Mutant: a read that does not take the mutex.
GetCounterUnlocked(n) ==
  /\ proc = "up"
  /\ resp' = [op |-> "counter", id |-> n, found |-> counters[n] # Nil,
              value |-> IF counters[n] # Nil THEN counters[n] ELSE 0]

GetCounter(n) ==
  /\ proc = "up" /\ mu = "free"
  /\ resp' = [op |-> "counter", id |-> n, found |-> counters[n] # Nil,
              value |-> IF counters[n] # Nil THEN counters[n] ELSE 0]

\* Absent gauges answer 0 and false; the reply's value is then not used.
GetGauge(n) ==
  /\ proc = "up" /\ mu = "free"
  /\ resp' = [op |-> "gauge", id |-> n, found |-> gauges[n] # Nil, value |-> gauges[n]]

\* The list of the main page, an error when there is nothing to list.
GetAllMetrics ==
  /\ proc = "up" /\ mu = "free"
  /\ resp' = [op |-> "all", found |-> \/ \E n \in CNames : counters[n] # Nil
                                      \/ \E k \in GNames : gauges[k] # Nil,
              counters |-> counters, gauges |-> gauges]

-----------------------------------------------------------------------------
(* SaveToFile, called by p: "saver" or "closer".                           *)

\* Marshal failed, or the file could not be opened: the file is untouched.
SaveFails == mu = "free" /\ (~Marshalable \/ IOErrors) /\ UNCHANGED <<mu, disk>>

\* The metrics are marshalled under the mutex and os.WriteFile truncates.
SaveOpens(p) ==
  /\ mu = "free" /\ Marshalable
  /\ mu' = p
  /\ data' = Snapshot(counters, gauges)
  /\ file' = Torn

SaveWrites(p) == mu = p /\ mu' = "free" /\ file' = Complete(data) /\ UNCHANGED data

SaveWriteFails(p) == IOErrors /\ mu = p /\ mu' = "free" /\ UNCHANGED disk

-----------------------------------------------------------------------------
(* The periodic goroutine: each turn evaluates m.ticker.C, selects, saves. *)

\* The process ends: all but the file (and the history) is gone.
Dies(why) ==
  /\ proc' = "down" /\ exit' = why
  /\ counters' = NoCounters /\ gauges' = NoGauges
  /\ mu' = "free" /\ batch' = <<>>
  /\ ticker' = FALSE /\ done' = FALSE /\ saver' = "none"
  /\ closer' = IF closer = "closed" THEN "closed" ELSE "idle"
  /\ UNCHANGED <<closeErr, quiet, disk>>

\* m.ticker is read without tickerMu: after Close has set it to nil the read
\* may still return the old pointer.
SaverEval ==
  /\ saver = "eval" /\ saver' = "select"
  /\ UNCHANGED <<proc, mem, mu, batch, ticker, done, closing, disk, exit>>

\* Reading the nil pointer ends the process.
SaverEvalNil ==
  /\ saver = "eval" /\ ~ticker
  /\ Dies("ticker_panic")

\* A stopped ticker delivers no tick (its channel is drained by Stop).
SaverTick ==
  /\ saver = "select" /\ ticker /\ saver' = "lock"
  /\ UNCHANGED <<proc, mem, mu, batch, ticker, done, closing, disk, exit>>

\* Mutant: break leaves the select, not the loop.
SaverDoneBreaks ==
  /\ saver = "select" /\ done /\ saver' = "eval"
  /\ UNCHANGED <<proc, mem, mu, batch, ticker, done, closing, disk, exit>>

SaverDone ==
  /\ saver = "select" /\ done /\ saver' = "returned"
  /\ UNCHANGED <<proc, mem, mu, batch, ticker, done, closing, disk, exit>>

SaverSaves ==
  /\ saver = "lock"
  /\ SaveOpens("saver") /\ saver' = "write"
  /\ UNCHANGED <<proc, mem, batch, ticker, done, closing, exit>>

\* A failed save is logged and the loop goes on.
SaverSaveFails ==
  /\ saver = "lock"
  /\ SaveFails /\ saver' = "eval"
  /\ UNCHANGED <<proc, mem, batch, ticker, done, closing, exit>>

SaverWrites ==
  /\ saver = "write"
  /\ SaveWrites("saver") \/ SaveWriteFails("saver")
  /\ saver' = "eval"
  /\ UNCHANGED <<proc, mem, batch, ticker, done, closing, exit>>

-----------------------------------------------------------------------------
(* Close.                                                                  *)

\* Mutant: the ticker is not stopped before the last save.
CloseKeepsTicker ==
  /\ proc = "up" /\ closer = "idle"
  /\ done' = TRUE
  /\ quiet' = (saver \in {"none", "select"})
  /\ closer' = "lock"
  /\ UNCHANGED <<proc, mem, mu, batch, ticker, saver, closeErr, disk, exit>>

\* The ticker is stopped and forgotten, and done closed.
CloseBegin ==
  /\ proc = "up" /\ closer = "idle"
  /\ ticker' = FALSE /\ done' = TRUE
  /\ quiet' = (saver \in {"none", "select"})
  /\ closer' = "lock"
  /\ UNCHANGED <<proc, mem, mu, batch, saver, closeErr, disk, exit>>

CloseSaves ==
  /\ closer = "lock"
  /\ SaveOpens("closer") /\ closer' = "write"
  /\ UNCHANGED <<proc, mem, batch, saving, closeErr, quiet, exit>>

CloseSaveFails ==
  /\ closer = "lock"
  /\ SaveFails /\ closer' = "closed" /\ closeErr' = TRUE
  /\ UNCHANGED <<proc, mem, batch, saving, quiet, exit>>

CloseWrites ==
  /\ closer = "write" /\ closer' = "closed"
  /\ \/ SaveWrites("closer") /\ closeErr' = FALSE
     \/ SaveWriteFails("closer") /\ closeErr' = TRUE
  /\ UNCHANGED <<proc, mem, batch, saving, quiet, exit>>

\* waitForShutdown calls Close on the nil interface.
CloseNil ==
  /\ proc = "nilstore"
  /\ Dies("nil_storage_panic")

-----------------------------------------------------------------------------
(* The end of the process from outside, and after Close.                   *)

Kill == proc # "down" /\ Dies("killed")

Exit == proc = "up" /\ closer = "closed" /\ Dies("clean")

Start == StartEmpty \/ StartLoaded \/ StartNil

Update ==
  \/ \E n \in GNames, v \in Values : UpdateGauge(n, v)
  \/ \E n \in CNames, d \in Deltas : UpdateCounter(n, d)
  \/ \E b \in Batches : UpdateMetricsBegin(b)

BatchProgress == UpdateMetricsStep \/ UpdateMetricsEnd

SaverLocal == SaverEval \/ SaverEvalNil \/ SaverTick \/ SaverDone \/ SaverWrites

SaverLocks == SaverSaves \/ SaverSaveFails

CloserLocks == CloseSaves \/ CloseSaveFails

Step ==
  \/ Start \/ Update \/ BatchProgress
  \/ SaverLocal \/ SaverLocks
  \/ CloseBegin \/ CloserLocks \/ CloseWrites \/ CloseNil
  \/ Kill \/ Exit

Read ==
  \/ \E n \in CNames : GetCounter(n)
  \/ \E n \in GNames : GetGauge(n)
  \/ GetAllMetrics

Next ==
  \/ Step /\ resp' = NoReply
  \/ Read /\ UNCHANGED core

Spec == Init /\ [][Next]_vars

(***************************************************************************)
(* The goroutines run whenever they can.  Whoever waits for the mutex gets *)
(* it although others keep taking it: sync.Mutex hands it to a waiter that *)
(* has starved for a millisecond, so acquiring it is strongly fair.        *)
(***************************************************************************)
Fairness ==
  /\ WF_vars(BatchProgress /\ resp' = NoReply)
  /\ WF_vars(SaverLocal /\ resp' = NoReply)
  /\ WF_vars(CloseWrites /\ resp' = NoReply)
  /\ SF_vars(SaverLocks /\ resp' = NoReply)
  /\ SF_vars(CloserLocks /\ resp' = NoReply)

FairSpec == Spec /\ Fairness

-----------------------------------------------------------------------------
(* Properties.                                                             *)

\* The replies of the reads.
Replies ==
  {NoReply}
    \cup [op : {"counter"}, id : CNames, found : BOOLEAN, value : Int64]
    \cup [op : {"gauge"}, id : GNames, found : BOOLEAN, value : Values \cup {Nil}]
    \cup [op : {"all"}, found : BOOLEAN, counters : [CNames -> Int64 \cup {Nil}],
          gauges : [GNames -> Values \cup {Nil}]]

\* Types of the storage's fields and of the model's control state: counters
\* stay in the width of int64 whatever is added to them.
TypeOK ==
  /\ proc \in {"down", "up", "nilstore"}
  /\ counters \in [CNames -> Int64 \cup {Nil}]
  /\ gauges \in [GNames -> Values \cup {Nil}]
  /\ mu \in {"free", "batch", "saver", "closer"}
  /\ batch \in Seq(Metrics)
  /\ ticker \in BOOLEAN /\ done \in BOOLEAN
  /\ saver \in {"none", "eval", "select", "lock", "write", "returned"}
  /\ closer \in {"idle", "lock", "write", "closed"}
  /\ closeErr \in BOOLEAN /\ quiet \in BOOLEAN
  /\ file \in [state : {"absent", "torn", "ok"}, entries : SUBSET Metrics]
  /\ data \in SUBSET Metrics
  /\ exit \in {"none", "killed", "clean", "ticker_panic", "nil_storage_panic"}
  /\ resp \in Replies

\* SaveToFile and UpdateMetrics exclude each other: at most one of them is
\* inside its critical section, and it is the one that holds mu.
MutexOwner ==
  /\ saver = "write" <=> mu = "saver"
  /\ closer = "write" <=> mu = "closer"
  /\ batch # <<>> => mu = "batch"

\* While SaveToFile writes, what it marshalled is still exactly what the maps
\* hold: no update, and no half of a batch, slips between the marshalling and
\* the end of the write.
SnapshotExact ==
  mu \in {"saver", "closer"} => data = Snapshot(counters, gauges)

\* Close succeeded and had not to share the file with a periodic save.
DurablyClosed == closer = "closed" /\ quiet /\ ~closeErr

\* After a Close that returned nil, and for ever after, also when the process
\* ends in any way, the file is complete and holds the last snapshot, unless a
\* periodic save was under way when Close began.
DurableClose == DurablyClosed => file = Complete(data)

\* A server restarted with -r after a successful Close holds exactly the
\* metrics that Close saved: the file format loses and confuses nothing.
RestartRestores ==
  [][proc = "down" /\ proc' = "up" /\ Restore /\ DurablyClosed
       => Snapshot(counters', gauges') = data]_vars

\* Close tells the periodic goroutine to stop, and it does (or the process is
\* gone), even if it was saving at that moment.
SaverStops == done ~> saver \in {"none", "returned"}

\* Close returns although requests and the saver compete for the mutex.
CloseReturns == closer \in {"lock", "write"} ~> closer \in {"closed", "idle"}

\* "Graceful shutdown" (server.go:80): stopping the server does not panic.
NoTickerPanic == exit # "ticker_panic"

-----------------------------------------------------------------------------
(***************************************************************************)
(* MemStorage implements MetricStore.  A batch takes effect when it gets   *)
(* the mutex: until it has released it, the abstract maps are the maps     *)
(* with the rest of the batch applied.  A save takes effect when it opens  *)
(* the file: while it writes, the abstract file holds what it marshalled.  *)
(***************************************************************************)

\* The reference definitions of a batch's effect.
Reference == INSTANCE MetricStore WITH state <- proc, saved <- file

Writing == mu \in {"saver", "closer"}

SavedNow ==
  LET es == IF Writing THEN data ELSE file.entries IN
  [state |-> IF Writing THEN "ok"
             ELSE IF file.state = "torn" THEN "damaged" ELSE file.state,
   counters |-> LoadedCounters(es),
   gauges |-> LoadedGauges(es)]

Store == INSTANCE MetricStore
  WITH state <- IF proc = "nilstore" THEN "failed" ELSE proc,
       counters <- Reference!CountersAfter(counters, batch),
       gauges <- Reference!GaugesAfter(gauges, batch),
       saved <- SavedNow

\* The steps of UpdateMetrics and SaveToFile, the saver's race with Close, the
\* crashes and the reloads together behave like the atomic store: no reader
\* sees half a batch, and no file holds one.
RefinesStore == Store!Spec
=============================================================================
