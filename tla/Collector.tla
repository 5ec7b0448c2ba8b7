----------------------------- MODULE Collector -----------------------------
(***************************************************************************)
(* The agent's collector (internal/agent/collector, provider, model): each *)
(* poll asks the providers in turn under the mutex and merges what they    *)
(* return into one set of metrics; the reporter reads and resets under the *)
(* same mutex.                                                             *)
(*                                                                         *)
(* A field's value is the number of the poll that measured it, 0 if it was *)
(* measured as zero or never: the merge only asks whether a value is zero. *)
(***************************************************************************)
EXTENDS Integers, Sequences

CONSTANTS KeyFields,       \* Alloc, Sys, TotalAlloc: what IsZero looks at
          RuntimeFields,   \* the other fields of the runtime provider
          GopsutilFields,  \* the fields of the gopsutil provider
          MaxPolls         \* bound: polls in a run

Fields == KeyFields \cup RuntimeFields \cup GopsutilFields

ASSUME KeyAssumption == KeyFields # {}
ASSUME FieldsAssumption ==
  GopsutilFields \cap (KeyFields \cup RuntimeFields) = {}
ASSUME PollsAssumption == MaxPolls \in Nat

VARIABLES
  metrics,    \* mc.metrics
  pollCount,  \* mc.pollCount
  mutex,      \* held by a poll
  next,       \* index of the provider to ask next
  cancelled,    \* the context of main
  returned,   \* the collector's goroutine has returned
  polls,      \* history: complete polls
  last,       \* history: the last non-zero measurement of each field
  seen        \* the last result of GetMetrics and when it was taken

collectorVars == <<metrics, pollCount, mutex, next, cancelled, returned, polls, last, seen>>

Zero == [f \in Fields |-> 0]
Unseen == [fields |-> Zero, count |-> 0, poll |-> 0, done |-> FALSE]

CollectorInit ==
  /\ metrics = Zero /\ pollCount = 0
  /\ mutex = FALSE /\ next = 1
  /\ cancelled = FALSE /\ returned = FALSE
  /\ polls = 0 /\ last = Zero /\ seen = Unseen

-----------------------------------------------------------------------------
\* Mutant: the providers in the other order.
ProvidersSwapped == <<"gopsutil", "runtime">>

Providers == <<"runtime", "gopsutil">>

\* What provider p may return in poll k: its own fields, the others zero; the
\* running program always has allocated memory, other values may be zero.
Samples(p, k) ==
  IF p = "runtime"
  THEN {[f \in Fields |-> IF f \in KeyFields \cup X THEN k ELSE 0] : X \in SUBSET RuntimeFields}
  ELSE {[f \in Fields |-> IF f \in X THEN k ELSE 0] : X \in SUBSET GopsutilFields}

IsZero(m) == \A f \in KeyFields : m[f] = 0

\* The measurements of s that are not zero over those of m.
Over(m, s) == [f \in Fields |-> IF s[f] # 0 THEN s[f] ELSE m[f]]

\* mergeMetrics: the first metrics are taken as they are.
Merge(m, s) == IF IsZero(m) THEN s ELSE Over(m, s)

-----------------------------------------------------------------------------
(* The collector's goroutine.                                              *)

Tick ==
  /\ ~returned /\ ~mutex /\ polls < MaxPolls
  /\ mutex' = TRUE /\ next' = 1
  /\ UNCHANGED <<metrics, pollCount, cancelled, returned, polls, last, seen>>

CollectOK ==
  /\ mutex /\ next <= Len(Providers) /\ ~cancelled
  /\ \E s \in Samples(Providers[next], polls + 1) :
       /\ metrics' = Merge(metrics, s)
       /\ last' = Over(last, s)
  /\ next' = next + 1
  /\ UNCHANGED <<pollCount, mutex, cancelled, returned, polls, seen>>

\* Both providers refuse a context that is done, and gopsutil can fail.
CollectFails ==
  /\ mutex /\ next <= Len(Providers)
  /\ cancelled \/ Providers[next] = "gopsutil"
  /\ next' = next + 1
  /\ UNCHANGED <<metrics, pollCount, mutex, cancelled, returned, polls, last, seen>>

CollectEnds ==
  /\ mutex /\ next > Len(Providers)
  /\ pollCount' = pollCount + 1 /\ polls' = polls + 1
  /\ mutex' = FALSE
  /\ UNCHANGED <<metrics, next, cancelled, returned, last, seen>>

Returns ==
  /\ ~returned /\ ~mutex /\ cancelled
  /\ returned' = TRUE
  /\ UNCHANGED <<metrics, pollCount, mutex, next, cancelled, polls, last, seen>>

-----------------------------------------------------------------------------
(* The reporter's calls, and the signal.                                   *)

\* Mutant: GetMetrics does not take the mutex.
GetMetricsUnlocked ==
  /\ seen' = [fields |-> metrics, count |-> pollCount, poll |-> polls, done |-> cancelled]
  /\ UNCHANGED <<metrics, pollCount, mutex, next, cancelled, returned, polls, last>>

GetMetrics ==
  /\ ~mutex
  /\ seen' = [fields |-> metrics, count |-> pollCount, poll |-> polls, done |-> cancelled]
  /\ UNCHANGED <<metrics, pollCount, mutex, next, cancelled, returned, polls, last>>

ResetCount ==
  /\ ~mutex
  /\ pollCount' = 0
  /\ UNCHANGED <<metrics, mutex, next, cancelled, returned, polls, last, seen>>

Cancel ==
  /\ ~cancelled /\ cancelled' = TRUE
  /\ UNCHANGED <<metrics, pollCount, mutex, next, returned, polls, last, seen>>

Poll == Tick \/ CollectOK \/ CollectFails \/ CollectEnds \/ Returns

CollectorNext == Poll \/ GetMetrics \/ ResetCount \/ Cancel

CollectorSpec == CollectorInit /\ [][CollectorNext]_collectorVars

-----------------------------------------------------------------------------
(* Properties.                                                             *)

\* Types of the collector's fields.
TypeOK ==
  /\ metrics \in [Fields -> Nat] /\ last \in [Fields -> Nat]
  /\ pollCount \in Nat /\ polls \in Nat
  /\ mutex \in BOOLEAN /\ cancelled \in BOOLEAN /\ returned \in BOOLEAN
  /\ next \in 1 .. 3
  /\ seen \in [fields : [Fields -> Nat], count : Nat, poll : Nat, done : BOOLEAN]

\* The metrics are, field by field, the last measurement that was not zero,
\* whichever provider made it: the shortcut of mergeMetrics for metrics that
\* look empty never throws a measurement away.
MergeKeepsLast == metrics = last

\* GetMetrics returns the state after a complete poll: the memory metrics are
\* those of the last poll counted, as long as the agent is not being stopped.
ReadsWholePoll ==
  ~seen.done => \A f \in KeyFields : seen.fields[f] = seen.poll
=============================================================================
