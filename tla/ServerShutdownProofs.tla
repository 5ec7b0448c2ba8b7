------------------------ MODULE ServerShutdownProofs ------------------------
(***************************************************************************)
(* The server counts its requests exactly and saves on a graceful shutdown *)
(* whatever it has acknowledged, for any number of requests, any limit,    *)
(* with and without an audit file.                                         *)
(***************************************************************************)
EXTENDS ServerShutdown, FiniteSetTheorems, TLAPS

USE RequestsAssumption, LimitAssumption, AuditAssumption

-----------------------------------------------------------------------------
(* Types and counts.                                                       *)

\* The counters are natural numbers because they count sets of requests, so
\* types and counts are one inductive invariant.
Counting == TypeOK /\ CountsExact

LEMMA CountedFinite ==
  ASSUME TypeOK
  PROVE  /\ IsFiniteSet(Counted) /\ Cardinality(Counted) \in Nat
         /\ IsFiniteSet(Holding) /\ Cardinality(Holding) \in Nat
  BY FS_Subset, FS_CardinalityType DEF Counted, Holding

LEMMA InitCounting == Init => Counting
  <1> SUFFICES ASSUME Init PROVE Counting
    OBVIOUS
  <1>1. shutdownCh \in BOOLEAN /\ late \in BOOLEAN /\ saveFailed \in BOOLEAN
        /\ auditOpen \in BOOLEAN /\ pprof \in BOOLEAN
    BY Zenon DEF Init
  <1>2. Counted = {} /\ Holding = {}
    BY DEF Init, Counted, Holding
  <1>3. TypeOK
    BY <1>1 DEF Init, TypeOK
  <1>4. CountsExact
    BY <1>2, FS_EmptySet DEF Init, CountsExact
  <1> QED
    BY <1>3, <1>4 DEF Counting

\* The state of the request that a step moves, and of no other, changes.
LEMMA MovesOne ==
  ASSUME TypeOK, NEW r \in Requests, NEW from,
         NEW to \in {"new", "refused", "check", "add", "limit", "handle", "release", "leave",
                     "flush", "answered"},
         Moves(r, from, to)
  PROVE  /\ req' \in [Requests -> {"new", "refused", "check", "add", "limit", "handle", "release",
                                   "leave", "flush", "answered"}]
         /\ req[r] = from /\ req'[r] = to
         /\ \A q \in Requests : q # r => req'[q] = req[q]
  BY DEF TypeOK, Moves

\* The request is neither counted nor holds a token before and after.
LEMMA OutsideCounting ==
  ASSUME Counting, NEW r \in Requests,
         Arrive(r) \/ Check(r) \/ Flush(r)
  PROVE  Counting'
  <1> USE DEF requests, counts, storage
  <1>1. TypeOK
    BY DEF Counting
  <1>2. req' \in [Requests -> {"new", "refused", "check", "add", "limit", "handle", "release",
                               "leave", "flush", "answered"}]
        /\ Counted' = Counted /\ Holding' = Holding
    BY <1>1, MovesOne DEF Arrive, Check, Flush, Counted, Holding
  <1>3. status' \in [Requests -> {0, 200, 429, 500, 503}]
    BY <1>1 DEF Arrive, Check, Flush, TypeOK
  <1>4. UNCHANGED <<listener, event, active, semaphore, shutdownCh, main, late, storage, auditOpen,
                    pprof>>
    BY DEF Arrive, Check, Flush
  <1> QED
    BY <1>1, <1>2, <1>3, <1>4 DEF Counting, TypeOK, CountsExact

LEMMA AddCounting ==
  ASSUME Counting, NEW r \in Requests, Add(r)
  PROVE  Counting'
  <1> USE DEF requests, counts, storage
  <1>1. TypeOK
    BY DEF Counting
  <1>2. req' \in [Requests -> {"new", "refused", "check", "add", "limit", "handle", "release",
                               "leave", "flush", "answered"}]
        /\ Counted' = Counted \cup {r} /\ r \notin Counted /\ Holding' = Holding
    BY <1>1, MovesOne DEF Add, Counted, Holding
  <1>3. Cardinality(Counted') = Cardinality(Counted) + 1
    BY <1>1, <1>2, CountedFinite, FS_AddElement
  <1>4. active' = active + 1 /\ active \in Nat /\ active = Cardinality(Counted)
        /\ UNCHANGED <<listener, status, event, semaphore, shutdownCh, main, late, storage,
                       auditOpen, pprof>>
    BY <1>1 DEF Add, TypeOK, Counting, CountsExact
  <1> QED
    BY <1>1, <1>2, <1>3, <1>4 DEF Counting, TypeOK, CountsExact

LEMMA LimitPassesCounting ==
  ASSUME Counting, NEW r \in Requests, LimitPasses(r)
  PROVE  Counting'
  <1> USE DEF requests, counts, storage
  <1>1. TypeOK
    BY DEF Counting
  <1>2. req' \in [Requests -> {"new", "refused", "check", "add", "limit", "handle", "release",
                               "leave", "flush", "answered"}]
        /\ Holding' = Holding \cup {r} /\ r \notin Holding /\ Counted' = Counted
    BY <1>1, MovesOne DEF LimitPasses, Counted, Holding
  <1>3. Cardinality(Holding') = Cardinality(Holding) + 1
    BY <1>1, <1>2, CountedFinite, FS_AddElement
  <1>4. semaphore \in 0 .. Limit /\ (Limit = 0 => semaphore' = semaphore)
        /\ (Limit > 0 => semaphore' = semaphore + 1 /\ semaphore < Limit)
    BY <1>1 DEF LimitPasses, TypeOK
  <1>5. UNCHANGED <<listener, status, event, active, shutdownCh, main, late, storage, auditOpen,
                    pprof>>
    BY DEF LimitPasses
  <1> QED
    BY <1>1, <1>2, <1>3, <1>4, <1>5 DEF Counting, TypeOK, CountsExact

LEMMA LimitRejectsCounting ==
  ASSUME Counting, NEW r \in Requests, LimitRejects(r)
  PROVE  Counting'
  <1> USE DEF requests, counts, storage
  <1>1. TypeOK
    BY DEF Counting
  <1>2. req' \in [Requests -> {"new", "refused", "check", "add", "limit", "handle", "release",
                               "leave", "flush", "answered"}]
        /\ Counted' = Counted /\ Holding' = Holding
    BY <1>1, MovesOne DEF LimitRejects, Counted, Holding
  <1>3. status' \in [Requests -> {0, 200, 429, 500, 503}]
    BY <1>1 DEF LimitRejects, TypeOK
  <1> QED
    BY <1>1, <1>2, <1>3 DEF LimitRejects, Counting, TypeOK, CountsExact

LEMMA HandleCounting ==
  ASSUME Counting, NEW r \in Requests, Handle(r)
  PROVE  Counting'
  <1> USE DEF requests, counts, storage
  <1>1. TypeOK
    BY DEF Counting
  <1>2. req' \in [Requests -> {"new", "refused", "check", "add", "limit", "handle", "release",
                               "leave", "flush", "answered"}]
        /\ Counted' = Counted /\ Holding' = Holding
    BY <1>1, MovesOne DEF Handle, Counted, Holding
  <1>3. status' \in [Requests -> {0, 200, 429, 500, 503}]
        /\ event' \in [Requests -> {"none", "publish", "published", "observe", "written", "lost"}]
        /\ stored' \in SUBSET Requests
    BY <1>1 DEF Handle, TypeOK
  <1> QED
    BY <1>1, <1>2, <1>3 DEF Handle, Counting, TypeOK, CountsExact

LEMMA ReleaseCounting ==
  ASSUME Counting, NEW r \in Requests, Release(r)
  PROVE  Counting'
  <1> USE DEF requests, counts, storage
  <1>1. TypeOK
    BY DEF Counting
  <1>2. req' \in [Requests -> {"new", "refused", "check", "add", "limit", "handle", "release",
                               "leave", "flush", "answered"}]
        /\ Holding' = Holding \ {r} /\ r \in Holding /\ Counted' = Counted
    BY <1>1, MovesOne DEF Release, Counted, Holding
  <1>3. Cardinality(Holding') = Cardinality(Holding) - 1 /\ Cardinality(Holding') \in Nat
    BY <1>1, <1>2, CountedFinite, FS_RemoveElement, FS_CardinalityType
  <1>4. semaphore \in 0 .. Limit /\ (Limit = 0 => semaphore' = semaphore)
        /\ (Limit > 0 => semaphore' = semaphore - 1 /\ semaphore = Cardinality(Holding))
    BY <1>1 DEF Release, TypeOK, Counting, CountsExact
  <1>5. UNCHANGED <<listener, status, event, active, shutdownCh, main, late, storage, auditOpen,
                    pprof>>
    BY DEF Release
  <1> QED
    BY <1>1, <1>2, <1>3, <1>4, <1>5 DEF Counting, TypeOK, CountsExact

LEMMA LeaveCounting ==
  ASSUME Counting, NEW r \in Requests, Leave(r)
  PROVE  Counting'
  <1> USE DEF requests, counts, storage
  <1>1. TypeOK
    BY DEF Counting
  <1>2. req' \in [Requests -> {"new", "refused", "check", "add", "limit", "handle", "release",
                               "leave", "flush", "answered"}]
        /\ Counted' = Counted \ {r} /\ r \in Counted /\ Holding' = Holding
    BY <1>1, MovesOne DEF Leave, Counted, Holding
  <1>3. Cardinality(Counted') = Cardinality(Counted) - 1 /\ Cardinality(Counted') \in Nat
    BY <1>1, <1>2, CountedFinite, FS_RemoveElement, FS_CardinalityType
  <1>4. active' = active - 1 /\ active \in Nat /\ active = Cardinality(Counted)
        /\ UNCHANGED <<listener, status, event, semaphore, shutdownCh, main, late, storage,
                       auditOpen, pprof>>
    BY <1>1 DEF Leave, TypeOK, Counting, CountsExact
  <1> QED
    BY <1>1, <1>2, <1>3, <1>4 DEF Counting, TypeOK, CountsExact

\* The steps that move no request.
LEMMA OtherCounting ==
  ASSUME Counting,
         \/ Listen \/ PprofFails \/ Signal \/ Shutdown
         \/ \E r \in Requests : Audit(r)
  PROVE  Counting'
  <1> USE DEF requests, counts, storage
  <1>1. TypeOK
    BY DEF Counting
  <1>2. UNCHANGED <<req, status, active, semaphore, stored>> /\ Counted' = Counted /\ Holding' = Holding
    BY DEF Listen, PprofFails, Signal, Shutdown, ShutdownCloses, ShutdownDrains, ShutdownTimesOut,
           WaitDone, WaitTimesOut, CloseStorage, CloseAudit, Exit, Audit, Publish,
           OnMetricProcessed, MainMoves, Counted, Holding
  <1>3. CountsExact'
    BY <1>2 DEF Counting, CountsExact
  <1>4. shutdownCh' \in BOOLEAN /\ late' \in BOOLEAN /\ saveFailed' \in BOOLEAN
        /\ auditOpen' \in BOOLEAN /\ pprof' \in BOOLEAN
    <2> shutdownCh \in BOOLEAN /\ late \in BOOLEAN /\ saveFailed \in BOOLEAN
        /\ auditOpen \in BOOLEAN /\ pprof \in BOOLEAN
      BY <1>1 DEF TypeOK
    <2>1. CASE Listen \/ PprofFails \/ Signal
      BY <2>1, Zenon DEF Listen, PprofFails, Signal, MainMoves
    <2>2. CASE ShutdownCloses \/ ShutdownDrains \/ ShutdownTimesOut
      BY <2>2, Zenon DEF ShutdownCloses, ShutdownDrains, ShutdownTimesOut
    <2>3. CASE WaitDone \/ WaitTimesOut \/ Exit
      BY <2>3, Zenon DEF WaitDone, WaitTimesOut, Exit
    <2>4. CASE CloseStorage \/ CloseAudit
      BY <2>4, Zenon DEF CloseStorage, CloseAudit
    <2>5. CASE \E r \in Requests : Audit(r)
      BY <2>5, Zenon DEF Audit, Publish, OnMetricProcessed
    <2> QED
      BY <2>1, <2>2, <2>3, <2>4, <2>5 DEF Shutdown
  <1>5. /\ listener' \in {"starting", "open", "failed", "closed"}
        /\ main' \in {"serve", "shutdown", "draining", "wait", "close", "closeAudit", "stopped",
                      "exited"}
        /\ saved' \in SUBSET Requests
    BY <1>1 DEF Listen, PprofFails, Signal, Shutdown, ShutdownCloses, ShutdownDrains,
                ShutdownTimesOut, WaitDone, WaitTimesOut, CloseStorage, CloseAudit, Exit, Audit,
                Publish, OnMetricProcessed, MainMoves, TypeOK
  <1>6. event' \in [Requests -> {"none", "publish", "published", "observe", "written", "lost"}]
    BY <1>1 DEF Listen, PprofFails, Signal, Shutdown, ShutdownCloses, ShutdownDrains,
                ShutdownTimesOut, WaitDone, WaitTimesOut, CloseStorage, CloseAudit, Exit, Audit,
                Publish, OnMetricProcessed, TypeOK
  <1> QED
    BY <1>1, <1>2, <1>3, <1>4, <1>5, <1>6 DEF Counting, TypeOK

LEMMA NextCounting ==
  ASSUME Counting, [Next]_vars
  PROVE  Counting'
  <1>1. CASE UNCHANGED vars
    BY <1>1 DEF vars, requests, counts, storage, Counting, TypeOK, CountsExact, Counted, Holding
  <1> QED
    BY <1>1, OutsideCounting, AddCounting, LimitPassesCounting, LimitRejectsCounting,
       HandleCounting, ReleaseCounting, LeaveCounting, OtherCounting DEF Next, Request

LEMMA CountingHolds == Spec => []Counting
  BY InitCounting, NextCounting, PTL DEF Spec

\* Type correctness of the server.
THEOREM TypeCorrect == Spec => []TypeOK
  <1>1. Counting => TypeOK
    BY DEF Counting
  <1> QED
    BY <1>1, CountingHolds, PTL

\* No path through the middlewares leaks a count of the WaitGroup or a token
\* of the limiter, and the handler never runs more requests than the limit.
THEOREM CountsAreExact == Spec => []CountsExact
  <1>1. Counting => CountsExact
    BY DEF Counting
  <1> QED
    BY <1>1, CountingHolds, PTL

-----------------------------------------------------------------------------
(* What was stored.                                                        *)

\* What a client was told is stored, is stored.
Storing == \A r \in Requests : status[r] = 200 => r \in stored

LEMMA InitStoring == Init => Storing
  BY DEF Init, Storing

LEMMA NextStoring ==
  ASSUME TypeOK, Storing, [Next]_vars
  PROVE  Storing'
  <1> USE DEF requests, counts, storage
  <1>0. status \in [Requests -> {0, 200, 429, 500, 503}]
    BY DEF TypeOK
  <1>1. CASE UNCHANGED <<status, stored>>
    BY <1>1 DEF Storing
  <1>2. CASE Listen \/ PprofFails \/ Signal \/ Shutdown
    BY <1>1, <1>2 DEF Listen, PprofFails, Signal, Shutdown, ShutdownCloses, ShutdownDrains,
                      ShutdownTimesOut, WaitDone, WaitTimesOut, CloseStorage, CloseAudit, Exit
  <1>3. ASSUME NEW r \in Requests, Arrive(r) \/ Add(r) \/ LimitPasses(r) \/ Release(r) \/ Leave(r)
                                   \/ Flush(r) \/ Audit(r)
        PROVE  Storing'
    BY <1>1, <1>3 DEF Arrive, Add, LimitPasses, Release, Leave, Flush, Audit, Publish,
                      OnMetricProcessed
  <1>4. ASSUME NEW r \in Requests, Check(r) \/ LimitRejects(r) PROVE Storing'
    BY <1>0, <1>4 DEF Check, LimitRejects, Storing
  <1>5. ASSUME NEW r \in Requests, Handle(r) PROVE Storing'
    BY <1>0, <1>5 DEF Handle, Storing
  <1>6. CASE UNCHANGED vars
    BY <1>1, <1>6 DEF vars
  <1> QED
    BY <1>2, <1>3, <1>4, <1>5, <1>6 DEF Next, Request

LEMMA StoringHolds == Spec => []Storing
  BY TypeCorrect, InitStoring, NextStoring, PTL DEF Spec

-----------------------------------------------------------------------------
(* The graceful shutdown.                                                  *)

\* Once the listener is closed no request starts; unless a timeout cut it
\* short, main goes on with no request in progress, so that nothing is stored
\* any more and the file that Close wrote stays complete.
Draining ==
  /\ main \notin {"serve", "shutdown"} => listener = "closed"
  /\ main \notin {"serve", "shutdown", "draining"} /\ ~late => InProgress = {}
  /\ main \in {"closeAudit", "stopped", "exited"} /\ ~late /\ ~saveFailed => saved = stored

LEMMA InitDraining == Init => Draining
  BY DEF Init, Draining

LEMMA NextDraining ==
  ASSUME TypeOK, Draining, [Next]_vars
  PROVE  Draining'
  <1> USE DEF requests, counts, storage
  <1>1. CASE Listen
    BY <1>1 DEF Listen, Draining, InProgress
  <1>2. CASE PprofFails \/ Signal
    BY <1>2 DEF PprofFails, Signal, MainMoves, Draining, InProgress
  <1>3. CASE ShutdownCloses \/ ShutdownDrains \/ WaitDone \/ CloseAudit \/ Exit
    BY <1>3 DEF ShutdownCloses, ShutdownDrains, WaitDone, CloseAudit, Exit, MainMoves, Draining,
                InProgress
  <1>4. CASE ShutdownTimesOut \/ WaitTimesOut
    BY <1>4 DEF ShutdownTimesOut, WaitTimesOut, MainMoves, Draining
  <1>5. CASE CloseStorage
    BY <1>5 DEF CloseStorage, MainMoves, Draining, InProgress
  <1>6. ASSUME NEW r \in Requests, Arrive(r) PROVE Draining'
    <2>1. listener = "closed" => InProgress' = InProgress
      BY <1>6, MovesOne DEF Arrive, InProgress
    <2> QED
      BY <1>6, <2>1 DEF Arrive, Draining
  <1>7. ASSUME NEW r \in Requests, Check(r) \/ Add(r) \/ LimitPasses(r) \/ LimitRejects(r)
                                   \/ Handle(r) \/ Release(r) \/ Leave(r) \/ Flush(r)
        PROVE  Draining'
    <2>1. r \in InProgress
      BY <1>7 DEF Check, Add, LimitPasses, LimitRejects, Handle, Release, Leave, Flush, Moves,
                  InProgress
    <2>2. UNCHANGED <<listener, main, late, saved, saveFailed>>
      BY <1>7 DEF Check, Add, LimitPasses, LimitRejects, Handle, Release, Leave, Flush
    <2> QED
      BY <2>1, <2>2 DEF Draining
  <1>8. ASSUME NEW r \in Requests, Audit(r) PROVE Draining'
    BY <1>8 DEF Audit, Publish, OnMetricProcessed, Draining, InProgress
  <1>9. CASE UNCHANGED vars
    BY <1>9 DEF vars, Draining, InProgress
  <1> QED
    BY <1>1, <1>2, <1>3, <1>4, <1>5, <1>6, <1>7, <1>8, <1>9 DEF Next, Request, Shutdown

\* Unless a timeout or an error of Close interferes, a shutdown loses no update
\* that a client was told is stored, also one whose request slipped past the
\* check of shutdownCh.
THEOREM GracefulShutdownSaves == Spec => []GracefulSaves
  <1>1. Storing /\ Draining => GracefulSaves
    BY DEF Storing, Draining, GracefulSaves
  <1> QED
    BY <1>1, TypeCorrect, StoringHolds, InitDraining, NextDraining, PTL DEF Spec
=============================================================================
