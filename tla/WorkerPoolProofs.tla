-------------------------- MODULE WorkerPoolProofs --------------------------
(***************************************************************************)
(* Proofs about the render pool for any number of workers, rows and        *)
(* generations: the inductive invariant of the gate and the two barriers,  *)
(* and that the pool implements ForkJoin.                                  *)
(***************************************************************************)
EXTENDS WorkerPool, FiniteSetTheorems, TLAPS

-----------------------------------------------------------------------------
(* Arithmetic *)

\* Integer division, as the row bands use it (worker_pool.c:41-42).
LEMMA DivFacts ==
    ASSUME NEW a \in Nat, NEW n \in Nat \ {0}
    PROVE  /\ a \div n \in Nat
           /\ n * (a \div n) <= a
           /\ a < n * (a \div n) + n
  BY SMT

\* A product with a common positive factor compares as the other factors do.
LEMMA CancelFactor ==
    ASSUME NEW a \in Nat, NEW b \in Nat, NEW n \in Nat \ {0}, n * a < n * b
    PROVE  a < b
  BY SMT

\* A division is at least b exactly when the dividend has b divisors in it.
LEMMA DivAtLeast ==
    ASSUME NEW a \in Nat, NEW b \in Nat, NEW n \in Nat \ {0}
    PROVE  n * b <= a <=> b <= a \div n
  <1> DEFINE q == a \div n
  <1>1. q \in Nat /\ n * q <= a /\ a < n * q + n
    BY DivFacts
  <1>2. ASSUME n * b <= a PROVE b <= q
    <2>1. n * b < n * (q + 1)
      BY <1>1, <1>2, SMT
    <2>2. b < q + 1
      BY <2>1, <1>1, CancelFactor
    <2> QED BY <2>2, <1>1
  <1>3. ASSUME b <= q PROVE n * b <= a
    BY <1>1, <1>3, SMT
  <1> QED BY <1>2, <1>3

-----------------------------------------------------------------------------
(* Row bands and barriers *)

\* Every row below r lies in the band of one of the n workers: the split
\* index * rows / worker_count of worker_main skips no row.
LEMMA BandsCover ==
    ASSUME NEW n \in Nat \ {0}, NEW r \in Nat \ {0}, NEW y \in Nat, y < r, y \in RowIds
    PROVE  \E w \in 0 .. n - 1 : y \in Band(w, n, r)
  <1> DEFINE last == (y + 1) * n - 1
             w == last \div r
  <1>1. last \in Nat /\ last < r * n
    BY SMT
  <1>2. w \in Nat /\ r * w <= last /\ last < r * w + r
    BY <1>1, DivFacts
  <1>3. w < n
    <2>1. r * w < r * n
      BY <1>1, <1>2, SMT
    <2> QED BY <2>1, <1>2, CancelFactor
  <1>4. w * r \in Nat /\ w * r = r * w /\ (w + 1) * r \in Nat /\ (w + 1) * r = r * w + r
    BY <1>2, SMT
  <1>5. n * (y + 1) = last + 1
    BY SMT
  <1> HIDE DEF w, last
  <1>6. (w * r) \div n <= y
    <2>1. ~ (y + 1 <= (w * r) \div n)
      BY <1>1, <1>2, <1>4, <1>5, DivAtLeast
    <2>2. (w * r) \div n \in Nat
      BY <1>4, DivFacts
    <2> QED BY <2>1, <2>2
  <1>7. n * (y + 1) <= (w + 1) * r
    BY <1>1, <1>2, <1>4, <1>5
  <1>8. y < ((w + 1) * r) \div n
    <2>1. y + 1 <= ((w + 1) * r) \div n
      BY <1>4, <1>7, DivAtLeast
    <2>2. ((w + 1) * r) \div n \in Nat
      BY <1>4, DivFacts
    <2> QED BY <2>1, <2>2
  <1>9. y \in Band(w, n, r)
    BY <1>6, <1>8 DEF Band, BandStart, BandEnd
  <1> QED BY <1>2, <1>3, <1>9

\* A set of workers below n has at most n members, and n of them are all.
LEMMA FullBarrier ==
    ASSUME NEW n \in Nat, NEW ws \in SUBSET (0 .. n - 1)
    PROVE  /\ Cardinality(ws) \in Nat
           /\ Cardinality(ws) <= n
           /\ Cardinality(ws) = n => ws = 0 .. n - 1
  <1>1. IsFiniteSet(0 .. n - 1) /\ Cardinality(0 .. n - 1) = n
    BY FS_Interval
  <1> QED BY <1>1, FS_Subset, FS_CardinalityType

\* No row lies in the bands of two workers.
LEMMA BandsDisjoint ==
    ASSUME NEW n \in Nat \ {0}, NEW r \in Nat, NEW v \in Nat, NEW w \in Nat, v < w,
           NEW y \in Band(v, n, r)
    PROVE  y \notin Band(w, n, r)
  <1> DEFINE q == ((v + 1) * r) \div n
  <1>1. (v + 1) * r \in Nat /\ w * r \in Nat /\ (v + 1) * r <= w * r
    BY SMT
  <1>2. q \in Nat /\ n * q <= (v + 1) * r
    BY <1>1, DivFacts
  <1>3. n * q <= w * r
    BY <1>1, <1>2, SMT
  <1>4. q <= (w * r) \div n
    BY <1>1, <1>2, <1>3, DivAtLeast
  <1>5. (w * r) \div n \in Nat
    BY <1>1, DivFacts
  <1>6. y < q /\ y \in Int
    BY ArgumentsAssumption DEF Band, BandEnd, RowIds
  <1>7. ~ ((w * r) \div n <= y)
    BY <1>2, <1>4, <1>5, <1>6
  <1> QED BY <1>7 DEF Band, BandStart

-----------------------------------------------------------------------------
(* Type correctness *)

LEMMA TypeInit == Init => TypeOK
  <1> SUFFICES ASSUME Init PROVE TypeOK
    OBVIOUS
  <1>1. 0 \in 0 .. MaxWorkers
    BY MaxWorkersAssumption
  <1>2. active \in BOOLEAN /\ startup_ready \in BOOLEAN /\ shutting_down \in BOOLEAN
    BY DEF Init
  <1>3. mpc \in MainPCs /\ wpc \in [Workers -> WorkerPCs]
    BY DEF Init, MainPCs, WorkerPCs
  <1>4. mine \in [Workers -> Generations] /\ canvas \in [RowIds -> Generations]
    BY GenerationsAssumption DEF Init
  <1> QED
    BY <1>1, <1>2, <1>3, <1>4, GenerationsAssumption DEF Init, TypeOK

\* Every step keeps every field of the pool and every thread in its range.
LEMMA TypeStep == TypeOK /\ [Next]_vars => TypeOK'
  <1> SUFFICES ASSUME TypeOK, [Next]_vars PROVE TypeOK'
    OBVIOUS
  <1> USE MaxWorkersAssumption, ArgumentsAssumption, GenerationsAssumption
          DEF TypeOK, pool, gate, Workers, RowIds, WorkerPCs, MainPCs, InitPCs,
              DispatchPCs, ShutdownPCs
  <1>1. ASSUME NEW n \in WorkerCounts, NEW r \in RowCounts, InitCall(n, r)
        PROVE  TypeOK'
    <2>1. n \in Int
      BY <1>1
    <2>2. worker_count' \in 0 .. MaxWorkers /\ rows' \in RowCounts \cup {0}
      BY <1>1, <2>1 DEF InitCall, InitAccepts
    <2>3. active' \in BOOLEAN /\ mpc' \in MainPCs
      BY <1>1 DEF InitCall
    <2>4. index' \in 0 .. MaxWorkers /\ created' \in 0 .. MaxWorkers
      BY <1>1 DEF InitCall
    <2> QED BY <1>1, <2>2, <2>3, <2>4 DEF InitCall
  <1>2. ASSUME NEW g \in Generations, DispatchCall(g) PROVE TypeOK'
    BY <1>2 DEF DispatchCall
  <1>3. CASE ShutdownCall
    BY <1>3 DEF ShutdownCall
  <1>4. CASE CreateThread
    BY <1>4 DEF CreateThread
  <1>5. CASE CreateFails
    BY <1>5 DEF CreateFails
  <1>6. CASE AbortGate
    BY <1>6 DEF AbortGate, Woken
  <1>7. CASE AbortJoin
    BY <1>7 DEF AbortJoin, JoinThread, Destroyed
  <1>8. CASE OpenGate
    BY <1>8 DEF OpenGate, Woken
  <1>9. CASE OpenRecheck
    BY <1>9 DEF OpenRecheck
  <1>10. CASE InlineJob
    BY <1>10 DEF InlineJob, Painted
  <1>11. CASE InlineReturn
    BY <1>11 DEF InlineReturn
  <1>12. CASE DispatchStart
    BY <1>12 DEF DispatchStart, MainBarrierWait, MainAfterBarrier, Release, AfterBarrier
  <1>13. CASE DispatchStop
    BY <1>13 DEF DispatchStop, MainBarrierWait, MainAfterBarrier, Release, AfterBarrier
  <1>14. CASE ShutdownStart
    BY <1>14 DEF ShutdownStart, MainBarrierWait, MainAfterBarrier, Release, AfterBarrier
  <1>15. CASE ShutdownJoin
    BY <1>15 DEF ShutdownJoin, JoinThread, Destroyed
  <1>16. CASE SpuriousWakeup
    BY <1>16 DEF SpuriousWakeup
  <1>17. ASSUME NEW w \in Workers, WorkerGate(w) PROVE TypeOK'
    <2>1. wpc' \in [Workers -> WorkerPCs]
      BY <1>17 DEF WorkerGate, Woken
    <2>2. mpc' \in MainPCs /\ startup_released' \in Nat
      BY <1>17 DEF WorkerGate
    <2> QED BY <1>17, <2>1, <2>2 DEF WorkerGate
  <1>18. ASSUME NEW w \in Workers, WorkerStart(w) PROVE TypeOK'
    BY <1>18 DEF WorkerStart, WorkerBarrierWait, MainAfterBarrier, Release, AfterBarrier
  <1>19. ASSUME NEW w \in Workers, WorkerCheck(w) PROVE TypeOK'
    BY <1>19 DEF WorkerCheck
  <1>20. ASSUME NEW w \in Workers, WorkerJob(w) PROVE TypeOK'
    BY <1>20 DEF WorkerJob, Painted
  <1>21. ASSUME NEW w \in Workers, WorkerStop(w) PROVE TypeOK'
    BY <1>21 DEF WorkerStop, WorkerBarrierWait, MainAfterBarrier, Release, AfterBarrier
  <1>22. CASE UNCHANGED vars
    BY <1>22 DEF vars
  <1> QED
    BY <1>1, <1>2, <1>3, <1>4, <1>5, <1>6, <1>7, <1>8, <1>9, <1>10, <1>11, <1>12,
       <1>13, <1>14, <1>15, <1>16, <1>17, <1>18, <1>19, <1>20, <1>21, <1>22
       DEF Next, Call, MainStep, WorkerStep

\* Type correctness of the pool and its threads, for every number of workers,
\* rows and generations.
THEOREM TypeCorrect == Spec => []TypeOK
  BY TypeInit, TypeStep, PTL DEF Spec

-----------------------------------------------------------------------------
(* The inductive invariant *)

LEMMA PoolInit == Init => PoolInv
  <1> SUFFICES ASSUME Init PROVE PoolInv
    OBVIOUS
  <1>1. TypeOK
    BY TypeInit
  <1> QED
    BY <1>1, MaxWorkersAssumption
       DEF Init, PoolInv, IdleInv, CreateInv, AbortInv, OpenInv, InlineInv,
           DispatchInv, RenderInv, ShutdownInv, JoinInv, ThreadsAt, Workers

\* The workers blocked at a barrier, with the one arriving, are workers of
\* the pool when every thread of the pool is.
LEMMA BlockedAreWorkers ==
    ASSUME TypeOK, NEW S, ThreadsAt(0, worker_count, S),
           NEW ws \in SUBSET Workers, \A v \in ws : wpc[v] # "none"
    PROVE  /\ ws \in SUBSET (0 .. worker_count - 1)
           /\ Cardinality(ws) \in Nat
           /\ Cardinality(ws) <= worker_count
           /\ Cardinality(ws) = worker_count => ws = 0 .. worker_count - 1
  <1>1. ws \in SUBSET (0 .. worker_count - 1)
    BY MaxWorkersAssumption DEF TypeOK, ThreadsAt, Workers
  <1>2. worker_count \in Nat
    BY DEF TypeOK
  <1> QED BY <1>1, <1>2, FullBarrier

\* Every step of the caller and of every worker keeps the inductive invariant.
LEMMA PoolStep == PoolInv /\ [Next]_vars => PoolInv'
  <1> SUFFICES ASSUME PoolInv, [Next]_vars PROVE PoolInv'
    OBVIOUS
  <1>t. TypeOK /\ TypeOK'
    BY TypeStep DEF PoolInv
  <1> USE MaxWorkersAssumption DEF pool, gate, Workers
  <1> DEFINE Parts == IdleInv /\ CreateInv /\ AbortInv /\ OpenInv /\ InlineInv
                      /\ DispatchInv /\ RenderInv /\ ShutdownInv /\ JoinInv
  <1> SUFFICES Parts'
    BY <1>t DEF PoolInv
  <1>1. ASSUME NEW n \in WorkerCounts, NEW r \in RowCounts, InitCall(n, r)
        PROVE  Parts'
    BY <1>1, <1>t, ArgumentsAssumption
       DEF InitCall, InitAccepts, PoolInv, IdleInv, CreateInv, AbortInv, OpenInv,
           InlineInv, DispatchInv, RenderInv, ShutdownInv, JoinInv, ThreadsAt
  <1>2. ASSUME NEW g \in Generations, DispatchCall(g) PROVE Parts'
    BY <1>2, <1>t
       DEF DispatchCall, PoolInv, TypeOK, IdleInv, CreateInv, AbortInv, OpenInv,
           InlineInv, DispatchInv, RenderInv, ShutdownInv, JoinInv, ThreadsAt
  <1>3. CASE ShutdownCall
    BY <1>3, <1>t
       DEF ShutdownCall, PoolInv, TypeOK, IdleInv, CreateInv, AbortInv, OpenInv,
           InlineInv, DispatchInv, RenderInv, ShutdownInv, JoinInv, ThreadsAt
  <1>4. CASE CreateThread
    BY <1>4, <1>t
       DEF CreateThread, PoolInv, TypeOK, IdleInv, CreateInv, AbortInv, OpenInv,
           InlineInv, DispatchInv, RenderInv, ShutdownInv, JoinInv, ThreadsAt
  <1>5. CASE CreateFails
    BY <1>5, <1>t
       DEF CreateFails, PoolInv, IdleInv, CreateInv, AbortInv, OpenInv, InlineInv,
           DispatchInv, RenderInv, ShutdownInv, JoinInv, ThreadsAt
  <1>6. CASE AbortGate
    BY <1>6, <1>t
       DEF AbortGate, Woken, PoolInv, TypeOK, IdleInv, CreateInv, AbortInv, OpenInv,
           InlineInv, DispatchInv, RenderInv, ShutdownInv, JoinInv, ThreadsAt
  <1>7. CASE AbortJoin
    BY <1>7, <1>t
       DEF AbortJoin, JoinThread, Destroyed, PoolInv, TypeOK, IdleInv, CreateInv,
           AbortInv, OpenInv, InlineInv, DispatchInv, RenderInv, ShutdownInv,
           JoinInv, ThreadsAt
  <1>10. CASE InlineJob
    BY <1>10, <1>t
       DEF InlineJob, Painted, PoolInv, TypeOK, IdleInv, CreateInv, AbortInv, OpenInv,
           InlineInv, DispatchInv, RenderInv, ShutdownInv, JoinInv, ThreadsAt, RowIds
  <1>11. CASE InlineReturn
    BY <1>11, <1>t
       DEF InlineReturn, PoolInv, TypeOK, IdleInv, CreateInv, AbortInv, OpenInv,
           InlineInv, DispatchInv, RenderInv, ShutdownInv, JoinInv, ThreadsAt
  <1>15. CASE ShutdownJoin
    BY <1>15, <1>t
       DEF ShutdownJoin, JoinThread, Destroyed, PoolInv, TypeOK, IdleInv, CreateInv,
           AbortInv, OpenInv, InlineInv, DispatchInv, RenderInv, ShutdownInv,
           JoinInv, ThreadsAt
  <1>19. ASSUME NEW w \in Workers, WorkerCheck(w) PROVE Parts'
    BY <1>19, <1>t
       DEF WorkerCheck, PoolInv, TypeOK, IdleInv, CreateInv, AbortInv, OpenInv,
           InlineInv, DispatchInv, RenderInv, ShutdownInv, JoinInv, ThreadsAt, Past
  <1>20. ASSUME NEW w \in Workers, WorkerJob(w) PROVE Parts'
    BY <1>20, <1>t
       DEF WorkerJob, Painted, PoolInv, TypeOK, IdleInv, CreateInv, AbortInv, OpenInv,
           InlineInv, DispatchInv, RenderInv, ShutdownInv, JoinInv, ThreadsAt, Past,
           Band, RowIds
  <1>8. CASE OpenGate
    <2>1. ThreadsAt(0, worker_count, {"gate"})' /\ startup_released = 0
      BY <1>8, <1>t DEF OpenGate, Woken, PoolInv, TypeOK, CreateInv, ThreadsAt
    <2>2. Past' = {}
      BY <2>1 DEF ThreadsAt, Past
    <2>3. Cardinality(Past') = 0
      BY <2>2, FS_EmptySet
    <2>4. ReleasedAll => worker_count = 0
      BY <2>1, <1>t DEF ReleasedAll, TypeOK
    <2>5. CASE ReleasedAll
      BY <1>8, <1>t, <2>1, <2>4, <2>5
         DEF OpenGate, PoolInv, TypeOK, IdleInv, CreateInv, AbortInv, OpenInv,
           InlineInv, DispatchInv, RenderInv, ShutdownInv, JoinInv, ThreadsAt
    <2>6. CASE ~ReleasedAll
      <3>1. mpc' = "open_wait" /\ ~active' /\ startup_ready' /\ ~shutting_down'
        BY <1>8, <2>6 DEF OpenGate, PoolInv, CreateInv
      <3>2. OpenInv'
        BY <1>8, <2>1, <2>3, <3>1 DEF OpenGate, OpenInv, ThreadsAt
      <3> QED
        BY <3>1, <3>2
           DEF IdleInv, CreateInv, AbortInv, InlineInv, DispatchInv, RenderInv,
               ShutdownInv, JoinInv
    <2> QED BY <2>5, <2>6
  <1>9. CASE OpenRecheck
    <2>1. ThreadsAt(0, worker_count, {"gate", "loop", "start"})
          /\ startup_released = Cardinality(Past)
      BY <1>9 DEF OpenRecheck, PoolInv, OpenInv
    <2>2. \A v \in Past : v \in Workers /\ wpc[v] # "none"
      BY DEF Past
    <2>3. /\ Cardinality(Past) \in Nat
          /\ Cardinality(Past) <= worker_count
          /\ Cardinality(Past) = worker_count => Past = 0 .. worker_count - 1
      BY <1>t, <2>1, <2>2, BlockedAreWorkers
    <2>4. ReleasedAll => ThreadsAt(0, worker_count, {"loop", "start"})
      <3>1. ReleasedAll => Past = 0 .. worker_count - 1
        BY <1>t, <2>1, <2>3 DEF ReleasedAll, TypeOK
      <3>2. \A v \in Past : wpc[v] \in {"loop", "start"}
        BY DEF Past
      <3>3. ASSUME ReleasedAll, NEW v \in Workers, 0 <= v, v < worker_count
            PROVE  wpc[v] \in {"loop", "start"}
        <4>1. v \in 0 .. worker_count - 1
          BY <1>t, <3>3 DEF TypeOK
        <4> QED BY <3>1, <3>2, <3>3, <4>1
      <3> QED BY <2>1, <3>3 DEF ThreadsAt
    <2>5. Past' = Past /\ ThreadsAt(0, worker_count, {"gate", "loop", "start"})'
      BY <1>9, <2>1 DEF OpenRecheck, Past, ThreadsAt
    <2> QED
      BY <1>9, <1>t, <2>1, <2>4, <2>5
         DEF OpenRecheck, PoolInv, TypeOK, IdleInv, CreateInv, AbortInv, OpenInv,
           InlineInv, DispatchInv, RenderInv, ShutdownInv, JoinInv, ThreadsAt
  <1>12. CASE DispatchStart
    <2>1. ThreadsAt(0, worker_count, {"loop", "start"})
      BY <1>12 DEF DispatchStart, PoolInv, DispatchInv
    <2>2. /\ Cardinality(Blocked("start")) \in Nat
          /\ Cardinality(Blocked("start")) = worker_count =>
                Blocked("start") = 0 .. worker_count - 1
      BY <1>t, <2>1, BlockedAreWorkers DEF Blocked
    <2>3. CASE Cardinality(Blocked("start")) + 1 = BarrierCount
      <3>1. Blocked("start") = 0 .. worker_count - 1
        BY <1>t, <2>2, <2>3 DEF BarrierCount, TypeOK
      <3> QED
        BY <1>12, <1>t, <2>1, <2>3, <3>1
           DEF DispatchStart, MainBarrierWait, MainAfterBarrier, Release, AfterBarrier,
               PoolInv, TypeOK, IdleInv, CreateInv, AbortInv, OpenInv,
           InlineInv, DispatchInv, RenderInv, ShutdownInv, JoinInv, ThreadsAt
    <2>4. CASE Cardinality(Blocked("start")) + 1 # BarrierCount
      BY <1>12, <1>t, <2>4
         DEF DispatchStart, MainBarrierWait, PoolInv, TypeOK, IdleInv, CreateInv, AbortInv, OpenInv,
           InlineInv, DispatchInv, RenderInv, ShutdownInv, JoinInv, ThreadsAt
    <2> QED BY <2>3, <2>4
  <1>13. CASE DispatchStop
    <2>1. ThreadsAt(0, worker_count, {"check", "job", "finish", "stop"})
      BY <1>13 DEF DispatchStop, PoolInv, RenderInv
    <2>2. /\ Cardinality(Blocked("stop")) \in Nat
          /\ Cardinality(Blocked("stop")) = worker_count =>
                Blocked("stop") = 0 .. worker_count - 1
      BY <1>t, <2>1, BlockedAreWorkers DEF Blocked
    <2>3. CASE Cardinality(Blocked("stop")) + 1 = BarrierCount
      <3>1. Blocked("stop") = 0 .. worker_count - 1
        BY <1>t, <2>2, <2>3 DEF BarrierCount, TypeOK
      <3> QED
        BY <1>13, <1>t, <2>1, <2>3, <3>1
           DEF DispatchStop, MainBarrierWait, MainAfterBarrier, Release, AfterBarrier,
               PoolInv, TypeOK, IdleInv, CreateInv, AbortInv, OpenInv,
           InlineInv, DispatchInv, RenderInv, ShutdownInv, JoinInv, ThreadsAt
    <2>4. CASE Cardinality(Blocked("stop")) + 1 # BarrierCount
      BY <1>13, <1>t, <2>4
         DEF DispatchStop, MainBarrierWait, PoolInv, TypeOK, IdleInv, CreateInv, AbortInv, OpenInv,
           InlineInv, DispatchInv, RenderInv, ShutdownInv, JoinInv, ThreadsAt
    <2> QED BY <2>3, <2>4
  <1>14. CASE ShutdownStart
    <2>1. ThreadsAt(0, worker_count, {"loop", "start"})
      BY <1>14 DEF ShutdownStart, PoolInv, ShutdownInv
    <2>2. /\ Cardinality(Blocked("start")) \in Nat
          /\ Cardinality(Blocked("start")) = worker_count =>
                Blocked("start") = 0 .. worker_count - 1
      BY <1>t, <2>1, BlockedAreWorkers DEF Blocked
    <2>3. CASE Cardinality(Blocked("start")) + 1 = BarrierCount
      <3>1. Blocked("start") = 0 .. worker_count - 1
        BY <1>t, <2>2, <2>3 DEF BarrierCount, TypeOK
      <3> QED
        BY <1>14, <1>t, <2>1, <2>3, <3>1
           DEF ShutdownStart, MainBarrierWait, MainAfterBarrier, Release, AfterBarrier,
               PoolInv, TypeOK, IdleInv, CreateInv, AbortInv, OpenInv,
           InlineInv, DispatchInv, RenderInv, ShutdownInv, JoinInv, ThreadsAt
    <2>4. CASE Cardinality(Blocked("start")) + 1 # BarrierCount
      BY <1>14, <1>t, <2>4
         DEF ShutdownStart, MainBarrierWait, PoolInv, TypeOK, IdleInv, CreateInv, AbortInv, OpenInv,
           InlineInv, DispatchInv, RenderInv, ShutdownInv, JoinInv, ThreadsAt
    <2> QED BY <2>3, <2>4
  <1>16. CASE SpuriousWakeup
    <2>1. Past' = Past
      BY <1>16, <1>t DEF SpuriousWakeup, Past, TypeOK
    <2> QED
      BY <1>16, <1>t, <2>1
         DEF SpuriousWakeup, PoolInv, TypeOK, IdleInv, CreateInv, AbortInv, OpenInv,
           InlineInv, DispatchInv, RenderInv, ShutdownInv, JoinInv, ThreadsAt
  <1>17. ASSUME NEW w \in Workers, WorkerGate(w) PROVE Parts'
    <2>1. CASE ~startup_ready
      BY <1>17, <1>t, <2>1
         DEF WorkerGate, PoolInv, TypeOK, IdleInv, CreateInv, AbortInv, OpenInv,
           InlineInv, DispatchInv, RenderInv, ShutdownInv, JoinInv, ThreadsAt
    <2>2. CASE startup_ready /\ shutting_down
      BY <1>17, <1>t, <2>2
         DEF WorkerGate, PoolInv, TypeOK, IdleInv, CreateInv, AbortInv, OpenInv,
           InlineInv, DispatchInv, RenderInv, ShutdownInv, JoinInv, ThreadsAt
    <2>3. CASE startup_ready /\ ~shutting_down
      <3>1. mpc \in {"open_wait", "open_check"}
        BY <1>17, <1>t, <2>3
           DEF WorkerGate, PoolInv, TypeOK, IdleInv, CreateInv, AbortInv, OpenInv,
           InlineInv, DispatchInv, RenderInv, ShutdownInv, JoinInv, ThreadsAt, MainPCs, InitPCs, DispatchPCs, ShutdownPCs
      <3>2. Past' = Past \cup {w} /\ w \notin Past
        BY <1>17, <1>t, <2>3 DEF WorkerGate, Woken, Past, TypeOK
      <3>3. \A v \in Past : v \in Workers /\ wpc[v] # "none"
        BY DEF Past
      <3>4. Past \in SUBSET (0 .. worker_count - 1)
        BY <1>t, <3>1, <3>3, BlockedAreWorkers DEF PoolInv, OpenInv
      <3>5. IsFiniteSet(Past)
        <4>1. IsFiniteSet(0 .. worker_count - 1)
          BY <1>t, FS_Interval DEF TypeOK
        <4> QED BY <3>4, <4>1, FS_Subset
      <3>6. Cardinality(Past') = Cardinality(Past) + 1
        BY <3>2, <3>5, FS_AddElement
      <3> QED
        BY <1>17, <1>t, <2>3, <3>1, <3>6
           DEF WorkerGate, Woken, PoolInv, TypeOK, IdleInv, CreateInv, AbortInv, OpenInv,
           InlineInv, DispatchInv, RenderInv, ShutdownInv, JoinInv, ThreadsAt
    <2> QED BY <1>t, <2>1, <2>2, <2>3 DEF TypeOK
  <1>18. ASSUME NEW w \in Workers, WorkerStart(w) PROVE Parts'
    <2> DEFINE ws == Blocked("start") \cup {w}
    <2>1. /\ mpc \in {"idle", "open_wait", "open_check", "dispatch", "dispatch_start",
                      "shutdown", "shutdown_start"}
          /\ ThreadsAt(0, worker_count, {"gate", "loop", "start"})
      BY <1>18, <1>t
         DEF WorkerStart, PoolInv, TypeOK, IdleInv, CreateInv, AbortInv, OpenInv,
           InlineInv, DispatchInv, RenderInv, ShutdownInv, JoinInv, ThreadsAt, MainPCs, InitPCs, DispatchPCs, ShutdownPCs
    <2>2. ws \in SUBSET Workers /\ \A v \in ws : wpc[v] # "none"
      BY <1>18 DEF WorkerStart, Blocked
    <2>3. /\ Cardinality(ws) \in Nat
          /\ Cardinality(ws) <= worker_count
          /\ Cardinality(ws) = worker_count => ws = 0 .. worker_count - 1
      BY <1>t, <2>1, <2>2, BlockedAreWorkers
    <2>4. CASE Cardinality(ws) + (IF MainBlocked("start") THEN 1 ELSE 0) = BarrierCount
      <3>1. mpc \in {"dispatch_start", "shutdown_start"} /\ ws = 0 .. worker_count - 1
        BY <1>t, <2>3, <2>4 DEF BarrierCount, TypeOK, MainBlocked
      <3>2. /\ wpc' = [v \in Workers |-> IF v \in ws THEN "check" ELSE wpc[v]]
            /\ mpc' = IF mpc = "dispatch_start" THEN "finish" ELSE "shutdown_join"
        BY <1>18, <2>4, <3>1
           DEF WorkerStart, WorkerBarrierWait, Release, AfterBarrier, MainAfterBarrier,
               MainBlocked
      <3> HIDE DEF ws
      <3>3. ThreadsAt(0, worker_count, {"check"})'
        BY <1>18, <1>t, <2>1, <3>1, <3>2 DEF WorkerStart, ThreadsAt, TypeOK
      <3>4. CASE mpc = "dispatch_start"
        BY <1>18, <1>t, <3>2, <3>3, <3>4
           DEF WorkerStart, PoolInv, TypeOK, IdleInv, CreateInv, AbortInv, OpenInv,
           InlineInv, DispatchInv, RenderInv, ShutdownInv, JoinInv, ThreadsAt
      <3>5. CASE mpc = "shutdown_start"
        <4>1. mpc' = "shutdown_join" /\ index' = 0
          BY <1>18, <3>2, <3>5 DEF WorkerStart, PoolInv, ShutdownInv
        <4> QED
        BY <1>18, <1>t, <3>3, <3>5, <4>1
           DEF WorkerStart, PoolInv, TypeOK, IdleInv, CreateInv, AbortInv, OpenInv,
           InlineInv, DispatchInv, RenderInv, ShutdownInv, JoinInv, ThreadsAt
      <3> QED BY <3>1, <3>4, <3>5
    <2>5. CASE Cardinality(ws) + (IF MainBlocked("start") THEN 1 ELSE 0) # BarrierCount
      <3>1. wpc' = [wpc EXCEPT ![w] = "start"] /\ mpc' = mpc
        BY <1>18, <2>5 DEF WorkerStart, WorkerBarrierWait
      <3>2. Past' = Past
        BY <1>18, <1>t, <3>1 DEF WorkerStart, Past, TypeOK
      <3> QED
        BY <1>18, <1>t, <2>1, <3>1, <3>2
           DEF WorkerStart, PoolInv, TypeOK, IdleInv, CreateInv, AbortInv, OpenInv,
           InlineInv, DispatchInv, RenderInv, ShutdownInv, JoinInv, ThreadsAt
    <2> QED BY <2>4, <2>5
  <1>21. ASSUME NEW w \in Workers, WorkerStop(w) PROVE Parts'
    <2> DEFINE ws == Blocked("stop") \cup {w}
    <2>1. /\ mpc \in {"finish", "dispatch_stop"}
          /\ ThreadsAt(0, worker_count, {"check", "job", "finish", "stop"})
      BY <1>21, <1>t
         DEF WorkerStop, PoolInv, TypeOK, IdleInv, CreateInv, AbortInv, OpenInv,
           InlineInv, DispatchInv, RenderInv, ShutdownInv, JoinInv, ThreadsAt, MainPCs, InitPCs, DispatchPCs, ShutdownPCs
    <2>2. ws \in SUBSET Workers /\ \A v \in ws : wpc[v] # "none"
      BY <1>21 DEF WorkerStop, Blocked
    <2>3. /\ Cardinality(ws) \in Nat
          /\ Cardinality(ws) <= worker_count
          /\ Cardinality(ws) = worker_count => ws = 0 .. worker_count - 1
      BY <1>t, <2>1, <2>2, BlockedAreWorkers
    <2>4. CASE Cardinality(ws) + (IF MainBlocked("stop") THEN 1 ELSE 0) = BarrierCount
      <3>1. mpc = "dispatch_stop" /\ ws = 0 .. worker_count - 1
        BY <1>t, <2>3, <2>4 DEF BarrierCount, TypeOK, MainBlocked
      <3>2. /\ wpc' = [v \in Workers |-> IF v \in ws THEN "loop" ELSE wpc[v]]
            /\ mpc' = "idle"
        BY <1>21, <2>4, <3>1
           DEF WorkerStop, WorkerBarrierWait, Release, AfterBarrier, MainAfterBarrier,
               MainBlocked
      <3> HIDE DEF ws
      <3> QED
        BY <1>21, <1>t, <3>1, <3>2
           DEF WorkerStop, PoolInv, TypeOK, IdleInv, CreateInv, AbortInv, OpenInv,
           InlineInv, DispatchInv, RenderInv, ShutdownInv, JoinInv, ThreadsAt
    <2>5. CASE Cardinality(ws) + (IF MainBlocked("stop") THEN 1 ELSE 0) # BarrierCount
      <3>1. wpc' = [wpc EXCEPT ![w] = "stop"] /\ mpc' = mpc
        BY <1>21, <2>5 DEF WorkerStop, WorkerBarrierWait
      <3> QED
        BY <1>21, <1>t, <2>1, <3>1
           DEF WorkerStop, PoolInv, TypeOK, IdleInv, CreateInv, AbortInv, OpenInv,
           InlineInv, DispatchInv, RenderInv, ShutdownInv, JoinInv, ThreadsAt, Band
    <2> QED BY <2>4, <2>5
  <1>22. CASE UNCHANGED vars
    BY <1>22
       DEF vars, PoolInv, TypeOK, IdleInv, CreateInv, AbortInv, OpenInv,
           InlineInv, DispatchInv, RenderInv, ShutdownInv, JoinInv, ThreadsAt, Past, Band
  <1> QED
    BY <1>1, <1>2, <1>3, <1>4, <1>5, <1>6, <1>7, <1>8, <1>9, <1>10, <1>11, <1>12,
       <1>13, <1>14, <1>15, <1>16, <1>17, <1>18, <1>19, <1>20, <1>21, <1>22
       DEF Next, Call, MainStep, WorkerStep

\* The inductive invariant holds in every reachable state.
THEOREM PoolInvariant == Spec => []PoolInv
  BY PoolInit, PoolStep, PTL DEF Spec

-----------------------------------------------------------------------------
(* The safety properties *)

LEMMA OwnsCanvas == PoolInv => CallerOwnsCanvas
  BY MaxWorkersAssumption
     DEF PoolInv, TypeOK, IdleInv, DispatchInv, ThreadsAt, CallerOwnsCanvas, Rendering,
         Workers

LEMMA Accounted == PoolInv => ThreadsAccounted
  <1> SUFFICES ASSUME PoolInv, mpc = "idle"
               PROVE  LiveWorkers = IF active THEN 0 .. worker_count - 1 ELSE {}
    BY DEF ThreadsAccounted
  <1>1. worker_count \in 0 .. MaxWorkers /\ active \in BOOLEAN
    BY DEF PoolInv, TypeOK
  <1>2. CASE active /\ worker_count > 0
    BY <1>1, <1>2, MaxWorkersAssumption
       DEF PoolInv, IdleInv, ThreadsAt, LiveWorkers, Workers
  <1>3. CASE ~active
    BY <1>3, <1>1, MaxWorkersAssumption
       DEF PoolInv, IdleInv, ThreadsAt, LiveWorkers, Workers
  <1>4. CASE active /\ worker_count = 0
    <2>1. LiveWorkers = {}
      BY <1>4, MaxWorkersAssumption DEF PoolInv, IdleInv, ThreadsAt, LiveWorkers, Workers
    <2>2. 0 .. worker_count - 1 = {}
      BY <1>4
    <2> QED BY <1>4, <2>1, <2>2
  <1> QED BY <1>1, <1>2, <1>3, <1>4

LEMMA Current == PoolInv => JobsAreCurrent
  BY MaxWorkersAssumption
     DEF PoolInv, TypeOK, IdleInv, CreateInv, AbortInv, OpenInv, InlineInv, DispatchInv,
         RenderInv, ShutdownInv, JoinInv, ThreadsAt, JobsAreCurrent, Workers,
         MainPCs, InitPCs, DispatchPCs, ShutdownPCs

LEMMA Partition == TypeOK => BandsPartition
  <1> SUFFICES ASSUME TypeOK, worker_count > 0, NEW y \in RowIds, y < rows
               PROVE  \E w \in 0 .. worker_count - 1 :
                        /\ y \in Band(w, worker_count, rows)
                        /\ \A v \in 0 .. worker_count - 1 :
                              y \in Band(v, worker_count, rows) => v = w
    BY DEF BandsPartition
  <1>1. worker_count \in Nat \ {0} /\ rows \in Nat \ {0} /\ y \in Nat
    BY ArgumentsAssumption DEF TypeOK, RowIds
  <1>2. PICK w \in 0 .. worker_count - 1 : y \in Band(w, worker_count, rows)
    BY <1>1, BandsCover
  <1>3. ASSUME NEW v \in 0 .. worker_count - 1, y \in Band(v, worker_count, rows)
        PROVE  v = w
    <2>1. v \in Nat /\ w \in Nat
      BY <1>1
    <2>2. ~ (v < w)
      BY <1>1, <1>2, <1>3, <2>1, BandsDisjoint
    <2>3. ~ (w < v)
      BY <1>1, <1>2, <1>3, <2>1, BandsDisjoint
    <2> QED BY <2>1, <2>2, <2>3
  <1> QED BY <1>2, <1>3

\* Outside a call no worker is between the barriers, whatever the number of
\* workers: the caller owns the canvas.
THEOREM CanvasOwnership == Spec => []CallerOwnsCanvas
  BY PoolInvariant, OwnsCanvas, PTL

\* A failed init and a shutdown leave no thread; an active pool has exactly
\* worker_count of them.
THEOREM NoThreadLeak == Spec => []ThreadsAccounted
  BY PoolInvariant, Accounted, PTL

\* No job runs with the arguments of an earlier dispatch, or outside one.
THEOREM NoStaleJob == Spec => []JobsAreCurrent
  BY PoolInvariant, Current, PTL

\* The bands partition the rows, whatever rows and worker_count are.
THEOREM RowsPartitioned == Spec => []BandsPartition
  BY TypeCorrect, Partition, PTL

\* The barriers are destroyed only when every thread has been joined.
THEOREM QuietDestroy == Spec => DestroyIsQuiet
  <1>1. ASSUME PoolInv, [Next]_vars, worker_count > 0, worker_count' = 0
        PROVE  \A w \in Workers : wpc[w] = "none"
    <2> USE MaxWorkersAssumption DEF Workers, pool, gate
    <2>1. CASE AbortJoin
      BY <1>1, <2>1 DEF AbortJoin, PoolInv, AbortInv, TypeOK, ThreadsAt
    <2>2. CASE ShutdownJoin
      BY <1>1, <2>2 DEF ShutdownJoin, PoolInv, JoinInv, TypeOK, ThreadsAt
    <2>3. ASSUME NEW n \in WorkerCounts, NEW r \in RowCounts, InitCall(n, r)
          PROVE  \A w \in Workers : wpc[w] = "none"
      BY <1>1, <2>3 DEF InitCall, PoolInv, IdleInv, ThreadsAt
    <2> HIDE DEF Workers
    <2>4. CASE worker_count' = worker_count
      BY <1>1, <2>4 DEF PoolInv, TypeOK
    <2> QED
      BY <1>1, <2>1, <2>2, <2>3, <2>4
         DEF Next, Call, MainStep, WorkerStep, vars, DispatchCall, ShutdownCall,
             CreateThread, CreateFails, AbortGate, OpenGate, OpenRecheck, InlineJob,
             InlineReturn, DispatchStart, DispatchStop, ShutdownStart, SpuriousWakeup,
             WorkerGate, WorkerStart, WorkerCheck, WorkerJob, WorkerStop
  <1>2. PoolInv /\ [Next]_vars =>
          [worker_count > 0 /\ worker_count' = 0 => \A w \in Workers : wpc[w] = "none"]_vars
    BY <1>1
  <1> QED BY <1>2, PoolInvariant, PTL DEF Spec, DestroyIsQuiet

-----------------------------------------------------------------------------
(* Refinement of ForkJoin *)

LEMMA RefinesInit == Init => Abstract!FJInit
  BY GenerationsAssumption DEF Init, Abstract!FJInit, DispatchPCs

\* When every worker of a dispatch has run its job, every row of the canvas
\* carries the generation of that dispatch.
LEMMA AllRendered ==
    ASSUME PoolInv, mpc \in {"finish", "dispatch_stop"},
           \A w \in 0 .. worker_count - 1 : wpc[w] \in {"finish", "stop"}
    PROVE  \A y \in Abstract!LiveRows : canvas[y] = generation
  <1> SUFFICES ASSUME NEW y \in RowIds, y < rows PROVE canvas[y] = generation
    BY DEF Abstract!LiveRows
  <1>1. worker_count \in Nat \ {0} /\ rows \in Nat \ {0} /\ y \in Nat
        /\ worker_count <= MaxWorkers
    BY ArgumentsAssumption DEF PoolInv, TypeOK, RowIds, RenderInv
  <1>2. PICK w \in 0 .. worker_count - 1 : y \in Band(w, worker_count, rows)
    BY <1>1, BandsCover
  <1>3. w \in Workers
    BY <1>1, <1>2, MaxWorkersAssumption DEF Workers
  <1> QED BY <1>2, <1>3 DEF PoolInv, RenderInv

\* Every step of the pool is a step of ForkJoin or leaves its variables alone.
LEMMA RefinesStep ==
    PoolInv /\ PoolInv' /\ [Next]_vars => [Abstract!FJNext]_(Abstract!fjvars)
  <1> SUFFICES ASSUME PoolInv, PoolInv', [Next]_vars
               PROVE  Abstract!FJNext \/ UNCHANGED Abstract!fjvars
    OBVIOUS
  <1> DEFINE Want == IF mpc \in DispatchPCs THEN generation ELSE NoDispatch
  <1>t. TypeOK /\ TypeOK'
    BY DEF PoolInv
  <1>g. generation # NoDispatch /\ rows \in Nat /\ rows' \in Nat
    BY <1>t, GenerationsAssumption, ArgumentsAssumption DEF TypeOK, NoDispatch
  <1>s. ASSUME UNCHANGED <<active, rows, canvas>>, Want' = Want
        PROVE  UNCHANGED Abstract!fjvars
    BY <1>s DEF Abstract!fjvars
  <1>j. ASSUME mpc \in DispatchPCs, mpc' \notin DispatchPCs,
               UNCHANGED <<active, rows, canvas>>,
               \A y \in Abstract!LiveRows : canvas[y] = generation
        PROVE  Abstract!Join
    BY <1>j, <1>g DEF Abstract!Join
  <1> USE DEF pool, gate, DispatchPCs
  <1>1. ASSUME NEW n \in WorkerCounts, NEW r \in RowCounts, InitCall(n, r)
        PROVE  Abstract!FJNext
    <2>1. Abstract!Reconfigure
      BY <1>1, <1>t, <1>g DEF InitCall, TypeOK, Abstract!Reconfigure
    <2> QED BY <2>1 DEF Abstract!FJNext
  <1>2. ASSUME NEW g \in Generations, DispatchCall(g) PROVE Abstract!FJNext
    <2>1. Abstract!Fork(g)
      BY <1>2, <1>t DEF DispatchCall, Abstract!Fork
    <2> QED BY <2>1 DEF Abstract!FJNext
  <1>3. CASE ShutdownCall
    <2>1. Abstract!Close
      BY <1>3, <1>t DEF ShutdownCall, Abstract!Close
    <2> QED BY <2>1 DEF Abstract!FJNext
  <1>4. CASE CreateThread \/ CreateFails \/ AbortGate \/ SpuriousWakeup
    <2>1. UNCHANGED <<active, rows, canvas>> /\ Want' = Want
      BY <1>4 DEF CreateThread, CreateFails, AbortGate, SpuriousWakeup
    <2> QED BY <2>1, <1>s
  <1>5. CASE AbortJoin \/ ShutdownJoin
    <2>1. ~active /\ UNCHANGED <<active, canvas>> /\ mpc \notin DispatchPCs
          /\ mpc' \notin DispatchPCs
      BY <1>5 DEF AbortJoin, ShutdownJoin, Destroyed, PoolInv, AbortInv, JoinInv
    <2>2. Abstract!Reconfigure
      BY <1>t, <1>g, <2>1 DEF Abstract!Reconfigure, TypeOK
    <2> QED BY <2>2 DEF Abstract!FJNext
  <1>6. CASE OpenGate \/ OpenRecheck
    <2>1. ~active /\ UNCHANGED canvas /\ mpc \notin DispatchPCs /\ mpc' \notin DispatchPCs
      BY <1>6 DEF OpenGate, OpenRecheck, PoolInv, CreateInv, OpenInv
    <2>2. Abstract!Reconfigure
      BY <1>t, <1>g, <2>1 DEF Abstract!Reconfigure, TypeOK
    <2> QED BY <2>2 DEF Abstract!FJNext
  <1>7. CASE InlineJob
    <2>1. Abstract!LiveRows \in SUBSET Abstract!LiveRows
      OBVIOUS
    <2>2. canvas' = [r \in RowIds |-> IF r \in Abstract!LiveRows THEN generation
                                      ELSE canvas[r]]
      BY <1>7 DEF InlineJob, Painted, Abstract!LiveRows
    <2>3. Abstract!Render
      BY <1>7, <1>g, <2>1, <2>2 DEF InlineJob, Abstract!Render
    <2> QED BY <2>3 DEF Abstract!FJNext
  <1>8. CASE InlineReturn
    <2>1. \A y \in Abstract!LiveRows : canvas[y] = generation
      BY <1>8 DEF InlineReturn, PoolInv, InlineInv, Abstract!LiveRows
    <2>2. Abstract!Join
      BY <1>8, <1>j, <2>1 DEF InlineReturn
    <2> QED BY <2>2 DEF Abstract!FJNext
  <1>9. CASE DispatchStart \/ ShutdownStart
    <2>1. UNCHANGED <<active, rows, canvas>> /\ Want' = Want
      BY <1>9 DEF DispatchStart, ShutdownStart, MainBarrierWait, MainAfterBarrier
    <2> QED BY <2>1, <1>s
  <1>10. CASE DispatchStop
    <2>1. CASE mpc' = "dispatch_stop"
      <3>1. UNCHANGED <<active, rows, canvas>> /\ Want' = Want
        BY <1>10, <2>1 DEF DispatchStop
      <3> QED BY <3>1, <1>s
    <2>2. CASE mpc' # "dispatch_stop"
      <3>1. Cardinality(Blocked("stop")) + 1 = BarrierCount /\ mpc' = "idle"
        BY <1>10, <2>2 DEF DispatchStop, MainBarrierWait, MainAfterBarrier
      <3>2. Blocked("stop") = 0 .. worker_count - 1
        <4>1. ThreadsAt(0, worker_count, {"check", "job", "finish", "stop"})
          BY <1>10 DEF DispatchStop, PoolInv, RenderInv
        <4>2. Cardinality(Blocked("stop")) \in Nat
              /\ (Cardinality(Blocked("stop")) = worker_count =>
                    Blocked("stop") = 0 .. worker_count - 1)
          BY <1>t, <4>1, BlockedAreWorkers DEF Blocked
        <4> QED BY <1>t, <3>1, <4>2 DEF BarrierCount, TypeOK
      <3>3. \A w \in 0 .. worker_count - 1 : wpc[w] \in {"finish", "stop"}
        BY <3>2 DEF Blocked
      <3>4. \A y \in Abstract!LiveRows : canvas[y] = generation
        BY <1>10, <3>3, AllRendered DEF DispatchStop
      <3>5. Abstract!Join
        BY <1>10, <1>j, <3>1, <3>4 DEF DispatchStop
      <3> QED BY <3>5 DEF Abstract!FJNext
    <2> QED BY <2>1, <2>2
  <1>11. ASSUME NEW w \in Workers, WorkerGate(w) \/ WorkerCheck(w)
         PROVE  UNCHANGED Abstract!fjvars
    <2>1. UNCHANGED <<active, rows, canvas>> /\ Want' = Want
      BY <1>11 DEF WorkerGate, WorkerCheck
    <2> QED BY <2>1, <1>s
  <1>12. ASSUME NEW w \in Workers, WorkerStart(w)
         PROVE  UNCHANGED Abstract!fjvars
    <2>1. UNCHANGED <<active, rows, canvas>> /\ Want' = Want
      BY <1>12 DEF WorkerStart, WorkerBarrierWait, MainBlocked, MainAfterBarrier
    <2> QED BY <2>1, <1>s
  <1>13. ASSUME NEW w \in Workers, WorkerJob(w) PROVE Abstract!FJNext
    <2>1. mpc \in {"finish", "dispatch_stop"} /\ mine[w] = generation
      BY <1>13, Current DEF WorkerJob, JobsAreCurrent
    <2>2. /\ w \in Nat /\ w < worker_count /\ worker_count \in Nat \ {0}
      BY <1>13, <1>t, <2>1, MaxWorkersAssumption
         DEF WorkerJob, PoolInv, RenderInv, ThreadsAt, TypeOK, Workers
    <2>3. Band(w, worker_count, rows) \subseteq Abstract!LiveRows
      <3> SUFFICES ASSUME NEW y \in Band(w, worker_count, rows) PROVE y < rows
        BY DEF Band, Abstract!LiveRows
      <3> DEFINE q == ((w + 1) * rows) \div worker_count
      <3>1. (w + 1) * rows \in Nat /\ (w + 1) * rows <= worker_count * rows
        BY <2>2, <1>g, SMT
      <3>2. q \in Nat /\ worker_count * q <= (w + 1) * rows
        BY <2>2, <3>1, DivFacts
      <3>3. worker_count * q < worker_count * (rows + 1)
        BY <2>2, <1>g, <3>1, <3>2, SMT
      <3>4. q < rows + 1
        BY <2>2, <1>g, <3>2, <3>3, CancelFactor
      <3>5. y < q /\ y \in Int
        BY ArgumentsAssumption DEF Band, BandEnd, RowIds
      <3> QED BY <1>g, <3>2, <3>4, <3>5
    <2>4. canvas' = [r \in RowIds |-> IF r \in Band(w, worker_count, rows)
                                      THEN generation ELSE canvas[r]]
      BY <1>13, <2>1 DEF WorkerJob, Painted
    <2>5. Abstract!Render
      BY <1>13, <1>g, <2>1, <2>3, <2>4 DEF WorkerJob, Abstract!Render
    <2> QED BY <2>5 DEF Abstract!FJNext
  <1>14. ASSUME NEW w \in Workers, WorkerStop(w)
         PROVE  Abstract!FJNext \/ UNCHANGED Abstract!fjvars
    <2>1. CASE mpc' = mpc
      <3>1. UNCHANGED <<active, rows, canvas>> /\ Want' = Want
        BY <1>14, <2>1 DEF WorkerStop
      <3> QED BY <3>1, <1>s
    <2>2. CASE mpc' # mpc
      <3> DEFINE ws == Blocked("stop") \cup {w}
      <3>1. Cardinality(ws) + 1 = BarrierCount /\ mpc = "dispatch_stop" /\ mpc' = "idle"
        BY <1>14, <2>2 DEF WorkerStop, WorkerBarrierWait, MainBlocked, MainAfterBarrier
      <3>2. ws = 0 .. worker_count - 1
        <4>1. ThreadsAt(0, worker_count, {"check", "job", "finish", "stop"})
          BY <3>1 DEF PoolInv, RenderInv
        <4>2. ws \in SUBSET Workers /\ \A v \in ws : wpc[v] # "none"
          BY <1>14 DEF WorkerStop, Blocked
        <4>3. Cardinality(ws) \in Nat
              /\ (Cardinality(ws) = worker_count => ws = 0 .. worker_count - 1)
          BY <1>t, <4>1, <4>2, BlockedAreWorkers
        <4> QED BY <1>t, <3>1, <4>3 DEF BarrierCount, TypeOK
      <3>3. \A v \in 0 .. worker_count - 1 : wpc[v] \in {"finish", "stop"}
        BY <1>14, <3>2 DEF WorkerStop, Blocked
      <3>4. \A y \in Abstract!LiveRows : canvas[y] = generation
        BY <3>1, <3>3, AllRendered
      <3>5. Abstract!Join
        BY <1>14, <1>j, <3>1, <3>4 DEF WorkerStop
      <3> QED BY <3>5 DEF Abstract!FJNext
    <2> QED BY <2>1, <2>2
  <1>15. CASE UNCHANGED vars
    BY <1>15, <1>s DEF vars
  <1> QED
    BY <1>1, <1>2, <1>3, <1>4, <1>5, <1>6, <1>7, <1>8, <1>9, <1>10, <1>11, <1>12,
       <1>13, <1>14, <1>15
       DEF Next, Call, MainStep, WorkerStep

\* The pool implements fork-join for any number of workers: a dispatch returns
\* only when every row carries its generation, and no row changes outside one.
THEOREM PoolImplementsForkJoin == Spec => ImplementsForkJoin
  <1>1. PoolInv /\ PoolInv' /\ [Next]_vars => [Abstract!FJNext]_(Abstract!fjvars)
    BY RefinesStep
  <1> QED
    BY <1>1, RefinesInit, PoolInvariant, PTL DEF Spec, ImplementsForkJoin, Abstract!FJSpec

=============================================================================
