----------------------------- MODULE WorkerPool -----------------------------
(***************************************************************************)
(* The persistent render pool of cart/src/worker_pool.c: one calling       *)
(* thread, up to MaxWorkers workers, a startup gate (mutex + condition     *)
(* variable) and two barriers shared by the workers and the caller.        *)
(*                                                                         *)
(* Critical sections of startup_mutex are atomic steps, split where        *)
(* pthread_cond_wait gives the mutex away.  A barrier is its set of        *)
(* blocked threads: the arrival that makes them worker_count + 1 releases  *)
(* them all.  Condition variables may wake without a broadcast.            *)
(***************************************************************************)
EXTENDS Naturals, Integers, FiniteSets

CONSTANTS
    MaxWorkers,     \* CART_WORKER_POOL_MAX
    WorkerCounts,   \* worker_count arguments given to init
    MaxRows,        \* bound on rows: the canvas of the model has this many
    RowCounts,      \* rows arguments given to init
    Generations     \* generation arguments given to dispatch

ASSUME MaxWorkersAssumption == MaxWorkers \in Nat \ {0}
ASSUME ArgumentsAssumption ==
    /\ MaxRows \in Nat
    /\ WorkerCounts \subseteq Int
    /\ RowCounts \subseteq 0 .. MaxRows
ASSUME GenerationsAssumption == Generations \subseteq Nat /\ 0 \in Generations

Workers == 0 .. MaxWorkers - 1

RowIds  == 0 .. MaxRows - 1

VARIABLES
    active, worker_count, rows,                       \* struct cart_worker_pool
    generation,                                       \* with job and slots
    startup_ready, startup_released, shutting_down,
    mpc,        \* where the calling thread is
    index,      \* its loop counter: threads created, or threads joined
    created,    \* threads created by the running init
    wpc,        \* where each worker is; "none" if it has no thread
    mine,       \* the generation a worker passed to its job
    canvas      \* for each row, the generation last rendered into it

pool   == <<active, worker_count, rows, generation>>
gate   == <<startup_ready, startup_released, shutting_down>>
vars   == <<active, worker_count, rows, generation,
            startup_ready, startup_released, shutting_down,
            mpc, index, created, wpc, mine, canvas>>

WorkerPCs == {"none", "gate", "cond", "loop", "start", "check", "job",
              "finish", "stop", "exited"}
InitPCs     == {"create", "abort", "abort_join", "open", "open_wait", "open_check"}
DispatchPCs == {"inline", "inline_done", "dispatch", "dispatch_start",
                "finish", "dispatch_stop"}
ShutdownPCs == {"shutdown", "shutdown_start", "shutdown_join"}
MainPCs     == {"idle"} \cup InitPCs \cup DispatchPCs \cup ShutdownPCs

TypeOK ==
    /\ active \in BOOLEAN
    /\ worker_count \in 0 .. MaxWorkers
    /\ rows \in RowCounts \cup {0}
    /\ generation \in Generations
    /\ startup_ready \in BOOLEAN
    /\ startup_released \in Nat
    /\ shutting_down \in BOOLEAN
    /\ mpc \in MainPCs
    /\ index \in 0 .. MaxWorkers
    /\ created \in 0 .. MaxWorkers
    /\ wpc \in [Workers -> WorkerPCs]
    /\ mine \in [Workers -> Generations]
    /\ canvas \in [RowIds -> Generations]

Init ==
    /\ active = FALSE
    /\ worker_count = 0
    /\ rows = 0
    /\ generation = 0
    /\ startup_ready = FALSE
    /\ startup_released = 0
    /\ shutting_down = FALSE
    /\ mpc = "idle"
    /\ index = 0
    /\ created = 0
    /\ wpc = [w \in Workers |-> "none"]
    /\ mine = [w \in Workers |-> 0]
    /\ canvas = [r \in RowIds |-> 0]

-----------------------------------------------------------------------------
(* Row bands *)

BandStart(w, n, r) == (w * r) \div n
BandEnd(w, n, r)   == ((w + 1) * r) \div n
Band(w, n, r)      == {y \in RowIds : BandStart(w, n, r) <= y /\ y < BandEnd(w, n, r)}

Painted(S, g) == [y \in RowIds |-> IF y \in S THEN g ELSE canvas[y]]

(* The condition variable and the barriers *)

\* pthread_cond_broadcast wakes the workers blocked on startup_cond; they
\* must take the mutex again.
Woken(pcs) == [w \in Workers |-> IF pcs[w] = "cond" THEN "gate" ELSE pcs[w]]

Blocked(b) == {w \in Workers : wpc[w] = b}

MainBlocked(b) ==
    \/ b = "start" /\ mpc \in {"dispatch_start", "shutdown_start"}
    \/ b = "stop"  /\ mpc = "dispatch_stop"

AfterBarrier(b) == IF b = "start" THEN "check" ELSE "loop"

MainAfterBarrier(pc) == CASE pc \in {"dispatch", "dispatch_start"} -> "finish"
                          [] pc \in {"shutdown", "shutdown_start"} -> "shutdown_join"
                          [] OTHER -> "idle"

\* Mutant: the barriers are initialised without a place for the caller.
BarrierCountMutant == worker_count

\* The number of pthread_barrier_wait calls that releases a barrier.
BarrierCount == worker_count + 1

Release(b, ws) == wpc' = [v \in Workers |-> IF v \in ws THEN AfterBarrier(b) ELSE wpc[v]]

WorkerBarrierWait(w, b) ==
    LET ws      == Blocked(b) \cup {w}
        arrived == Cardinality(ws) + (IF MainBlocked(b) THEN 1 ELSE 0)
    IN  IF arrived = BarrierCount
        THEN /\ Release(b, ws)
             /\ mpc' = IF MainBlocked(b) THEN MainAfterBarrier(mpc) ELSE mpc
        ELSE /\ wpc' = [wpc EXCEPT ![w] = b]
             /\ UNCHANGED mpc

MainBarrierWait(b, blockedAt) ==
    IF Cardinality(Blocked(b)) + 1 = BarrierCount
    THEN /\ Release(b, Blocked(b))
         /\ mpc' = MainAfterBarrier(mpc)
    ELSE /\ mpc' = blockedAt
         /\ UNCHANGED wpc

-----------------------------------------------------------------------------
(* cart_worker_pool_init *)

\* The argument checks; a refused init changes nothing.
InitAccepts(n, r) == 0 <= n /\ n <= MaxWorkers /\ r > 0

\* A pool is only re-initialised by a caller that has shut it down: memset of
\* a pool with live threads is not something the cart or its tests do.
InitCall(n, r) ==
    /\ mpc = "idle"
    /\ ~active
    /\ InitAccepts(n, r)
    /\ worker_count' = n
    /\ rows' = r
    /\ generation' = 0
    /\ startup_ready' = FALSE
    /\ startup_released' = 0
    /\ shutting_down' = FALSE
    /\ IF n = 0
       THEN active' = TRUE /\ mpc' = "idle"           \* inline mode
       ELSE /\ active' = FALSE
            /\ \/ mpc' = "create"
               \/ mpc' = "idle"       \* a mutex, condition or barrier init failed
    /\ index' = 0
    /\ created' = 0
    /\ UNCHANGED <<wpc, mine, canvas>>

CreateThread ==
    /\ mpc = "create"
    /\ index < worker_count
    /\ wpc' = [wpc EXCEPT ![index] = "gate"]
    /\ index' = index + 1
    /\ created' = index + 1
    /\ mpc' = IF index + 1 = worker_count THEN "open" ELSE "create"
    /\ UNCHANGED <<pool, gate, mine, canvas>>

CreateFails ==
    /\ mpc = "create"
    /\ index < worker_count
    /\ mpc' = "abort"
    /\ UNCHANGED <<pool, gate, index, created, wpc, mine, canvas>>

\* Mutant: the gate of a failed init is not opened for the workers it made.
AbortGateMutant ==
    /\ mpc = "abort"
    /\ shutting_down' = TRUE
    /\ wpc' = Woken(wpc)
    /\ mpc' = "abort_join"
    /\ index' = 0
    /\ UNCHANGED <<pool, startup_ready, startup_released, created, mine, canvas>>

AbortGate ==
    /\ mpc = "abort"
    /\ shutting_down' = TRUE
    /\ startup_ready' = TRUE
    /\ wpc' = Woken(wpc)
    /\ mpc' = "abort_join"
    /\ index' = 0
    /\ UNCHANGED <<pool, startup_released, created, mine, canvas>>

Destroyed ==
    /\ worker_count' = 0
    /\ rows' = 0
    /\ mpc' = "idle"

JoinThread(w) ==
    /\ wpc[w] = "exited"
    /\ wpc' = [wpc EXCEPT ![w] = "none"]

\* Mutant: a failed init returns without joining the workers it made.
AbortJoinMutant ==
    /\ mpc = "abort_join"
    /\ Destroyed
    /\ UNCHANGED <<wpc, index, active, generation, gate, created, mine, canvas>>

AbortJoin ==
    /\ mpc = "abort_join"
    /\ \/ /\ index < created
          /\ JoinThread(index)
          /\ index' = index + 1
          /\ UNCHANGED <<mpc, worker_count, rows>>
       \/ /\ index = created
          /\ Destroyed
          /\ UNCHANGED <<wpc, index>>
    /\ UNCHANGED <<active, generation, gate, created, mine, canvas>>

ReleasedAll == startup_released >= worker_count

OpenGate ==
    /\ mpc = "open"
    /\ startup_ready' = TRUE
    /\ wpc' = Woken(wpc)
    /\ IF ReleasedAll
       THEN active' = TRUE /\ mpc' = "idle"
       ELSE active' = FALSE /\ mpc' = "open_wait"
    /\ UNCHANGED <<worker_count, rows, generation, startup_released,
                   shutting_down, index, created, mine, canvas>>

OpenRecheck ==
    /\ mpc = "open_check"
    /\ IF ReleasedAll
       THEN active' = TRUE /\ mpc' = "idle"
       ELSE active' = FALSE /\ mpc' = "open_wait"
    /\ UNCHANGED <<worker_count, rows, generation, gate, index, created, wpc,
                   mine, canvas>>

SpuriousWakeup ==
    /\ \/ mpc = "open_wait" /\ mpc' = "open_check" /\ UNCHANGED wpc
       \/ \E w \in Workers : /\ wpc[w] = "cond"
                             /\ wpc' = [wpc EXCEPT ![w] = "gate"]
                             /\ UNCHANGED mpc
    /\ UNCHANGED <<pool, gate, index, created, mine, canvas>>

-----------------------------------------------------------------------------
(* cart_worker_pool_dispatch; a dispatch on an inactive pool changes nothing *)

DispatchCall(g) ==
    /\ mpc = "idle"
    /\ active
    /\ IF worker_count = 0
       THEN mpc' = "inline" /\ generation' = g
       ELSE mpc' = "dispatch" /\ generation' = g
    /\ UNCHANGED <<active, worker_count, rows, gate, index, created, wpc, mine,
                   canvas>>

InlineJob ==
    /\ mpc = "inline"
    /\ canvas' = Painted({y \in RowIds : y < rows}, generation)
    /\ mpc' = "inline_done"
    /\ UNCHANGED <<pool, gate, index, created, wpc, mine>>

InlineReturn ==
    /\ mpc = "inline_done"
    /\ mpc' = "idle"
    /\ UNCHANGED <<pool, gate, index, created, wpc, mine, canvas>>

DispatchStart ==
    /\ mpc = "dispatch"
    /\ MainBarrierWait("start", "dispatch_start")
    /\ UNCHANGED <<pool, gate, index, created, mine, canvas>>

\* Mutant: dispatch returns without waiting on the stop barrier.
DispatchStopMutant ==
    /\ mpc = "finish"
    /\ mpc' = "idle"
    /\ UNCHANGED <<pool, gate, index, created, wpc, mine, canvas>>

DispatchStop ==
    /\ mpc = "finish"
    /\ MainBarrierWait("stop", "dispatch_stop")
    /\ UNCHANGED <<pool, gate, index, created, mine, canvas>>

-----------------------------------------------------------------------------
(* cart_worker_pool_shutdown; on an inactive pool it changes nothing *)

ShutdownCall ==
    /\ mpc = "idle"
    /\ active
    /\ active' = FALSE
    /\ IF worker_count = 0
       THEN UNCHANGED <<mpc, shutting_down>>
       ELSE mpc' = "shutdown" /\ shutting_down' = TRUE
    /\ UNCHANGED <<worker_count, rows, generation, startup_ready,
                   startup_released, index, created, wpc, mine, canvas>>

ShutdownStart ==
    /\ mpc = "shutdown"
    /\ MainBarrierWait("start", "shutdown_start")
    /\ index' = 0
    /\ UNCHANGED <<pool, gate, created, mine, canvas>>

\* Mutant: shutdown joins all workers but the last.
ShutdownJoinMutant ==
    /\ mpc = "shutdown_join"
    /\ \/ /\ index < worker_count - 1
          /\ JoinThread(index)
          /\ index' = index + 1
          /\ UNCHANGED <<mpc, worker_count, rows>>
       \/ /\ index = worker_count - 1
          /\ Destroyed
          /\ UNCHANGED <<wpc, index>>
    /\ UNCHANGED <<active, generation, gate, created, mine, canvas>>

ShutdownJoin ==
    /\ mpc = "shutdown_join"
    /\ \/ /\ index < worker_count
          /\ JoinThread(index)
          /\ index' = index + 1
          /\ UNCHANGED <<mpc, worker_count, rows>>
       \/ /\ index = worker_count
          /\ Destroyed
          /\ UNCHANGED <<wpc, index>>
    /\ UNCHANGED <<active, generation, gate, created, mine, canvas>>

-----------------------------------------------------------------------------
(* worker_main *)

\* Lock the mutex, test startup_ready and either block on the condition or
\* leave the gate.
WorkerGate(w) ==
    /\ wpc[w] = "gate"
    /\ \/ /\ ~startup_ready
          /\ wpc' = [wpc EXCEPT ![w] = "cond"]
          /\ UNCHANGED <<startup_released, mpc>>
       \/ /\ startup_ready /\ shutting_down
          /\ wpc' = [wpc EXCEPT ![w] = "exited"]
          /\ UNCHANGED <<startup_released, mpc>>
       \/ /\ startup_ready /\ ~shutting_down
          /\ startup_released' = startup_released + 1
          /\ wpc' = [Woken(wpc) EXCEPT ![w] = "loop"]
          /\ mpc' = IF mpc = "open_wait" THEN "open_check" ELSE mpc
    /\ UNCHANGED <<pool, startup_ready, shutting_down, index, created, mine, canvas>>

WorkerStart(w) ==
    /\ wpc[w] = "loop"
    /\ WorkerBarrierWait(w, "start")
    /\ UNCHANGED <<pool, gate, index, created, mine, canvas>>

WorkerCheck(w) ==
    /\ wpc[w] = "check"
    /\ IF shutting_down
       THEN wpc' = [wpc EXCEPT ![w] = "exited"] /\ UNCHANGED mine
       ELSE /\ wpc' = [wpc EXCEPT ![w] = "job"]
            /\ mine' = [mine EXCEPT ![w] = generation]
    /\ UNCHANGED <<pool, gate, mpc, index, created, canvas>>

WorkerJob(w) ==
    /\ wpc[w] = "job"
    /\ canvas' = Painted(Band(w, worker_count, rows), mine[w])
    /\ wpc' = [wpc EXCEPT ![w] = "finish"]
    /\ UNCHANGED <<pool, gate, mpc, index, created, mine>>

WorkerStop(w) ==
    /\ wpc[w] = "finish"
    /\ WorkerBarrierWait(w, "stop")
    /\ UNCHANGED <<pool, gate, index, created, mine, canvas>>

-----------------------------------------------------------------------------
Call ==
    \/ \E n \in WorkerCounts, r \in RowCounts : InitCall(n, r)
    \/ \E g \in Generations : DispatchCall(g)
    \/ ShutdownCall

\* What the calling thread does inside a call.
MainStep ==
    \/ CreateThread \/ CreateFails \/ AbortGate \/ AbortJoin
    \/ OpenGate \/ OpenRecheck
    \/ InlineJob \/ InlineReturn \/ DispatchStart \/ DispatchStop
    \/ ShutdownStart \/ ShutdownJoin

WorkerStep(w) ==
    \/ WorkerGate(w) \/ WorkerStart(w) \/ WorkerCheck(w) \/ WorkerJob(w)
    \/ WorkerStop(w)

Next == Call \/ MainStep \/ SpuriousWakeup \/ \E w \in Workers : WorkerStep(w)

Spec == Init /\ [][Next]_vars

\* A runnable thread is eventually scheduled; the caller need not call.
FairSpec == Spec /\ WF_vars(MainStep) /\ \A w \in Workers : WF_vars(WorkerStep(w))

-----------------------------------------------------------------------------
(* Properties *)

LiveWorkers == {w \in Workers : wpc[w] # "none"}
Rendering(w) == wpc[w] \in {"check", "job", "finish", "stop"}

\* When no call is running the canvas is the caller's alone: every worker of
\* an active pool is back before the start barrier (worker_pool.c:139-141), so
\* the caller may write job, slots and generation, or draw the overlay.
CallerOwnsCanvas ==
    mpc \in {"idle", "dispatch"} => \A w \in Workers : ~Rendering(w)

\* A failed init and a shutdown leave no thread behind, and an active pool
\* has all of its workers past the gate (worker_pool.c:102-110, 116, 155).
ThreadsAccounted ==
    mpc = "idle" =>
        LiveWorkers = IF active THEN 0 .. worker_count - 1 ELSE {}

\* A job runs only inside the dispatch whose generation it was given
\* (worker_pool.c:135-140): no job with stale arguments.
JobsAreCurrent ==
    \A w \in Workers : wpc[w] = "job" =>
        /\ mpc \in {"finish", "dispatch_stop"}
        /\ mine[w] = generation

\* Rows below rows, split over the workers, belong to exactly one worker
\* (worker_pool.c:41-42): no row is skipped and no two jobs share one.
BandsPartition ==
    worker_count > 0 =>
        \A y \in RowIds : y < rows =>
            \E w \in 0 .. worker_count - 1 :
                /\ y \in Band(w, worker_count, rows)
                /\ \A v \in 0 .. worker_count - 1 :
                      y \in Band(v, worker_count, rows) => v = w

\* A barrier is never destroyed under a thread, and no join is repeated: the
\* step that ends a pool finds every worker's thread already reaped.
DestroyIsQuiet ==
    [][worker_count > 0 /\ worker_count' = 0 => \A w \in Workers : wpc[w] = "none"]_vars

\* Every init, dispatch and shutdown returns: neither the gate nor the two
\* barriers can leave the caller blocked (worker_pool.c:113-120, 139-140, 154-156).
CallsReturn == (mpc # "idle") ~> (mpc = "idle")

-----------------------------------------------------------------------------
(* The inductive invariant: what each point of the caller's code implies of
   the gate and of every worker *)

\* The workers lo .. hi - 1 have a thread, at one of the points in S; no
\* other worker has a thread.
ThreadsAt(lo, hi, S) ==
    \A w \in Workers : wpc[w] \in IF lo <= w /\ w < hi THEN S ELSE {"none"}

Past == {w \in Workers : wpc[w] \in {"loop", "start"}}

IdleInv ==
    mpc = "idle" =>
        IF active /\ worker_count > 0
        THEN ~shutting_down /\ ThreadsAt(0, worker_count, {"loop", "start"})
        ELSE ThreadsAt(0, 0, {})

CreateInv ==
    mpc \in {"create", "abort", "open"} =>
        /\ ~active /\ ~startup_ready /\ ~shutting_down
        /\ startup_released = 0
        /\ created = index
        /\ IF mpc = "open" THEN index = worker_count ELSE index < worker_count
        /\ ThreadsAt(0, index, {"gate", "cond"})

AbortInv ==
    mpc = "abort_join" =>
        /\ ~active /\ startup_ready /\ shutting_down
        /\ index <= created
        /\ ThreadsAt(index, created, {"gate", "exited"})

OpenInv ==
    mpc \in {"open_wait", "open_check"} =>
        /\ ~active /\ startup_ready /\ ~shutting_down
        /\ startup_released = Cardinality(Past)
        /\ ThreadsAt(0, worker_count, {"gate", "loop", "start"})

InlineInv ==
    mpc \in {"inline", "inline_done"} =>
        /\ active /\ worker_count = 0
        /\ ThreadsAt(0, 0, {})
        /\ mpc = "inline_done" => \A y \in RowIds : y < rows => canvas[y] = generation

DispatchInv ==
    mpc \in {"dispatch", "dispatch_start"} =>
        /\ active /\ worker_count > 0 /\ ~shutting_down
        /\ ThreadsAt(0, worker_count, {"loop", "start"})

RenderInv ==
    mpc \in {"finish", "dispatch_stop"} =>
        /\ active /\ worker_count > 0 /\ ~shutting_down
        /\ ThreadsAt(0, worker_count, {"check", "job", "finish", "stop"})
        /\ \A w \in Workers :
              /\ wpc[w] = "job" => mine[w] = generation
              /\ wpc[w] \in {"finish", "stop"} =>
                    \A y \in Band(w, worker_count, rows) : canvas[y] = generation

ShutdownInv ==
    mpc \in {"shutdown", "shutdown_start"} =>
        /\ ~active /\ worker_count > 0 /\ shutting_down
        /\ mpc = "shutdown_start" => index = 0
        /\ ThreadsAt(0, worker_count, {"loop", "start"})

JoinInv ==
    mpc = "shutdown_join" =>
        /\ ~active /\ worker_count > 0 /\ shutting_down
        /\ index <= worker_count
        /\ ThreadsAt(index, worker_count, {"check", "exited"})

\* The inductive invariant: at every point of init, dispatch and shutdown,
\* which workers have a thread, where in worker_main they can be, and which
\* bands of the canvas are already this dispatch's.
PoolInv ==
    /\ TypeOK
    /\ IdleInv /\ CreateInv /\ AbortInv /\ OpenInv /\ InlineInv
    /\ DispatchInv /\ RenderInv /\ ShutdownInv /\ JoinInv

-----------------------------------------------------------------------------
(* The pool implements ForkJoin *)

NoDispatch == -1

Abstract == INSTANCE ForkJoin WITH
    NoDispatch <- NoDispatch,
    open   <- active,
    height <- rows,
    want   <- IF mpc \in DispatchPCs THEN generation ELSE NoDispatch,
    image  <- canvas

\* A dispatch returns only after every row of the canvas carries its
\* generation, and no row changes outside a dispatch (worker_pool.h:23-25).
ImplementsForkJoin == Abstract!FJSpec

=============================================================================
