----------------------------- MODULE CartRuntime -----------------------------
(***************************************************************************)
(* struct cart_runtime under any sequence of ticks and manual requests on  *)
(* a monotonic clock.  The other variables only observe: the clock, when   *)
(* the scene last changed, the last manual request that was granted, and   *)
(* how many deadlines were met, late or not.                               *)
(***************************************************************************)
EXTENDS RuntimeOps

CONSTANTS
    Starts,         \* origin_ns arguments of init
    Holds           \* hold_ns arguments of the requests

ASSUME CallsAssumption == Starts \subseteq Time /\ Holds \subseteq Time

VARIABLES
    runtime,        \* struct cart_runtime
    clock,          \* CLOCK_MONOTONIC at the last call
    failed,         \* the last tick returned -1
    flipAt,         \* when scene_index last changed, or Never
    heldAt, heldFor,\* when a manual request was last granted, and its hold_ns
    met             \* deadlines a tick has moved on from

runtimeVars == <<runtime, clock, failed, flipAt, heldAt, heldFor, met>>

Never == -1

RuntimeTypeOK ==
    /\ runtime \in Runtime
    /\ clock \in Time
    /\ failed \in BOOLEAN
    /\ flipAt \in Time \cup {Never}
    /\ heldAt \in Time
    /\ heldFor \in Time
    /\ met \in Nat

RuntimeInit ==
    \E origin \in Starts :
        /\ OriginAccepted(origin)
        /\ runtime = NewRuntime(origin)
        /\ clock = origin
        /\ failed = FALSE
        /\ flipAt = Never
        /\ heldAt = 0
        /\ heldFor = 0
        /\ met = 0

ObserveFlip ==
    flipAt' = IF runtime'.scene_index # runtime.scene_index THEN clock' ELSE flipAt

DoTick(t) ==
    /\ ~failed
    /\ clock' = t
    /\ runtime' = Tick(runtime, t)
    /\ failed' = IF TickFails(runtime, t) THEN TRUE ELSE FALSE
    /\ ObserveFlip
    /\ met' = IF runtime'.next_deadline # runtime.next_deadline THEN met + 1 ELSE met
    /\ UNCHANGED <<heldAt, heldFor>>

ObserveHold(t, hold) ==
    IF ChangeAllowed(runtime, t)
    THEN heldAt' = t /\ heldFor' = hold
    ELSE UNCHANGED <<heldAt, heldFor>>

DoRequestNext(t, hold) ==
    /\ ~failed
    /\ clock' = t
    /\ runtime' = RequestNext(runtime, t, hold)
    /\ UNCHANGED <<failed, met>>
    /\ ObserveFlip
    /\ ObserveHold(t, hold)

DoRequestPrevious(t, hold) ==
    /\ ~failed
    /\ clock' = t
    /\ runtime' = RequestPrevious(runtime, t, hold)
    /\ UNCHANGED <<failed, met>>
    /\ ObserveFlip
    /\ ObserveHold(t, hold)

RuntimeNext ==
    \E t \in clock .. TimeMax :
        \/ DoTick(t)
        \/ \E hold \in Holds : DoRequestNext(t, hold) \/ DoRequestPrevious(t, hold)

RuntimeSpec == RuntimeInit /\ [][RuntimeNext]_runtimeVars

-----------------------------------------------------------------------------
(* Properties *)

\* While a hold is active the runtime shows the scene the user picked: the
\* requests and the tick agree on it (runtime.c:68-69, 113-122).
HoldShowsManual == runtime.manual_hold_active => runtime.scene_index = runtime.manual_scene_index

\* The photosensitivity guard: whatever ticks and requests come, in whatever
\* order, two scene changes are at least min_change_ns apart (runtime.h:7-12).
ChangesSpaced ==
    [][runtime'.scene_index # runtime.scene_index /\ flipAt # Never =>
          clock' - flipAt >= MinChange]_runtimeVars

\* A tick that succeeds asks for a sleep of at least one nanosecond and at
\* most one frame: the loop neither spins nor oversleeps (runtime.c:85-101).
SleepBounded == ~failed => runtime.sleep > 0 /\ runtime.sleep <= FramePeriod

\* No deadline is counted twice: the deadlines met, the deadlines dropped and
\* the next one together fit into the time up to it (runtime.c:93-100).
DropsFitElapsed ==
    runtime.next_deadline >= runtime.origin + FramePeriod * (met + runtime.dropped_deadlines + 1)

\* The deadline is never further away than one frame, so the tick reports an
\* exhausted clock only in the last frame of the range of uint64_t; the second
\* overflow check (runtime.c:94-95) can never fire.
FailsOnlyAtEnd ==
    /\ runtime.next_deadline <= clock + FramePeriod
    /\ failed => clock > TimeMax - FramePeriod

\* A hold lasts as long as it was asked for, unless a later request replaces
\* it or the clock reaches its end (runtime.c:8-13, 66-67, 117-122).
HoldLasts ==
    [][runtime.manual_hold_active /\ ~runtime'.manual_hold_active =>
          clock' - heldAt' >= heldFor' \/ clock' = TimeMax]_runtimeVars

-----------------------------------------------------------------------------
(* The inductive invariant *)

\* The clock, the deadline and the observed times agree with the fields that
\* the guard and the hold are computed from.
RuntimeInv ==
    /\ RuntimeTypeOK
    /\ runtime.origin <= clock
    /\ HoldShowsManual
    /\ SleepBounded
    /\ DropsFitElapsed
    /\ FailsOnlyAtEnd
    /\ IF runtime.had_change THEN flipAt = runtime.last_change /\ flipAt <= clock
                        ELSE flipAt = Never
    /\ heldAt <= clock
    /\ runtime.manual_hold_active => runtime.manual_hold_until = AddSaturating(heldAt, heldFor)

=============================================================================
