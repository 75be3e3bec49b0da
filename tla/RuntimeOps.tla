----------------------------- MODULE RuntimeOps -----------------------------
(***************************************************************************)
(* The scene clock of cart/src/runtime.c as functions on the value of      *)
(* struct cart_runtime.  Times are uint64_t nanoseconds; TimeMax stands    *)
(* for UINT64_MAX, so that every sum the code guards is guarded here too.  *)
(***************************************************************************)
EXTENDS Naturals, Integers

CONSTANTS
    TimeMax,        \* UINT64_MAX
    SceneCount,     \* cart_scene_count()
    FramePeriod,    \* frame_period_ns
    ScenePeriod,    \* scene_period_ns
    MinChange       \* min_change_ns; 0 disables the photosensitivity guard

ASSUME RuntimeAssumption ==
    /\ TimeMax \in Nat /\ MinChange \in Nat
    /\ SceneCount \in Nat \ {0}
    /\ FramePeriod \in Nat \ {0}
    /\ ScenePeriod \in Nat \ {0}

Time   == 0 .. TimeMax
Scenes == 0 .. SceneCount - 1

Runtime == [scene_index : Scenes, manual_scene_index : Scenes,
            origin : Time, manual_hold_until : Time, manual_hold_active : BOOLEAN,
            last_change : Time, had_change : BOOLEAN,
            next_deadline : Time, frame : Nat, dropped_deadlines : Nat,
            sleep : Time]

\* Mutant: the sum wraps as a plain uint64_t addition does.
AddSaturatingMutant(left, right) == (left + right) % (TimeMax + 1)
AddSaturating(left, right) ==
    IF left > TimeMax - right THEN TimeMax ELSE left + right

\* cart_runtime_init refuses an origin from which no deadline can be set.
OriginAccepted(origin) == origin < TimeMax - FramePeriod

NewRuntime(origin) ==
    [scene_index |-> 0, manual_scene_index |-> 0,
     origin |-> origin, manual_hold_until |-> 0, manual_hold_active |-> FALSE,
     last_change |-> 0, had_change |-> FALSE,
     next_deadline |-> origin + FramePeriod, frame |-> 0, dropped_deadlines |-> 0,
     sleep |-> FramePeriod]

ChangeAllowed(rt, now) ==
    \/ MinChange = 0
    \/ ~rt.had_change
    \/ now >= rt.last_change /\ now - rt.last_change >= MinChange

RecordChange(rt, now) == [rt EXCEPT !.last_change = now, !.had_change = TRUE]

\* The first half of cart_runtime_tick: frame number, end of a manual hold.
ExpireHold(rt, now) ==
    LET counted == [rt EXCEPT !.frame = (now - rt.origin) \div FramePeriod]
    IN  IF rt.manual_hold_active /\ now >= rt.manual_hold_until
        THEN [counted EXCEPT !.manual_hold_active = FALSE]
        ELSE counted

Automatic(rt, now) == ((now - rt.origin) \div ScenePeriod) % SceneCount

\* Mutant: the attract loop advances the scene without recording the change.
SelectSceneMutant(rt, now) ==
    IF rt.manual_hold_active
    THEN [rt EXCEPT !.scene_index = rt.manual_scene_index]
    ELSE IF Automatic(rt, now) # rt.scene_index /\ ChangeAllowed(rt, now)
         THEN [rt EXCEPT !.scene_index = Automatic(rt, now)]
         ELSE rt

SelectScene(rt, now) ==
    IF rt.manual_hold_active
    THEN [rt EXCEPT !.scene_index = rt.manual_scene_index]
    ELSE IF Automatic(rt, now) # rt.scene_index /\ ChangeAllowed(rt, now)
         THEN [RecordChange(rt, now) EXCEPT !.scene_index = Automatic(rt, now)]
         ELSE rt

\* The two sums the deadline arithmetic refuses to make; the tick returns -1.
DeadlineExhausted(rt, now) ==
    /\ now >= rt.next_deadline
    /\ \/ now > TimeMax - FramePeriod
       \/ /\ now - rt.next_deadline < FramePeriod
          /\ rt.next_deadline > TimeMax - FramePeriod

SetDeadline(rt, deadline, drops, sleep) ==
    [rt EXCEPT !.next_deadline = deadline,
               !.dropped_deadlines = rt.dropped_deadlines + drops,
               !.sleep = sleep]

\* Mutant: the deadline that is being rescheduled is counted as dropped too.
ScheduleCountMutant(rt, now) ==
    LET late == now - rt.next_deadline
        next == rt.next_deadline + FramePeriod
    IN  CASE now < rt.next_deadline -> SetDeadline(rt, rt.next_deadline, 0, -late)
          [] now >= rt.next_deadline /\ late < FramePeriod ->
                SetDeadline(rt, next, 0, next - now)
          [] OTHER ->
                SetDeadline(rt, now + FramePeriod, late \div FramePeriod + 1, FramePeriod)

\* Mutant: a tick that is periods late still moves the deadline by one.
ScheduleBurstMutant(rt, now) ==
    LET late == now - rt.next_deadline
        next == rt.next_deadline + FramePeriod
    IN  IF now < rt.next_deadline
        THEN SetDeadline(rt, rt.next_deadline, 0, rt.next_deadline - now)
        ELSE SetDeadline(rt, next, late \div FramePeriod, IF next > now THEN next - now ELSE 0)

\* The second half of a tick that does not fail: the next deadline.  A tick
\* less than a period late moves it by one period; a later one drops whole
\* periods and starts again from now.
Schedule(rt, now) ==
    LET late == now - rt.next_deadline
        next == rt.next_deadline + FramePeriod
    IN  IF now < rt.next_deadline
        THEN SetDeadline(rt, rt.next_deadline, 0, rt.next_deadline - now)
        ELSE IF late < FramePeriod
             THEN SetDeadline(rt, next, 0, next - now)
             ELSE SetDeadline(rt, now + FramePeriod, late \div FramePeriod, FramePeriod)

\* A clock reading before the origin counts as the origin.
Clamped(rt, now) == IF now < rt.origin THEN rt.origin ELSE now

TickFails(rt, now) == DeadlineExhausted(rt, Clamped(rt, now))

\* cart_runtime_tick; a tick that fails has already chosen the scene.
Tick(rt, now) ==
    LET t        == Clamped(rt, now)
        selected == SelectScene(ExpireHold(rt, t), t)
    IN  IF DeadlineExhausted(rt, t) THEN selected ELSE Schedule(selected, t)

\* Mutant: the hold is set but the scene only follows at the next tick.
TakeManualMutant(rt, scene, now, hold) ==
    LET chosen == [rt EXCEPT !.manual_scene_index = scene] IN
    IF hold = 0
    THEN [chosen EXCEPT !.manual_hold_active = FALSE]
    ELSE [chosen EXCEPT !.manual_hold_active = TRUE,
                        !.manual_hold_until = AddSaturating(now, hold)]

\* The common tail of request_next and request_previous.
TakeManual(rt, scene, now, hold) ==
    LET noted  == IF scene # rt.scene_index THEN RecordChange(rt, now) ELSE rt
        chosen == [noted EXCEPT !.manual_scene_index = scene, !.scene_index = scene]
    IN  IF hold = 0
        THEN [chosen EXCEPT !.manual_hold_active = FALSE]
        ELSE [chosen EXCEPT !.manual_hold_active = TRUE,
                            !.manual_hold_until = AddSaturating(now, hold)]

NextScene(rt)     == (rt.scene_index + 1) % SceneCount
PreviousScene(rt) == (rt.scene_index + SceneCount - 1) % SceneCount

\* A request inside the cooldown is dropped without a trace.
RequestNext(rt, now, hold) ==
    IF ChangeAllowed(rt, now) THEN TakeManual(rt, NextScene(rt), now, hold) ELSE rt

RequestPrevious(rt, now, hold) ==
    IF ChangeAllowed(rt, now) THEN TakeManual(rt, PreviousScene(rt), now, hold) ELSE rt

=============================================================================
