----------------------------- MODULE CartProofs -----------------------------
(***************************************************************************)
(* Proofs about the cart's main thread: the scene clock under any calls    *)
(* (CartRuntime), the frame loop that calls it (CartLoop) and the blend on *)
(* the screen (Crossfade).  They hold for every length of a fade, every    *)
(* frame period, scene period and cooldown, every number of scenes and     *)
(* range of the clock, and however signals, requests and late frames fall. *)
(***************************************************************************)
EXTENDS CartRuntime, CartLoop, Crossfade, TLAPS

-----------------------------------------------------------------------------
(* Arithmetic *)

\* Integer division, as the frame and the scene clock use it
\* (runtime.c:65, 71, 98).
LEMMA DivFacts ==
    ASSUME NEW a \in Nat, NEW n \in Nat \ {0}
    PROVE  /\ a \div n \in Nat
           /\ n * (a \div n) <= a
           /\ a < n * (a \div n) + n
  BY SMT

\* A remainder, as the scene index is computed (runtime.c:71, 113, 133).
LEMMA ModFacts ==
    ASSUME NEW a \in Nat, NEW n \in Nat \ {0}
    PROVE  a % n \in 0 .. n - 1
  BY SMT

\* One deadline met and k dropped, in periods (runtime.c:93-100).
LEMMA CountPeriods ==
    ASSUME NEW p \in Nat, NEW m \in Nat, NEW d \in Nat, NEW k \in Nat
    PROVE  p * (m + 1 + (d + k) + 1) = p * (m + d + 1) + p + p * k
  BY SMT

-----------------------------------------------------------------------------
(* What the operations return *)

\* Scene numbers stay below scene_count.
LEMMA SceneRange ==
    ASSUME NEW r \in Runtime, NEW t \in Time, t >= r.origin
    PROVE  Automatic(r, t) \in Scenes /\ NextScene(r) \in Scenes /\ PreviousScene(r) \in Scenes
  <1> USE RuntimeAssumption DEF Runtime, Time, Scenes
  <1>1. t - r.origin \in Nat
    OBVIOUS
  <1>2. (t - r.origin) \div ScenePeriod \in Nat
    BY <1>1, DivFacts
  <1>3. Automatic(r, t) \in Scenes
    BY <1>2, ModFacts DEF Automatic
  <1>4. r.scene_index + 1 \in Nat /\ r.scene_index + SceneCount - 1 \in Nat
    OBVIOUS
  <1>5. NextScene(r) \in Scenes
    BY <1>4, ModFacts DEF NextScene
  <1>6. PreviousScene(r) \in Scenes
    BY <1>4, ModFacts DEF PreviousScene
  <1> QED BY <1>3, <1>5, <1>6

\* A saturating sum is a time, and is at least the sum or the largest time.
LEMMA SaturatingSum ==
    ASSUME NEW a \in Time, NEW b \in Time
    PROVE  /\ AddSaturating(a, b) \in Time
           /\ AddSaturating(a, b) = TimeMax \/ AddSaturating(a, b) = a + b
  BY RuntimeAssumption DEF Time, AddSaturating

\* The fields a tick or a request may leave alone.
SameScene(s, r) ==
    /\ s.scene_index = r.scene_index
    /\ s.last_change = r.last_change
    /\ s.had_change = r.had_change

SameManual(s, r) ==
    /\ s.manual_scene_index = r.manual_scene_index
    /\ s.manual_hold_until = r.manual_hold_until

SameDeadline(s, r) ==
    /\ s.next_deadline = r.next_deadline
    /\ s.dropped_deadlines = r.dropped_deadlines
    /\ s.sleep = r.sleep

\* The hold half of a tick: a hold only ends once its time has come.
LEMMA ExpireFacts ==
    ASSUME NEW r \in Runtime, NEW t \in Time, t >= r.origin, NEW s, s = ExpireHold(r, t)
    PROVE  /\ s \in Runtime
           /\ s.origin = r.origin
           /\ SameScene(s, r) /\ SameManual(s, r) /\ SameDeadline(s, r)
           /\ s.manual_hold_active => r.manual_hold_active
           /\ r.manual_hold_active /\ ~s.manual_hold_active => t >= r.manual_hold_until
  <1>1. t - r.origin \in Nat
    BY RuntimeAssumption DEF Runtime, Time
  <1>2. (t - r.origin) \div FramePeriod \in Nat
    BY <1>1, RuntimeAssumption, DivFacts
  <1> QED BY <1>2 DEF ExpireHold, Runtime, SameScene, SameManual, SameDeadline

\* The scene half of a tick: a change is allowed by the guard and recorded.
LEMMA SelectFacts ==
    ASSUME NEW r \in Runtime, NEW t \in Time, t >= r.origin,
           r.manual_hold_active => r.scene_index = r.manual_scene_index,
           NEW s, s = SelectScene(r, t)
    PROVE  /\ s \in Runtime
           /\ s.origin = r.origin
           /\ s.manual_hold_active = r.manual_hold_active
           /\ SameManual(s, r) /\ SameDeadline(s, r)
           /\ s.manual_hold_active => s.scene_index = s.manual_scene_index
           /\ \/ SameScene(s, r)
              \/ /\ s.scene_index # r.scene_index
                 /\ ChangeAllowed(r, t)
                 /\ s.had_change /\ s.last_change = t
  <1>1. Automatic(r, t) \in Scenes
    BY SceneRange
  <1> QED
    BY <1>1 DEF SelectScene, RecordChange, Runtime, SameScene, SameManual, SameDeadline

LEMMA SetDeadlineFacts ==
    ASSUME NEW r \in Runtime, NEW d \in Time, NEW k \in Nat, NEW z \in Time,
           NEW s, s = SetDeadline(r, d, k, z)
    PROVE  /\ s \in Runtime
           /\ s.origin = r.origin
           /\ s.manual_hold_active = r.manual_hold_active
           /\ SameScene(s, r) /\ SameManual(s, r)
           /\ s.next_deadline = d /\ s.sleep = z
           /\ s.dropped_deadlines = r.dropped_deadlines + k
  <1>1. r.dropped_deadlines + k \in Nat
    BY DEF Runtime
  <1> QED BY <1>1 DEF SetDeadline, Runtime, SameScene, SameManual

\* The deadline half of a tick that does not fail.
LEMMA ScheduleFacts ==
    ASSUME NEW r \in Runtime, NEW t \in Time, ~DeadlineExhausted(r, t),
           r.next_deadline <= t + FramePeriod, NEW s, s = Schedule(r, t)
    PROVE  /\ s \in Runtime
           /\ s.origin = r.origin
           /\ s.manual_hold_active = r.manual_hold_active
           /\ SameScene(s, r) /\ SameManual(s, r)
           /\ s.sleep > 0 /\ s.sleep <= FramePeriod
           /\ s.next_deadline <= t + FramePeriod
           /\ \/ /\ s.next_deadline = r.next_deadline
                 /\ s.dropped_deadlines = r.dropped_deadlines
              \/ /\ s.next_deadline # r.next_deadline
                 /\ \E k \in Nat :
                      /\ s.dropped_deadlines = r.dropped_deadlines + k
                      /\ s.next_deadline >= r.next_deadline + FramePeriod + FramePeriod * k
  <1> DEFINE late == t - r.next_deadline
             next == r.next_deadline + FramePeriod
             drops == late \div FramePeriod
  <1>1. r.next_deadline \in Time /\ r.dropped_deadlines \in Nat
    BY DEF Runtime
  <1>2. CASE t < r.next_deadline
    <2>1. s = SetDeadline(r, r.next_deadline, 0, r.next_deadline - t)
      BY <1>2 DEF Schedule
    <2>2. r.next_deadline - t \in Time /\ r.next_deadline - t > 0
          /\ r.next_deadline - t <= FramePeriod
      BY <1>1, <1>2, RuntimeAssumption DEF Time
    <2>3. PICK d \in Time, k \in Nat, z \in Time :
             s = SetDeadline(r, d, k, z) /\ d = r.next_deadline /\ k = 0
             /\ z = r.next_deadline - t
      <3> USE <1>1, <2>2
      <3> WITNESS r.next_deadline \in Time, 0 \in Nat, r.next_deadline - t \in Time
      <3> QED BY <2>1
    <2>4. /\ s \in Runtime /\ s.origin = r.origin
          /\ s.manual_hold_active = r.manual_hold_active
          /\ SameScene(s, r) /\ SameManual(s, r)
          /\ s.next_deadline = d /\ s.sleep = z
          /\ s.dropped_deadlines = r.dropped_deadlines + k
      BY <2>3, SetDeadlineFacts
    <2> QED BY <1>1, <2>2, <2>3, <2>4
  <1>3. CASE t >= r.next_deadline /\ late < FramePeriod
    <2>1. s = SetDeadline(r, next, 0, next - t)
      BY <1>1, <1>3, RuntimeAssumption DEF Schedule, Time
    <2>2. next \in Time /\ next - t \in Time
      BY <1>1, <1>3, RuntimeAssumption DEF DeadlineExhausted, Time
    <2>3. next - t > 0 /\ next - t <= FramePeriod /\ next <= t + FramePeriod
          /\ next >= r.next_deadline + FramePeriod + FramePeriod * 0
          /\ next # r.next_deadline
      BY <1>1, <1>3, RuntimeAssumption DEF Time
    <2>4. PICK d \in Time, k \in Nat, z \in Time :
             s = SetDeadline(r, d, k, z) /\ d = next /\ k = 0 /\ z = next - t
      <3> USE <2>2
      <3> WITNESS next \in Time, 0 \in Nat, next - t \in Time
      <3> QED BY <2>1
    <2> HIDE DEF next
    <2>5. /\ s \in Runtime /\ s.origin = r.origin
          /\ s.manual_hold_active = r.manual_hold_active
          /\ SameScene(s, r) /\ SameManual(s, r)
          /\ s.next_deadline = d /\ s.sleep = z
          /\ s.dropped_deadlines = r.dropped_deadlines + k
      BY <2>4, SetDeadlineFacts
    <2> QED BY <2>3, <2>4, <2>5
  <1>4. CASE t >= r.next_deadline /\ late >= FramePeriod
    <2>1. s = SetDeadline(r, t + FramePeriod, drops, FramePeriod)
      BY <1>1, <1>4, RuntimeAssumption DEF Schedule, Time
    <2>2. t + FramePeriod \in Time /\ FramePeriod \in Time /\ FramePeriod > 0
      BY <1>1, <1>4, RuntimeAssumption DEF DeadlineExhausted, Time
    <2>3. drops \in Nat /\ FramePeriod * drops <= late
      BY <1>1, <1>4, RuntimeAssumption, DivFacts DEF Time
    <2> HIDE DEF drops
    <2>4. t + FramePeriod >= r.next_deadline + FramePeriod + FramePeriod * drops
      BY <1>1, <2>3, RuntimeAssumption DEF Time
    <2>5. t + FramePeriod # r.next_deadline /\ t + FramePeriod <= t + FramePeriod
          /\ FramePeriod <= FramePeriod
      BY <1>1, <1>4, RuntimeAssumption DEF Time
    <2>6. PICK d \in Time, k \in Nat, z \in Time :
             s = SetDeadline(r, d, k, z) /\ d = t + FramePeriod /\ k = drops
             /\ z = FramePeriod
      <3> USE <2>2, <2>3
      <3> WITNESS t + FramePeriod \in Time, drops \in Nat, FramePeriod \in Time
      <3> QED BY <2>1
    <2>7. /\ s \in Runtime /\ s.origin = r.origin
          /\ s.manual_hold_active = r.manual_hold_active
          /\ SameScene(s, r) /\ SameManual(s, r)
          /\ s.next_deadline = d /\ s.sleep = z
          /\ s.dropped_deadlines = r.dropped_deadlines + k
      BY <2>6, SetDeadlineFacts
    <2> QED BY <2>2, <2>3, <2>4, <2>5, <2>6, <2>7
  <1> QED BY <1>1, <1>2, <1>3, <1>4, RuntimeAssumption DEF Time

\* A granted request: the scene and the manual scene agree, a change is
\* recorded, and the hold ends at the saturating sum.
LEMMA ManualFacts ==
    ASSUME NEW r \in Runtime, NEW t \in Time, NEW scene \in Scenes, NEW hold \in Time,
           NEW s, s = TakeManual(r, scene, t, hold)
    PROVE  /\ s \in Runtime
           /\ s.origin = r.origin
           /\ SameDeadline(s, r)
           /\ s.scene_index = s.manual_scene_index
           /\ s.manual_hold_active => s.manual_hold_until = AddSaturating(t, hold)
           /\ ~s.manual_hold_active => hold = 0
           /\ \/ SameScene(s, r)
              \/ /\ s.scene_index # r.scene_index
                 /\ s.had_change /\ s.last_change = t
  <1>1. AddSaturating(t, hold) \in Time
    BY SaturatingSum
  <1>2. CASE hold = 0
    BY <1>2 DEF TakeManual, RecordChange, Runtime, SameScene, SameDeadline
  <1>3. CASE hold # 0
    BY <1>1, <1>3 DEF TakeManual, RecordChange, Runtime, SameScene, SameDeadline
  <1> QED BY <1>2, <1>3

-----------------------------------------------------------------------------
(* The inductive invariant *)

LEMMA RuntimeStarts == RuntimeInit => RuntimeInv
  <1> SUFFICES ASSUME NEW origin \in Starts, OriginAccepted(origin), runtime = NewRuntime(origin),
                      clock = origin, failed = FALSE, flipAt = Never, heldAt = 0,
                      heldFor = 0, met = 0
               PROVE  RuntimeInv
    BY DEF RuntimeInit
  <1>1. origin \in Time /\ origin + FramePeriod \in Time /\ FramePeriod \in Time
        /\ FramePeriod > 0 /\ 0 \in Scenes /\ 0 \in Time
    BY RuntimeAssumption, CallsAssumption DEF OriginAccepted, Time, Scenes
  <1>2. runtime \in Runtime
    BY <1>1 DEF NewRuntime, Runtime
  <1>3. RuntimeTypeOK
    BY <1>1, <1>2 DEF RuntimeTypeOK
  <1>4. /\ runtime.origin = origin /\ runtime.next_deadline = origin + FramePeriod
        /\ runtime.sleep = FramePeriod /\ runtime.dropped_deadlines = 0
        /\ runtime.manual_hold_active = FALSE /\ runtime.had_change = FALSE
    BY DEF NewRuntime
  <1> QED
    BY <1>1, <1>3, <1>4, RuntimeAssumption
       DEF RuntimeInv, HoldShowsManual, SleepBounded, DropsFitElapsed, FailsOnlyAtEnd, Time

\* A tick, seen from outside: what it keeps and what it may change.
LEMMA RuntimeTickFacts ==
    ASSUME RuntimeInv, NEW t \in Time, t >= clock, DoTick(t)
    PROVE  /\ runtime' \in Runtime
           /\ runtime'.origin = runtime.origin /\ SameManual(runtime', runtime)
           /\ HoldShowsManual'
           /\ runtime'.manual_hold_active => runtime.manual_hold_active
           /\ runtime.manual_hold_active /\ ~runtime'.manual_hold_active => t >= runtime.manual_hold_until
           /\ \/ SameScene(runtime', runtime)
              \/ /\ runtime'.scene_index # runtime.scene_index
                 /\ ChangeAllowed(runtime, t)
                 /\ runtime'.had_change /\ runtime'.last_change = t
           /\ IF DeadlineExhausted(runtime, t)
              THEN failed' /\ SameDeadline(runtime', runtime)
              ELSE /\ ~failed'
                   /\ runtime'.sleep > 0 /\ runtime'.sleep <= FramePeriod
                   /\ runtime'.next_deadline <= t + FramePeriod
                   /\ \/ /\ runtime'.next_deadline = runtime.next_deadline
                         /\ runtime'.dropped_deadlines = runtime.dropped_deadlines
                      \/ /\ runtime'.next_deadline # runtime.next_deadline
                         /\ \E k \in Nat :
                              /\ runtime'.dropped_deadlines = runtime.dropped_deadlines + k
                              /\ runtime'.next_deadline >=
                                   runtime.next_deadline + FramePeriod + FramePeriod * k
  <1>1. runtime \in Runtime /\ t >= runtime.origin /\ runtime.next_deadline <= t + FramePeriod
    BY RuntimeAssumption DEF RuntimeInv, RuntimeTypeOK, FailsOnlyAtEnd, Time, Runtime
  <1>2. Clamped(runtime, t) = t
    BY <1>1 DEF Clamped, Runtime, Time
  <1>3. PICK e : e = ExpireHold(runtime, t)
    OBVIOUS
  <1>4. PICK s : s = SelectScene(e, t)
    OBVIOUS
  <1>5. /\ e \in Runtime /\ e.origin = runtime.origin
        /\ SameScene(e, runtime) /\ SameManual(e, runtime) /\ SameDeadline(e, runtime)
        /\ e.manual_hold_active => runtime.manual_hold_active
        /\ runtime.manual_hold_active /\ ~e.manual_hold_active => t >= runtime.manual_hold_until
    BY <1>1, <1>3, ExpireFacts
  <1>6. t >= e.origin /\ (e.manual_hold_active => e.scene_index = e.manual_scene_index)
    BY <1>1, <1>5 DEF RuntimeInv, HoldShowsManual, SameScene, SameManual
  <1>7. /\ s \in Runtime /\ s.origin = e.origin
        /\ s.manual_hold_active = e.manual_hold_active
        /\ SameManual(s, e) /\ SameDeadline(s, e)
        /\ s.manual_hold_active => s.scene_index = s.manual_scene_index
        /\ \/ SameScene(s, e)
           \/ /\ s.scene_index # e.scene_index
              /\ ChangeAllowed(e, t)
              /\ s.had_change /\ s.last_change = t
    BY <1>4, <1>5, <1>6, SelectFacts
  <1>8. ChangeAllowed(e, t) => ChangeAllowed(runtime, t)
    BY <1>5 DEF ChangeAllowed, SameScene
  <1>9. \/ SameScene(s, runtime)
        \/ /\ s.scene_index # runtime.scene_index
           /\ ChangeAllowed(runtime, t)
           /\ s.had_change /\ s.last_change = t
    BY <1>5, <1>7, <1>8 DEF SameScene
  <1>10. SameManual(s, runtime) /\ SameDeadline(s, runtime) /\ s.origin = runtime.origin
    BY <1>5, <1>7 DEF SameManual, SameDeadline
  <1>11. CASE DeadlineExhausted(runtime, t)
    <2>1. runtime' = s /\ failed'
      BY <1>2, <1>3, <1>4, <1>11 DEF DoTick, Tick, TickFails
    <2> QED BY <1>5, <1>7, <1>9, <1>10, <1>11, <2>1 DEF HoldShowsManual
  <1>12. CASE ~DeadlineExhausted(runtime, t)
    <2>1. runtime' = Schedule(s, t) /\ ~failed'
      BY <1>2, <1>3, <1>4, <1>12 DEF DoTick, Tick, TickFails
    <2>2. ~DeadlineExhausted(s, t) /\ s.next_deadline <= t + FramePeriod
      BY <1>1, <1>10, <1>12 DEF DeadlineExhausted, SameDeadline
    <2>3. /\ runtime' \in Runtime
          /\ runtime'.origin = s.origin
          /\ runtime'.manual_hold_active = s.manual_hold_active
          /\ SameScene(runtime', s) /\ SameManual(runtime', s)
          /\ runtime'.sleep > 0 /\ runtime'.sleep <= FramePeriod
          /\ runtime'.next_deadline <= t + FramePeriod
          /\ \/ /\ runtime'.next_deadline = s.next_deadline
                /\ runtime'.dropped_deadlines = s.dropped_deadlines
             \/ /\ runtime'.next_deadline # s.next_deadline
                /\ \E k \in Nat :
                     /\ runtime'.dropped_deadlines = s.dropped_deadlines + k
                     /\ runtime'.next_deadline >= s.next_deadline + FramePeriod + FramePeriod * k
      BY <1>7, <2>1, <2>2, ScheduleFacts
    <2>4. HoldShowsManual' /\ SameManual(runtime', runtime)
      BY <1>7, <1>10, <2>3 DEF HoldShowsManual, SameScene, SameManual
    <2>5. \/ SameScene(runtime', runtime)
          \/ /\ runtime'.scene_index # runtime.scene_index
             /\ ChangeAllowed(runtime, t)
             /\ runtime'.had_change /\ runtime'.last_change = t
      BY <1>9, <2>3 DEF SameScene
    <2>6. s.next_deadline = runtime.next_deadline /\ s.dropped_deadlines = runtime.dropped_deadlines
      BY <1>10 DEF SameDeadline
    <2> QED BY <1>5, <1>7, <1>10, <1>12, <2>1, <2>3, <2>4, <2>5, <2>6
  <1> QED BY <1>11, <1>12

\* A tick keeps the invariant.
LEMMA RuntimeTick ==
    ASSUME RuntimeInv, NEW t \in Time, t >= clock, DoTick(t)
    PROVE  RuntimeInv'
  <1>1. /\ clock' = t /\ heldAt' = heldAt /\ heldFor' = heldFor
        /\ flipAt' = (IF runtime'.scene_index # runtime.scene_index THEN t ELSE flipAt)
        /\ met' = (IF runtime'.next_deadline # runtime.next_deadline THEN met + 1 ELSE met)
        /\ failed' \in BOOLEAN /\ ~failed
    BY DEF DoTick, ObserveFlip
  <1>2. runtime \in Runtime /\ clock \in Time /\ met \in Nat /\ heldAt \in Time /\ heldFor \in Time
        /\ flipAt \in Time \cup {Never} /\ heldAt <= clock
    BY DEF RuntimeInv, RuntimeTypeOK
  <1>3. runtime' \in Runtime
    BY RuntimeTickFacts
  <1>4. RuntimeTypeOK'
    BY <1>1, <1>2, <1>3 DEF RuntimeTypeOK
  <1>5. (runtime.origin <= clock)' /\ HoldShowsManual'
    BY <1>1, <1>2, RuntimeTickFacts DEF RuntimeInv, Time, Runtime
  <1>6. SleepBounded'
    BY RuntimeTickFacts DEF SleepBounded
  <1>7. DropsFitElapsed'
    <2>1. runtime.next_deadline >= runtime.origin + FramePeriod * (met + runtime.dropped_deadlines + 1)
      BY DEF RuntimeInv, DropsFitElapsed
    <2>2. CASE runtime'.next_deadline = runtime.next_deadline
      <3>1. runtime'.dropped_deadlines = runtime.dropped_deadlines /\ met' = met
            /\ runtime'.origin = runtime.origin
        BY <1>1, <2>2, RuntimeTickFacts DEF SameDeadline
      <3> QED BY <2>1, <2>2, <3>1 DEF DropsFitElapsed
    <2>3. CASE runtime'.next_deadline # runtime.next_deadline
      <3>1. PICK k \in Nat :
               /\ runtime'.dropped_deadlines = runtime.dropped_deadlines + k
               /\ runtime'.next_deadline >= runtime.next_deadline + FramePeriod + FramePeriod * k
        BY <2>3, RuntimeTickFacts DEF SameDeadline
      <3>2. met' = met + 1 /\ runtime'.origin = runtime.origin
        BY <1>1, <2>3, RuntimeTickFacts
      <3>3. /\ runtime.next_deadline \in Nat /\ runtime.origin \in Nat /\ runtime.dropped_deadlines \in Nat
            /\ runtime'.next_deadline \in Nat /\ FramePeriod \in Nat
        BY <1>2, <1>3, RuntimeAssumption DEF Runtime, Time
      <3>4. FramePeriod * (met + 1 + (runtime.dropped_deadlines + k) + 1) =
              FramePeriod * (met + runtime.dropped_deadlines + 1) + FramePeriod + FramePeriod * k
        <4>1. PICK d \in Nat, m \in Nat, p \in Nat :
                 d = runtime.dropped_deadlines /\ m = met /\ p = FramePeriod
          BY <1>2, <3>3
        <4>2. p * (m + 1 + (d + k) + 1) = p * (m + d + 1) + p + p * k
          BY <3>1, <4>1, CountPeriods
        <4> QED BY <4>1, <4>2
      <3>5. FramePeriod * (met + runtime.dropped_deadlines + 1) \in Nat /\ FramePeriod * k \in Nat
        BY <1>2, <3>3, SMT
      <3> QED BY <2>1, <3>1, <3>2, <3>3, <3>4, <3>5 DEF DropsFitElapsed
    <2> QED BY <2>2, <2>3
  <1>8. FailsOnlyAtEnd'
    <2>1. runtime'.next_deadline <= t + FramePeriod
      BY <1>2, RuntimeTickFacts, RuntimeAssumption
         DEF RuntimeInv, FailsOnlyAtEnd, SameDeadline, Runtime, Time
    <2>2. DeadlineExhausted(runtime, t) => t > TimeMax - FramePeriod
      BY <1>2, RuntimeAssumption DEF DeadlineExhausted, Runtime, Time
    <2> QED BY <1>1, <2>1, <2>2, RuntimeTickFacts DEF FailsOnlyAtEnd
  <1>9. (IF runtime.had_change THEN flipAt = runtime.last_change /\ flipAt <= clock
                          ELSE flipAt = Never)'
    <2>1. CASE SameScene(runtime', runtime)
      BY <1>1, <1>2, <2>1 DEF RuntimeInv, SameScene, Time, Never
    <2>2. CASE runtime'.scene_index # runtime.scene_index /\ runtime'.had_change /\ runtime'.last_change = t
      BY <1>1, <2>2 DEF Time
    <2> QED BY <2>1, <2>2, RuntimeTickFacts
  <1>10. (heldAt <= clock)'
    BY <1>1, <1>2 DEF Time
  <1>11. (runtime.manual_hold_active => runtime.manual_hold_until = AddSaturating(heldAt, heldFor))'
    BY <1>1, RuntimeTickFacts DEF RuntimeInv, SameManual
  <1> QED BY <1>4, <1>5, <1>6, <1>7, <1>8, <1>9, <1>10, <1>11 DEF RuntimeInv

\* A manual request, granted or not, keeps the invariant.
LEMMA RuntimeRequest ==
    ASSUME RuntimeInv, NEW t \in Time, t >= clock, NEW hold \in Time, NEW scene \in Scenes,
           ~failed, clock' = t, UNCHANGED <<failed, met>>, ObserveFlip, ObserveHold(t, hold),
           runtime' = IF ChangeAllowed(runtime, t) THEN TakeManual(runtime, scene, t, hold) ELSE runtime
    PROVE  /\ RuntimeInv'
           /\ runtime.manual_hold_active /\ ~runtime'.manual_hold_active => heldFor' = 0
           /\ runtime'.scene_index # runtime.scene_index => ChangeAllowed(runtime, t)
           /\ heldAt' <= clock'
  <1>1. runtime \in Runtime /\ clock \in Time /\ met \in Nat /\ heldAt \in Time /\ heldFor \in Time
        /\ flipAt \in Time \cup {Never} /\ heldAt <= clock /\ failed \in BOOLEAN
    BY DEF RuntimeInv, RuntimeTypeOK
  <1>2. CASE ~ChangeAllowed(runtime, t)
    <2>1. runtime' = runtime /\ heldAt' = heldAt /\ heldFor' = heldFor /\ flipAt' = flipAt
      BY <1>2 DEF ObserveFlip, ObserveHold
    <2> QED
      BY <1>1, <1>2, <2>1, RuntimeAssumption
         DEF RuntimeInv, RuntimeTypeOK, HoldShowsManual, SleepBounded, DropsFitElapsed,
             FailsOnlyAtEnd, Runtime, Time, Never
  <1>3. CASE ChangeAllowed(runtime, t)
    <2>1. runtime' = TakeManual(runtime, scene, t, hold) /\ heldAt' = t /\ heldFor' = hold
      BY <1>3 DEF ObserveHold
    <2>2. /\ runtime' \in Runtime
          /\ runtime'.origin = runtime.origin
          /\ SameDeadline(runtime', runtime)
          /\ runtime'.scene_index = runtime'.manual_scene_index
          /\ runtime'.manual_hold_active => runtime'.manual_hold_until = AddSaturating(t, hold)
          /\ ~runtime'.manual_hold_active => hold = 0
          /\ \/ SameScene(runtime', runtime)
             \/ /\ runtime'.scene_index # runtime.scene_index
                /\ runtime'.had_change /\ runtime'.last_change = t
      <3>1. runtime \in Runtime
        BY <1>1
      <3>2. PICK s : s = TakeManual(runtime, scene, t, hold)
        OBVIOUS
      <3>3. /\ s \in Runtime
            /\ s.origin = runtime.origin
            /\ SameDeadline(s, runtime)
            /\ s.scene_index = s.manual_scene_index
            /\ s.manual_hold_active => s.manual_hold_until = AddSaturating(t, hold)
            /\ ~s.manual_hold_active => hold = 0
            /\ \/ SameScene(s, runtime)
               \/ /\ s.scene_index # runtime.scene_index
                  /\ s.had_change /\ s.last_change = t
        BY <3>1, <3>2, ManualFacts
      <3> QED BY <2>1, <3>2, <3>3
    <2>3. flipAt' = IF runtime'.scene_index # runtime.scene_index THEN t ELSE flipAt
      BY DEF ObserveFlip
    <2>4. RuntimeTypeOK'
      BY <1>1, <2>1, <2>2, <2>3 DEF RuntimeTypeOK
    <2>5. (IF runtime.had_change THEN flipAt = runtime.last_change /\ flipAt <= clock
                            ELSE flipAt = Never)'
      BY <1>1, <2>2, <2>3 DEF RuntimeInv, SameScene, Time, Never
    <2>6. HoldShowsManual' /\ SleepBounded' /\ DropsFitElapsed'
      BY <2>2 DEF RuntimeInv, HoldShowsManual, SleepBounded, DropsFitElapsed, SameDeadline
    <2>7. FailsOnlyAtEnd' /\ (runtime.origin <= clock)'
      BY <1>1, <2>2, RuntimeAssumption
         DEF RuntimeInv, FailsOnlyAtEnd, SameDeadline, Runtime, Time
    <2> QED BY <1>1, <1>3, <2>1, <2>2, <2>4, <2>5, <2>6, <2>7 DEF RuntimeInv, Time
  <1> QED BY <1>2, <1>3

\* Every call keeps the invariant.
LEMMA RuntimeStep == RuntimeInv /\ [RuntimeNext]_runtimeVars => RuntimeInv'
  <1> SUFFICES ASSUME RuntimeInv, [RuntimeNext]_runtimeVars PROVE RuntimeInv'
    OBVIOUS
  <1>1. ASSUME NEW t \in clock .. TimeMax, DoTick(t) PROVE RuntimeInv'
    <2>1. t \in Time /\ t >= clock
      BY RuntimeAssumption DEF RuntimeInv, RuntimeTypeOK, Time
    <2> QED BY <1>1, <2>1, RuntimeTick
  <1>2. ASSUME NEW t \in clock .. TimeMax, NEW hold \in Holds,
               DoRequestNext(t, hold) \/ DoRequestPrevious(t, hold)
        PROVE  RuntimeInv'
    <2>1. t \in Time /\ t >= clock /\ hold \in Time /\ runtime \in Runtime /\ t >= runtime.origin
      BY RuntimeAssumption, CallsAssumption DEF RuntimeInv, RuntimeTypeOK, Time, Runtime
    <2>2. NextScene(runtime) \in Scenes /\ PreviousScene(runtime) \in Scenes
      BY <2>1, SceneRange
    <2>3. CASE DoRequestNext(t, hold)
      BY <2>1, <2>2, <2>3, RuntimeRequest DEF DoRequestNext, RequestNext
    <2>4. CASE DoRequestPrevious(t, hold)
      BY <2>1, <2>2, <2>4, RuntimeRequest DEF DoRequestPrevious, RequestPrevious
    <2> QED BY <1>2, <2>3, <2>4
  <1>3. CASE UNCHANGED runtimeVars
    BY <1>3 DEF runtimeVars, RuntimeInv, RuntimeTypeOK, HoldShowsManual, SleepBounded, DropsFitElapsed,
                FailsOnlyAtEnd
  <1> QED BY <1>1, <1>2, <1>3 DEF RuntimeNext

\* The inductive invariant holds in every reachable state.
THEOREM RuntimeInvariant == RuntimeSpec => []RuntimeInv
  BY RuntimeStarts, RuntimeStep, PTL DEF RuntimeSpec

-----------------------------------------------------------------------------
(* The properties *)

\* Type correctness: scenes, times and counters stay in range.
THEOREM RuntimeTypeCorrect == RuntimeSpec => []RuntimeTypeOK
  <1>1. RuntimeInv => RuntimeTypeOK
    BY DEF RuntimeInv
  <1> QED BY <1>1, RuntimeInvariant, PTL

\* A hold always shows the scene the user picked.
THEOREM HoldIsHonoured == RuntimeSpec => []HoldShowsManual
  <1>1. RuntimeInv => HoldShowsManual
    BY DEF RuntimeInv
  <1> QED BY <1>1, RuntimeInvariant, PTL

\* The main loop sleeps between one nanosecond and one frame period.
THEOREM SleepIsBounded == RuntimeSpec => []SleepBounded
  <1>1. RuntimeInv => SleepBounded
    BY DEF RuntimeInv
  <1> QED BY <1>1, RuntimeInvariant, PTL

\* No deadline is both met and counted as dropped.
THEOREM DropsAreExact == RuntimeSpec => []DropsFitElapsed
  <1>1. RuntimeInv => DropsFitElapsed
    BY DEF RuntimeInv
  <1> QED BY <1>1, RuntimeInvariant, PTL

\* The runtime only gives up in the last frame before the clock overflows.
THEOREM FailureOnlyAtEnd == RuntimeSpec => []FailsOnlyAtEnd
  <1>1. RuntimeInv => FailsOnlyAtEnd
    BY DEF RuntimeInv
  <1> QED BY <1>1, RuntimeInvariant, PTL

\* The guard and the observed time of the last change agree.
LEMMA GuardSpaces ==
    ASSUME RuntimeInv, NEW t \in Time, t >= clock, ChangeAllowed(runtime, t), flipAt # Never
    PROVE  t - flipAt >= MinChange
  BY RuntimeAssumption DEF RuntimeInv, RuntimeTypeOK, ChangeAllowed, Runtime, Time

\* The photosensitivity guard, for every cooldown and every sequence of ticks
\* and requests: two scene changes are at least min_change_ns apart.
THEOREM ChangesAreSpaced == RuntimeSpec => ChangesSpaced
  <1>1. ASSUME RuntimeInv, RuntimeNext, runtime'.scene_index # runtime.scene_index, flipAt # Never
        PROVE  clock' - flipAt >= MinChange
    <2>1. PICK t \in clock .. TimeMax :
             \/ DoTick(t)
             \/ \E hold \in Holds : DoRequestNext(t, hold) \/ DoRequestPrevious(t, hold)
      BY <1>1 DEF RuntimeNext
    <2>2. t \in Time /\ t >= clock
      BY <1>1, <2>1, RuntimeAssumption DEF RuntimeInv, RuntimeTypeOK, Time
    <2>3. clock' = t
      BY <2>1 DEF DoTick, DoRequestNext, DoRequestPrevious
    <2>4. ChangeAllowed(runtime, t)
      <3>1. CASE DoTick(t)
        BY <1>1, <2>2, <3>1, RuntimeTickFacts DEF SameScene
      <3>2. CASE \E hold \in Holds : DoRequestNext(t, hold) \/ DoRequestPrevious(t, hold)
        BY <1>1, <3>2
           DEF DoRequestNext, DoRequestPrevious, RequestNext, RequestPrevious
      <3> QED BY <2>1, <3>1, <3>2
    <2> QED BY <1>1, <2>2, <2>3, <2>4, GuardSpaces
  <1>2. RuntimeInv /\ [RuntimeNext]_runtimeVars =>
          [runtime'.scene_index # runtime.scene_index /\ flipAt # Never =>
             clock' - flipAt >= MinChange]_runtimeVars
    BY <1>1
  <1> QED BY <1>2, RuntimeInvariant, PTL DEF RuntimeSpec, ChangesSpaced

\* A clock reading that is not before another one is a natural distance from it.
LEMMA NonNegativeGap == \A a, b \in Nat : a <= b => b - a >= 0
  OBVIOUS

\* A hold is never cut short by a tick, even where its end would overflow.
THEOREM HoldsLast == RuntimeSpec => HoldLasts
  <1>1. ASSUME RuntimeInv, RuntimeNext, runtime.manual_hold_active, ~runtime'.manual_hold_active
        PROVE  clock' - heldAt' >= heldFor' \/ clock' = TimeMax
    <2>1. PICK t \in clock .. TimeMax :
             \/ DoTick(t)
             \/ \E hold \in Holds : DoRequestNext(t, hold) \/ DoRequestPrevious(t, hold)
      BY <1>1 DEF RuntimeNext
    <2>2. t \in Time /\ t >= clock
      BY <1>1, <2>1, RuntimeAssumption DEF RuntimeInv, RuntimeTypeOK, Time
    <2>3. CASE DoTick(t)
      <3>1. t >= runtime.manual_hold_until /\ clock' = t /\ heldAt' = heldAt /\ heldFor' = heldFor
        BY <1>1, <2>2, <2>3, RuntimeTickFacts DEF DoTick
      <3>2. runtime.manual_hold_until = AddSaturating(heldAt, heldFor)
        BY <1>1 DEF RuntimeInv
      <3>3. heldAt \in Time /\ heldFor \in Time
        BY <1>1 DEF RuntimeInv, RuntimeTypeOK
      <3>4. runtime.manual_hold_until = TimeMax \/ runtime.manual_hold_until = heldAt + heldFor
        BY <3>2, <3>3, SaturatingSum
      <3> QED BY <2>2, <3>1, <3>3, <3>4, RuntimeAssumption DEF Time
    <2>4. ASSUME NEW hold \in Holds, DoRequestNext(t, hold) \/ DoRequestPrevious(t, hold)
          PROVE  clock' - heldAt' >= heldFor'
      <3>1. hold \in Time /\ runtime \in Runtime /\ t >= runtime.origin
        BY <1>1, <2>2, CallsAssumption, RuntimeAssumption
           DEF RuntimeInv, RuntimeTypeOK, Time, Runtime
      <3>2. NextScene(runtime) \in Scenes /\ PreviousScene(runtime) \in Scenes
        BY <2>2, <3>1, SceneRange
      <3>3. CASE DoRequestNext(t, hold)
        <4>1. heldFor' = 0 /\ heldAt' <= clock' /\ RuntimeInv'
          BY <1>1, <2>2, <3>1, <3>2, <3>3, RuntimeRequest DEF DoRequestNext, RequestNext
        <4>2. clock' \in Nat /\ heldAt' \in Nat
          BY <4>1, RuntimeAssumption DEF RuntimeInv, RuntimeTypeOK, Time
        <4>3. clock' - heldAt' >= 0
          BY <4>1, <4>2, NonNegativeGap
        <4> QED BY <4>1, <4>3
      <3>4. CASE DoRequestPrevious(t, hold)
        <4>1. heldFor' = 0 /\ heldAt' <= clock' /\ RuntimeInv'
          BY <1>1, <2>2, <3>1, <3>2, <3>4, RuntimeRequest DEF DoRequestPrevious, RequestPrevious
        <4>2. clock' \in Nat /\ heldAt' \in Nat
          BY <4>1, RuntimeAssumption DEF RuntimeInv, RuntimeTypeOK, Time
        <4>3. clock' - heldAt' >= 0
          BY <4>1, <4>2, NonNegativeGap
        <4> QED BY <4>1, <4>3
      <3> QED BY <2>4, <3>3, <3>4
    <2> QED BY <2>1, <2>3, <2>4
  <1>2. RuntimeInv /\ [RuntimeNext]_runtimeVars =>
          [runtime.manual_hold_active /\ ~runtime'.manual_hold_active =>
              clock' - heldAt' >= heldFor' \/ clock' = TimeMax]_runtimeVars
    BY <1>1
  <1> QED BY <1>2, RuntimeInvariant, PTL DEF RuntimeSpec, HoldLasts

-----------------------------------------------------------------------------
(* What the calls into the runtime return to the loop *)

\* What main() relies on whenever it calls the runtime at time t.
InStep(r, t) ==
    /\ r.origin <= t /\ r.last_change <= t
    /\ r.next_deadline <= t + FramePeriod
    /\ r.manual_hold_active => r.scene_index = r.manual_scene_index

\* The scene stays, or the guard allowed the change and it is recorded.
Chosen(s, r, t) ==
    \/ /\ s.scene_index = r.scene_index
       /\ s.last_change = r.last_change
       /\ s.had_change = r.had_change
    \/ /\ s.scene_index # r.scene_index
       /\ ChangeAllowed(r, t)
       /\ s.had_change /\ s.last_change = t

SameClock(s, r) ==
    /\ s.origin = r.origin
    /\ s.next_deadline = r.next_deadline
    /\ s.sleep = r.sleep

\* The first half of a tick chooses a scene and leaves the deadline alone.
LEMMA ChoiceOfTick ==
    ASSUME NEW r \in Runtime, NEW t \in Time, InStep(r, t),
           NEW s, s = SelectScene(ExpireHold(r, t), t)
    PROVE  s \in Runtime /\ SameClock(s, r) /\ Chosen(s, r, t) /\ InStep(s, t)
  <1> DEFINE e == ExpireHold(r, t)
  <1>1. t - r.origin \in Nat
    BY RuntimeAssumption DEF Runtime, Time, InStep
  <1>2. (t - r.origin) \div FramePeriod \in Nat
    BY <1>1, RuntimeAssumption, DivFacts
  <1>3. /\ e \in Runtime /\ SameClock(e, r)
        /\ e.scene_index = r.scene_index /\ e.last_change = r.last_change
        /\ e.had_change = r.had_change /\ e.manual_scene_index = r.manual_scene_index
        /\ e.manual_hold_active => r.manual_hold_active
    BY <1>2 DEF ExpireHold, Runtime, SameClock
  <1>4. s = SelectScene(e, t)
    OBVIOUS
  <1> HIDE DEF e
  <1>5. InStep(e, t) /\ (ChangeAllowed(e, t) <=> ChangeAllowed(r, t))
    BY <1>3 DEF InStep, SameClock, ChangeAllowed
  <1>6. Automatic(e, t) \in Scenes
    BY <1>3, <1>5, SceneRange DEF InStep
  <1>7. /\ s \in Runtime /\ SameClock(s, e) /\ Chosen(s, e, t)
        /\ s.manual_hold_active => s.scene_index = s.manual_scene_index
    BY <1>3, <1>4, <1>5, <1>6 DEF SelectScene, RecordChange, Runtime, SameClock, Chosen, InStep
  <1>8. SameClock(s, r) /\ Chosen(s, r, t)
    BY <1>3, <1>5, <1>7 DEF SameClock, Chosen
  <1>9. s.last_change <= t
    BY <1>3, <1>5, <1>7 DEF Chosen, InStep, Time
  <1> QED BY <1>7, <1>8, <1>9 DEF InStep, SameClock

\* The second half leaves the choice alone and sets a deadline ahead.
LEMMA DeadlineOfTick ==
    ASSUME NEW r \in Runtime, NEW t \in Time, InStep(r, t), ~DeadlineExhausted(r, t),
           NEW s, s = Schedule(r, t)
    PROVE  /\ s \in Runtime /\ InStep(s, t)
           /\ s.scene_index = r.scene_index /\ s.last_change = r.last_change
           /\ s.had_change = r.had_change
           /\ r.next_deadline <= s.next_deadline
           /\ t < s.next_deadline /\ t + s.sleep = s.next_deadline
           /\ t >= r.next_deadline => r.next_deadline + FramePeriod <= s.next_deadline
           /\ t < r.next_deadline => s.next_deadline = r.next_deadline
           /\ t < r.next_deadline + FramePeriod => s.next_deadline <= r.next_deadline + FramePeriod
  <1> DEFINE late == t - r.next_deadline
             next == r.next_deadline + FramePeriod
  <1>1. r.next_deadline \in Time /\ r.dropped_deadlines \in Nat /\ t \in Nat
        /\ r.next_deadline \in Nat /\ FramePeriod \in Nat \ {0}
    BY RuntimeAssumption DEF Runtime, Time
  <1>2. \E d \in Time, k \in Nat, z \in Time :
           /\ s = SetDeadline(r, d, k, z)
           /\ r.next_deadline <= d /\ t < d /\ t + z = d /\ d <= t + FramePeriod
           /\ t >= r.next_deadline => next <= d
           /\ t < r.next_deadline => d = r.next_deadline
           /\ t < next => d <= next
    <2>1. CASE t < r.next_deadline
      <3>1. r.next_deadline - t \in Time
        BY <1>1, <2>1, RuntimeAssumption DEF Time
      <3>2. s = SetDeadline(r, r.next_deadline, 0, r.next_deadline - t)
        BY <2>1 DEF Schedule
      <3> QED BY <1>1, <2>1, <3>1, <3>2 DEF InStep
    <2>2. CASE t >= r.next_deadline /\ late < FramePeriod
      <3>1. next \in Time /\ next - t \in Time
        BY <1>1, <2>2, RuntimeAssumption DEF DeadlineExhausted, Time
      <3>2. s = SetDeadline(r, next, 0, next - t)
        BY <1>1, <2>2 DEF Schedule
      <3> QED BY <1>1, <2>2, <3>1, <3>2
    <2>3. CASE t >= r.next_deadline /\ late >= FramePeriod
      <3>1. t + FramePeriod \in Time /\ FramePeriod \in Time
        BY <1>1, <2>3, RuntimeAssumption DEF DeadlineExhausted, Time
      <3>2. late \div FramePeriod \in Nat
        BY <1>1, <2>3, DivFacts
      <3>3. s = SetDeadline(r, t + FramePeriod, late \div FramePeriod, FramePeriod)
        BY <1>1, <2>3 DEF Schedule
      <3>4. /\ r.next_deadline <= t + FramePeriod /\ t < t + FramePeriod
            /\ t + FramePeriod <= t + FramePeriod /\ next <= t + FramePeriod
            /\ ~(t < r.next_deadline) /\ ~(t < next) /\ t + FramePeriod = t + FramePeriod
        BY <1>1, <2>3
      <3> HIDE DEF next, late
      <3> QED BY <3>1, <3>2, <3>3, <3>4
    <2> QED BY <1>1, <2>1, <2>2, <2>3
  <1>3. PICK d \in Time, k \in Nat, z \in Time :
           /\ s = SetDeadline(r, d, k, z)
           /\ r.next_deadline <= d /\ t < d /\ t + z = d /\ d <= t + FramePeriod
           /\ t >= r.next_deadline => next <= d
           /\ t < r.next_deadline => d = r.next_deadline
           /\ t < next => d <= next
    BY <1>2
  <1>4. r.dropped_deadlines + k \in Nat
    BY <1>1
  <1>5. /\ s \in Runtime /\ s.origin = r.origin /\ s.next_deadline = d /\ s.sleep = z
        /\ s.scene_index = r.scene_index /\ s.manual_scene_index = r.manual_scene_index
        /\ s.manual_hold_active = r.manual_hold_active
        /\ s.last_change = r.last_change /\ s.had_change = r.had_change
    BY <1>3, <1>4 DEF SetDeadline, Runtime
  <1> QED BY <1>3, <1>5 DEF InStep

\* cart_runtime_tick as the loop sees it.
LEMMA TickResult ==
    ASSUME NEW r \in Runtime, NEW t \in Time, InStep(r, t), NEW s, s = Tick(r, t)
    PROVE  /\ s \in Runtime /\ InStep(s, t) /\ Chosen(s, r, t)
           /\ r.next_deadline <= s.next_deadline
           /\ t < r.next_deadline => s.next_deadline = r.next_deadline
           /\ t < r.next_deadline + FramePeriod => s.next_deadline <= r.next_deadline + FramePeriod
           /\ ~TickFails(r, t) =>
                /\ t < s.next_deadline /\ t + s.sleep = s.next_deadline
                /\ t >= r.next_deadline => r.next_deadline + FramePeriod <= s.next_deadline
  <1> DEFINE c == SelectScene(ExpireHold(r, t), t)
  <1>1. Clamped(r, t) = t
    BY RuntimeAssumption DEF Clamped, InStep, Runtime, Time
  <1>2. c \in Runtime /\ SameClock(c, r) /\ Chosen(c, r, t) /\ InStep(c, t)
    BY ChoiceOfTick
  <1>3. s = IF DeadlineExhausted(r, t) THEN c ELSE Schedule(c, t)
    BY <1>1 DEF Tick
  <1>4. TickFails(r, t) <=> DeadlineExhausted(r, t)
    BY <1>1 DEF TickFails
  <1> HIDE DEF c
  <1>5. DeadlineExhausted(c, t) <=> DeadlineExhausted(r, t)
    BY <1>2 DEF DeadlineExhausted, SameClock
  <1>6. r.next_deadline \in Nat /\ FramePeriod \in Nat
    BY RuntimeAssumption DEF Runtime, Time
  <1>7. CASE DeadlineExhausted(r, t)
    BY <1>2, <1>3, <1>4, <1>6, <1>7 DEF SameClock
  <1>8. CASE ~DeadlineExhausted(r, t)
    <2>1. /\ s \in Runtime /\ InStep(s, t)
          /\ s.scene_index = c.scene_index /\ s.last_change = c.last_change
          /\ s.had_change = c.had_change
          /\ c.next_deadline <= s.next_deadline
          /\ t < s.next_deadline /\ t + s.sleep = s.next_deadline
          /\ t >= c.next_deadline => c.next_deadline + FramePeriod <= s.next_deadline
          /\ t < c.next_deadline => s.next_deadline = c.next_deadline
          /\ t < c.next_deadline + FramePeriod => s.next_deadline <= c.next_deadline + FramePeriod
      BY <1>2, <1>3, <1>5, <1>8, DeadlineOfTick
    <2> QED BY <1>2, <2>1 DEF SameClock, Chosen
  <1> QED BY <1>7, <1>8

\* A request as the loop sees it.
LEMMA RequestResult ==
    ASSUME NEW r \in Runtime, NEW t \in Time, InStep(r, t), NEW h \in Time, NEW s,
           s = RequestNext(r, t, h) \/ s = RequestPrevious(r, t, h)
    PROVE  s \in Runtime /\ SameClock(s, r) /\ Chosen(s, r, t) /\ InStep(s, t)
  <1>1. AddSaturating(t, h) \in Time
    BY RuntimeAssumption DEF AddSaturating, Time
  <1>2. NextScene(r) \in Scenes /\ PreviousScene(r) \in Scenes
    BY SceneRange DEF InStep
  <1>3. \/ s = r
        \/ ChangeAllowed(r, t) /\ \E scene \in Scenes : s = TakeManual(r, scene, t, h)
    BY <1>2 DEF RequestNext, RequestPrevious
  <1>4. CASE s = r
    BY <1>4 DEF SameClock, Chosen
  <1>5. ASSUME ChangeAllowed(r, t), NEW scene \in Scenes, s = TakeManual(r, scene, t, h)
        PROVE  /\ s \in Runtime /\ SameClock(s, r) /\ Chosen(s, r, t)
               /\ s.scene_index = s.manual_scene_index
    BY <1>1, <1>5 DEF TakeManual, RecordChange, Runtime, SameClock, Chosen
  <1>6. CASE ChangeAllowed(r, t) /\ \E scene \in Scenes : s = TakeManual(r, scene, t, h)
    <2>1. s \in Runtime /\ SameClock(s, r) /\ Chosen(s, r, t) /\ s.scene_index = s.manual_scene_index
      BY <1>5, <1>6
    <2>2. s.last_change <= t
      BY <2>1 DEF Chosen, InStep, Time
    <2> QED BY <2>1, <2>2 DEF InStep, SameClock
  <1> QED BY <1>3, <1>4, <1>6

\* After a request for the next scene the cooldown runs, whether it was granted
\* or refused.
LEMMA RequestCools ==
    ASSUME NEW r \in Runtime, NEW t \in Time, NEW h \in Time, MinChange > 0, SceneCount > 1,
           NEW s, s = RequestNext(r, t, h)
    PROVE  ~ChangeAllowed(s, t)
  <1>1. CASE ~ChangeAllowed(r, t)
    BY <1>1 DEF RequestNext
  <1>2. CASE ChangeAllowed(r, t)
    <2>1. r.scene_index \in 0 .. SceneCount - 1 /\ SceneCount \in Nat
      BY RuntimeAssumption DEF Runtime, Scenes
    <2>2. (r.scene_index + 1) % SceneCount # r.scene_index
      <3>1. CASE r.scene_index + 1 < SceneCount
        BY <2>1, <3>1, SMT
      <3>2. CASE r.scene_index + 1 = SceneCount
        BY <2>1, <3>2, SMT
      <3> QED BY <2>1, <3>1, <3>2
    <2>3. NextScene(r) # r.scene_index
      BY <2>2 DEF NextScene
    <2>4. s.had_change /\ s.last_change = t
      BY <1>2, <2>3 DEF RequestNext, TakeManual, RecordChange, Runtime
    <2>5. t - t = 0
      BY RuntimeAssumption DEF Time
    <2> QED BY <2>4, <2>5, RuntimeAssumption DEF ChangeAllowed
  <1> QED BY <1>1, <1>2

-----------------------------------------------------------------------------
(* The inductive invariant *)

\* The bound on the lag follows from the ledger, since a fade in flight has
\* fewer than FadeFrames steps behind it.
LEMMA LagFollows == TypeOK /\ LagLedger => LagBounded
  <1> SUFFICES ASSUME TypeOK, LagLedger PROVE LagBounded
    OBVIOUS
  <1>1. lag \in Nat /\ FadeFrames \in Nat \ {0} /\ transition.elapsed_frames \in Nat
        /\ (transition.active => transition.elapsed_frames < FadeFrames)
    BY LoopAssumption DEF TypeOK
  <1> QED BY <1>1 DEF LagLedger, LagBounded

LEMMA Assemble ==
    TypeOK /\ ClockKept /\ PictureKept /\ LagLedger /\ PaceKept /\ CooldownRuns /\ SettledInTime
      => LoopInv
  BY LagFollows DEF LoopInv

LEMMA AssembleNext ==
    (TypeOK /\ ClockKept /\ PictureKept /\ LagLedger /\ PaceKept /\ CooldownRuns /\ SettledInTime
      => LoopInv)'
  BY Assemble, PTL

\* The products of the pace: e frames of a fade of FadeFrames.
LEMMA Frames ==
    ASSUME NEW e \in Nat
    PROVE  /\ e * FramePeriod \in Nat
           /\ (e + 1) * FramePeriod = e * FramePeriod + FramePeriod
           /\ e < FadeFrames => (e + 1) * FramePeriod <= FadeFrames * FramePeriod
  <1>1. FramePeriod \in Nat /\ FadeFrames \in Nat
    BY RuntimeAssumption, LoopAssumption
  <1>2. e * FramePeriod \in Nat /\ (e + 1) * FramePeriod = e * FramePeriod + FramePeriod
    BY <1>1, SMT
  <1>3. ASSUME e < FadeFrames PROVE (e + 1) * FramePeriod <= FadeFrames * FramePeriod
    <2>1. FadeFrames - (e + 1) \in Nat
      BY <1>1, <1>3
    <2>2. (FadeFrames - (e + 1)) * FramePeriod \in Nat
      BY <1>1, <2>1, SMT
    <2>3. FadeFrames * FramePeriod = (e + 1) * FramePeriod + (FadeFrames - (e + 1)) * FramePeriod
      BY <1>1, SMT
    <2>4. (e + 1) * FramePeriod \in Nat
      BY <1>1, SMT
    <2> QED BY <2>2, <2>3, <2>4
  <1> QED BY <1>2, <1>3

LEMMA LoopInit == Init => LoopInv
  <1> SUFFICES ASSUME Init PROVE LoopInv
    OBVIOUS
  <1>1. now \in Time /\ FramePeriod \in Time /\ FramePeriod \in Nat /\ 0 \in Time /\ 0 \in Scenes
        /\ TimeMax \in Nat /\ FadeFrames \in Nat \ {0}
    BY RuntimeAssumption, LoopAssumption DEF Init, Time, Scenes
  <1>2. /\ rt \in Runtime
        /\ rt.origin = 0 /\ rt.last_change = 0 /\ rt.next_deadline = FramePeriod
        /\ rt.manual_hold_active = FALSE /\ rt.scene_index = 0
    BY <1>1 DEF Init, NewRuntime, Runtime, Time
  <1>3. TypeOK
    <2>1. /\ transition \in [from_scene : Scenes, to_scene : Scenes,
                            elapsed_frames : 0 .. FadeFrames,
                            active : BOOLEAN, sources_ready : BOOLEAN]
          /\ ~transition.active
      BY <1>1 DEF Init, Idle
    <2>2. fade \in [at : Time, cut : BOOLEAN, uneven : BOOLEAN]
      BY <1>1 DEF Init
    <2>3. usr1 \in 0 .. MaxUsr1 /\ buffers \in [from : Scenes, to : Scenes]
      BY <1>1, LoopAssumption DEF Init
    <2> QED BY <1>1, <1>2, <2>1, <2>2, <2>3 DEF Init, TypeOK
  <1>4. ClockKept
    BY <1>1, <1>2 DEF Init, ClockKept, Drawing, Time
  <1>5. PictureKept /\ PaceKept /\ CooldownRuns
    BY DEF Init, PictureKept, PaceKept, CooldownRuns, Idle
  <1>6. LagLedger
    BY <1>1 DEF Init, LagLedger, Idle
  <1>7. SettledInTime
    BY <1>2 DEF Init, SettledInTime, Unsettled, Idle, NewRuntime
  <1> QED BY <1>3, <1>4, <1>5, <1>6, <1>7, Assemble

\* A step that only leaves the loop, or goes on with the setup.
LEMMA QuietStep ==
    ASSUME LoopInv, UNCHANGED <<usr1, loopVars>>, held' \subseteq Resources,
           pc' \in {"shutdown", "exited"} \/ (pc \in Setup /\ pc' \in Setup)
    PROVE  LoopInv'
  <1>1. UNCHANGED <<rt, now, running, next_scene_requested, transition, buffers,
                    displayed_scene, shown, lag, fade, usr1>>
    BY DEF loopVars
  <1>2. TypeOK'
    BY <1>1 DEF LoopInv, TypeOK, Setup
  <1>3. ClockKept'
    BY <1>1 DEF LoopInv, ClockKept, Setup, Drawing
  <1>4. PictureKept'
    BY <1>1 DEF LoopInv, PictureKept, Setup
  <1>5. LagLedger'
    BY <1>1 DEF LoopInv, LagLedger
  <1>6. PaceKept' /\ CooldownRuns'
    BY <1>1 DEF LoopInv, PaceKept, CooldownRuns, Setup, Drawing
  <1>7. SettledInTime'
    BY <1>1 DEF LoopInv, SettledInTime, Unsettled, Setup, Drawing
  <1> QED BY <1>2, <1>3, <1>4, <1>5, <1>6, <1>7, AssembleNext

\* Before the first frame there is no fade.
LEMMA NoFadeInSetup ==
    ASSUME LoopInv, pc \in Setup
    PROVE  ~transition.active /\ shown = Console
  <1>1. SceneCount \notin Scenes
    BY RuntimeAssumption DEF Scenes
  <1>2. transition.from_scene \in Scenes
    BY DEF LoopInv, TypeOK
  <1>3. shown = Console
    BY DEF LoopInv, PictureKept
  <1> QED BY <1>1, <1>2, <1>3 DEF LoopInv, PictureKept, Console

LEMMA OriginStep ==
    ASSUME LoopInv, ReadOrigin
    PROVE  LoopInv'
  <1>1. CASE SetupFails("clock", {})
    BY <1>1, QuietStep DEF SetupFails
  <1>2. ASSUME NEW d \in Elapsed, pc = "clock", now + d <= TimeMax, now' = now + d, pc' = "pool",
               UNCHANGED <<held, usr1, rt, running, next_scene_requested, transition,
                           buffers, displayed_scene, shown, lag, fade>>
        PROVE  LoopInv'
    <2>1. d \in Nat /\ now \in Nat /\ now' \in Time /\ now <= now' /\ FramePeriod \in Nat
      BY <1>2, LoopAssumption, RuntimeAssumption DEF LoopInv, TypeOK, Time
    <2>2. rt.origin \in Nat /\ rt.last_change \in Nat /\ rt.next_deadline \in Nat
      BY RuntimeAssumption DEF LoopInv, TypeOK, Runtime, Time
    <2>3. ~transition.active /\ shown = Console
      BY <1>2, NoFadeInSetup DEF Setup
    <2>4. TypeOK'
      BY <1>2, <2>1 DEF LoopInv, TypeOK
    <2>5. ClockKept'
      BY <1>2, <2>1, <2>2 DEF LoopInv, ClockKept, Drawing
    <2>6. PictureKept' /\ LagLedger'
      BY <1>2, <2>3 DEF LoopInv, PictureKept, LagLedger
    <2>7. PaceKept' /\ CooldownRuns'
      BY <1>2 DEF PaceKept, CooldownRuns, Drawing
    <2>8. SettledInTime'
      BY <1>2 DEF LoopInv, SettledInTime, Unsettled, Drawing
    <2> QED BY <2>4, <2>5, <2>6, <2>7, <2>8, AssembleNext
  <1> QED BY <1>1, <1>2 DEF ReadOrigin

LEMMA InitRuntimeStep ==
    ASSUME LoopInv, InitRuntime
    PROVE  LoopInv'
  <1>1. CASE SetupFails("runtime", {"pool"})
    BY <1>1, QuietStep DEF SetupFails, Resources
  <1>2. CASE /\ pc = "runtime" /\ OriginAccepted(now)
             /\ rt' = NewRuntime(now) /\ displayed_scene' = 0 /\ transition' = Idle
             /\ pc' = "loop"
             /\ UNCHANGED <<held, now, running, next_scene_requested, buffers, shown, usr1, lag, fade>>
    <2>1. /\ now \in Time /\ now \in Nat /\ FramePeriod \in Time /\ FramePeriod \in Nat
          /\ 0 \in Time /\ 0 \in Scenes /\ FadeFrames \in Nat \ {0} /\ now + FramePeriod \in Time
      BY <1>2, RuntimeAssumption, LoopAssumption
         DEF LoopInv, TypeOK, Time, Scenes, OriginAccepted
    <2>2. /\ rt' \in Runtime
          /\ rt'.origin = now /\ rt'.last_change = 0 /\ rt'.next_deadline = now + FramePeriod
          /\ rt'.manual_hold_active = FALSE /\ rt'.scene_index = 0
      BY <1>2, <2>1 DEF NewRuntime, Runtime
    <2>3. ~transition.active /\ shown = Console
      BY <1>2, NoFadeInSetup DEF Setup
    <2>4. ~transition'.active /\ shown' = Console
      BY <1>2, <2>3 DEF Idle
    <2>5. TypeOK'
      BY <1>2, <2>1, <2>2 DEF LoopInv, TypeOK, Idle
    <2>6. ClockKept'
      BY <1>2, <2>1, <2>2 DEF ClockKept, Drawing
    <2>7. PictureKept' /\ PaceKept' /\ CooldownRuns'
      BY <1>2, <2>4 DEF PictureKept, PaceKept, CooldownRuns, Setup
    <2>8. LagLedger'
      BY <1>2, <2>3, <2>4 DEF LoopInv, LagLedger
    <2>9. SettledInTime'
      BY <1>2, <2>2, <2>4 DEF SettledInTime, Unsettled
    <2> QED BY <2>5, <2>6, <2>7, <2>8, <2>9, AssembleNext
  <1> QED BY <1>1, <1>2 DEF InitRuntime

-----------------------------------------------------------------------------
(* Ticks and requests *)

\* A new choice starts the count of lagging frames again.
LEMMA LagStep ==
    ASSUME LoopInv, ObserveLag, UNCHANGED transition
    PROVE  lag' \in Nat /\ LagLedger'
  <1>1. lag \in Nat /\ FadeFrames \in Nat \ {0} /\ transition.elapsed_frames \in Nat
    BY LoopAssumption DEF LoopInv, TypeOK
  <1>2. transition.active => transition.elapsed_frames >= 1
    BY DEF LoopInv, PictureKept
  <1>3. CASE rt'.scene_index # rt.scene_index
    <2>1. lag' = 0
      BY <1>3 DEF ObserveLag
    <2> QED BY <1>1, <1>2, <2>1 DEF LagLedger
  <1>4. CASE rt'.scene_index = rt.scene_index
    <2>1. lag' = lag
      BY <1>4 DEF ObserveLag
    <2> QED BY <1>1, <1>4, <2>1 DEF LoopInv, LagLedger
  <1> QED BY <1>3, <1>4

\* The three ways from one clock reading to the next: a request, the tick before
\* and the tick after the frame.
Requested == /\ pc \in Drawing /\ pc' \in Drawing /\ now' = now
             /\ rt'.next_deadline = rt.next_deadline
TickedBefore == /\ pc = "loop" /\ pc' \in Drawing \cup {"shutdown"}
                /\ ~fade'.uneven => now' <= rt.next_deadline + Jitter
                /\ now' < rt.next_deadline + FramePeriod =>
                      rt'.next_deadline <= rt.next_deadline + FramePeriod
TickedAfter == /\ pc = "after" /\ pc' \in {"sleep", "shutdown"}
               /\ ~fade'.uneven => now + Jitter <= now' /\ now' < rt.next_deadline
               /\ now' < rt.next_deadline => rt'.next_deadline = rt.next_deadline

\* While a fade with frames on time runs or is due the cooldown refuses every
\* change, and the deadlines stay within their count of periods.
LEMMA ChoiceSettles ==
    ASSUME LoopInv, rt' \in Runtime, now' \in Time, Chosen(rt', rt, now'), InStep(rt', now'),
           UNCHANGED <<transition, displayed_scene>>,
           ~fade'.uneven /\ Unsettled => ~fade.uneven,
           Requested \/ TickedBefore \/ TickedAfter
    PROVE  SettledInTime'
  <1> DEFINE e == IF transition.active THEN transition.elapsed_frames ELSE 0
             long   == (e + 1) * FramePeriod
             longer == (e + 2) * FramePeriod
             whole  == FadeFrames * FramePeriod
  <1> SUFFICES ASSUME ~fade'.uneven, Outlasts, Unsettled'
               PROVE  /\ transition.active => rt'.scene_index = transition.to_scene
                      /\ rt'.had_change
                      /\ pc' \in {"after", "sleep", "loop"} =>
                            rt'.next_deadline - rt'.last_change + Jitter <= long
                      /\ pc' \in Drawing =>
                            /\ now' - rt'.last_change <= long
                            /\ rt'.next_deadline - rt'.last_change + Jitter <= longer
    BY DEF SettledInTime
  <1>1. /\ e \in Nat /\ e < FadeFrames /\ FramePeriod \in Nat /\ MinChange \in Nat
        /\ Jitter \in Nat /\ Jitter < FramePeriod /\ whole < MinChange
    BY LoopAssumption, RuntimeAssumption DEF LoopInv, TypeOK, Outlasts
  <1>2. /\ long \in Nat /\ longer = long + FramePeriod /\ long <= whole /\ whole \in Nat
        /\ FramePeriod <= long
    <2>1. whole \in Nat
      BY Frames, LoopAssumption
    <2>2. e * FramePeriod \in Nat /\ long = e * FramePeriod + FramePeriod /\ long <= whole
      BY <1>1, Frames
    <2>3. e + 1 \in Nat /\ e + 2 = (e + 1) + 1
      BY <1>1
    <2>4. ((e + 1) + 1) * FramePeriod = (e + 1) * FramePeriod + FramePeriod
      BY <2>3, Frames
    <2> HIDE DEF e
    <2>5. longer = long + FramePeriod
      BY <2>3, <2>4
    <2> QED BY <1>1, <2>1, <2>2, <2>5
  <1>3. /\ now \in Nat /\ now' \in Nat /\ rt.last_change \in Nat /\ rt.next_deadline \in Nat
        /\ rt'.last_change \in Nat /\ rt'.next_deadline \in Nat
        /\ rt.last_change <= now /\ rt.next_deadline <= now + FramePeriod
        /\ rt'.next_deadline <= now' + FramePeriod
    BY RuntimeAssumption DEF LoopInv, TypeOK, Runtime, Time, ClockKept, InStep
  <1>4. CASE Unsettled
    <2>1. /\ transition.active => rt.scene_index = transition.to_scene
          /\ rt.had_change
          /\ pc \in {"after", "sleep", "loop"} =>
                rt.next_deadline - rt.last_change + Jitter <= long
          /\ pc \in Drawing =>
                /\ now - rt.last_change <= long
                /\ rt.next_deadline - rt.last_change + Jitter <= longer
      BY <1>4 DEF LoopInv, SettledInTime
    <2> HIDE DEF e, long, longer, whole
    <2>2. now' - rt.last_change <= long
      <3>1. CASE Requested
        BY <2>1, <3>1 DEF Requested
      <3>2. CASE TickedBefore
        BY <1>1, <1>2, <1>3, <2>1, <3>2 DEF TickedBefore
      <3>3. CASE TickedAfter
        BY <1>1, <1>2, <1>3, <2>1, <3>3 DEF TickedAfter
      <3> QED BY <3>1, <3>2, <3>3
    <2>3. ~ChangeAllowed(rt, now')
      BY <1>1, <1>2, <1>3, <2>1, <2>2 DEF ChangeAllowed
    <2>4. /\ rt'.scene_index = rt.scene_index /\ rt'.last_change = rt.last_change
          /\ rt'.had_change = rt.had_change
      BY <2>3 DEF Chosen
    <2>5. CASE Requested
      BY <2>1, <2>2, <2>4, <2>5 DEF Requested, Drawing
    <2>6. CASE TickedBefore
      <3>1. /\ rt.next_deadline - rt.last_change + Jitter <= long
            /\ rt'.next_deadline <= rt.next_deadline + FramePeriod
        BY <1>1, <1>3, <2>1, <2>6 DEF TickedBefore
      <3>2. rt'.next_deadline - rt'.last_change + Jitter <= longer
        BY <1>1, <1>2, <1>3, <2>4, <3>1
      <3> QED BY <2>1, <2>2, <2>4, <2>6, <3>2 DEF TickedBefore, Drawing
    <2>7. CASE TickedAfter
      BY <2>1, <2>4, <2>7 DEF TickedAfter, Drawing
    <2> QED BY <2>5, <2>6, <2>7
  <1>5. CASE ~Unsettled
    <2>1. ~transition.active /\ rt'.scene_index # rt.scene_index
      BY <1>5 DEF Unsettled
    <2>2. rt'.had_change /\ rt'.last_change = now'
      BY <2>1 DEF Chosen
    <2> HIDE DEF e, long, longer, whole
    <2>3. /\ now' - rt'.last_change <= long
          /\ rt'.next_deadline - rt'.last_change + Jitter <= longer
      <3>1. now' - rt'.last_change = 0
        <4>1. \A a, b \in Nat : a = b => b - a = 0
          OBVIOUS
        <4>2. rt'.last_change = now' /\ rt'.last_change \in Nat /\ now' \in Nat
          BY <1>3, <2>2
        <4> QED BY <4>1, <4>2, Zenon
      <3>2. rt'.next_deadline - rt'.last_change <= FramePeriod
        BY <1>1, <1>3, <2>2
      <3>3. rt'.next_deadline - rt'.last_change \in Int
        BY <1>3
      <3>4. longer = long + FramePeriod /\ FramePeriod <= long /\ long \in Nat
        BY <1>2
      <3> QED BY <1>1, <3>1, <3>2, <3>3, <3>4
    <2>4. TickedAfter => rt'.next_deadline - rt'.last_change + Jitter <= long
      BY <1>1, <1>2, <1>3, <2>2 DEF TickedAfter
    <2> QED BY <2>1, <2>2, <2>3, <2>4 DEF Requested, TickedBefore, Drawing
  <1> QED BY <1>4, <1>5

LEMMA InStepNow == ClockKept => InStep(rt, now)
  BY DEF ClockKept, InStep

LEMMA TickStep ==
    ASSUME LoopInv, NEW to, ReadAndTick(to),
           (pc = "loop" /\ to = "signal") \/ (pc = "after" /\ to = "sleep")
    PROVE  LoopInv'
  <1>1. CASE pc' = "shutdown" /\ UNCHANGED <<held, usr1, loopVars>>
    BY <1>1, QuietStep DEF LoopInv, TypeOK
  <1>2. ASSUME NEW d \in Elapsed, now + d <= TimeMax, now' = now + d,
               rt' = Tick(rt, now + d),
               pc' = IF TickFails(rt, now + d) THEN "shutdown" ELSE to,
               ObserveLag,
               fade' = [fade EXCEPT !.uneven = (Unsettled /\ @) \/ ~OnTime(now + d)],
               UNCHANGED <<held, usr1, running, next_scene_requested, transition, buffers,
                           displayed_scene, shown>>
        PROVE  LoopInv'
    <2>1. d \in Nat /\ now \in Nat /\ now' \in Time /\ now' \in Nat /\ now <= now'
          /\ FramePeriod \in Nat \ {0} /\ TimeMax \in Nat
      BY <1>2, LoopAssumption, RuntimeAssumption DEF LoopInv, TypeOK, Time
    <2>2. /\ rt \in Runtime /\ rt.origin \in Nat /\ rt.last_change \in Nat
          /\ rt.next_deadline \in Nat
      BY RuntimeAssumption DEF LoopInv, TypeOK, Runtime, Time
    <2>3. InStep(rt, now')
      BY <2>1, <2>2 DEF LoopInv, ClockKept, InStep
    <2>4. /\ rt' \in Runtime /\ InStep(rt', now') /\ Chosen(rt', rt, now')
          /\ rt.next_deadline <= rt'.next_deadline
          /\ now' < rt.next_deadline => rt'.next_deadline = rt.next_deadline
          /\ now' < rt.next_deadline + FramePeriod =>
               rt'.next_deadline <= rt.next_deadline + FramePeriod
          /\ ~TickFails(rt, now') =>
               /\ now' < rt'.next_deadline /\ now' + rt'.sleep = rt'.next_deadline
               /\ now' >= rt.next_deadline => rt.next_deadline + FramePeriod <= rt'.next_deadline
      BY <1>2, <2>1, <2>2, <2>3, TickResult
    <2>5. pc' \in {"shutdown", "signal", "sleep"} /\ (pc' # "shutdown" => pc' = to /\ ~TickFails(rt, now'))
      BY <1>2
    <2>6. fade' \in [at : Time, cut : BOOLEAN, uneven : BOOLEAN]
      BY <1>2 DEF LoopInv, TypeOK
    <2>7. /\ fade'.at = fade.at /\ fade'.cut = fade.cut
          /\ ~fade'.uneven => (Unsettled => ~fade.uneven) /\ OnTime(now')
      <3>1. fade \in [at : Time, cut : BOOLEAN, uneven : BOOLEAN]
        BY DEF LoopInv, TypeOK
      <3>2. fade'.at = fade.at /\ fade'.cut = fade.cut
        BY <1>2, <3>1
      <3>3. fade'.uneven = ((Unsettled /\ fade.uneven) \/ ~OnTime(now + d))
        BY <1>2, <3>1, Zenon
      <3> QED BY <1>2, <3>2, <3>3, Zenon
    <2>8. TypeOK'
      BY <1>2, <2>1, <2>4, <2>5, <2>6, LagStep DEF LoopInv, TypeOK
    <2>9. ClockKept'
      BY <2>4, <2>5 DEF ClockKept, InStep, Drawing
    <2>10. PictureKept'
      BY <1>2, <2>5 DEF LoopInv, PictureKept, Setup
    <2>11. LagLedger'
      BY <1>2, LagStep
    <2>12. CooldownRuns'
      BY <2>5 DEF CooldownRuns
    <2>13. SettledInTime'
      <3>1. pc = "loop" => TickedBefore
        BY <2>4, <2>5, <2>7 DEF TickedBefore, OnTime, Drawing
      <3>2. pc = "after" => TickedAfter
        BY <2>4, <2>5, <2>7 DEF TickedAfter, OnTime
      <3> QED BY <1>2, <2>1, <2>4, <2>7, <3>1, <3>2, ChoiceSettles
    <2>14. PaceKept'
      <3> DEFINE begun == fade.at + (transition.elapsed_frames - 1) * FramePeriod
      <3> SUFFICES ASSUME transition.active, ~fade.cut
                   PROVE  /\ pc' \in {"after", "sleep", "loop"} => begun < rt'.next_deadline
                          /\ pc' = "loop" => rt'.next_deadline <= now'
                          /\ pc' \in Drawing => begun < now' /\ begun + FramePeriod < rt'.next_deadline
        BY <1>2, <2>7 DEF PaceKept
      <3>1. begun \in Nat
        <4>1. transition.elapsed_frames - 1 \in Nat /\ fade.at \in Nat
          BY DEF LoopInv, TypeOK, PictureKept, Time
        <4>2. (transition.elapsed_frames - 1) * FramePeriod \in Nat
          BY <4>1, Frames
        <4> QED BY <4>1, <4>2
      <3>2. /\ pc \in {"after", "sleep", "loop"} => begun < rt.next_deadline
            /\ pc = "loop" => rt.next_deadline <= now
        BY DEF LoopInv, PaceKept
      <3> HIDE DEF begun
      <3>3. rt'.next_deadline \in Nat
        BY <2>4, RuntimeAssumption DEF Runtime, Time
      <3>4. begun < rt'.next_deadline
        BY <2>2, <2>4, <3>1, <3>2, <3>3
      <3>5. ASSUME pc' \in Drawing PROVE begun < now' /\ begun + FramePeriod < rt'.next_deadline
        <4>1. pc = "loop" /\ ~TickFails(rt, now')
          BY <2>5, <3>5 DEF Drawing
        <4> QED BY <2>1, <2>2, <2>4, <3>1, <3>2, <3>3, <4>1
      <3> QED BY <2>5, <3>4, <3>5
    <2> QED BY <2>8, <2>9, <2>10, <2>11, <2>12, <2>13, <2>14, AssembleNext
  <1> QED BY <1>1, <1>2 DEF ReadAndTick

\* A request between the tick and the frame, granted or refused.
LEMMA ChoiceStep ==
    ASSUME LoopInv, pc \in Drawing, pc' \in Drawing, CooldownRuns',
           rt' \in Runtime, SameClock(rt', rt), Chosen(rt', rt, now), InStep(rt', now),
           ObserveLag, running' \in BOOLEAN,
           UNCHANGED <<held, now, next_scene_requested, transition, buffers,
                       displayed_scene, shown, usr1, fade>>
    PROVE  LoopInv'
  <1>1. TypeOK'
    BY LagStep DEF LoopInv, TypeOK, Drawing
  <1>2. ClockKept'
    BY DEF LoopInv, ClockKept, InStep, SameClock, Drawing
  <1>3. PictureKept'
    BY DEF LoopInv, PictureKept, Setup, Drawing
  <1>4. LagLedger'
    BY LagStep
  <1>5. PaceKept'
    BY DEF LoopInv, PaceKept, SameClock, Drawing
  <1>6. SettledInTime'
    <2>1. now' \in Time /\ Chosen(rt', rt, now') /\ InStep(rt', now') /\ Requested
      BY DEF LoopInv, TypeOK, Requested, SameClock
    <2> QED BY <2>1, ChoiceSettles
  <1> QED BY <1>1, <1>2, <1>3, <1>4, <1>5, <1>6, AssembleNext

LEMMA SignalTaken ==
    ASSUME LoopInv, TakeSignal
    PROVE  LoopInv'
  <1>1. rt \in Runtime /\ now \in Time /\ InStep(rt, now) /\ SignalHold \in Time
    BY LoopAssumption, InStepNow DEF LoopInv, TypeOK
  <1>2. CASE next_scene_requested
    <2>1. rt' = RequestNext(rt, now, SignalHold) /\ pc' = "clear" /\ now' = now
      BY <1>2 DEF TakeSignal
    <2>2. rt' \in Runtime /\ SameClock(rt', rt) /\ Chosen(rt', rt, now) /\ InStep(rt', now)
      BY <1>1, <2>1, RequestResult
    <2>3. CooldownRuns'
      <3> SUFFICES ASSUME MinChange > 0, SceneCount > 1 PROVE ~ChangeAllowed(rt', now)
        BY <2>1 DEF CooldownRuns, ChangeAllowed
      <3> QED BY <1>1, <2>1, RequestCools
    <2> QED BY <2>1, <2>2, <2>3, ChoiceStep DEF TakeSignal, Drawing, LoopInv, TypeOK
  <1>3. CASE ~next_scene_requested
    <2>1. rt' = rt /\ pc' = "poll"
      BY <1>3 DEF TakeSignal
    <2>2. rt' \in Runtime /\ SameClock(rt', rt) /\ Chosen(rt', rt, now) /\ InStep(rt', now)
      BY <1>1, <2>1 DEF SameClock, Chosen
    <2>3. CooldownRuns'
      BY <2>1 DEF CooldownRuns
    <2> QED BY <2>1, <2>2, <2>3, ChoiceStep DEF TakeSignal, Drawing, LoopInv, TypeOK
  <1> QED BY <1>2, <1>3

LEMMA InputPolled ==
    ASSUME LoopInv, NEW action \in Actions, PollInput(action)
    PROVE  LoopInv'
  <1>1. rt \in Runtime /\ now \in Time /\ InStep(rt, now) /\ KeyHold \in Time
    BY LoopAssumption, InStepNow DEF LoopInv, TypeOK
  <1>2. \/ rt' = RequestNext(rt, now, KeyHold) \/ rt' = RequestPrevious(rt, now, KeyHold)
        \/ rt' = rt
    BY DEF PollInput, Actions
  <1>3. rt' \in Runtime /\ SameClock(rt', rt) /\ Chosen(rt', rt, now) /\ InStep(rt', now)
    <2>1. CASE rt' = rt
      BY <1>1, <2>1 DEF SameClock, Chosen
    <2>2. CASE rt' = RequestNext(rt, now, KeyHold) \/ rt' = RequestPrevious(rt, now, KeyHold)
      BY <1>1, <2>2, RequestResult
    <2> QED BY <1>2, <2>1, <2>2
  <1>4. pc' = "frame" /\ running' \in BOOLEAN
    BY DEF PollInput, LoopInv, TypeOK
  <1>5. CooldownRuns'
    BY <1>4 DEF CooldownRuns
  <1> QED BY <1>3, <1>4, <1>5, ChoiceStep DEF PollInput, Drawing

LEMMA SignalCleared ==
    ASSUME LoopInv, ClearSignal
    PROVE  LoopInv'
  <1>1. pc = "clear" /\ pc' = "poll" /\ next_scene_requested' = FALSE
        /\ UNCHANGED <<held, rt, now, running, transition, buffers, displayed_scene,
                       shown, usr1, lag, fade>>
    BY DEF ClearSignal
  <1>2. TypeOK'
    BY <1>1 DEF LoopInv, TypeOK
  <1>3. ClockKept' /\ PictureKept'
    BY <1>1 DEF LoopInv, ClockKept, PictureKept, Setup, Drawing
  <1>4. LagLedger' /\ PaceKept' /\ CooldownRuns'
    BY <1>1 DEF LoopInv, LagLedger, PaceKept, CooldownRuns, Drawing
  <1>5. SettledInTime'
    BY <1>1 DEF LoopInv, SettledInTime, Unsettled, Drawing
  <1> QED BY <1>2, <1>3, <1>4, <1>5, AssembleNext

-----------------------------------------------------------------------------
(* Sleeping and signals *)

\* A sleep that runs to its end reaches the deadline, at most a frame away.
LEMMA SleepStep ==
    ASSUME LoopInv, SleepEnds
    PROVE  LoopInv'
  <1>1. pc = "sleep" /\ pc' = "loop" /\ now' = now + rt.sleep
        /\ UNCHANGED <<held, rt, running, next_scene_requested, transition, buffers,
                       displayed_scene, shown, usr1, lag, fade>>
    BY DEF SleepEnds
  <1>2. now' = rt.next_deadline
    BY <1>1 DEF LoopInv, ClockKept
  <1>3. /\ now \in Nat /\ now' \in Time /\ now' \in Nat /\ FramePeriod \in Nat
        /\ rt.sleep \in Nat /\ rt.last_change \in Nat /\ rt.origin \in Nat
    BY <1>2, RuntimeAssumption DEF LoopInv, TypeOK, Runtime, Time
  <1>4. now <= now' /\ now' <= now + FramePeriod
    BY <1>1, <1>2, <1>3 DEF LoopInv, ClockKept
  <1>5. TypeOK'
    BY <1>1, <1>3 DEF LoopInv, TypeOK
  <1>6. ClockKept'
    BY <1>1, <1>2, <1>3, <1>4 DEF LoopInv, ClockKept, Drawing
  <1>7. PictureKept' /\ LagLedger' /\ CooldownRuns'
    BY <1>1 DEF LoopInv, PictureKept, LagLedger, CooldownRuns, Setup
  <1>8. PaceKept'
    BY <1>1, <1>2, <1>3 DEF LoopInv, PaceKept, Drawing
  <1>9. SettledInTime'
    BY <1>1 DEF LoopInv, SettledInTime, Unsettled, Drawing
  <1> QED BY <1>5, <1>6, <1>7, <1>8, <1>9, AssembleNext

\* A signal: the handler only writes a flag, but may cut a sleep short.
LEMMA InterruptStep ==
    ASSUME LoopInv, Interrupt, running' \in BOOLEAN, next_scene_requested' \in BOOLEAN,
           usr1' \in 0 .. MaxUsr1
    PROVE  LoopInv'
  <1>1. /\ pc' = IF pc = "sleep" THEN "loop" ELSE pc
        /\ fade' = IF pc = "sleep" THEN [fade EXCEPT !.cut = TRUE] ELSE fade
        /\ UNCHANGED <<held, rt, now, transition, buffers, displayed_scene, shown, lag>>
    BY DEF Interrupt
  <1>2. /\ fade' \in [at : Time, cut : BOOLEAN, uneven : BOOLEAN]
        /\ fade'.at = fade.at /\ fade'.uneven = fade.uneven /\ (pc = "sleep" => fade'.cut)
    BY <1>1 DEF LoopInv, TypeOK
  <1>3. TypeOK'
    BY <1>1, <1>2 DEF LoopInv, TypeOK
  <1>4. ClockKept' /\ PictureKept'
    BY <1>1 DEF LoopInv, ClockKept, PictureKept, Setup, Drawing
  <1>5. LagLedger' /\ PaceKept' /\ CooldownRuns'
    BY <1>1, <1>2 DEF LoopInv, LagLedger, PaceKept, CooldownRuns, Drawing
  <1>6. SettledInTime'
    BY <1>1, <1>2 DEF LoopInv, SettledInTime, Unsettled, Drawing
  <1> QED BY <1>3, <1>4, <1>5, <1>6, AssembleNext

-----------------------------------------------------------------------------
(* Drawing a frame: the three things it can do *)

Transitions == [from_scene : Scenes, to_scene : Scenes, elapsed_frames : 0 .. FadeFrames,
                active : BOOLEAN, sources_ready : BOOLEAN]

\* The fade after a step of it, the e-th, was drawn and swept.
Stepped(from, to, e) ==
    /\ transition' \in Transitions
    /\ transition'.from_scene = from /\ transition'.to_scene = to
    /\ transition'.elapsed_frames = e + 1
    /\ transition'.active <=> e + 1 < FadeFrames
    /\ transition'.sources_ready
    /\ shown' = [from |-> from, to |-> to, step |-> e]
    /\ buffers' \in [from : Scenes, to : Scenes] /\ buffers'.from = from /\ buffers'.to = to
    /\ displayed_scene' = IF e + 1 < FadeFrames THEN displayed_scene ELSE to

FirstStep == FadeBegins /\ Stepped(displayed_scene, rt.scene_index, 0)

NextStep ==
    /\ transition.active
    /\ Stepped(transition.from_scene, transition.to_scene, transition.elapsed_frames)
    /\ ~FadeBegins

SceneAlone ==
    /\ ~transition.active /\ rt.scene_index = displayed_scene
    /\ transition' = transition
    /\ shown' = [from |-> displayed_scene, to |-> displayed_scene, step |-> 0]
    /\ buffers' = buffers
    /\ displayed_scene' = displayed_scene

LEMMA Advanced ==
    ASSUME NEW tr \in Transitions, tr.elapsed_frames < FadeFrames,
           NEW s, s = TransitionAdvance(tr)
    PROVE  /\ s \in Transitions
           /\ s.from_scene = tr.from_scene /\ s.to_scene = tr.to_scene
           /\ s.elapsed_frames = tr.elapsed_frames + 1
           /\ s.active <=> tr.elapsed_frames + 1 < FadeFrames
           /\ s.sources_ready = tr.sources_ready
  <1>1. tr.elapsed_frames + 1 \in 0 .. FadeFrames
    BY LoopAssumption DEF Transitions
  <1> DEFINE more == tr.elapsed_frames + 1 < FadeFrames
  <1>2. more \in BOOLEAN
    OBVIOUS
  <1>3. s = [tr EXCEPT !.elapsed_frames = tr.elapsed_frames + 1, !.active = more]
    BY DEF TransitionAdvance
  <1>4. s.active <=> more
    BY <1>3, Zenon DEF Transitions
  <1>5. /\ s.from_scene = tr.from_scene /\ s.to_scene = tr.to_scene
        /\ s.elapsed_frames = tr.elapsed_frames + 1 /\ s.sources_ready = tr.sources_ready
    BY <1>3 DEF Transitions
  <1> HIDE DEF more
  <1>6. s \in Transitions
    BY <1>1, <1>2, <1>3 DEF Transitions
  <1> QED BY <1>4, <1>5, <1>6 DEF more

LEMMA DrawCases ==
    ASSUME LoopInv, DrawFrame
    PROVE  FirstStep \/ NextStep \/ SceneAlone
  <1> DEFINE begun == IF FadeBegins THEN TransitionBegin(displayed_scene, rt.scene_index)
                                    ELSE transition
             ready == [begun EXCEPT !.sources_ready = @ \/ begun.active]
  <1>1. transition \in Transitions /\ rt.scene_index \in Scenes /\ displayed_scene \in Scenes
        /\ (transition.active => transition.elapsed_frames < FadeFrames)
        /\ FadeFrames \in Nat \ {0} /\ buffers \in [from : Scenes, to : Scenes]
    BY LoopAssumption DEF LoopInv, TypeOK, Runtime, Transitions
  <1>2. /\ buffers' = Sampled(begun)
        /\ ready.active =>
             /\ shown' = [from |-> buffers'.from, to |-> buffers'.to, step |-> ready.elapsed_frames]
             /\ transition' = TransitionAdvance(ready)
             /\ displayed_scene' = IF transition'.active THEN displayed_scene ELSE ready.to_scene
        /\ ~ready.active =>
             /\ shown' = [from |-> displayed_scene, to |-> displayed_scene, step |-> 0]
             /\ transition' = ready
             /\ displayed_scene' = displayed_scene
    BY DEF DrawFrame
  <1>3. ASSUME NEW from \in Scenes, NEW to \in Scenes, NEW e \in Nat, e < FadeFrames,
               ready \in Transitions, ready.active, ready.sources_ready,
               ready.from_scene = from, ready.to_scene = to, ready.elapsed_frames = e,
               Sampled(begun) \in [from : Scenes, to : Scenes],
               Sampled(begun).from = from, Sampled(begun).to = to
        PROVE  Stepped(from, to, e)
    <2> HIDE DEF begun, ready
    <2>1. transition' = TransitionAdvance(ready)
      BY <1>2, <1>3
    <2>2. /\ transition' \in Transitions
          /\ transition'.from_scene = from /\ transition'.to_scene = to
          /\ transition'.elapsed_frames = e + 1
          /\ transition'.active <=> e + 1 < FadeFrames
          /\ transition'.sources_ready
      BY <1>3, <2>1, Advanced
    <2>3. /\ shown' = [from |-> from, to |-> to, step |-> e]
          /\ displayed_scene' = IF transition'.active THEN displayed_scene ELSE to
      BY <1>2, <1>3
    <2> QED BY <1>2, <1>3, <2>2, <2>3 DEF Stepped
  <1>4. CASE FadeBegins
    <2>1. begun = [from_scene |-> displayed_scene, to_scene |-> rt.scene_index,
                   elapsed_frames |-> 0, active |-> TRUE, sources_ready |-> FALSE]
      BY <1>4 DEF TransitionBegin, FadeBegins
    <2>2. begun \in Transitions /\ begun.active /\ ~begun.sources_ready
          /\ begun.from_scene = displayed_scene /\ begun.to_scene = rt.scene_index
          /\ begun.elapsed_frames = 0
      <3> HIDE DEF begun, ready
      <3> QED BY <1>1, <2>1 DEF Transitions
    <2>3. /\ Sampled(begun) \in [from : Scenes, to : Scenes]
          /\ Sampled(begun).from = displayed_scene /\ Sampled(begun).to = rt.scene_index
      BY <1>1, <2>2 DEF Sampled, SourcesNeedRender
    <2>4. (begun.sources_ready \/ begun.active) = TRUE
      BY <2>2, Zenon
    <2>5. ready = [begun EXCEPT !.sources_ready = TRUE]
      BY <2>2, <2>4, Zenon DEF Transitions
    <2> HIDE DEF begun, ready
    <2>6. ready \in Transitions /\ ready.active /\ ready.sources_ready
          /\ ready.from_scene = displayed_scene /\ ready.to_scene = rt.scene_index
          /\ ready.elapsed_frames = 0
      BY <2>2, <2>5 DEF Transitions
    <2>7. Stepped(displayed_scene, rt.scene_index, 0)
      BY <1>1, <1>3, <2>3, <2>6
    <2> QED BY <1>4, <2>7 DEF FirstStep
  <1>5. CASE ~FadeBegins /\ transition.active
    <2>1. begun = transition /\ transition.sources_ready
          /\ buffers.from = transition.from_scene /\ buffers.to = transition.to_scene
      BY <1>5 DEF LoopInv, PictureKept
    <2>2. (begun.sources_ready \/ begun.active) = TRUE
      BY <1>5, <2>1, Zenon
    <2>3. ready = [transition EXCEPT !.sources_ready = TRUE]
      BY <1>1, <2>1, <2>2, Zenon DEF Transitions
    <2>4. Sampled(begun) = buffers
      BY <2>1 DEF Sampled, SourcesNeedRender
    <2> HIDE DEF begun, ready
    <2>5. ready \in Transitions /\ ready.active /\ ready.sources_ready
          /\ ready.from_scene = transition.from_scene /\ ready.to_scene = transition.to_scene
          /\ ready.elapsed_frames = transition.elapsed_frames
      BY <1>1, <1>5, <2>3 DEF Transitions
    <2>6. transition.from_scene \in Scenes /\ transition.to_scene \in Scenes
          /\ transition.elapsed_frames \in Nat /\ transition.elapsed_frames < FadeFrames
      BY <1>1, <1>5 DEF Transitions
    <2>7. Stepped(transition.from_scene, transition.to_scene, transition.elapsed_frames)
      BY <1>1, <1>3, <2>1, <2>4, <2>5, <2>6
    <2> QED BY <1>5, <2>7 DEF NextStep
  <1>6. CASE ~FadeBegins /\ ~transition.active
    <2>1. begun = transition /\ rt.scene_index = displayed_scene
      BY <1>6 DEF FadeBegins
    <2>2. (begun.sources_ready \/ begun.active) = transition.sources_ready
      BY <1>1, <1>6, <2>1 DEF Transitions
    <2>3. ready = [transition EXCEPT !.sources_ready = transition.sources_ready]
      BY <1>1, <2>1, <2>2, Zenon DEF Transitions
    <2>4. ready = transition
      BY <1>1, <2>3 DEF Transitions
    <2>5. Sampled(begun) = buffers
      BY <1>6, <2>1 DEF Sampled, SourcesNeedRender
    <2> QED BY <1>2, <1>6, <2>1, <2>4, <2>5 DEF SceneAlone
  <1> QED BY <1>4, <1>5, <1>6

LEMMA DrawStep ==
    ASSUME LoopInv, DrawFrame
    PROVE  LoopInv'
  <1>1. /\ pc = "frame" /\ pc' = "after"
        /\ lag' = IF displayed_scene' = rt.scene_index THEN 0 ELSE lag + 1
        /\ fade' = IF FadeBegins THEN [fade EXCEPT !.at = now, !.cut = FALSE] ELSE fade
        /\ UNCHANGED <<held, rt, now, running, next_scene_requested, usr1>>
    BY DEF DrawFrame
  <1>2. /\ FadeFrames \in Nat \ {0} /\ FramePeriod \in Nat \ {0} /\ lag \in Nat
        /\ now \in Time /\ now \in Nat /\ rt.next_deadline \in Nat /\ rt.last_change \in Nat
        /\ rt.scene_index \in Scenes /\ displayed_scene \in Scenes
        /\ transition \in Transitions /\ transition.elapsed_frames \in Nat
        /\ transition.from_scene \in Scenes /\ transition.to_scene \in Scenes
        /\ (transition.active => transition.elapsed_frames < FadeFrames)
    BY LoopAssumption, RuntimeAssumption DEF LoopInv, TypeOK, Runtime, Time, Transitions
  <1>3. /\ fade' \in [at : Time, cut : BOOLEAN, uneven : BOOLEAN] /\ fade'.uneven = fade.uneven
        /\ (FadeBegins => fade'.at = now) /\ (~FadeBegins => fade' = fade)
    BY <1>1, <1>2 DEF LoopInv, TypeOK
  <1>4. now < rt.next_deadline
    BY <1>1 DEF LoopInv, ClockKept, Drawing
  <1>5. FirstStep \/ NextStep \/ SceneAlone
    BY DrawCases
  <1>6. ClockKept'
    BY <1>1 DEF LoopInv, ClockKept, Drawing
  <1>7. CooldownRuns'
    BY <1>1 DEF CooldownRuns
  <1>8. ASSUME NEW from \in Scenes, NEW to \in Scenes, NEW e \in Nat, e < FadeFrames,
               Stepped(from, to, e), (e + 1 < FadeFrames => displayed_scene = from)
        PROVE  TypeOK' /\ PictureKept'
    <2>1. shown' \in Picture /\ displayed_scene' \in Scenes
      BY <1>2, <1>8 DEF Stepped, Picture
    <2>2. lag' \in Nat
      BY <1>1, <1>2
    <2>3. transition'.active => transition'.elapsed_frames < FadeFrames
      BY <1>8 DEF Stepped
    <2>4. TypeOK'
      BY <1>1, <1>3, <1>8, <2>1, <2>2, <2>3 DEF LoopInv, TypeOK, Stepped, Transitions
    <2>5. (e + 1) - 1 = e
      OBVIOUS
    <2>6. ~(e + 1 < FadeFrames) => e = FadeFrames - 1
      BY <1>2, <1>8
    <2>7. PictureKept'
      BY <1>1, <1>8, <2>5, <2>6 DEF PictureKept, Stepped, Setup
    <2> QED BY <2>4, <2>7
  <1>9. CASE FirstStep
    <2>1. /\ ~transition.active /\ rt.scene_index # displayed_scene /\ fade'.at = now
          /\ Stepped(displayed_scene, rt.scene_index, 0) /\ 0 < FadeFrames
      BY <1>2, <1>3, <1>9 DEF FirstStep, FadeBegins
    <2>2. TypeOK' /\ PictureKept'
      BY <1>2, <1>8, <2>1
    <2>3. /\ transition'.active <=> 1 < FadeFrames
          /\ transition'.elapsed_frames = 1 /\ transition'.to_scene = rt.scene_index
          /\ displayed_scene' = IF 1 < FadeFrames THEN displayed_scene ELSE rt.scene_index
      BY <2>1 DEF Stepped
    <2>4. LagLedger'
      <3>1. lag <= FadeFrames - 1
        BY <2>1 DEF LoopInv, LagLedger
      <3> QED BY <1>1, <1>2, <2>1, <2>3, <3>1 DEF LagLedger
    <2>5. PaceKept'
      <3>1. (1 - 1) * FramePeriod = 0
        BY <1>2
      <3>2. fade'.at + (transition'.elapsed_frames - 1) * FramePeriod = now
        BY <1>2, <2>1, <2>3, <3>1
      <3> QED BY <1>1, <1>4, <3>2 DEF PaceKept, Drawing
    <2>6. SettledInTime'
      <3> SUFFICES ASSUME ~fade.uneven, Outlasts, Unsettled'
                   PROVE  rt.had_change /\ rt.next_deadline - rt.last_change + Jitter <= (1 + 1) * FramePeriod
        BY <1>1, <1>3, <2>3 DEF SettledInTime, Unsettled, Drawing
      <3>1. rt.had_change /\ rt.next_deadline - rt.last_change + Jitter <= (0 + 2) * FramePeriod
        BY <1>1, <2>1 DEF LoopInv, SettledInTime, Unsettled, Drawing
      <3>2. 1 + 1 = 0 + 2
        OBVIOUS
      <3> QED BY <3>1, <3>2
    <2> QED BY <1>6, <1>7, <2>2, <2>4, <2>5, <2>6, AssembleNext
  <1>10. CASE NextStep
    <2> DEFINE e == transition.elapsed_frames
    <2>1. /\ transition.active /\ e >= 1 /\ e < FadeFrames /\ e \in Nat /\ fade' = fade
          /\ displayed_scene = transition.from_scene
          /\ Stepped(transition.from_scene, transition.to_scene, e)
      BY <1>2, <1>3, <1>10 DEF NextStep, LoopInv, PictureKept
    <2>2. TypeOK' /\ PictureKept'
      BY <1>2, <1>8, <2>1
    <2>3. /\ transition'.active <=> e + 1 < FadeFrames
          /\ transition'.elapsed_frames = e + 1 /\ transition'.to_scene = transition.to_scene
          /\ displayed_scene' = IF e + 1 < FadeFrames THEN displayed_scene ELSE transition.to_scene
      BY <2>1 DEF Stepped
    <2>4. LagLedger'
      <3>1. lag <= IF transition.to_scene = rt.scene_index THEN FadeFrames - 1 + e ELSE e - 1
        BY <2>1 DEF LoopInv, LagLedger
      <3> QED BY <1>1, <1>2, <2>1, <2>3, <3>1 DEF LagLedger
    <2>5. PaceKept'
      <3> SUFFICES ASSUME ~fade.cut
                   PROVE  fade.at + ((e + 1) - 1) * FramePeriod < rt.next_deadline
        BY <1>1, <2>1, <2>3 DEF PaceKept, Drawing
      <3>1. fade.at + (e - 1) * FramePeriod + FramePeriod < rt.next_deadline
        BY <1>1, <2>1 DEF LoopInv, PaceKept, Drawing
      <3>2. e - 1 \in Nat /\ (e - 1) + 1 = e /\ (e + 1) - 1 = e /\ fade.at \in Nat
        BY <2>1 DEF LoopInv, TypeOK, Time
      <3>3. e * FramePeriod = (e - 1) * FramePeriod + FramePeriod /\ (e - 1) * FramePeriod \in Nat
        BY <3>2, Frames
      <3> HIDE DEF e
      <3> QED BY <1>2, <3>1, <3>2, <3>3
    <2>6. SettledInTime'
      <3>1. ~fade.uneven /\ Outlasts =>
                /\ rt.scene_index = transition.to_scene
                /\ rt.had_change /\ rt.next_deadline - rt.last_change + Jitter <= (e + 2) * FramePeriod
        BY <1>1, <2>1 DEF LoopInv, SettledInTime, Unsettled, Drawing
      <3>2. (e + 1) + 1 = e + 2
        BY <2>1
      <3> QED BY <1>1, <1>3, <2>1, <2>3, <3>1, <3>2 DEF SettledInTime, Unsettled, Drawing
    <2> QED BY <1>6, <1>7, <2>2, <2>4, <2>5, <2>6, AssembleNext
  <1>11. CASE SceneAlone
    <2>1. /\ ~transition.active /\ rt.scene_index = displayed_scene /\ transition' = transition
          /\ shown' = [from |-> displayed_scene, to |-> displayed_scene, step |-> 0]
          /\ buffers' = buffers /\ displayed_scene' = displayed_scene
      BY <1>11 DEF SceneAlone
    <2>2. shown' \in Picture /\ lag' = 0
      BY <1>1, <1>2, <2>1 DEF Picture
    <2>3. TypeOK'
      BY <1>1, <1>3, <2>1, <2>2 DEF LoopInv, TypeOK
    <2>4. PictureKept' /\ PaceKept'
      BY <1>1, <2>1 DEF PictureKept, PaceKept, Setup
    <2>5. LagLedger'
      BY <1>2, <2>1, <2>2 DEF LagLedger
    <2>6. SettledInTime'
      BY <1>1, <2>1 DEF SettledInTime, Unsettled
    <2> QED BY <1>6, <1>7, <2>3, <2>4, <2>5, <2>6, AssembleNext
  <1> QED BY <1>5, <1>9, <1>10, <1>11

-----------------------------------------------------------------------------
(* The theorems *)

LEMMA LoopStep == LoopInv /\ [Next]_vars => LoopInv'
  <1> SUFFICES ASSUME LoopInv, [Next]_vars PROVE LoopInv'
    OBVIOUS
  <1>1. ASSUME NEW at, NEW left, SetupFails(at, left), left \subseteq Resources PROVE LoopInv'
    BY <1>1, QuietStep DEF SetupFails
  <1>2. ASSUME NEW at, NEW new, NEW to, Acquire(at, new, to), new \subseteq Resources,
               at \in Setup, to \in Setup
        PROVE  LoopInv'
    BY <1>2, QuietStep DEF Acquire, LoopInv, TypeOK
  <1>3. held \subseteq Resources
    BY DEF LoopInv, TypeOK
  <1>4. CASE OpenFramebuffer
    BY <1>1, <1>2, <1>4 DEF OpenFramebuffer, Resources, Setup
  <1>5. CASE MapFramebuffer
    BY <1>1, <1>2, <1>3, <1>5 DEF MapFramebuffer, Resources, Setup
  <1>6. CASE CreatePool
    BY <1>1, <1>2, <1>6 DEF CreatePool, Resources, Setup
  <1>7. CASE ReadOrigin
    BY <1>7, OriginStep
  <1>8. CASE InitRuntime
    BY <1>8, InitRuntimeStep
  <1>9. CASE LoopEnds \/ SleepFails
    BY <1>3, <1>9, QuietStep DEF LoopEnds, SleepFails
  <1>10. CASE TickBefore \/ TickAfter
    BY <1>10, TickStep DEF TickBefore, TickAfter
  <1>11. CASE TakeSignal
    BY <1>11, SignalTaken
  <1>12. CASE ClearSignal
    BY <1>12, SignalCleared
  <1>13. CASE \E action \in Actions : PollInput(action)
    BY <1>13, InputPolled
  <1>14. CASE DrawFrame
    BY <1>14, DrawStep
  <1>15. CASE SleepEnds
    BY <1>15, SleepStep
  <1>16. CASE Shutdown
    BY <1>16, QuietStep DEF Shutdown, Released
  <1>17. CASE SignalNext
    <2>1. usr1' \in 0 .. MaxUsr1
      BY <1>17, LoopAssumption DEF SignalNext, LoopInv, TypeOK
    <2> QED BY <1>17, <2>1, InterruptStep DEF SignalNext, LoopInv, TypeOK
  <1>18. CASE SignalStop
    BY <1>18, InterruptStep DEF SignalStop, LoopInv, TypeOK
  <1>19. CASE UNCHANGED vars
    <2>1. UNCHANGED <<pc, held, usr1, rt, now, running, next_scene_requested, transition,
                      buffers, displayed_scene, shown, lag, fade>>
      BY <1>19 DEF vars, loopVars
    <2>2. TypeOK' /\ ClockKept' /\ PictureKept'
      BY <2>1 DEF LoopInv, TypeOK, ClockKept, PictureKept
    <2>3. LagLedger' /\ PaceKept' /\ CooldownRuns'
      BY <2>1 DEF LoopInv, LagLedger, PaceKept, CooldownRuns
    <2>4. SettledInTime'
      BY <2>1 DEF LoopInv, SettledInTime, Unsettled, Drawing
    <2> QED BY <2>2, <2>3, <2>4, AssembleNext
  <1> QED BY <1>4, <1>5, <1>6, <1>7, <1>8, <1>9, <1>10, <1>11, <1>12, <1>13, <1>14, <1>15,
             <1>16, <1>17, <1>18, <1>19 DEF Next, MainStep

\* The display is never further behind the choice of scene than the rest of a
\* fade and one more (pstv-demo-cart.c:264-282), with everything that this
\* rests on: the deadline, the picture, the pace and the cooldown.
THEOREM LoopCorrect == Spec => []LoopInv
  BY LoopInit, LoopStep, PTL DEF Spec

\* Scene changes are never hard cuts (pstv-demo-cart.c:51-53).
THEOREM PictureNeverJumps == Spec => NoHardCut
  <1>1. LoopInv /\ [Next]_vars => [shown' # shown => Follows(shown, shown')]_vars
    <2> SUFFICES ASSUME LoopInv, Next, shown' # shown PROVE Follows(shown, shown')
      OBVIOUS
    <2>1. DrawFrame
      BY DEF Next, MainStep, OpenFramebuffer, MapFramebuffer, ReadOrigin, CreatePool,
             InitRuntime, SetupFails, Acquire, LoopEnds, TickBefore, TickAfter, ReadAndTick,
             TakeSignal, ClearSignal, PollInput, SleepEnds, SleepFails, Shutdown, SignalNext,
             SignalStop, Interrupt, loopVars
    <2>2. CASE FirstStep
      <3>1. shown' = [from |-> displayed_scene, to |-> rt.scene_index, step |-> 0]
            /\ ~transition.active
        BY <2>2 DEF FirstStep, Stepped, FadeBegins
      <3> QED BY <3>1 DEF LoopInv, PictureKept, Follows
    <2>3. CASE NextStep
      <3>1. /\ shown' = [from |-> transition.from_scene, to |-> transition.to_scene,
                         step |-> transition.elapsed_frames]
            /\ transition.active /\ transition.elapsed_frames \in Nat
        BY <2>3 DEF NextStep, Stepped, LoopInv, TypeOK
      <3>2. shown = [from |-> transition.from_scene, to |-> transition.to_scene,
                     step |-> transition.elapsed_frames - 1]
        BY <3>1 DEF LoopInv, PictureKept
      <3>3. shown'.from = shown.from /\ shown'.to = shown.to /\ shown'.step = shown.step + 1
        BY <3>1, <3>2
      <3> QED BY <3>3 DEF Follows
    <2>4. CASE SceneAlone
      <3>1. shown' = [from |-> displayed_scene, to |-> displayed_scene, step |-> 0]
            /\ ~transition.active
        BY <2>4 DEF SceneAlone
      <3> QED BY <3>1 DEF LoopInv, PictureKept, Follows
    <2> QED BY <2>1, <2>2, <2>3, <2>4, DrawCases
  <1> QED BY <1>1, LoopCorrect, PTL DEF Spec, NoHardCut

\* A fade whose sleeps no signal cuts takes more than FadeFrames - 2 periods
\* from its first step to its last, however late single frames are
\* (pstv-demo-cart.c:276-312).
THEOREM FadesKeepPace == Spec => FadeKeepsPace
  <1>1. LoopInv /\ [Next]_vars =>
          [transition.active /\ ~transition'.active /\ ~fade.cut =>
             now' - fade.at > (FadeFrames - 2) * FramePeriod]_vars
    <2> SUFFICES ASSUME LoopInv, Next, transition.active, ~transition'.active, ~fade.cut
                 PROVE  now' - fade.at > (FadeFrames - 2) * FramePeriod
      OBVIOUS
    <2>1. ~InitRuntime \/ UNCHANGED transition
      BY NoFadeInSetup DEF InitRuntime, SetupFails, Setup, loopVars
    <2>2. DrawFrame
      BY <2>1 DEF Next, MainStep, OpenFramebuffer, MapFramebuffer, ReadOrigin, CreatePool,
             SetupFails, Acquire, LoopEnds, TickBefore, TickAfter, ReadAndTick,
             TakeSignal, ClearSignal, PollInput, SleepEnds, SleepFails, Shutdown, SignalNext,
             SignalStop, Interrupt, loopVars
    <2>3. NextStep
      BY <2>2, DrawCases DEF FirstStep, SceneAlone, FadeBegins
    <2> DEFINE e == transition.elapsed_frames
    <2>4. e \in Nat /\ e < FadeFrames /\ FadeFrames \in Nat /\ ~(e + 1 < FadeFrames)
      BY <2>3, LoopAssumption DEF NextStep, Stepped, LoopInv, TypeOK
    <2>5. e - 1 = FadeFrames - 2
      BY <2>4
    <2>6. fade.at + (e - 1) * FramePeriod < now /\ now' = now
      BY <2>2 DEF LoopInv, PaceKept, DrawFrame, Drawing
    <2>7. e - 1 \in Nat /\ fade.at \in Nat /\ now \in Nat
      BY <2>4 DEF LoopInv, PictureKept, TypeOK, Time
    <2>8. (e - 1) * FramePeriod \in Nat
      BY <2>7, Frames
    <2> HIDE DEF e
    <2>9. now' - fade.at > (e - 1) * FramePeriod
      BY <2>6, <2>7, <2>8
    <2> QED BY <2>5, <2>9
  <1> QED BY <1>1, LoopCorrect, PTL DEF Spec, FadeKeepsPace

\* Clearing the flag after the request never loses a SIGUSR1 that would have
\* been granted (pstv-demo-cart.c:237-241), with a cooldown and another scene to
\* go to, as in main().
THEOREM SignalLostOnlyInCooldown ==
    ASSUME MinChange # 0, SceneCount > 1
    PROVE  Spec => WipedOnlyInCooldown
  <1>1. LoopInv /\ [Next]_vars =>
          [next_scene_requested /\ ~next_scene_requested' => ~ChangeAllowed(rt, now)]_vars
    <2> SUFFICES ASSUME LoopInv, Next, next_scene_requested, ~next_scene_requested'
                 PROVE  ~ChangeAllowed(rt, now)
      OBVIOUS
    <2>1. ClearSignal
      BY DEF Next, MainStep, OpenFramebuffer, MapFramebuffer, ReadOrigin, CreatePool,
             InitRuntime, SetupFails, Acquire, LoopEnds, TickBefore, TickAfter, ReadAndTick,
             TakeSignal, PollInput, DrawFrame, SleepEnds, SleepFails, Shutdown, SignalNext,
             SignalStop, Interrupt, loopVars
    <2>2. MinChange > 0
      BY RuntimeAssumption
    <2> QED BY <2>1, <2>2 DEF ClearSignal, LoopInv, CooldownRuns
  <1> QED BY <1>1, LoopCorrect, PTL DEF Spec, WipedOnlyInCooldown

\* As long as the frames from the choice on are on time, the choice does not move
\* on while a fade runs (pstv-demo-cart.c:260-262): with a fade shorter than the
\* cooldown, which the code's 15 frames of 33333333 ns and 500000000 ns are, and
\* a jitter below the period.
THEOREM PunctualFadesSettle ==
    ASSUME FadeFrames * FramePeriod < MinChange, Jitter < FramePeriod
    PROVE  Spec => []PunctualFadeSettles
  <1>1. LoopInv => PunctualFadeSettles
    BY DEF LoopInv, SettledInTime, PunctualFadeSettles, Unsettled, Outlasts
  <1> QED BY <1>1, LoopCorrect, PTL

-----------------------------------------------------------------------------
(* The crossfade *)

Part == 0 .. 256
Unit == 0 .. 1024
Frame == 0 .. FadeFrames

\* Division keeps the order of the dividends.
LEMMA DivOrdered ==
    ASSUME NEW a \in Nat, NEW b \in Nat, a <= b, NEW n \in Nat \ {0}
    PROVE  a \div n <= b \div n
  <1> DEFINE p == a \div n
             q == b \div n
  <1>1. p \in Nat /\ n * p <= a
    BY DivFacts
  <1>2. q \in Nat /\ b < n * q + n
    BY DivFacts
  <1> HIDE DEF p, q
  <1>3. ASSUME q < p PROVE FALSE
    <2>1. q + 1 <= p
      BY <1>1, <1>2, <1>3
    <2>2. n * (q + 1) <= n * p
      BY <1>1, <1>2, <2>1
    <2>3. n * (q + 1) = n * q + n
      BY <1>2
    <2> QED BY <1>1, <1>2, <2>2, <2>3
  <1>4. p <= q
    BY <1>1, <1>2, <1>3
  <1> QED BY <1>4 DEF p, q

\* t of the smoothstep lies in the unit interval and grows with the frame.
At(s) == (s * 1024) \div FadeFrames

LEMMA UnitTime ==
    ASSUME NEW s \in Frame, NEW u \in Frame, s <= u
    PROVE  At(s) \in Unit /\ At(u) \in Unit /\ At(s) <= At(u)
  <1>1. s * 1024 \in Nat /\ u * 1024 \in Nat /\ FadeFrames * 1024 \in Nat
        /\ s * 1024 <= u * 1024 /\ u * 1024 <= FadeFrames * 1024
    BY CrossfadeAssumption DEF Frame
  <1>2. At(s) \in Nat /\ At(u) \in Nat
    BY <1>1, CrossfadeAssumption, DivFacts DEF At
  <1>3. At(s) <= At(u)
    BY <1>1, CrossfadeAssumption, DivOrdered DEF At
  <1>4. At(u) <= At(FadeFrames)
    BY <1>1, CrossfadeAssumption, DivOrdered DEF At
  <1>5. At(FadeFrames) = 1024
    <2> DEFINE q == At(FadeFrames)
    <2>1. /\ q \in Nat /\ FadeFrames * q <= FadeFrames * 1024
          /\ FadeFrames * 1024 < FadeFrames * q + FadeFrames
      BY <1>1, CrossfadeAssumption, DivFacts DEF At
    <2> HIDE DEF q
    <2>2. ASSUME q + 1 <= 1024 PROVE FALSE
      <3>1. FadeFrames * (q + 1) <= FadeFrames * 1024
        BY <2>1, <2>2, CrossfadeAssumption
      <3>2. FadeFrames * (q + 1) = FadeFrames * q + FadeFrames
        BY <2>1, CrossfadeAssumption
      <3> QED BY <2>1, <3>1, <3>2, CrossfadeAssumption
    <2>3. ASSUME 1025 <= q PROVE FALSE
      <3>1. FadeFrames * 1025 <= FadeFrames * q
        BY <2>1, <2>3, CrossfadeAssumption
      <3> QED BY <2>1, <3>1, CrossfadeAssumption
    <2>4. q = 1024
      BY <2>1, <2>2, <2>3
    <2> QED BY <2>4 DEF q
  <1> QED BY <1>2, <1>3, <1>4, <1>5 DEF Unit

\* The smoothstep grows on the unit interval.
Cubic(t) == t * t * (3072 - 2 * t)

LEMMA CubicOrdered ==
    ASSUME NEW t \in Unit, NEW v \in Unit, t <= v
    PROVE  Cubic(t) \in Nat /\ Cubic(v) \in Nat /\ Cubic(t) <= Cubic(v)
  <1>0. t \in 0 .. 1024 /\ v \in 0 .. 1024
    BY DEF Unit
  <1>1. \A n \in 0 .. 1024 : Cubic(n) \in Nat
    <2> SUFFICES ASSUME NEW n \in 0 .. 1024 PROVE Cubic(n) \in Nat
      OBVIOUS
    <2>1. n * n \in Nat /\ 3072 - 2 * n \in Nat
      BY SMT
    <2> QED BY <2>1, SMT DEF Cubic
  <1>2. Cubic(t) \in Nat /\ Cubic(v) \in Nat
    BY <1>0, <1>1
  <1>3. PICK d \in Nat : v = t + d
    <2>1. v - t \in Nat /\ v = t + (v - t)
      BY <1>0
    <2> QED BY <2>1
  <1>4. v * v * (3072 - 2 * v) - t * t * (3072 - 2 * t)
           = d * (3072 * (v + t) - 2 * (v * v + v * t + t * t))
    BY <1>0, <1>3, SMTT(30)
  <1>5. v * v <= 1024 * v /\ v * t <= 1024 * t /\ t * t <= 1024 * t
    BY <1>0, SMT
  <1>6. 3072 * (v + t) - 2 * (v * v + v * t + t * t) \in Nat
    <2> DEFINE a == v * v
               b == v * t
               c == t * t
    <2>1. a \in Nat /\ b \in Nat /\ c \in Nat /\ a <= 1024 * v /\ b <= 1024 * t /\ c <= 1024 * t
      BY <1>0, <1>5, SMT
    <2> HIDE DEF a, b, c
    <2>2. 3072 * (v + t) - 2 * (a + b + c) \in Nat
      BY <1>0, <2>1
    <2> QED BY <2>2 DEF a, b, c
  <1> DEFINE z == d * (3072 * (v + t) - 2 * (v * v + v * t + t * t))
  <1>7. z \in Nat
    BY <1>3, <1>6, SMT
  <1>8. Cubic(v) - Cubic(t) = z
    BY <1>4 DEF Cubic
  <1> HIDE DEF z
  <1> QED BY <1>2, <1>7, <1>8

\* The weight of a frame, from nothing to the whole, grows with the frame.
LEMMA WeightOrdered ==
    ASSUME NEW s \in Frame, NEW u \in Frame, s <= u
    PROVE  /\ Weight(s) \in Part /\ Weight(u) \in Part
           /\ Weight(s) <= Weight(u)
           /\ s = 0 => Weight(s) = 0
           /\ u = FadeFrames => Weight(u) = 256
  <1> DEFINE W(n) == Weight(n)
             E(n) == Cubic(At(n)) \div 1048576
             R(n) == (E(n) * 256 + 512) \div 1024
  <1>1. ASSUME NEW n
        PROVE  W(n) = IF n = 0 THEN 0
                      ELSE IF n >= FadeFrames THEN 256
                      ELSE IF 256 < R(n) THEN 256 ELSE R(n)
    BY DEF Weight, Lesser, Eased, Cubic, At, FixedOne, WeightMax
  <1>2. At(s) \in Unit /\ At(u) \in Unit /\ At(s) <= At(u)
    BY UnitTime
  <1>3. Cubic(At(s)) \in Nat /\ Cubic(At(u)) \in Nat /\ Cubic(At(s)) <= Cubic(At(u))
    BY <1>2, CubicOrdered
  <1>4. E(s) \in Nat /\ E(u) \in Nat /\ E(s) <= E(u)
    BY <1>3, DivFacts, DivOrdered
  <1> HIDE DEF E
  <1>5. R(s) \in Nat /\ R(u) \in Nat /\ R(s) <= R(u)
    BY <1>4
  <1> HIDE DEF R, W
  <1>6. s \in Nat /\ u \in Nat /\ FadeFrames \in Nat /\ FadeFrames # 0 /\ u <= FadeFrames
    BY CrossfadeAssumption DEF Frame
  <1>7. /\ W(s) \in 0 .. 256 /\ W(u) \in 0 .. 256 /\ W(s) <= W(u)
        /\ s = 0 => W(s) = 0
        /\ u = FadeFrames => W(u) = 256
    <2>1. /\ W(s) = IF s = 0 THEN 0 ELSE IF s >= FadeFrames THEN 256
                    ELSE IF 256 < R(s) THEN 256 ELSE R(s)
          /\ W(u) = IF u = 0 THEN 0 ELSE IF u >= FadeFrames THEN 256
                    ELSE IF 256 < R(u) THEN 256 ELSE R(u)
      BY <1>1
    <2> QED BY <1>5, <1>6, <2>1
  <1> QED BY <1>7 DEF W, Part

\* The share of a difference that a weight takes, rounded down.
Share(d, w) == (d * w) \div 256
Differences == -255 .. 255

LEMMA ShareOrdered ==
    ASSUME NEW d \in Differences, NEW w \in Part, NEW v \in Part, w <= v
    PROVE  /\ d >= 0 => 0 <= Share(d, w) /\ Share(d, w) <= Share(d, v) /\ Share(d, v) <= d
           /\ d <= 0 => Share(d, w) <= 0 /\ Share(d, v) <= Share(d, w) /\ d <= Share(d, v)
           /\ Share(d, w) \in Int /\ Share(d, v) \in Int
           /\ w = 0 => Share(d, w) = 0
           /\ w = 256 => Share(d, w) = d
  <1> DEFINE p == d * w
             q == d * v
  <1>0. d \in -255 .. 255 /\ w \in 0 .. 256 /\ v \in 0 .. 256
    BY DEF Differences, Part
  <1>1. p \in Int /\ q \in Int /\ (w = 0 => p = 0) /\ (w = 256 => p = 256 * d)
    BY <1>0
  <1>2. d >= 0 => 0 <= p /\ p <= q /\ q <= 256 * d
    BY <1>0, SMT
  <1>3. d <= 0 => p <= 0 /\ q <= p /\ 256 * d <= q
    BY <1>0, SMT
  <1> HIDE DEF p, q
  <1>4. /\ d >= 0 => 0 <= p \div 256 /\ p \div 256 <= q \div 256 /\ q \div 256 <= d
        /\ d <= 0 => p \div 256 <= 0 /\ q \div 256 <= p \div 256 /\ d <= q \div 256
        /\ p \div 256 \in Int /\ q \div 256 \in Int
        /\ w = 0 => p \div 256 = 0
        /\ w = 256 => p \div 256 = d
    BY <1>0, <1>1, <1>2, <1>3
  <1> QED BY <1>4 DEF p, q, Share

\* The blend of two channels lies between them and nears the second as the
\* weight grows.
Mixed(a, b, w) == a + Share(b - a, w)

LEMMA MixedOrdered ==
    ASSUME NEW a \in Channel, NEW b \in Channel, NEW w \in Part, NEW v \in Part, w <= v
    PROVE  /\ Mixed(a, b, w) \in Channel /\ Mixed(a, b, v) \in Channel
           /\ a <= b => /\ a <= Mixed(a, b, w) /\ Mixed(a, b, w) <= Mixed(a, b, v)
                        /\ Mixed(a, b, v) <= b
           /\ b <= a => /\ Mixed(a, b, w) <= a /\ Mixed(a, b, v) <= Mixed(a, b, w)
                        /\ b <= Mixed(a, b, v)
           /\ w = 0 => Mixed(a, b, w) = a
           /\ v = 256 => Mixed(a, b, v) = b
  <1>1. PICK d \in Differences : d = b - a
    BY DEF Differences, Channel
  <1>2. /\ d >= 0 => 0 <= Share(d, w) /\ Share(d, w) <= Share(d, v) /\ Share(d, v) <= d
        /\ d <= 0 => Share(d, w) <= 0 /\ Share(d, v) <= Share(d, w) /\ d <= Share(d, v)
        /\ Share(d, w) \in Int /\ Share(d, v) \in Int
        /\ w = 0 => Share(d, w) = 0
    BY ShareOrdered
  <1>3. v = 256 => Share(d, v) = d
    <2>1. v <= v
      BY DEF Part
    <2> QED BY <2>1, ShareOrdered
  <1>4. Mixed(a, b, w) = a + Share(d, w) /\ Mixed(a, b, v) = a + Share(d, v)
    BY <1>1 DEF Mixed
  <1> QED BY <1>1, <1>2, <1>3, <1>4 DEF Channel

\* What a frame of a fade shows is that blend with the weight of the frame.
LEMMA BlendMixed ==
    ASSUME NEW a \in Channel, NEW b \in Channel, NEW s \in Frame
    PROVE  Blend(a, b, s) = Mixed(a, b, Weight(s))
  <1>1. PICK w : w = Weight(s)
    OBVIOUS
  <1>2. w \in Part /\ w <= w
    <2>1. s <= s
      BY DEF Frame
    <2>2. w \in Part
      BY <1>1, <2>1, WeightOrdered
    <2> QED BY <2>2 DEF Part
  <1>3. Mixed(a, b, w) \in Channel /\ (w = 0 => Mixed(a, b, w) = a) /\ (w = 256 => Mixed(a, b, w) = b)
    BY <1>2, MixedOrdered
  <1>4. Blend(a, b, s)
           = IF w = 0 THEN a ELSE IF w >= 256 THEN b ELSE Mix(a, b, w)
    BY <1>1 DEF Blend, WeightMax
  <1>5. Mix(a, b, w) = Mixed(a, b, w)
    <2>1. Lesser(w, 256) = w
      BY <1>2 DEF Lesser, Part
    <2>2. Mix(a, b, w) = ClampChannel(Mixed(a, b, w))
      BY <2>1 DEF Mix, Mixed, Share
    <2>3. PICK m \in Channel : m = Mixed(a, b, w)
      BY <1>3
    <2>4. ClampChannel(m) = m
      BY DEF ClampChannel, Channel
    <2> QED BY <2>2, <2>3, <2>4
  <1>6. Blend(a, b, s) = Mixed(a, b, w)
    BY <1>2, <1>3, <1>4, <1>5 DEF Part
  <1> QED BY <1>1, <1>6

\* A frame s of a fade and a later one u show these channels.
Between(a, b, s, u, f, g) ==
    /\ f \in Channel /\ g \in Channel
    /\ a <= b => a <= f /\ f <= g /\ g <= b
    /\ b <= a => f <= a /\ g <= f /\ b <= g
    /\ s = 0 => f = a
    /\ u = FadeFrames => g = b

LEMMA BlendOrdered ==
    ASSUME NEW a \in Channel, NEW b \in Channel,
           NEW s \in Frame, NEW u \in Frame, s <= u
    PROVE  Between(a, b, s, u, Blend(a, b, s), Blend(a, b, u))
  <1>1. PICK w : w = Weight(s)
    OBVIOUS
  <1>2. PICK v : v = Weight(u)
    OBVIOUS
  <1>3. /\ w \in Part /\ v \in Part /\ w <= v
        /\ s = 0 => w = 0
        /\ u = FadeFrames => v = 256
    BY <1>1, <1>2, WeightOrdered
  <1>4. Blend(a, b, s) = Mixed(a, b, w) /\ Blend(a, b, u) = Mixed(a, b, v)
    BY <1>1, <1>2, BlendMixed
  <1>5. /\ Mixed(a, b, w) \in Channel /\ Mixed(a, b, v) \in Channel
        /\ a <= b => /\ a <= Mixed(a, b, w) /\ Mixed(a, b, w) <= Mixed(a, b, v)
                     /\ Mixed(a, b, v) <= b
        /\ b <= a => /\ Mixed(a, b, w) <= a /\ Mixed(a, b, v) <= Mixed(a, b, w)
                     /\ b <= Mixed(a, b, v)
        /\ w = 0 => Mixed(a, b, w) = a
        /\ v = 256 => Mixed(a, b, v) = b
    BY <1>3, MixedOrdered
  <1>6. Between(a, b, s, u, Mixed(a, b, w), Mixed(a, b, v))
    BY <1>3, <1>5 DEF Between
  <1> QED BY <1>4, <1>6

\* A channel nears the second scene from frame to frame and never turns back.
LEMMA NeverTurnsBack ==
    ASSUME NEW a \in Channel, NEW b \in Channel, NEW s \in Frame, NEW u \in Frame, s <= u
    PROVE  Distance(Blend(a, b, u), b) <= Distance(Blend(a, b, s), b)
  <1>1. PICK f : f = Blend(a, b, s)
    OBVIOUS
  <1>2. PICK g : g = Blend(a, b, u)
    OBVIOUS
  <1>3. /\ f \in Channel /\ g \in Channel
        /\ a <= b => f <= g /\ g <= b
        /\ b <= a => g <= f /\ b <= g
    <2>1. Between(a, b, s, u, f, g)
      BY <1>1, <1>2, BlendOrdered
    <2> QED BY <2>1 DEF Between
  <1>4. Distance(g, b) <= Distance(f, b)
    BY <1>3 DEF Distance, Channel
  <1> QED BY <1>1, <1>2, <1>4

\* The frames and channels of a fade stay in their ranges.
FadeKept == low_from \in Channel /\ low_to \in Channel /\ elapsed \in Frame

LEMMA FadeStays == FadeSpec => []FadeKept
  <1>1. FadeInit => FadeKept
    BY CrossfadeAssumption DEF FadeInit, FadeKept, Frame
  <1>2. FadeKept /\ [Advance]_fadeVars => FadeKept'
    BY CrossfadeAssumption DEF FadeKept, Advance, fadeVars, Frame
  <1> QED BY <1>1, <1>2, PTL DEF FadeSpec

\* No frame of a fade is brighter or darker than both scenes, and its two ends
\* are the scenes exactly, however many frames the fade has
\* (transition.h:43-45, transition.c:53-101, canvas.c:76-78).
THEOREM FadesStayBetween == FadeSpec => []WithinScenes
  <1>1. FadeKept => WithinScenes
    <2> SUFFICES ASSUME FadeKept PROVE WithinScenes
      OBVIOUS
    <2>1. PICK a \in Channel, b \in Channel, s \in Frame :
             a = low_from /\ b = low_to /\ s = elapsed
      BY DEF FadeKept
    <2>2. PICK f : f = Blend(a, b, s)
      OBVIOUS
    <2>3. s <= s
      BY DEF Frame
    <2>4. /\ f \in Channel
          /\ a <= b => a <= f /\ f <= b
          /\ b <= a => f <= a /\ b <= f
          /\ s = 0 => f = a
          /\ s = FadeFrames => f = b
      <3>1. Between(a, b, s, s, f, f)
        BY <2>2, <2>3, BlendOrdered
      <3> QED BY <3>1 DEF Between
    <2>5. Distance(a, f) + Distance(f, b) = Distance(a, b)
      BY <2>4 DEF Distance, Channel
    <2> QED BY <2>1, <2>2, <2>4, <2>5 DEF WithinScenes
  <1> QED BY <1>1, FadeStays, PTL

\* From one frame to the next t moves by no more than 69 of its 1024 parts in a
\* fade of fifteen frames or more.
LEMMA SmallTimeStep ==
    ASSUME FadeFrames >= 15, NEW s \in Frame, s < FadeFrames
    PROVE  At(s + 1) <= At(s) + 69
  <1>1. PICK n \in Nat : n = FadeFrames /\ n >= 15
    BY CrossfadeAssumption
  <1>2. s \in Nat /\ s * 1024 \in Nat /\ (s + 1) * 1024 \in Nat
    BY CrossfadeAssumption DEF Frame
  <1>3. PICK p \in Nat : p = At(s) /\ s * 1024 < n * p + n
    BY <1>1, <1>2, DivFacts DEF At
  <1>4. PICK q \in Nat : q = At(s + 1) /\ n * q <= (s + 1) * 1024
    BY <1>1, <1>2, DivFacts DEF At
  <1>5. ASSUME p + 70 <= q PROVE FALSE
    <2>1. n * (p + 70) <= n * q
      BY <1>1, <1>3, <1>4, <1>5
    <2>2. n * (p + 70) = n * p + 70 * n
      BY <1>1, <1>3
    <2>3. PICK x \in Nat, y \in Nat : x = n * p /\ y = n * q
      BY <1>1, <1>3, <1>4
    <2> QED BY <1>1, <1>2, <1>3, <1>4, <2>1, <2>2, <2>3
  <1>6. q <= p + 69
    BY <1>3, <1>4, <1>5
  <1> QED BY <1>3, <1>4, <1>6

\* The smoothstep is nowhere steeper than three halves.
LEMMA CubicSlope ==
    ASSUME NEW t \in Unit, NEW v \in Unit, t <= v, v <= t + 69
    PROVE  Cubic(v) <= Cubic(t) + 108527616
  <1>0. t \in 0 .. 1024 /\ v \in 0 .. 1024
    BY DEF Unit
  <1>1. PICK d \in 0 .. 69 : v = t + d
    <2>1. v - t \in 0 .. 69 /\ v = t + (v - t)
      BY <1>0
    <2> QED BY <2>1
  <1>2. v * v * (3072 - 2 * v) - t * t * (3072 - 2 * t)
           = d * (3072 * (v + t) - 2 * (v * v + v * t + t * t))
    BY <1>0, <1>1, SMTT(30)
  <1>3. PICK k \in Int : k = 3072 * (v + t) - 2 * (v * v + v * t + t * t)
    BY <1>0
  <1>4. k <= 1572864
    <2>1. PICK e \in Int, g \in Int : e = v + t - 1024 /\ g = v - t
      BY <1>0
    <2>2. 2 * (1572864 - k) = 3 * (e * e) + g * g
      BY <1>0, <1>3, <2>1, SMTT(30)
    <2>3. e * e >= 0 /\ g * g >= 0 /\ e * e \in Int /\ g * g \in Int
      BY <2>1, SMT
    <2> QED BY <1>3, <2>2, <2>3
  <1>5. d * k <= 108527616
    <2>1. d * k <= d * 1572864
      BY <1>1, <1>3, <1>4, SMT
    <2>2. d * 1572864 <= 108527616
      BY <1>1
    <2>3. d * k \in Int /\ d * 1572864 \in Int
      BY <1>1, <1>3
    <2> QED BY <2>1, <2>2, <2>3
  <1>6. Cubic(v) - Cubic(t) = d * k
    BY <1>2, <1>3 DEF Cubic
  <1>7. Cubic(v) \in Nat /\ Cubic(t) \in Nat
    BY CubicOrdered
  <1>8. d * k \in Int
    BY <1>1, <1>3
  <1> QED BY <1>5, <1>6, <1>7, <1>8

\* A frame takes at most 26 of the 256 parts.
LEMMA GentleWeight ==
    ASSUME FadeFrames >= 15, NEW s \in Frame, s < FadeFrames
    PROVE  Weight(s + 1) <= Weight(s) + 26
  <1> DEFINE E(n) == Cubic(At(n)) \div 1048576
             R(n) == (E(n) * 256 + 512) \div 1024
             W(n) == Weight(n)
  <1>1. s \in Nat /\ s + 1 \in Frame /\ s <= s + 1 /\ FadeFrames \in Nat
    BY CrossfadeAssumption DEF Frame
  <1>2. ASSUME NEW n
        PROVE  W(n) = IF n = 0 THEN 0
                      ELSE IF n >= FadeFrames THEN 256
                      ELSE IF 256 < R(n) THEN 256 ELSE R(n)
    BY DEF Weight, Lesser, Eased, Cubic, At, FixedOne, WeightMax
  <1>3. PICK t \in Unit : t = At(s)
    BY <1>1, UnitTime
  <1>4. PICK v \in Unit : v = At(s + 1)
    BY <1>1, UnitTime
  <1>5. t <= v /\ v <= t + 69
    BY <1>1, <1>3, <1>4, UnitTime, SmallTimeStep
  <1>6. PICK x \in Nat, y \in Nat : x = Cubic(t) /\ y = Cubic(v) /\ x <= y /\ y <= x + 108527616
    BY <1>5, CubicOrdered, CubicSlope
  <1>7. /\ x \div 1048576 \in Nat /\ y \div 1048576 \in Nat
        /\ y \div 1048576 <= x \div 1048576 + 104
    BY <1>6, SMT
  <1>8. E(s) \in Nat /\ E(s + 1) \in Nat /\ E(s + 1) <= E(s) + 104
    BY <1>3, <1>4, <1>6, <1>7
  <1>9. s + 1 = FadeFrames => E(s + 1) = 1024
    <2>1. ASSUME s + 1 = FadeFrames PROVE v = 1024
      <3>1. PICK n \in Nat \ {0} : n = FadeFrames
        BY CrossfadeAssumption
      <3>2. v = (n * 1024) \div n
        BY <1>4, <2>1, <3>1 DEF At
      <3>3. n * 1024 \in Nat
        BY <3>1
      <3>4. v \in Nat /\ n * v <= n * 1024 /\ n * 1024 < n * v + n
        BY <3>1, <3>2, <3>3, DivFacts
      <3>5. v <= 1024
        BY DEF Unit
      <3>6. ASSUME v + 1 <= 1024 PROVE FALSE
        <4>1. n * (v + 1) <= n * 1024
          BY <3>1, <3>4, <3>6
        <4>2. n * (v + 1) = n * v + n
          BY <3>1, <3>4
        <4> QED BY <3>1, <3>4, <4>1, <4>2
      <3> QED BY <3>4, <3>5, <3>6
    <2>2. ASSUME v = 1024 PROVE Cubic(v) \div 1048576 = 1024
      BY <2>2 DEF Cubic
    <2> QED BY <1>4, <2>1, <2>2
  <1>10. s = 0 => E(s) = 0
    <2>1. ASSUME s = 0 PROVE t = 0
      <3>1. PICK n \in Nat \ {0} : n = FadeFrames
        BY CrossfadeAssumption
      <3>2. t = 0 \div n
        BY <1>3, <2>1, <3>1 DEF At
      <3> QED BY <3>1, <3>2
    <2>2. ASSUME t = 0 PROVE Cubic(t) \div 1048576 = 0
      BY <2>2 DEF Cubic
    <2> QED BY <1>3, <2>1, <2>2
  <1> HIDE DEF E
  <1>11. /\ R(s) \in Nat /\ R(s + 1) \in Nat /\ R(s + 1) <= R(s) + 26
         /\ s = 0 => R(s) = 0
         /\ s + 1 = FadeFrames => R(s + 1) = 256
    BY <1>8, <1>9, <1>10
  <1> HIDE DEF R, W
  <1>12. /\ W(s) = IF s = 0 THEN 0 ELSE IF s >= FadeFrames THEN 256
                   ELSE IF 256 < R(s) THEN 256 ELSE R(s)
         /\ W(s + 1) = IF s + 1 = 0 THEN 0 ELSE IF s + 1 >= FadeFrames THEN 256
                       ELSE IF 256 < R(s + 1) THEN 256 ELSE R(s + 1)
    BY <1>2
  <1>13. W(s + 1) <= W(s) + 26
    BY <1>1, <1>11, <1>12
  <1> QED BY <1>13 DEF W

\* 26 parts of a difference are less than a ninth of it.
LEMMA GentleMix ==
    ASSUME NEW a \in Channel, NEW b \in Channel, NEW w \in Part, NEW v \in Part,
           w <= v, v <= w + 26
    PROVE  9 * Distance(Mixed(a, b, w), Mixed(a, b, v)) <= Distance(a, b) + 9
  <1>0. w \in 0 .. 256 /\ v \in 0 .. 256 /\ a \in 0 .. 255 /\ b \in 0 .. 255
    BY DEF Part, Channel
  <1>1. PICK d \in -255 .. 255 : d = b - a
    BY <1>0
  <1>2. PICK k \in 0 .. 26 : v = w + k
    <2>1. v - w \in 0 .. 26 /\ v = w + (v - w)
      BY <1>0
    <2> QED BY <2>1
  <1>3. PICK p \in Int, q \in Int : p = d * w /\ q = d * k
    BY <1>0, <1>1, <1>2
  <1>4. d * v = p + q
    BY <1>0, <1>1, <1>2, <1>3, SMT
  <1>5. /\ d >= 0 => 0 <= q /\ q <= 26 * d
        /\ d <= 0 => q <= 0 /\ 26 * d <= q
    BY <1>1, <1>2, <1>3, SMT
  <1>6. PICK x \in Int, y \in Int : x = p \div 256 /\ y = (p + q) \div 256
    BY <1>3
  <1>7. 256 * x <= p /\ p < 256 * x + 256 /\ 256 * y <= p + q /\ p + q < 256 * y + 256
    BY <1>3, <1>6
  <1>8. Mixed(a, b, w) = a + x /\ Mixed(a, b, v) = a + y
    BY <1>1, <1>3, <1>4, <1>6 DEF Mixed, Share
  <1>9. /\ d >= 0 => x <= y /\ 9 * (y - x) <= d + 9
        /\ d <= 0 => y <= x /\ 9 * (x - y) <= 9 - d
    BY <1>1, <1>3, <1>5, <1>6, <1>7
  <1>10. 9 * Distance(a + x, a + y) <= Distance(a, b) + 9
    BY <1>0, <1>1, <1>6, <1>9 DEF Distance
  <1> QED BY <1>8, <1>10

\* A fade of at least fifteen frames, the code's number, has no flicker: the
\* channel never turns back and no two adjacent frames differ by more than a
\* ninth of the cut they replace plus rounding, whatever the scenes
\* (transition.h:7-16, transition.c:48-52, 79-101).
THEOREM FadesNeverFlicker ==
    ASSUME FadeFrames >= 15
    PROVE  FadeSpec => NoFlicker
  <1>1. ASSUME FadeKept, Advance
        PROVE  LET seen == Blend(low_from, low_to, elapsed)
                   next == Blend(low_from, low_to, elapsed')
               IN  /\ Distance(next, low_to) <= Distance(seen, low_to)
                   /\ 9 * Distance(seen, next) <= Distance(low_from, low_to) + 9
    <2>1. PICK a \in Channel, b \in Channel, s \in Frame :
             a = low_from /\ b = low_to /\ s = elapsed
      BY <1>1 DEF FadeKept
    <2>2. s < FadeFrames /\ s <= s + 1 /\ s + 1 \in Frame /\ elapsed' = s + 1
      BY <1>1, <2>1, CrossfadeAssumption DEF Advance, Frame
    <2>3. Distance(Blend(a, b, s + 1), b) <= Distance(Blend(a, b, s), b)
      BY <2>2, NeverTurnsBack
    <2>4. PICK w \in Part, v \in Part : w = Weight(s) /\ v = Weight(s + 1) /\ w <= v
      BY <2>2, WeightOrdered
    <2>5. v <= w + 26
      BY <2>2, <2>4, GentleWeight
    <2>6. Blend(a, b, s) = Mixed(a, b, w) /\ Blend(a, b, s + 1) = Mixed(a, b, v)
      BY <2>2, <2>4, BlendMixed
    <2>7. 9 * Distance(Mixed(a, b, w), Mixed(a, b, v)) <= Distance(a, b) + 9
      BY <2>4, <2>5, GentleMix
    <2> QED BY <2>1, <2>2, <2>3, <2>6, <2>7
  <1>2. FadeKept /\ [Advance]_fadeVars
        => [LET seen == Blend(low_from, low_to, elapsed)
                next == Blend(low_from, low_to, elapsed')
            IN  /\ Distance(next, low_to) <= Distance(seen, low_to)
                /\ 9 * Distance(seen, next) <= Distance(low_from, low_to) + 9]_fadeVars
    BY <1>1
  <1> QED BY <1>2, FadeStays, PTL DEF FadeSpec, NoFlicker

\* The smoothstep on 0 .. m, scaled by m^3: it grows, and by no more than three
\* halves of what its argument does.
Curve(z, m) == z * z * (3 * m - 2 * z)

LEMMA CurveFacts ==
    ASSUME NEW m \in Nat, NEW x \in Nat, NEW y \in Nat, NEW n \in Nat,
           x <= y, y <= m, y <= x + n
    PROVE  /\ Curve(x, m) \in Int /\ Curve(y, m) \in Int
           /\ Curve(x, m) <= Curve(y, m)
           /\ 2 * Curve(y, m) <= 2 * Curve(x, m) + 3 * (n * (m * m))
  <1>0. x \in Nat /\ y \in Nat /\ x <= y /\ y <= m
    OBVIOUS
  <1>1. PICK d \in 0 .. n : y = x + d
    <2>1. y - x \in 0 .. n /\ y = x + (y - x)
      BY <1>0
    <2> QED BY <2>1
  <1>2. PICK f \in Int, g \in Int : f = Curve(x, m) /\ g = Curve(y, m)
    BY <1>0 DEF Curve
  <1>3. PICK k \in Int : k = 3 * m * (x + y) - 2 * (x * x + x * y + y * y)
    <2>1. 3 * m * (x + y) \in Int /\ x * x + x * y + y * y \in Int
      BY <1>0
    <2>2. 3 * m * (x + y) - 2 * (x * x + x * y + y * y) \in Int
      BY <2>1
    <2> QED BY <2>2
  <1>4. PICK z \in Int : z = d * k
    BY <1>1, <1>3
  <1>5. g - f = z
    <2>1. y * y * (3 * m - 2 * y) - x * x * (3 * m - 2 * x) = d * k
      BY <1>0, <1>1, <1>3, SMTT(30)
    <2> QED BY <1>2, <1>4, <2>1 DEF Curve
  <1>6. 0 <= k
    <2>1. PICK a \in Nat, b \in Nat, c \in Nat, p \in Nat, q \in Nat :
             /\ a = x * x /\ b = x * y /\ c = y * y /\ p = m * x /\ q = m * y
             /\ a <= p /\ b <= p /\ c <= q
      <3>1. x * x <= m * x /\ x * y <= m * x /\ y * y <= m * y
        BY <1>0, SMT
      <3>2. x * x \in Nat /\ x * y \in Nat /\ y * y \in Nat /\ m * x \in Nat /\ m * y \in Nat
        BY <1>0
      <3> QED BY <3>1, <3>2
    <2>2. k = 3 * (p + q) - 2 * (a + b + c)
      BY <1>0, <1>3, <2>1, SMT
    <2>3. p <= q
      BY <1>0, <2>1, SMT
    <2> QED BY <2>1, <2>2, <2>3
  <1>7. 2 * k <= 3 * (m * m)
    <2>1. PICK e \in Int, h \in Int : e = x + y - m /\ h = y - x
      BY <1>0
    <2>2. PICK u \in Nat, v \in Nat, w \in Nat : u = e * e /\ v = h * h /\ w = m * m
      <3>1. e * e \in Nat /\ h * h \in Nat /\ m * m \in Nat
        BY <2>1, SMT
      <3> QED BY <3>1
    <2>3. 3 * (m * m) - 2 * k = 3 * (e * e) + h * h
      BY <1>0, <1>3, <2>1, SMTT(30)
    <2>4. 3 * w - 2 * k = 3 * u + v
      BY <2>2, <2>3
    <2>5. 2 * k <= 3 * w
      BY <1>3, <2>2, <2>4
    <2> QED BY <2>2, <2>5
  <1>8. 0 <= z
    BY <1>1, <1>3, <1>4, <1>6, SMT
  <1>9. PICK w \in Nat : w = m * m
    OBVIOUS
  <1>10. 2 * z <= 3 * (n * w)
    <2>1. d * (2 * k) <= d * (3 * w)
      BY <1>1, <1>3, <1>7, <1>9, SMT
    <2>2. d * (3 * w) <= n * (3 * w)
      BY <1>1, <1>9, SMT
    <2>3. PICK r \in Int, s \in Int : r = d * (3 * w) /\ s = n * (3 * w)
      BY <1>1, <1>9
    <2>4. d * (2 * k) = 2 * z
      BY <1>1, <1>3, <1>4, SMT
    <2>5. s = 3 * (n * w)
      BY <1>9, <2>3, SMT
    <2> QED BY <1>4, <2>1, <2>2, <2>3, <2>4, <2>5
  <1>11. f <= g
    BY <1>2, <1>4, <1>5, <1>8
  <1>12. 2 * g <= 2 * f + 3 * (n * w)
    <2>1. n * w \in Int
      BY <1>9
    <2> QED BY <1>2, <1>4, <1>5, <1>10, <2>1
  <1> QED BY <1>2, <1>9, <1>11, <1>12

\* Two roundings of the weight cost half a unit upwards and half a unit down.
LEMMA WeightRounds ==
    ASSUME NEW s \in Frame, s # 0, s < FadeFrames
    PROVE  /\ 4194304 * Weight(s) <= Cubic(At(s)) + 2097152
           /\ Cubic(At(s)) <= 4194304 * Weight(s) + 2097152
           /\ Weight(s) \in Nat
  <1>1. s \in Nat /\ s <= s /\ FadeFrames \in Nat
    BY CrossfadeAssumption, SMT DEF Frame
  <1>2. PICK t \in Unit : t = At(s)
    BY <1>1, UnitTime, SMT
  <1>3. PICK c \in Nat : c = Cubic(t) /\ c <= 1073741824
    <2>1. 1024 \in Unit /\ t <= 1024
      BY SMT DEF Unit
    <2>2. Cubic(t) \in Nat /\ Cubic(t) <= Cubic(1024)
      BY <2>1, CubicOrdered, SMT
    <2>3. Cubic(1024) = 1073741824
      BY SMT DEF Cubic
    <2> QED BY <2>2, <2>3, SMT
  <1>4. PICK e \in Nat : e = c \div 1048576 /\ 1048576 * e <= c /\ c < 1048576 * e + 1048576
    BY <1>3, SMT
  <1>5. PICK r \in Nat : r = (e * 256 + 512) \div 1024 /\ 4 * r <= e + 2 /\ e <= 4 * r + 1
    BY <1>4, SMT
  <1>6. r <= 256
    BY <1>3, <1>4, <1>5, SMT
  <1>7. Weight(s) = IF 256 < r THEN 256 ELSE r
    <2>1. Weight(s) = LET R == ((Cubic(t) \div 1048576) * 256 + 512) \div 1024
                      IN  IF 256 < R THEN 256 ELSE R
      BY <1>1, <1>2, SMT DEF Weight, Lesser, Eased, Cubic, At, FixedOne, WeightMax
    <2> QED BY <1>3, <1>4, <1>5, <2>1, SMT
  <1>8. Weight(s) = r
    BY <1>6, <1>7, SMT
  <1>9. 4194304 * r <= c + 2097152 /\ c <= 4194304 * r + 2097152
    BY <1>3, <1>4, <1>5, SMT
  <1> QED BY <1>2, <1>3, <1>8, <1>9, SMT

\* The weight of every frame is within one unit of the exact smoothstep, in a
\* fade of any number of frames: the three roundings of transition.c:64-73
\* cost less than one unit together.
THEOREM WeightsNearSmoothstep == FadeSpec => []NearSmoothstep
  <1>1. ASSUME NEW s \in Frame, NEW n \in Nat \ {0}, n = FadeFrames
        PROVE  Distance(Weight(s) * n * n * n, 256 * s * s * (3 * n - 2 * s)) <= n * n * n
    <2>0. s \in 0 .. n
      BY <1>1, SMT DEF Frame
    <2>1. PICK z \in Nat : z = n * n * n
      BY <1>1, SMT
    <2>2. CASE s = 0
      <3>1. Weight(s) = 0
        BY <2>2, SMT DEF Weight
      <3>2. Weight(s) * n * n * n = 0 /\ 256 * s * s * (3 * n - 2 * s) = 0
        BY <1>1, <2>2, <3>1, SMT
      <3>3. Distance(0, 0) <= z
        BY SMT DEF Distance
      <3> QED BY <2>1, <3>2, <3>3, SMT
    <2>3. CASE s = n
      <3>1. Weight(s) = 256
        BY <1>1, <2>3, SMT DEF Weight, WeightMax
      <3>2. Weight(s) * n * n * n = 256 * z
        BY <1>1, <2>1, <3>1, SMT
      <3>3. 256 * s * s * (3 * n - 2 * s) = 256 * z
        BY <1>1, <2>1, <2>3, SMT
      <3>4. Distance(256 * z, 256 * z) <= z
        BY SMT DEF Distance
      <3> QED BY <2>1, <3>2, <3>3, <3>4, SMT
    <2>4. CASE s # 0 /\ s # n
      <3>1. PICK t \in Unit : t = At(s)
        BY <2>0, UnitTime, SMT
      <3>2. PICK w \in Nat, c \in Nat : /\ w = Weight(s) /\ c = Cubic(t)
                                        /\ 4194304 * w <= c + 2097152
                                        /\ c <= 4194304 * w + 2097152
        <4>1. t <= t
          BY DEF Unit
        <4>2. Cubic(t) \in Nat
          BY <4>1, CubicOrdered
        <4>3. /\ 4194304 * Weight(s) <= Cubic(t) + 2097152
              /\ Cubic(t) <= 4194304 * Weight(s) + 2097152
              /\ Weight(s) \in Nat
          <5>1. s < FadeFrames
            BY <1>1, <2>0, <2>4
          <5> QED BY <2>4, <3>1, <5>1, WeightRounds, SMT
        <4> QED BY <4>2, <4>3, SMT
      <3>3. PICK x \in Nat, y \in Nat, m \in Nat : x = n * t /\ y = 1024 * s /\ m = 1024 * n
        BY <1>1, <2>0, SMT DEF Unit
      <3>4. x <= y /\ y <= x + n /\ y <= m
        <4>1. n * At(s) <= s * 1024 /\ s * 1024 < n * At(s) + n
          BY <1>1, <2>0, DivFacts, SMT DEF At
        <4> QED BY <1>1, <2>0, <3>1, <3>3, <4>1, SMT
      <3>5. PICK f \in Int, g \in Int : f = Curve(x, m) /\ g = Curve(y, m)
        BY <3>3, SMT DEF Curve
      <3>6. f <= g /\ 2 * g <= 2 * f + 3 * (n * (m * m))
        <4>1. n \in Nat
          BY <1>1
        <4>2. /\ Curve(x, m) <= Curve(y, m)
              /\ 2 * Curve(y, m) <= 2 * Curve(x, m) + 3 * (n * (m * m))
          BY <3>4, <4>1, CurveFacts, Zenon
        <4> QED BY <3>5, <4>2
      <3>7. n * (m * m) = 1048576 * z
        BY <1>1, <2>1, <3>3, SMT
      <3>8. f = c * z
        <4>1. t \in Nat
          BY SMT DEF Unit
        <4>2. (n * t) * (n * t) * (3 * (1024 * n) - 2 * (n * t)) = (t * t * (3072 - 2 * t)) * (n * n * n)
          BY <1>1, <4>1, SMTT(30)
        <4> QED BY <2>1, <3>2, <3>3, <3>5, <4>2, SMT DEF Curve, Cubic
      <3>9. PICK k \in Int : k = s * s * (3 * n - 2 * s)
        BY <1>1, <2>0, SMT
      <3>10. g = 1073741824 * k
        <4>1. (1024 * s) * (1024 * s) * (3 * (1024 * n) - 2 * (1024 * s))
                 = 1073741824 * (s * s * (3 * n - 2 * s))
          BY <1>1, <2>0, SMTT(30)
        <4> QED BY <3>3, <3>5, <3>9, <4>1, SMT DEF Curve
      <3>11. PICK p \in Int, q \in Int : p = w * z /\ q = c * z
        BY <2>1, <3>2, SMT
      <3>12. 4194304 * p <= q + 2097152 * z /\ q <= 4194304 * p + 2097152 * z
        <4>1. /\ (4194304 * w) * z <= (c + 2097152) * z
              /\ c * z <= (4194304 * w + 2097152) * z
          BY <2>1, <3>2, SMT
        <4>2. /\ (4194304 * w) * z = 4194304 * (w * z)
              /\ (c + 2097152) * z = c * z + 2097152 * z
              /\ (4194304 * w + 2097152) * z = 4194304 * (w * z) + 2097152 * z
          <5>1. w \in Nat /\ c \in Nat /\ z \in Nat
            BY <2>1, <3>2
          <5> QED BY <5>1, SMT
        <4> QED BY <3>11, <4>1, <4>2, SMT
      <3>13. q <= g /\ 2 * g <= 2 * q + 3145728 * z
        BY <2>1, <3>5, <3>6, <3>7, <3>8, <3>11, SMT
      <3>14. p - 256 * k <= z /\ 256 * k - p <= z
        BY <2>1, <3>9, <3>10, <3>11, <3>12, <3>13, SMT
      <3>15. Weight(s) * n * n * n = p
        BY <1>1, <2>1, <3>2, <3>11, SMT
      <3>16. 256 * s * s * (3 * n - 2 * s) = 256 * k
        BY <1>1, <2>0, <3>9, SMT
      <3>17. Distance(p, 256 * k) <= z
        BY <2>1, <3>9, <3>11, <3>14, SMT DEF Distance
      <3> QED BY <2>1, <3>15, <3>16, <3>17, SMT
    <2> QED BY <2>2, <2>3, <2>4, SMT
  <1>2. FadeKept => NearSmoothstep
    <2> SUFFICES ASSUME FadeKept PROVE NearSmoothstep
      OBVIOUS
    <2>1. PICK s \in Frame, n \in Nat \ {0} : s = elapsed /\ n = FadeFrames
      BY CrossfadeAssumption DEF FadeKept
    <2>2. Distance(Weight(s) * n * n * n, 256 * s * s * (3 * n - 2 * s)) <= n * n * n
      BY <1>1, <2>1
    <2> QED BY <2>1, <2>2 DEF NearSmoothstep, WeightMax
  <1> QED BY <1>2, FadeStays, PTL

\* What the screen shows of scenes that stand still, of which c gives the
\* channel, when the picture p is swept.
OnScreen(c, p) == Blend(c[p.from], c[p.to], p.step)

\* The picture g is at least as near as f to the scene that f fades to.
Nears(f, g) ==
    \A c \in [Scenes -> Channel] : Distance(OnScreen(c, g), c[f.to]) <= Distance(OnScreen(c, f), c[f.to])

LEMMA FollowingNears ==
    ASSUME NEW f \in Picture, NEW g \in Picture, f # Console, Follows(f, g)
    PROVE  Nears(f, g)
  <1> SUFFICES ASSUME NEW c \in [Scenes -> Channel]
               PROVE  Distance(OnScreen(c, g), c[f.to]) <= Distance(OnScreen(c, f), c[f.to])
    BY DEF Nears
  <1>1. /\ c[f.from] \in Channel /\ c[f.to] \in Channel /\ c[g.from] \in Channel /\ c[g.to] \in Channel
        /\ f.step \in Nat /\ g.step \in Nat
    BY CrossfadeAssumption DEF Picture
  <1>2. f.step \in Frame /\ g.step \in Frame
    BY CrossfadeAssumption DEF Picture, Frame
  <1>3. CASE g.from = f.from /\ g.to = f.to /\ g.step = f.step + 1
    <2>1. f.step <= g.step
      BY <1>1, <1>3
    <2> QED BY <1>1, <1>2, <1>3, <2>1, NeverTurnsBack DEF OnScreen
  <1>4. CASE g.step = 0 /\ g.from = f.to
    <2>1. g.step <= g.step /\ f.step <= f.step
      BY <1>1
    <2>2. OnScreen(c, g) = c[f.to]
      <3>1. Between(c[g.from], c[g.to], g.step, g.step, OnScreen(c, g), OnScreen(c, g))
        BY <1>1, <1>2, <2>1, BlendOrdered DEF OnScreen
      <3> QED BY <1>4, <3>1 DEF Between
    <2>3. OnScreen(c, f) \in Channel
      <3>1. Between(c[f.from], c[f.to], f.step, f.step, OnScreen(c, f), OnScreen(c, f))
        BY <1>1, <1>2, <2>1, BlendOrdered DEF OnScreen
      <3> QED BY <3>1 DEF Between
    <2>4. PICK x \in Channel : x = OnScreen(c, f)
      BY <2>3
    <2>5. Distance(c[f.to], c[f.to]) <= Distance(x, c[f.to])
      BY <1>1 DEF Distance, Channel
    <2> QED BY <2>2, <2>4, <2>5
  <1> QED BY <1>3, <1>4 DEF Follows

\* Every picture swept into the framebuffer is at least as near to the scene
\* that the one before faded to, in every channel of every pixel: however
\* requests, signals and late frames fall, the display never turns back on its
\* way from scene to scene (pstv-demo-cart.c:51-53, 264-291, transition.c:48-52).
THEOREM ScreenNeverTurnsBack ==
    Spec => [][shown # Console /\ shown' # shown =>
                  \E f, g \in Picture : f = shown /\ g = shown' /\ Nears(f, g)]_vars
  <1>1. ASSUME TypeOK, TypeOK', shown # Console, Follows(shown, shown')
        PROVE  \E f, g \in Picture : f = shown /\ g = shown' /\ Nears(f, g)
    <2>1. shown \in Picture /\ shown.from \in Scenes /\ shown.to \in Scenes
      BY <1>1 DEF TypeOK, Picture
    <2>2. shown' # Console
      BY <1>1, <2>1, RuntimeAssumption DEF Follows, Console, Scenes
    <2>3. shown' \in Picture
      BY <1>1, <2>2 DEF TypeOK, Picture, Console
    <2>4. PICK f \in Picture, g \in Picture : f = shown /\ g = shown'
      BY <2>1, <2>3
    <2>5. Nears(f, g)
      BY <1>1, <2>4, FollowingNears
    <2> QED BY <2>4, <2>5
  <1>2. /\ TypeOK /\ TypeOK' /\ [shown' # shown => Follows(shown, shown')]_vars
        => [shown # Console /\ shown' # shown =>
               \E f, g \in Picture : f = shown /\ g = shown' /\ Nears(f, g)]_vars
    BY <1>1
  <1>3. LoopInv => TypeOK
    BY DEF LoopInv
  <1> QED BY <1>2, <1>3, LoopCorrect, PictureNeverJumps, PTL DEF NoHardCut

=============================================================================
