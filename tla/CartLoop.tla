------------------------------ MODULE CartLoop ------------------------------
(***************************************************************************)
(* main() of cart/src/pstv-demo-cart.c in live mode, with the signal       *)
(* handler that interrupts it at any point.  The scene clock is RuntimeOps *)
(* and the crossfade TransitionOps; a render is one step because the       *)
(* worker pool implements fork-join (WorkerPool, ForkJoin).                *)
(*                                                                         *)
(* A picture is a record: the two scenes that are blended and the step of  *)
(* the blend; a scene drawn alone is blended with itself at step 0.        *)
(***************************************************************************)
EXTENDS RuntimeOps, TransitionOps

CONSTANTS
    Origins,        \* CLOCK_MONOTONIC when the cart starts
    Elapsed,        \* what the clock may gain between two readings
    SignalHold,     \* the hold of a SIGUSR1 request, an hour
    KeyHold,        \* the hold of a button request, eight seconds
    MaxUsr1,        \* bound: how many SIGUSR1 are sent
    Jitter          \* a frame on time wakes up at most so late and works at least so long

ASSUME LoopAssumption ==
    /\ FadeFrames \in Nat \ {0}
    /\ Origins \subseteq Time
    /\ Elapsed \subseteq Nat
    /\ SignalHold \in Time /\ KeyHold \in Time
    /\ MaxUsr1 \in Nat
    /\ FramePeriod \in Time
    /\ Jitter \in Nat

VARIABLES
    pc,                     \* where main() is
    held,                   \* resources main() holds
    rt, now,                \* struct cart_runtime, now_ns
    running,                \* written by the handler and by QUIT
    next_scene_requested,   \* written by the handler and by main
    transition,             \* struct cart_transition
    buffers,                \* the scenes in low_from and low_to
    displayed_scene,
    shown,                  \* the picture last swept into the framebuffer
    usr1,                   \* SIGUSR1 sent so far
    lag,                    \* frames swept since the choice last changed
                            \* in which another scene was displayed
    fade                    \* when the fade began, whether a signal cut a sleep since, and
                            \* whether a frame since the choice was not on time (observations)

loopVars == <<rt, now, running, next_scene_requested, transition, buffers,
              displayed_scene, shown, lag, fade>>
vars == <<pc, held, usr1, loopVars>>

Console   == [from |-> SceneCount, to |-> SceneCount, step |-> 0]
Picture   == [from : Scenes, to : Scenes, step : 0 .. FadeFrames - 1]
Resources == {"fb", "map", "input", "pool"}
Actions   == {"NONE", "NEXT", "PREVIOUS", "QUIT"}

TypeOK ==
    /\ pc \in {"open", "map", "clock", "pool", "runtime", "loop", "signal", "clear",
               "poll", "frame", "after", "sleep", "shutdown", "exited"}
    /\ held \subseteq Resources
    /\ rt \in Runtime /\ now \in Time
    /\ running \in BOOLEAN /\ next_scene_requested \in BOOLEAN
    /\ transition \in [from_scene : Scenes, to_scene : Scenes,
                       elapsed_frames : 0 .. FadeFrames,
                       active : BOOLEAN, sources_ready : BOOLEAN]
    /\ transition.active => transition.elapsed_frames < FadeFrames
    /\ buffers \in [from : Scenes, to : Scenes]
    /\ displayed_scene \in Scenes
    /\ shown \in Picture \cup {Console}
    /\ usr1 \in 0 .. MaxUsr1
    /\ lag \in Nat
    /\ fade \in [at : Time, cut : BOOLEAN, uneven : BOOLEAN]

\* The struct before the first fade.
Idle == [from_scene |-> 0, to_scene |-> 0, elapsed_frames |-> 0,
         active |-> FALSE, sources_ready |-> FALSE]

-----------------------------------------------------------------------------
(* Setup: each step may fail, and gives back what main() gives back. *)

Init ==
    /\ pc = "open"
    /\ held = {}
    /\ now \in Origins
    /\ rt = NewRuntime(0)
    /\ running = TRUE
    /\ next_scene_requested = FALSE
    /\ transition = Idle
    /\ buffers = [from |-> 0, to |-> 0]
    /\ displayed_scene = 0
    /\ shown = Console
    /\ usr1 = 0
    /\ lag = 0
    /\ fade = [at |-> 0, cut |-> FALSE, uneven |-> FALSE]

\* A failure of the step at the given label leaves these resources held.
SetupFails(at, left) ==
    /\ pc = at
    /\ pc' = "exited"
    /\ held' = left
    /\ UNCHANGED <<usr1, loopVars>>

Acquire(at, resources, to) ==
    /\ pc = at
    /\ pc' = to
    /\ held' = held \cup resources
    /\ UNCHANGED <<usr1, loopVars>>

OpenFramebuffer ==
    SetupFails("open", {}) \/ Acquire("open", {"fb"}, "map")

\* The ioctls, the geometry check and mmap leave the descriptor open when they
\* fail; a failed input discovery is not fatal.
MapFramebuffer ==
    SetupFails("map", held) \/ Acquire("map", {"map", "input"}, "clock")

ReadOrigin ==
    \/ SetupFails("clock", {})
    \/ \E d \in Elapsed :
          /\ pc = "clock"
          /\ now + d <= TimeMax
          /\ now' = now + d
          /\ pc' = "pool"
          /\ UNCHANGED <<held, usr1, rt, running, next_scene_requested, transition,
                         buffers, displayed_scene, shown, lag, fade>>

CreatePool ==
    SetupFails("pool", {}) \/ Acquire("pool", {"pool"}, "runtime")

\* The runtime that cannot be initialised leaves the pool running.
InitRuntime ==
    \/ ~OriginAccepted(now) /\ SetupFails("runtime", {"pool"})
    \/ /\ pc = "runtime"
       /\ OriginAccepted(now)
       /\ rt' = NewRuntime(now)
       /\ displayed_scene' = 0
       /\ transition' = Idle
       /\ pc' = "loop"
       /\ UNCHANGED <<held, now, running, next_scene_requested, buffers, shown, usr1, lag, fade>>

-----------------------------------------------------------------------------
(* The frame loop *)

\* while (running)
LoopEnds ==
    /\ pc = "loop"
    /\ ~running
    /\ pc' = "shutdown"
    /\ UNCHANGED <<held, usr1, loopVars>>

\* Observation: a new choice of scene restarts the count of lagging frames.
ObserveLag == lag' = IF rt'.scene_index # rt.scene_index THEN 0 ELSE lag

\* The display has not caught up with the choice.
Unsettled == transition.active \/ rt.scene_index # displayed_scene

\* Observation: a frame is on time if it begins at most Jitter after its deadline
\* and its work takes at least Jitter and ends before the next deadline.
OnTime(t) ==
    IF pc = "loop" THEN t <= rt.next_deadline + Jitter
                   ELSE now + Jitter <= t /\ t < rt.next_deadline

\* A clock reading and the tick on it, before the input and after the frame.
\* A clock that cannot be read or advanced ends the loop.
ReadAndTick(to) ==
    \/ /\ pc' = "shutdown"
       /\ UNCHANGED <<held, usr1, loopVars>>
    \/ \E d \in Elapsed :
          /\ now + d <= TimeMax
          /\ now' = now + d
          /\ rt' = Tick(rt, now + d)
          /\ pc' = IF TickFails(rt, now + d) THEN "shutdown" ELSE to
          /\ ObserveLag
          /\ fade' = [fade EXCEPT !.uneven = (Unsettled /\ @) \/ ~OnTime(now + d)]
          /\ UNCHANGED <<held, usr1, running, next_scene_requested, transition, buffers,
                         displayed_scene, shown>>

TickBefore == pc = "loop" /\ running /\ ReadAndTick("signal")

TickAfter == pc = "after" /\ ReadAndTick("sleep")

\* if (next_scene_requested) request_next: the flag is cleared afterwards.
TakeSignal ==
    /\ pc = "signal"
    /\ IF next_scene_requested
       THEN rt' = RequestNext(rt, now, SignalHold) /\ pc' = "clear"
       ELSE rt' = rt /\ pc' = "poll"
    /\ ObserveLag
    /\ UNCHANGED <<held, now, running, next_scene_requested, transition, buffers,
                   displayed_scene, shown, usr1, fade>>

ClearSignal ==
    /\ pc = "clear"
    /\ next_scene_requested' = FALSE
    /\ pc' = "poll"
    /\ UNCHANGED <<held, rt, now, running, transition, buffers, displayed_scene,
                   shown, usr1, lag, fade>>

\* The action cart_input_poll hands out.  Its error branch needs a null
\* pointer, which main() never passes.
PollInput(action) ==
    /\ pc = "poll"
    /\ rt' = CASE action = "NEXT"     -> RequestNext(rt, now, KeyHold)
               [] action = "PREVIOUS" -> RequestPrevious(rt, now, KeyHold)
               [] OTHER               -> rt
    /\ running' = IF action = "QUIT" THEN FALSE ELSE running
    /\ pc' = "frame"
    /\ ObserveLag
    /\ UNCHANGED <<held, now, next_scene_requested, transition, buffers,
                   displayed_scene, shown, usr1, fade>>

\* Mutant: a new choice restarts the fade that is in flight.
FadeBeginsMutant == rt.scene_index # displayed_scene

FadeBegins == rt.scene_index # displayed_scene /\ ~transition.active

\* Mutant: the end points of an earlier fade are reused.
SampledMutant(tr) == IF buffers.from # buffers.to THEN buffers
                     ELSE [from |-> tr.from_scene, to |-> tr.to_scene]

\* render_scene_into for both ends, once per fade.
Sampled(tr) ==
    IF SourcesNeedRender(tr) THEN [from |-> tr.from_scene, to |-> tr.to_scene]
                             ELSE buffers

\* Begin a fade if one is due, draw one frame of it or of the scene, sweep the
\* picture into the framebuffer.
DrawFrame ==
    /\ pc = "frame"
    /\ LET begun == IF FadeBegins THEN TransitionBegin(displayed_scene, rt.scene_index)
                                  ELSE transition
           ready == [begun EXCEPT !.sources_ready = @ \/ begun.active]
       IN  /\ buffers' = Sampled(begun)
           /\ IF ready.active
              THEN /\ shown' = [from |-> buffers'.from, to |-> buffers'.to,
                                step |-> ready.elapsed_frames]
                   /\ transition' = TransitionAdvance(ready)
                   /\ displayed_scene' = IF transition'.active THEN displayed_scene
                                                               ELSE ready.to_scene
              ELSE /\ shown' = [from |-> displayed_scene, to |-> displayed_scene, step |-> 0]
                   /\ transition' = ready
                   /\ UNCHANGED displayed_scene
    /\ lag' = IF displayed_scene' = rt.scene_index THEN 0 ELSE lag + 1
    /\ fade' = IF FadeBegins THEN [fade EXCEPT !.at = now, !.cut = FALSE] ELSE fade
    /\ pc' = "after"
    /\ UNCHANGED <<held, rt, now, running, next_scene_requested, usr1>>

\* clock_nanosleep runs to its end, or fails for another reason than a signal.
SleepEnds ==
    /\ pc = "sleep"
    /\ now' = now + rt.sleep
    /\ pc' = "loop"
    /\ UNCHANGED <<held, rt, running, next_scene_requested, transition, buffers,
                   displayed_scene, shown, usr1, lag, fade>>

SleepFails ==
    /\ pc = "sleep"
    /\ pc' = "shutdown"
    /\ UNCHANGED <<held, usr1, loopVars>>

\* Mutant: the exit forgets the pool's threads.
ReleasedMutant == {"pool"}
Released == {}

Shutdown ==
    /\ pc = "shutdown"
    /\ held' = Released
    /\ pc' = "exited"
    /\ UNCHANGED <<usr1, loopVars>>

-----------------------------------------------------------------------------
(* The environment: on_signal interrupts main() anywhere; a signal that     *)
(* comes during clock_nanosleep ends the sleep (EINTR).                     *)

Interrupt ==
    /\ pc # "exited"
    /\ pc' = IF pc = "sleep" THEN "loop" ELSE pc
    /\ fade' = IF pc = "sleep" THEN [fade EXCEPT !.cut = TRUE] ELSE fade
    /\ UNCHANGED <<held, rt, now, transition, buffers, displayed_scene, shown, lag>>

SignalNext ==
    /\ usr1 < MaxUsr1
    /\ usr1' = usr1 + 1
    /\ next_scene_requested' = TRUE
    /\ Interrupt
    /\ UNCHANGED running

SignalStop ==
    /\ running
    /\ running' = FALSE
    /\ Interrupt
    /\ UNCHANGED <<usr1, next_scene_requested>>

MainStep ==
    \/ OpenFramebuffer \/ MapFramebuffer \/ ReadOrigin \/ CreatePool \/ InitRuntime
    \/ LoopEnds \/ TickBefore \/ TakeSignal \/ ClearSignal
    \/ \E action \in Actions : PollInput(action)
    \/ DrawFrame \/ TickAfter \/ SleepEnds \/ SleepFails \/ Shutdown

Next == MainStep \/ SignalNext \/ SignalStop

Spec == Init /\ [][Next]_vars

\* The scheduler keeps running the main thread.
FairSpec == Spec /\ WF_vars(MainStep)

-----------------------------------------------------------------------------
(* Properties *)

\* The picture g may follow f: the same fade one step on, or a scene or the
\* first step of a fade from it where f shows that scene alone or is the last
\* step of a fade towards it.
Follows(f, g) ==
    \/ f = Console
    \/ g.from = f.from /\ g.to = f.to /\ g.step = f.step + 1
    \/ /\ g.step = 0
       /\ g.from = f.to
       /\ f.from = f.to \/ f.step = FadeFrames - 1

\* "Scene changes are never hard cuts" (pstv-demo-cart.c:51-53): however
\* requests, signals and late frames fall, the framebuffer never jumps between
\* scenes, skips a step of a fade, or blends stale end points.
NoHardCut == [][shown' # shown => Follows(shown, shown')]_vars

\* The display catches up with the choice of scene: a fade in flight and the
\* fade to the scene chosen last are all it waits for (pstv-demo-cart.c:264-282).
LagBounded == lag <= 2 * FadeFrames - 2

\* SIGUSR1 is lost only where the cooldown would refuse it: clearing the flag
\* after the request (pstv-demo-cart.c:237-241) can wipe out a second signal,
\* but never one that would have been granted at that moment.
WipedOnlyInCooldown ==
    [][next_scene_requested /\ ~next_scene_requested' => ~ChangeAllowed(rt, now)]_vars

\* The fade keeps its pace: unless a signal cuts a sleep short, the last step
\* of a fade comes more than FadeFrames - 2 periods after the first
\* (pstv-demo-cart.c:276-312, transition.h:7).
FadeKeepsPace ==
    [][transition.active /\ ~transition'.active /\ ~fade.cut =>
          now' - fade.at > (FadeFrames - 2) * FramePeriod]_vars

\* After SIGTERM or QUIT the cart leaves the loop and gives back the pool, the
\* input devices and the framebuffer (pstv-demo-cart.c:138, 228, 314-317).
StopReleases == ~running /\ shown # Console ~> pc = "exited" /\ held = {}

\* "A fade already in flight is never interrupted - the rate limiter in
\* cart_runtime guarantees the next change cannot arrive before this one
\* completes" (pstv-demo-cart.c:260-262).  The fade counts frames and the limiter
\* nanoseconds, so this needs frames that are on time from the choice to the end
\* of the fade: no deadline is missed, and no wake-up is later than the work of a
\* frame is long.  The second is needed because a scene may also be chosen by the
\* tick after a frame, and then the margin of the limiter is 5 ns.
PunctualFadeSettles ==
    transition.active /\ ~fade.uneven => rt.scene_index = transition.to_scene

-----------------------------------------------------------------------------
(* The inductive invariant *)

Setup   == {"open", "map", "clock", "pool", "runtime"}
Drawing == {"signal", "clear", "poll", "frame"}     \* between the first tick and the frame

\* The runtime against the clock: the deadline is ahead after a tick, never by
\* more than a frame, and is what the sleep runs to (runtime.c:85-101).
ClockKept ==
    /\ rt.origin <= now /\ rt.last_change <= now
    /\ rt.next_deadline <= now + FramePeriod
    /\ rt.manual_hold_active => rt.scene_index = rt.manual_scene_index
    /\ pc \in Drawing => now < rt.next_deadline
    /\ pc = "sleep" => now + rt.sleep = rt.next_deadline

\* The picture against the fade: a fade in flight shows its last step from end
\* points that are its own, and one that is over shows the scene it led to
\* (pstv-demo-cart.c:264-287).
PictureKept ==
    /\ pc \in Setup => shown = Console
    /\ IF transition.active
       THEN /\ transition.elapsed_frames >= 1 /\ transition.sources_ready
            /\ displayed_scene = transition.from_scene
            /\ buffers.from = transition.from_scene /\ buffers.to = transition.to_scene
            /\ shown = [from |-> transition.from_scene, to |-> transition.to_scene,
                        step |-> transition.elapsed_frames - 1]
       ELSE shown # Console => /\ shown.to = displayed_scene
                               /\ shown.from = shown.to \/ shown.step = FadeFrames - 1

\* How far the display may be behind: the rest of a fade that leads elsewhere
\* and a whole fade after it (pstv-demo-cart.c:264-282).
LagLedger ==
    lag <= IF ~transition.active THEN FadeFrames - 1
           ELSE IF transition.to_scene = rt.scene_index
                THEN FadeFrames - 1 + transition.elapsed_frames
                ELSE transition.elapsed_frames - 1

\* Every step of an undisturbed fade has waited for a deadline of its own.
PaceKept ==
    transition.active /\ ~fade.cut =>
        LET begun == fade.at + (transition.elapsed_frames - 1) * FramePeriod
        IN  /\ pc \in {"after", "sleep", "loop"} => begun < rt.next_deadline
            /\ pc = "loop" => rt.next_deadline <= now
            /\ pc \in Drawing => begun < now /\ begun + FramePeriod < rt.next_deadline

\* A request that was just made, granted or not, is followed by the cooldown.
CooldownRuns ==
    pc = "clear" /\ MinChange > 0 /\ SceneCount > 1 => ~ChangeAllowed(rt, now)

\* With the code's numbers (15 frames of 33333333 ns are less than 500000000) the
\* cooldown outlasts a fade whose frames are on time: its deadlines, counted from
\* the choice.
Outlasts == FadeFrames * FramePeriod < MinChange /\ Jitter < FramePeriod
SettledInTime ==
    Outlasts /\ Unsettled /\ ~fade.uneven =>
        LET frames == IF transition.active THEN transition.elapsed_frames ELSE 0
            since(t) == t - rt.last_change
        IN  /\ transition.active => rt.scene_index = transition.to_scene
            /\ rt.had_change
            /\ pc \in {"after", "sleep", "loop"} =>
                  since(rt.next_deadline) + Jitter <= (frames + 1) * FramePeriod
            /\ pc \in Drawing =>
                  /\ since(now) <= (frames + 1) * FramePeriod
                  /\ since(rt.next_deadline) + Jitter <= (frames + 2) * FramePeriod

\* The state keeps its types, the display its distance to the choice, and the
\* clock, the picture and the fade go together.
LoopInv ==
    /\ TypeOK /\ LagBounded
    /\ ClockKept /\ PictureKept /\ LagLedger /\ PaceKept /\ CooldownRuns /\ SettledInTime

=============================================================================
