# TLA+ specifications for vita-linux-next

A model-checked and largely proved description of the parts of this repository
that keep state and share it: the demo cart (renderer, input, pacing, worker
threads), the scripts that hand the framebuffer from the console to the cart and
back, the dashboard that takes it too, the tools that signal the cart and serve
pictures of the screen, and the scripts that mount the toolkit. Paths below are relative to the
repository root. `PROJECT.json` maps every definition to the lines it models.

## 1. The system

| Component | Files | State | Operations |
|---|---|---|---|
| Render worker pool | `cart/src/worker_pool.c` | threads, two barriers, a startup gate, the current job | init, dispatch, shutdown; each worker's loop |
| Scene runtime | `cart/src/runtime.c` | scene, manual hold, last change, next deadline, drop count | init, tick, next, previous |
| Frame loop | `cart/src/pstv-demo-cart.c` | resources held, `running`, `next_scene_requested`, fade, picture on screen | set-up, one frame, signal handler, shutdown |
| Crossfade | `cart/src/transition.c`, `cart/src/canvas.c` | fade in flight | begin, advance, weight, blend |
| Input engine | `cart/src/input_evdev.c`, `input_actions.c` | sources, held keys, partial buffers, action queue | init, rescan, poll, shutdown |
| Axis normalisation | `cart/src/input_normalize.c` | none | one function |
| Start/stop wrappers | `cart/scripts/start-demo-cart.sh`, `stop-demo-cart.sh` | pid file, marker, saved frame, console binding | start with cleanup trap, stop |
| Toolkit mounts | `S06toolkit`, `vita-toolkit-session`, `vita-toolkit-mount`, `vita-storage` | mount table, session record, background waiter | boot start/stop, session start/stop, hand mount/unmount |
| vita-control | `toolkit/share/vita-control.c` | time of the last signal, under a file lock | status, next |
| Dashboard | `toolkit/examples/vita-dashboard/src` | framebuffer ownership, stop flag, input descriptor | open input, probe, acquire, write, poll, release, main loop |
| Framebuffer server | `toolkit/share/vita-fbserve.c` | one connection, two static buffers | accept, receive, read the screen, send |
| Hardware gate, deployment | `tools/hardware-gate.py`, `tools/deploy-payload.py` | evidence, remote files | checks, upload, verify, switch |
| Serial tools | `serial_log.py`, `serial-bridge.sh`, `boot_watch.sh`, `vita_cmd.sh` | port, log, session | log, bridge, watch |
| The rest | drawing code, other init scripts, diagnostics, build scripts | none that outlives a call | |

How they interact. The wrapper script unbinds the console (`vtcon1/bind`), saves
the framebuffer and starts the renderer; signals (SIGTERM from the stop script,
SIGUSR1 from `vita-control`) interrupt the renderer at any instruction. Inside
the renderer the frame loop ticks the runtime, polls the input engine, which
reads what the kernel's evdev clients have queued meanwhile, chooses a scene,
fades or renders through the worker pool and sleeps until the deadline the
runtime computed. A dashboard unbinds and binds the same console as the wrapper;
neither knows of the other. `vita-control` finds the cart by its pid file, and
`vita-fbserve` reads the framebuffer while others draw. The toolkit scripts share one mount table and nothing else;
the boot script leaves a waiter in the background.

What is hard. Threads and barriers (pool); signals against flags and sleeps
(loop); a kernel that drops events and loses devices during a poll (input);
scripts killed or failing between two commands whose combined effect must be
undone (wrapper, mounts, dashboard); state read before a lock and used after it
(vita-control); one thread that waits for its clients (fbserve); check-then-act on a shared mount table with an
untracked background process (mounts); unsigned time at its limit (runtime);
fixed-point and truncating arithmetic (crossfade, axes). The list with lines is
"hazards" in `PROJECT.json`.

What makes each part correct:

- pool: dispatch is fork-join; no thread outlives its pool or a failed init; no
  call blocks for good; nothing is destroyed in use; the bands cover the canvas;
- runtime: changes of scene are at least the cooldown apart, holds last, sleeps
  are within a frame, drops are not over-counted, failure only at the end of time;
- loop: the picture never cuts from scene to scene, the display follows the
  choice, a stop always releases everything, requests are not lost needlessly;
- input: a descriptor per source and no other, no key held that is not down, one
  action per press, lost devices and lost events dealt with;
- wrapper: one owner of the screen, the console always recoverable, a clean stop
  restores it;
- vita-control: accepted requests are spaced across invocations, only the cart is
  signalled, following the advised waiting time is enough;
- dashboard: the console is never left unbound with nobody to bind it, and the
  loop ends when it was told to;
- fbserve: a picture is of the time of its request, answers fit requests, a
  client that stays is served;
- mounts: only verified payloads, nothing mounted and forgotten, nobody else's
  mount taken down, the writable image mounted once.

## 2. The modules

| Module | Models | Checked by |
|---|---|---|
| `WorkerPool` | `worker_pool.c`, one action per call segment between two synchronisation points, per thread | `MCWorkerPool` |
| `ForkJoin` | the promise of dispatch, an abstract specification | refinement in `MCWorkerPool` |
| `WorkerPoolProofs` | theorems about the pool | tlapm |
| `RuntimeOps` | `runtime.c` as operators on a record | |
| `TransitionOps` | `transition.c` and `cart_mix` as operators, on a record and on one colour channel | |
| `CartRuntime` | the runtime under any sequence of calls | `MCCartRuntime` |
| `CartLoop` | `main()` composed with `RuntimeOps` and `TransitionOps` | `MCCartLoop` |
| `Crossfade` | one colour channel through a fade | `MCCrossfade` |
| `CartProofs` | theorems about the runtime, the loop, the blend, and the blend on the loop's screen | tlapm |
| `InputEvdev` | the input engine against the kernel | `MCInputEvdev` |
| `AxisNormalize` | the axis function on integers from `-Limit` to `Limit - 1` | `MCAxisNormalize` |
| `InputProofs` | theorems about the input engine and the axis function | tlapm |
| `CartWrapper` | both scripts, the renderer process, the console | `MCCartWrapper` (two configurations) |
| `CartWrapperProofs` | theorems about the scripts | tlapm |
| `ToolkitMounts` | boot script with waiter, session tool, mount tool | `MCToolkitMounts` |
| `ToolkitMountsProofs` | theorems about the mounts | tlapm |
| `VitaControl` | `vita-control.c`, several invocations at a time | `MCVitaControl` |
| `VitaControlProofs` | theorems about vita-control | tlapm |
| `Dashboard` | `fb_owner.c`, `input.c`, `main.c` of the dashboard, several of them and the cart on one console | `MCDashboard` |
| `DashboardProofs` | theorems about the dashboard | tlapm |
| `FbServe` | `vita-fbserve.c` with its clients and a program that draws | `MCFbServe` |
| `FbServeProofs` | the theorem about the server | tlapm |

**WorkerPool.** The caller's place is `mpc`, a worker's `wpc[w]`. A barrier is
passed when all of `BarrierCount` threads are at it; the condition variable wakes
everyone and may wake anyone. `pthread_create`, the mutex, the condition variable
and the barriers may fail to be created, with the code's cleanup for each. The
job, its slots and `generation` are one value. `canvas` records, per row, the
generation last drawn there; it is what `ForkJoin` sees.

**RuntimeOps, CartRuntime.** `uint64_t` is `0 .. TimeMax`: additions saturate or
are guarded as in the code, so the last periods of the clock are reached in the
small instance too. `frame`, a quotient, is derived. Time passed to a call never
decreases (CLOCK_MONOTONIC) but may jump.

**CartLoop.** Every statement of `main()` that a signal may fall between is an
action. The handler is an action enabled everywhere after `signal()`. Work and
wake-ups may take any time in `Elapsed`, and a sleep may end early with EINTR when a
signal arrives. `fade.uneven` notes, for one property only, that a frame since the
choice of scene was not on time (`OnTime`). `shown` is the picture on screen: the two scenes and the step of the
blend. The pool and the input engine appear as what their modules establish.

**Crossfade, AxisNormalize.** Both run a function through its inputs in order: a
fade frame by frame, an axis from the bottom of its range to the top. So what the
function does from one input to the next is an action property. `Limit` is half
the number of values of `int32_t`; only the span is computed at that width, as in
the code.

**InputEvdev.** The kernel's side (`client`) has a bounded queue per descriptor,
overflows into SYN_DROPPED, loses a device, and moves between any two steps of a
poll: visiting a source, each read, each event consumed. EVIOCGKEY returns the
current keys and drops unread key events, which the kernel does. A device is what
sysfs and the probing ioctls say of it; whether it is admitted and its rank are
computed from that (`Classify`, `Rank`), and a key acts as `MapKey` says. A key that
stays down repeats (value 2). Of the axes only who owns one in a frame is kept
(`Frame`); their values are in `AxisNormalize`. A node that does not open or cannot
be probed is left out of that pass. The value of `name_line` when a device without a
name file is found (`input_evdev.c:373-377`) is not modelled.

**CartWrapper.** Each command of the two scripts is an action that may fail where
`set -e` or an `if` looks at its status. A signal runs the trap of the start
script; the stop script has none and dies. The renderer may exit alone, be slow
to end, and paints at any time while alive.

**ToolkitMounts.** A mount point is a stack, since mount hides what was there.
Every `mountpoint -q` or `is_mounted` and the mount after it are two steps. Each
mount and umount may fail. `mishaps` records, for the properties only, that a
session's mount at the target was hidden, taken down by others or left without its
record ("session"), that a start left its transport mounted because it failed
("left") or because it succeeded with `already_mounted` ("already"), or that
`S06toolkit` was run while a waiter was out ("overlap").

**VitaControl.** An invocation is a place in `main()` and its variables: reading
the pid file, inspecting the process, reading the clock, waiting for the lock,
comparing, truncating, writing and signalling are separate steps, and it may be
interrupted at each. `Unit` is the number of clock ticks in a millisecond, so the
rounding of `retry_after_ms` matters. The cart comes and goes and its pid may be
reused. `moved`, `overtaken` and `disturbed` record, for the properties only,
that the pid changed hands after the check, that another request was accepted
while the caller waited, and that the record was spoiled.

**Dashboard.** The record `app[a]` is `main()`'s place and `struct fb_owner`. A
signal ends a process that has not installed its handlers and sets the flag of
one that has. Every call that can fail may fail, with the exit path of the code.
The frame itself is not modelled: a write is done or has failed. The cart's two
scripts run one at a time, command by command as far as the console and the marker
see them (`script`): a start may come whenever no renderer is found, also after one
that has exited by itself, and removes the marker; any command may fail into the
cleanup, a bind may fail, and either script may be killed anywhere.

**FbServe.** The server's place is `pc`; requests are a kind, the length up to
the blank line and the length sent. Rows of the screen carry a version, and a
picture the versions it shows. `asof` is the screen when the request was in, for
the property only. Closing with unread input resets the connection, which is
TCP's rule and may cost the client its answer. What became of `used` and
`offset` after a request is of no consequence and they are zero then.

## 3. What the runs check

| Run | Shows | Instance | Distinct states |
|---|---|---|---|
| `worker_pool` | `PoolInv` (the inductive invariant), `CallerOwnsCanvas`, `ThreadsAccounted`, `DestroyIsQuiet`, `ImplementsForkJoin`, `CallsReturn` | 0 to 3 workers and a refused 4, 0, 2 and 5 rows, two generations | 21 thousand |
| `cart_runtime` | `RuntimeInv`, `ChangesSpaced`, `HoldLasts` | clock to 14, frame 2, scene 4, cooldown 3, three scenes, origins at both ends | 240 thousand |
| `cart_loop` | `LoopInv`, `PunctualFadeSettles`, `NoHardCut`, `WipedOnlyInCooldown`, `FadeKeepsPace`, `StopReleases` | clock to 22, frame 4, scene 9, cooldown 13, fades of 3 frames, two SIGUSR1, work and wake-ups of 0, 1, 2 or 9 ticks, `Jitter` 2 | 1.5 million |
| `crossfade` | `WithinScenes`, `NearSmoothstep`, `NoFlicker` | the code's 15 frames, 1024 and 256; all target values from 8 start values | 33 thousand |
| `input_evdev` | `InputInv`, `NoStuckKey`, `OnePressOneAction`, `LostDeviceClosed`, `DesyncEnds` | two devices, two slots, keys 1 and 307, queues of 5, reads of 4 events, three presses and repeats, one rescan | 529 thousand |
| `axis_normalize` | `WellScaled`, `Monotone` | every range and value of 5-bit integers (`Limit` 16) | 164 thousand |
| `cart_wrapper` | `WrapperInv`, `ConsoleRecoverable`, `StopRestores`, `ScriptsReturn` | two signals, two spontaneous exits, every command may fail | 60 thousand |
| `wrapper_relaunch` | `StopAlwaysRebinds` is violated | one spontaneous exit, no signal, no failing write to the framebuffer or to bind | |
| `toolkit_mounts` | `MountInv`, `NothingForgotten`, `StopTakesOwn` | three cards, two boot starts, two commands, one overwrite of the payload | 3.7 million |
| `vita_control` | `ControlInv`, `AcceptsSpaced` | two at a time of three invocations, intervals below, at and above the limit, clock to 6, the pid changing hands up to three times | 1.5 million |
| `dashboard` | `DashboardInv`, `AlwaysEnds` | two dashboards, one `--forever` and one bounded, any number of runs of the cart's scripts, two keys, one signal, a lost device, every call and command may fail | 200 thousand |
| `fbserve` | `ServeInv`, `Served` | two clients, seven kinds of request around a limit of 3 bytes, a screen of four rows drawn during the read, with and without `--once` | 1 million |

Why the bounds are enough to be of interest. Three workers let one be late at
the barrier while another is already in the next frame; five rows are no multiple
of two or three. The clock of the runtime ends a few periods after the origin, so
saturation and the failing guards happen; the cooldown is longer than a frame and
shorter than a scene. In the loop the cooldown is one tick longer than a
fade, the least margin there is (in the code it is 5 ns); frames take no time, a
part of a period, or more than two, so there are frames on time that take time, late
ones and dropped deadlines. The queue of the input model
holds two packets and a drop, and a read splits the queue. Two commands and two
boot starts give start/stop, start/start and every overlap with the waiter. Two
invocations of vita-control overlap and a third comes after both; a millisecond
is two ticks, so rounding up and down differ. Two dashboards and the
cart's scripts give every nesting and crossing of take and give back. Two clients let one
fail or fall silent in front of the other, and one drawn row makes an old copy
differ from a new one.
Deadlock is checked in the pool and the wrapper, where a caller can always call
again; the other models stop at a bound or after exit.

Invariants in the table that carry `TypeOK` (`LoopInv`, `InputInv`, `WrapperInv`,
`MountInv`, `PoolInv`, `RuntimeInv`, `ControlInv`, `DashboardInv`, `ServeInv`)
also carry properties of substance, named parts of the conjunction.

Fairness. `worker_pool`: weak fairness of the calling thread inside a call and of
every worker, which a preemptive scheduler gives runnable threads; the caller
need not call. `cart_loop`: weak fairness of the main thread; signals are not
fair. `input_evdev`: the cart opens its input and the frame loop polls once per
frame. `cart_wrapper`: a shell
runs on; the renderer need not. `dashboard`: a dashboard that runs is scheduled
and time passes; keys, signals and the cart are not fair. `fbserve`: the server is
scheduled, and a client that has not left or fallen silent goes on sending, which
is what falling silent means; connecting is not fair. No run assumes strong fairness.

Every property has a mutant, a small plausible bug in one definition
(`...Mutant`, kept beside the original), under which TLC finds it violated.

## 4. What is proved

The proof modules prove with TLAPS, for every value of the constants that
satisfies the named assumptions (the bounds of the runs are such constants, so
the theorems hold for any number of commands, signals, clients and so on):

- *Pool* (any number of workers, rows, generations): `TypeCorrect`,
  `PoolInvariant`, `CanvasOwnership`, `NoThreadLeak`, `NoStaleJob`,
  `RowsPartitioned`, `QuietDestroy`, and `PoolImplementsForkJoin`, the refinement
  of `ForkJoin` (initial states and steps).
- *Runtime* (any clock, periods, cooldown, holds): `RuntimeInvariant`,
  `RuntimeTypeCorrect`, `HoldIsHonoured`, `SleepIsBounded`, `DropsAreExact`,
  `FailureOnlyAtEnd`, `ChangesAreSpaced`, `HoldsLast`.
- *Loop* (any length of a fade, periods, cooldown, scenes, any lateness of a
  frame): `LoopCorrect`, `PictureNeverJumps`, `FadesKeepPace`,
  `SignalLostOnlyInCooldown`, `PunctualFadesSettle`.
- *Blend* (any number of frames, all channel values): `FadesStayBetween`,
  `WeightsNearSmoothstep`; for fifteen frames, the code's number, or more:
  `FadesNeverFlicker`.
- *Loop and blend*: `ScreenNeverTurnsBack`.
- *Input* (any devices, ranks, axes, slots, keys, sizes of the queues and of the
  read buffer, any number of presses and rescans): `InputCorrect`,
  `KeysNeverStick`, `PressActsOnce`.
- *Axes* (any width of the integers, any calibration and deadzone):
  `AxesWellScaled`, `AxesFollow`.
- *Wrapper* (any number of signals and spontaneous exits): `ScreenHasOneOwner`,
  `ConsoleStaysRecoverable`, `StopGivesBack`.
- *Mounts* (any number of boot starts, looks of the waiter, commands, writes of
  the payload, any cards): `MountsCorrect`, `NoMountForgotten`,
  `MountedIsVerified`, `StopTakesItsOwn`.
- *vita-control* (any number of invocations, pids, intervals, clock readings and
  ticks in a millisecond): `ControlCorrect`, `RequestsSpaced`.
- *Dashboard* (any number of dashboards, any command lines, keys, signals and runs
  of the cart): `DashboardInvariant` and `ConsoleNeverOrphaned`.
- *Server* (any number of clients, any requests, any screen): `ServesCorrectly`.

The argument is always the same: the invariant of the run, strengthened until it
is inductive, then one lemma per action or group of actions, and every property
read off the invariant. What each strengthening had to be:

*Pool.* That workers are out of the canvas when a call returns does not
follow from itself: it depends on where every worker can be for each place of the
caller. `PoolInv` is that table, one conjunct per phase (`IdleInv`, `CreateInv`,
`AbortInv`, `OpenInv`, `InlineInv`, `DispatchInv`, `RenderInv`, `ShutdownInv`,
`JoinInv`); each step is shown to lead from one phase to the same or the next.
`RowsPartitioned` rests on lemmas about truncating division.

*Runtime.* `RuntimeInv` adds to the
properties what ties the bookkeeping to history: the last change of scene is the
recorded one, the hold's end is the saturated sum of its start and length, and
the deadlines met and dropped fit in the time elapsed. `ChangesSpaced` and
`HoldLasts` are action properties that follow from it.

*Loop.* `LoopInv` carries the deadline against the clock (`ClockKept`), the
picture as the fade's current step (`PictureKept`), how much of the lag each step
of a fade accounts for (`LagLedger`), a deadline waited for per step (`PaceKept`),
and where the cooldown stands while a request is pending or a fade runs
(`CooldownRuns`, `SettledInTime`). `SignalLostOnlyInCooldown` supposes a cooldown
and a second scene, `PunctualFadesSettle` a fade shorter than the cooldown and
`Jitter` shorter than a frame; in the code there are several scenes and 15 frames of
33 333 333 ns are 499 999 995 ns against 500 000 000 ns. That margin is 5 ns, and
`MCCartLoop.cfg` keeps it small. Frames are on time when each begins at most `Jitter`
after its deadline and its work takes at least `Jitter` and ends before the next
one, for any `Jitter`. The lower bound is needed: a scene may be chosen by the tick
before a frame or by the one after it, the next one by either too, and between a
choice after a frame and the wake-up after the last step of its fade there are
15 periods and the latency of the wake-up, less the work of the frame at which it
was chosen. A wake-up later than that work is long reaches the end of the cooldown
one frame early. `SettledInTime` counts the deadlines from the choice.

*Blend.* The smoothstep in fixed point grows with the frame (`UnitTime`,
`CubicOrdered`, `WeightOrdered`), a blend lies between its ends and grows with the
weight, floor and sign included (`ShareOrdered`, `MixedOrdered`). The curve is
nowhere steeper than three halves, which a sum of two squares shows
(`CubicSlope`, `CurveFacts`): a frame takes at most 26 of 256 parts if there are
fifteen, less than a ninth, and the rounding of t costs less than 3/8 of a unit,
the other two half a unit each way (`WeightRounds`). `ScreenNeverTurnsBack` puts
`PictureNeverJumps` on top: the loop orders the pictures, the arithmetic orders
their pixels. The scenes stand still in it, as the two samples of a fade do.

*Input.* The invariant follows every event from the kernel's queue through the
read buffer. `SourcesKept`, `RanksKept`: which client belongs to which slot, and
that slots filled at init are in the order of rank. `PacketsKept`: a queue ends
with a whole packet and has SYN_DROPPED only at its front, and so does the buffer
of a source that has nothing more queued. `KeysKept` is
`NoStuckKey` in inductive form: for a key that is up, what is queued ends with its
release, and if nothing about it is queued then the buffer ends with the release
or it was lost to a drop not yet resynchronised; a key the engine holds and the
kernel does not has a release, a drop or a resynchronisation to come.
`PressesKept`: a press waits in at most one place, once, and nowhere after it was
consumed.
Its first form was not inductive: nothing said that a press not yet made is not
already counted. Each action then needs little more than lemmas about appending
to a queue, taking a read's worth from its front and dropping its keys.

*Axes.* `BandFacts`: where the span fits, the deadzone lies inside the range;
where it overflows, span and deadzone come out negative and the band falls below
the range, its ends exchanged, so that every value is on the positive side. The
percentage of a side is monotone and at most 100 (`PercentageFacts`, `ScaledFacts`).

*Wrapper.* `CustodyInv` is `WrapperInv` with `ConsoleRecoverable`: console and
renderer on one screen only after a start was cut off or a stop gave up
(`ExclusiveFb`), what a start has done when it launches (`StartsInOrder`), what
the marker and the saved frame are worth while nothing went wrong (`NothingLost`).
Start and stop share it, because a start may run after any crash of either.

*Mounts.* `MountInv` ties the record to the table: which shell variables a
command holds where (`ShellKept`), that one mount at the target is a session's
exactly when a record or a command under way says so and the transport is mounted
on their account unless a start has left it (`SessionKept`), that a hash as new as the file was the expected
one (`HashKept`), and that the one run of `S06toolkit` has looked before it mounts
(`BootKept`). The first form of the invariant named no place of the
command and was not inductive at `Record` and `UnmountTransport`.

*vita-control.* `AcceptsSpaced` speaks of the write, but is decided at the
comparison, and others come and go in between: `Permitted` carries it over, with
`ReadingsOrdered` (a reading older than the record has been overtaken) and
`AdviceCovers` (rounding the wait up to milliseconds covers the interval).

*Dashboard.* `TakenAsFound` makes the invariant inductive: a claim to the console
exists only between acquire and release and only where probe found the console
bound, a start unbinds and a stop unmarks only what is marked, a marker goes only
when the console is bound or a dashboard holds it, and where the console never was
bound nobody found it so. Each action then keeps a
process's claim (`ClaimKept`), takes the console (`AcquireKeeps`) or ends it
(`ClaimEnds`); the scripts' steps move the marker, and each is shown by itself.

*Server.* `FreshImage` speaks of what was sent; it needs that the copy being read
is not older than the request (`FreshCopy`), that at most one connection is being
served (`OneConnection`), and that the answer was decided from what has arrived
(`Decided`).

Model-checked only: liveness (`CallsReturn`, `StopReleases`, `LostDeviceClosed`,
`DesyncEnds`, `ScriptsReturn`, `AlwaysEnds`, `Served`), which this prover does not
reach. Every invariant and every action property of the passing runs is a theorem.

## 5. Where the code and its documents part

One is a run with a counterexample: `wrapper_relaunch`. The console is bound; a
start marks and unbinds it, and the renderer exits by itself (Esc, or a crash). The
next start removes the marker (`start-demo-cart.sh:67`); in the shortest trace its
save of the frame then fails, and the cleanup finds no marker. The next stop reports
the console restored and leaves it unbound, against `cart/README.md:92`. (A second
start that goes through ends the same way: it finds the console unbound and writes
no marker.)

The others bound what the properties may say:

- `pstv-demo-cart.c:260-262` says no change of scene can arrive during a fade.
  The fade counts frames and the limiter nanoseconds, with a margin of 5 ns: one can
  when a frame misses its deadline, and also when a wake-up is later than the work
  of a frame is long. `PunctualFadeSettles` is the claim where neither happens;
  `LoopInv` bounds the delay otherwise.
- `transition.h:7` gives the fade 0.50 s. Each signal that ends a sleep early
  (`pstv-demo-cart.c:307-308`) shortens it; `FadeKeepsPace` excludes that.
- `input_evdev.c:561-570`: a resynchronisation reads the key state and then
  consumes older events still in its buffer. If newer ones waited in the kernel,
  EVIOCGKEY has dropped them, and a key can stay held. `NoStuckKey` excludes the
  sources on which this has happened.
- `input_evdev.c:703-704` skips a desynchronised source before reading it; if a
  read could end between SYN_DROPPED and its SYN_REPORT the source would never
  come back. The kernel hands out whole packets, and `DesyncEnds` holds for that.
- A rescan (`input_evdev.c:421-439`) claims a node that is already claimed; the
  rank order of `input_evdev.c:682-683` and one action per press
  (`cart/README.md:43`) hold for the devices found at init. The cart never rescans.
- A key release code above 63 is not tracked, and the generation of a source
  starts over when its slot is reused (`input_evdev.c:432-436`, `input.h:40`).
- `input_normalize.c:17-18` promises the full throw on every range; a range with
  no point between its ends, or one whose span overflows, does not reach it.
- A signal during the start script's last check, or a renderer slower than the
  stop script's patience (`stop-demo-cart.sh:34`), leaves console and cart on one
  screen: the exceptions of `WrapperInv`.
- `vita-toolkit-session:106-107` says ambiguity fails "WITHOUT invoking mount";
  the payloads are counted after the transport was mounted (`:331-337`), and that
  mount stays, and so does that of any later failure. A start that succeeds with
  `already_mounted` (`:370-376`), because the boot's waiter was faster, leaves the
  transport it has mounted with no record too. A stop whose second umount fails keeps its record, and the next
  stop drops the record because the target is gone (`:269-274`). A restart of
  `S06toolkit` while its waiter is out can mount the workspace image a second
  time or unmount beneath it. These are the exceptions of `NothingForgotten` and
  `MountInv`.
- `toolkit/README.md:278-281` has accepted requests rate-limited across
  invocations and vita-control fail closed for a stale pid. The clock is read
  before the lock is taken (`vita-control.c:306`), and a reading older than the
  record is not limited (`:178`): a caller that was overtaken while it waited is
  accepted and moves the record back. A record cut short by an interruption or a
  failed write (`:194-195`) limits nobody. The process is checked before all that
  and the pid may be another's when the signal is sent (`:314`). These are the
  exceptions of `AcceptsSpaced`, `RecordKept` and `TargetChecked`.
- `docs/plans/vita-dashboard-contract.md` lets CIRCLE exit and restores the
  console on every exit path. All queued keys are read at once and the last
  wins (`input.c:172-190`), so an exit key with another behind it is lost; a bind
  that fails at the end is not tried again (`fb_owner.c:338`, exit 9). A lost
  device only makes poll return at once, and the loop spins until its limit.
  After a killed dashboard the next one finds the console unbound, leaves it so
  and reports `fbcon_restored=1`. A start of the cart that removes an earlier run's
  marker orphans the console here as in `wrapper_relaunch`. A killed dashboard, a
  failed bind of one and such a start are the exceptions of `NeverOrphaned`. A dashboard or stop script that binds the
  console may do so under another one that is still drawing: nobody counts
  owners, and `NeverOrphaned` promises no more than that somebody binds it.
- `vita-fbserve.c:39` says `--once` serves one valid request; any answered
  request ends the server, a bad one too (`:327`). A complete request of exactly
  4096 bytes is refused as too large (`:196`), and bytes after the blank line
  count if they arrive with it. Any error of accept but EINTR, of one connection
  too, ends the server (`:319-326`). A client that falls silent holds it for good:
  the `Held` of `Served`.

## 6. Not modelled

Drawing, upscaling and dump mode (pixel work compared with golden images by the
tests); the legacy input backend; option parsing and reports; vita-workspace,
vita-dev and the diagnostics (straight-line file work); other init scripts
(once per boot, state in other daemons); host-side build and manifest scripts;
the kernel and loader, which are submodules. A start and a stop script at the
same time, and several cards at once, are left out of the models that exist: the
scripts take no lock, and a stop between the marker and the unbind of a start
leaves the console unbound and unmarked, so nothing can be said of an overlap.

## 7. Plan

Done first because the rest stands on it: pool, runtime, loop, crossfade, input,
wrapper, mounts, with the proofs of pool and runtime; then vita-control, the
dashboard on the wrapper's console with its proof, and the framebuffer server;
then the proofs of the loop, the blend, the wrapper, the mounts, vita-control, the
server, the input engine and the axes. Next, in order:

1. Proofs: the safety half of the liveness properties, what a step may never undo
   on the way (a stop request, a lost device, a served client).
2. `HardwareGate` with `DeployPayload`: waits, retries, the order of upload,
   verification and switch; properties: no switch to an unverified payload, a
   failed gate never reported as passed.
3. The serial logger that reopens its port, if its state is worth a model.
