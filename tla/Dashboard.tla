------------------------------ MODULE Dashboard ------------------------------
(***************************************************************************)
(* toolkit/examples/vita-dashboard: fb_owner.c, input.c and main.c.        *)
(* Several dashboards, and the cart's start and stop scripts, take the     *)
(* framebuffer from one console (vtcon1) that counts no owners.  Every     *)
(* system call that may fail does; signals arrive between any two steps.   *)
(***************************************************************************)
EXTENDS Naturals, Sequences

CONSTANTS
    Apps,           \* dashboard processes
    Options,        \* the command line of each: --forever, and --frames-max or 0
    MaxFrames,      \* bound: frames are counted up to this
    MaxKeys,        \* bound: unread keys of a device
    MaxSignals      \* bound: signals sent to dashboards

ASSUME DashboardAssumption ==
    /\ MaxFrames \in Nat
    /\ Options \in [Apps -> [forever : BOOLEAN, frames_max : 0 .. MaxFrames]]
    /\ MaxKeys \in Nat /\ MaxSignals \in Nat

VARIABLES
    console,        \* vtcon1/bind: "bound" or "unbound"; an absent node reads as unbound
    mark,           \* the cart's marker file: the console was bound
    script,         \* where the cart's start or stop script is, "idle" when none runs
    app,            \* per process: main's place, variables and struct fb_owner
    keys,           \* per process: unread events of its input device
    signals,
    origin,         \* observation only: the console before anyone touched it
    mishap          \* observation only: what NeverOrphaned excepts has happened

cart == <<mark, script>>
vars == <<console, cart, app, keys, signals, origin, mishap>>

Consoles == {"bound", "unbound"}
Scripts  == {"idle", "check", "mark", "unbind", "launch", "rebind", "unmark"}
Keys     == {"next", "exit"}      \* other keys leave no trace
HungUp   == <<"gone">>            \* the device is gone, with what it had queued

\* Before the handlers are installed a signal ends the process.
Unguarded == {"input", "probe", "render"}
Guarded   == {"acquire", "loop", "write", "poll", "release"}
Ended     == {"exited", "killed"}

\* pc; the duration is over; stop_requested; and of fb_owner
\* state, fbcon_was_bound, fbcon_unbound_by_us, frames_written.
App == [pc : Unguarded \cup Guarded \cup Ended, late : BOOLEAN, stop : BOOLEAN,
        state : {"IDLE", "PROBED", "OWNED", "FAILED"},
        was_bound : BOOLEAN, unbound_by_us : BOOLEAN, frames : 0 .. MaxFrames]

TypeOK ==
    /\ console \in Consoles /\ origin \in Consoles
    /\ mark \in BOOLEAN /\ script \in Scripts
    /\ app \in [Apps -> App]
    /\ keys \in [Apps -> Seq(Keys) \cup {HungUp}]
    /\ signals \in 0 .. MaxSignals
    /\ mishap \in BOOLEAN

\* fb_owner_init, and main's variables; gone when the process has ended.
Fresh(label) ==
    [pc |-> label, late |-> FALSE, stop |-> FALSE, state |-> "IDLE",
     was_bound |-> FALSE, unbound_by_us |-> FALSE, frames |-> 0]

Init ==
    /\ console \in Consoles /\ origin = console
    /\ mark = FALSE /\ script = "idle"
    /\ app = [a \in Apps |-> Fresh("input")]
    /\ keys = [a \in Apps |-> <<>>]
    /\ signals = 0
    /\ mishap = FALSE

-----------------------------------------------------------------------------
(* The world *)

\* The kernel queues keys at any time; only poll looks, so they arrive there.
Press(a, k) ==
    /\ app[a].pc = "poll" /\ keys[a] # HungUp
    /\ Len(keys[a]) < MaxKeys
    /\ keys' = [keys EXCEPT ![a] = Append(@, k)]
    /\ UNCHANGED <<console, cart, app, signals, origin, mishap>>

\* poll only reports a hang-up, which is no error to input_poll.
Unplug(a) ==
    /\ app[a].pc = "poll" /\ keys[a] # HungUp
    /\ keys' = [keys EXCEPT ![a] = HungUp]
    /\ UNCHANGED <<console, cart, app, signals, origin, mishap>>

Elapse(a) ==
    /\ app[a].pc \in {"loop", "write", "poll"} /\ ~app[a].late /\ ~Options[a].forever
    /\ app' = [app EXCEPT ![a].late = TRUE]
    /\ UNCHANGED <<console, cart, keys, signals, origin, mishap>>

-----------------------------------------------------------------------------
(* start-demo-cart.sh and stop-demo-cart.sh, one at a time, as far as the  *)
(* console sees them.  The renderer never touches the console and may exit *)
(* at any time, so a start may always find none running; one that finds it *)
(* running changes nothing.                                                *)

Others == UNCHANGED <<app, keys, signals, origin>>

ScriptGoes(from, to) == script = from /\ script' = to

\* Past the check for a running cart: without the executable the start ends in
\* its cleanup; with it the marker is removed, an earlier run's too.
CartStart ==
    /\ \/ ScriptGoes("idle", "rebind") /\ UNCHANGED <<mark, mishap>>
       \/ /\ ScriptGoes("idle", "check")
          /\ mark' = FALSE
          /\ mishap' = (mishap \/ (mark /\ console = "unbound"))
    /\ UNCHANGED console /\ Others

\* After the save of the frame.
CartCheck ==
    /\ ScriptGoes("check", IF console = "bound" THEN "mark" ELSE "launch")
    /\ UNCHANGED <<console, mark, mishap>> /\ Others

CartMark ==
    /\ ScriptGoes("mark", "unbind")
    /\ mark' = TRUE
    /\ UNCHANGED <<console, mishap>> /\ Others

CartUnbind ==
    /\ ScriptGoes("unbind", "launch")
    /\ console' = "unbound"
    /\ UNCHANGED <<mark, mishap>> /\ Others

CartLaunch ==
    /\ ScriptGoes("launch", "idle")
    /\ UNCHANGED <<console, mark, mishap>> /\ Others

\* Any command of a start fails, or a handled signal arrives: cleanup.
CartFails ==
    /\ \E from \in {"check", "mark", "unbind", "launch"} : ScriptGoes(from, "rebind")
    /\ UNCHANGED <<console, mark, mishap>> /\ Others

\* Everything a stop does before it looks at the marker.
CartStop ==
    /\ ScriptGoes("idle", "rebind")
    /\ UNCHANGED <<console, mark, mishap>> /\ Others

\* restore_console, and the end of a stop.  Nothing to do, or the bind fails and
\* the marker stays; or the console is bound, and then the marker removed.
CartRebind ==
    /\ \/ ScriptGoes("rebind", "idle") /\ UNCHANGED console
       \/ mark /\ ScriptGoes("rebind", "unmark") /\ console' = "bound"
    /\ UNCHANGED <<mark, mishap>> /\ Others

CartUnmark ==
    /\ ScriptGoes("unmark", "idle")
    /\ mark' = FALSE
    /\ UNCHANGED <<console, mishap>> /\ Others

\* SIGKILL, or any signal to a stop or to a cleanup, whose traps are reset.
CartKilled ==
    /\ script # "idle" /\ script' = "idle"
    /\ UNCHANGED <<console, mark, mishap>> /\ Others

CartScript ==
    \/ CartStart \/ CartCheck \/ CartMark \/ CartUnbind \/ CartLaunch \/ CartFails
    \/ CartStop \/ CartRebind \/ CartUnmark \/ CartKilled

-----------------------------------------------------------------------------
(* Signals *)

\* The process ends; its descriptors close and its unread keys go.
End(a, label) ==
    /\ app' = [app EXCEPT ![a] = Fresh(label)]
    /\ keys' = [keys EXCEPT ![a] = <<>>]

\* handle_signal for SIGINT, SIGTERM and SIGHUP; before sigaction they kill.
Signal(a) ==
    /\ signals < MaxSignals
    /\ signals' = signals + 1
    /\ \/ app[a].pc \in Guarded /\ app' = [app EXCEPT ![a].stop = TRUE] /\ UNCHANGED keys
       \/ app[a].pc \in Unguarded /\ End(a, "killed")
    /\ UNCHANGED <<console, cart, origin, mishap>>

\* SIGKILL cannot be handled.
Kill(a) ==
    /\ signals < MaxSignals
    /\ signals' = signals + 1
    /\ app[a].pc \in Guarded
    /\ End(a, "killed")
    /\ mishap' = (mishap \/ app[a].unbound_by_us)
    /\ UNCHANGED <<console, cart, origin>>

-----------------------------------------------------------------------------
(* main *)

At(a, label) == app[a].pc = label

\* The process goes on with the variables of r.
Become(a, r) == app' = [app EXCEPT ![a] = r] /\ UNCHANGED keys

Quiet == UNCHANGED <<console, cart, signals, origin, mishap>>

\* A step of the set-up that changes nothing outside; if it fails main returns.
Prepare(a, from, to) ==
    /\ At(a, from)
    /\ Become(a, [app[a] EXCEPT !.pc = to]) \/ End(a, "exited")
    /\ Quiet

\* input_open: some node has exactly this identity and opens, or exit 3.
OpenInput(a) == Prepare(a, "input", "probe")

\* render_init (exit 5), then the sigactions.
PrepareRender(a) == Prepare(a, "render", "acquire")

\* fb_owner_probe.  Geometry, size and device are refused here (exit 4); a bind
\* file that cannot be read counts as unbound.
Probe(a) ==
    /\ At(a, "probe")
    /\ \/ \E bound \in {console = "bound", FALSE} :
             Become(a, [app[a] EXCEPT !.pc = "render", !.state = "PROBED", !.was_bound = bound])
       \/ End(a, "exited")
    /\ Quiet

\* fb_owner_acquire; a failed unbind is exit 6, without release.
Acquire(a) ==
    /\ At(a, "acquire")
    /\ \/ /\ Become(a, [app[a] EXCEPT !.pc = "loop", !.state = "OWNED",
                                      !.unbound_by_us = app[a].was_bound])
          /\ console' = IF app[a].was_bound THEN "unbound" ELSE console
       \/ app[a].was_bound /\ End(a, "exited") /\ UNCHANGED console
    /\ UNCHANGED <<cart, signals, origin, mishap>>

\* Mutant: --forever also switches off the look at stop_requested.
LoopEndsMutant(r, o) ==
    \/ ~o.forever /\ (r.stop \/ r.late)
    \/ o.frames_max # 0 /\ r.frames >= o.frames_max

LoopEnds(r, o) ==
    \/ r.stop
    \/ ~o.forever /\ r.late
    \/ o.frames_max # 0 /\ r.frames >= o.frames_max

\* The top of the loop; draw_screen fills the shadow.
Loop(a) ==
    /\ At(a, "loop")
    /\ Become(a, [app[a] EXCEPT !.pc = IF LoopEnds(app[a], Options[a]) THEN "release" ELSE "write"])
    /\ Quiet

Counted(n) == IF n < MaxFrames THEN n + 1 ELSE n

\* fb_owner_write_frame.  The shadow has the owner's size, so only the device
\* refuses: at open, at seek, at a write, or with a short count (exit 7).
WriteFrame(a) ==
    /\ At(a, "write")
    /\ \/ Become(a, [app[a] EXCEPT !.pc = "poll", !.frames = Counted(@)])
       \/ Become(a, [app[a] EXCEPT !.pc = "release", !.state = "FAILED"])
    /\ Quiet

\* The last actionable key of a drain wins.
Action(s) == IF s = <<>> THEN "none" ELSE s[Len(s)]

\* input_poll: all that is queued, or nothing after a timeout, EINTR or a hang-up;
\* a failing poll is exit 8.
Poll(a) ==
    /\ At(a, "poll")
    /\ \E fails \in BOOLEAN :
          app' = [app EXCEPT ![a].pc = IF fails \/ Action(keys[a]) = "exit" THEN "release" ELSE "loop"]
    /\ keys' = [keys EXCEPT ![a] = IF @ = HungUp THEN @ ELSE <<>>]
    /\ Quiet

\* Mutant: a poisoned owner is released without a look at the console.
MustRebindMutant(r) == r.unbound_by_us /\ r.state # "FAILED"

MustRebind(r) == r.unbound_by_us

\* fb_owner_release; a failed bind is exit 9 and is not tried again.
Release(a) ==
    /\ At(a, "release")
    /\ IF MustRebind(app[a])
       THEN \/ console' = "bound" /\ UNCHANGED mishap
            \/ mishap' = TRUE /\ UNCHANGED console
       ELSE UNCHANGED <<console, mishap>>
    /\ End(a, "exited")
    /\ UNCHANGED <<cart, signals, origin>>

Run(a) ==
    \/ OpenInput(a) \/ Probe(a) \/ PrepareRender(a) \/ Acquire(a)
    \/ Loop(a) \/ WriteFrame(a) \/ Poll(a) \/ Release(a)

Next ==
    \/ CartScript
    \/ \E a \in Apps :
          \/ Run(a) \/ Signal(a) \/ Kill(a) \/ Elapse(a) \/ Unplug(a)
          \/ \E k \in Keys : Press(a, k)

\* A process is scheduled, and time passes.
Fairness == \A a \in Apps : WF_vars(Run(a)) /\ WF_vars(Elapse(a))

Spec == Init /\ [][Next]_vars /\ Fairness

-----------------------------------------------------------------------------
(* Properties *)

\* The console is never orphaned: if it was bound and is unbound now, a running
\* dashboard or the cart's marker will bind it, in whatever order dashboards
\* and scripts come, fail and end; a console that was unbound is left so.  Three
\* things break this, and the model notes them as mishaps: a dashboard that holds
\* the console is killed, its bind fails at the end, and a start of the cart
\* removes the marker of an earlier run while the console is unbound
\* (fb_owner.c:249-267, 329-353, start-demo-cart.sh:67, stop-demo-cart.sh:59-66).
NeverOrphaned ==
    /\ origin = "bound" /\ console # "bound" /\ ~mishap =>
           mark \/ \E a \in Apps : app[a].unbound_by_us
    /\ origin # "bound" => console = origin

\* Only a process whose handlers are installed has displaced the console, so no
\* signal but SIGKILL can end one that has (main.c:256-269).
HeldIsGuarded == \A a \in Apps : app[a].unbound_by_us => app[a].pc \in Guarded

\* What makes them inductive: nobody has taken the console before acquire, the
\* marker goes only when the console is bound or held by a dashboard, and a
\* console that was never bound was not found bound by anyone.
Owning == {"loop", "write", "poll", "release"}
TakenAsFound ==
    /\ \A a \in Apps : app[a].unbound_by_us => app[a].was_bound /\ app[a].pc \in Owning
    /\ script \in {"unbind", "unmark"} => mark
    /\ script = "unmark" /\ ~mishap =>
           console = "bound" \/ \E a \in Apps : app[a].unbound_by_us
    /\ origin # "bound" => ~mark /\ script # "mark" /\ \A a \in Apps : ~app[a].was_bound

\* The console and its owners, with the types.
DashboardInv == TypeOK /\ NeverOrphaned /\ HeldIsGuarded /\ TakenAsFound

\* A dashboard always ends: at its duration or frame limit unless --forever was
\* given, after a signal in any case, and after the exit key unless a next key
\* is read with it or the device is lost first (main.c:274-320, input.c:172-190).
AlwaysEnds ==
    \A a \in Apps :
        LET r == app[a] IN
        /\ r.pc \in Guarded /\ (~Options[a].forever \/ r.stop \/ Options[a].frames_max # 0)
               ~> app[a].pc \in Ended
        /\ r.pc \in Guarded /\ Action(keys[a]) = "exit"
               ~> app[a].pc \in Ended \/ Action(keys[a]) \in {"next", "gone"}

=============================================================================
