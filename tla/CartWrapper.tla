----------------------------- MODULE CartWrapper -----------------------------
(***************************************************************************)
(* Who owns the framebuffer: cart/scripts/start-demo-cart.sh and           *)
(* stop-demo-cart.sh, run one at a time, the renderer they start and stop, *)
(* and the framebuffer console that repaints whenever it is bound.         *)
(***************************************************************************)
EXTENDS Naturals

CONSTANTS
    MaxExits,       \* bound: times the renderer exits by itself (QUIT, crash)
    MaxSignals,     \* bound: HUP, INT or TERM sent to a script
    SlowRenderer,   \* the renderer may outlive the three seconds stop waits
    IoFails         \* writes to the framebuffer or to bind may fail

ASSUME WrapperAssumption ==
    /\ MaxExits \in Nat /\ MaxSignals \in Nat
    /\ SlowRenderer \in BOOLEAN /\ IoFails \in BOOLEAN

VARIABLES
    pc,             \* the script that runs and where it is
    fb,             \* whose picture /dev/fb0 shows
    bound,          \* /sys/class/vtconsole/vtcon1/bind
    mark,           \* the marker that fbcon was bound
    save,           \* the saved frame, by whose picture it is
    pidfile,
    renderer,       \* the process is alive
    term,           \* SIGTERM was sent to it
    status,         \* exit status of the script
    originally,     \* fbcon was bound before the cart was ever started
    mishaps,        \* what went wrong so far (observation only)
    exits, signals

files == <<mark, save, pidfile>>
hardware == <<fb, bound>>
process == <<renderer, term>>
counters == <<originally, exits, signals>>
vars == <<pc, status, mishaps, files, hardware, process, counters>>

\* A start over the marker or the save of an earlier run; a signal that ends a
\* start whose renderer is up; a stop that gives up waiting; a failed write.
Mishaps == {"relaunch", "signal", "slow", "io"}
Note(mishap) == mishaps' = mishaps \cup {mishap}

NoSave == "none"
Pictures == {"console", "cart"}
StartLabels == {"start", "capture", "mark", "unbind", "launch", "verify"}
StopLabels  == {"stop", "kill", "wait", "restore", "rebind", "stopped"}

TypeOK ==
    /\ pc \in {"idle", "cleanup", "cleanup2"} \cup StartLabels \cup StopLabels
    /\ fb \in Pictures /\ bound \in BOOLEAN
    /\ mark \in BOOLEAN /\ save \in Pictures \cup {NoSave} /\ pidfile \in BOOLEAN
    /\ renderer \in BOOLEAN /\ term \in BOOLEAN
    /\ term => renderer
    /\ renderer => pidfile
    /\ status \in {0, 1} /\ mishaps \subseteq Mishaps
    /\ originally \in BOOLEAN
    /\ exits \in 0 .. MaxExits /\ signals \in 0 .. MaxSignals

Init ==
    /\ pc = "idle" /\ status = 0 /\ mishaps = {}
    /\ fb = "console" /\ bound \in BOOLEAN
    /\ mark = FALSE /\ save = NoSave /\ pidfile = FALSE
    /\ renderer = FALSE /\ term = FALSE
    /\ originally = bound
    /\ exits = 0 /\ signals = 0

\* cart_pid_matches: the pid file names a live process of this executable.
PidMatches == pidfile /\ renderer

-----------------------------------------------------------------------------
(* start-demo-cart.sh *)

StartCall ==
    /\ pc = "idle"
    /\ pc' = "start"
    /\ status' = 0
    /\ UNCHANGED <<mishaps, files, hardware, process, counters>>

AlreadyRunning == PidMatches

\* Already running: nothing to do.  A missing executable goes to the cleanup.
StartCheck ==
    /\ pc = "start"
    /\ \/ /\ AlreadyRunning
          /\ pc' = "idle"
          /\ UNCHANGED <<status, mishaps, files>>
       \/ /\ ~AlreadyRunning
          /\ pc' = "cleanup" /\ status' = 1
          /\ UNCHANGED <<mishaps, files>>
       \/ /\ ~AlreadyRunning
          /\ pc' = "capture"
          /\ pidfile' = FALSE /\ mark' = FALSE
          /\ IF mark \/ save # NoSave THEN Note("relaunch") ELSE UNCHANGED mishaps
          /\ UNCHANGED <<status, save>>
    /\ UNCHANGED <<hardware, process, counters>>

\* dd into a temporary file, size check, mv.
Capture ==
    /\ pc = "capture"
    /\ \/ save' = fb /\ pc' = "mark" /\ UNCHANGED status
       \/ pc' = "cleanup" /\ status' = 1 /\ UNCHANGED save
    /\ UNCHANGED <<mishaps, mark, pidfile, hardware, process, counters>>

MarkConsole ==
    /\ pc = "mark"
    /\ mark' = bound
    /\ pc' = IF bound THEN "unbind" ELSE "launch"
    /\ UNCHANGED <<mishaps, status, save, pidfile, hardware, process, counters>>

\* Mutant: the wrong console is unbound.
UnboundMutant == bound
Unbound == FALSE

UnbindConsole ==
    /\ pc = "unbind"
    /\ \/ bound' = Unbound /\ pc' = "launch" /\ UNCHANGED <<status, mishaps>>
       \/ IoFails /\ pc' = "cleanup" /\ status' = 1 /\ Note("io") /\ UNCHANGED bound
    /\ UNCHANGED <<files, fb, process, counters>>

\* The daemon starts, starts and dies at once, or does not start.
Launch ==
    /\ pc = "launch"
    /\ \/ pc' = "verify" /\ pidfile' = TRUE /\ renderer' \in BOOLEAN /\ UNCHANGED status
       \/ pc' = "cleanup" /\ status' = 1 /\ UNCHANGED <<pidfile, renderer>>
    /\ UNCHANGED <<mishaps, mark, save, hardware, term, counters>>

\* After one second: still alive, or given up.
Verify ==
    /\ pc = "verify"
    /\ IF PidMatches THEN pc' = "idle" /\ UNCHANGED <<status, pidfile>>
                     ELSE pc' = "cleanup" /\ status' = 1 /\ pidfile' = FALSE
    /\ UNCHANGED <<mishaps, mark, save, hardware, process, counters>>

\* The frame is written back and the save removed, or the save is kept.
RestoreFrame ==
    \/ save = NoSave /\ UNCHANGED <<status, mishaps, fb, save>>
    \/ save # NoSave /\ fb' = save /\ save' = NoSave /\ UNCHANGED <<status, mishaps>>
    \/ save # NoSave /\ IoFails /\ status' = 1 /\ Note("io") /\ UNCHANGED <<fb, save>>

\* Mutant: the marker goes, the console stays unbound.
RebindMutant == mark' = FALSE /\ UNCHANGED <<bound, status, mishaps>>

\* The console is bound and then the marker removed, or the marker is kept.
Rebind ==
    \/ ~mark /\ UNCHANGED <<bound, mark, status, mishaps>>
    \/ mark /\ bound' = TRUE /\ mark' = FALSE /\ UNCHANGED <<status, mishaps>>
    \/ mark /\ IoFails /\ status' = 1 /\ Note("io") /\ UNCHANGED <<bound, mark>>

\* The exit trap of a start that did not get through: the frame, then fbcon.
CleanupFrame ==
    /\ pc = "cleanup"
    /\ pc' = "cleanup2"
    /\ RestoreFrame
    /\ UNCHANGED <<mark, pidfile, bound, process, counters>>

CleanupConsole ==
    /\ pc = "cleanup2"
    /\ pc' = "idle"
    /\ Rebind
    /\ UNCHANGED <<save, pidfile, fb, process, counters>>

\* HUP, INT or TERM between two commands runs the exit trap.
SignalStart ==
    /\ pc \in StartLabels
    /\ signals < MaxSignals
    /\ signals' = signals + 1
    /\ pc' = "cleanup" /\ status' = 1
    /\ IF renderer THEN Note("signal") ELSE UNCHANGED mishaps
    /\ UNCHANGED <<files, hardware, process, originally, exits>>

\* The cleanup has reset the traps and stop sets none: a signal ends either
\* script on the spot, after the write of a frame or of bind too.
KillScript ==
    /\ pc \in {"cleanup", "cleanup2"} \cup StopLabels
    /\ signals < MaxSignals
    /\ signals' = signals + 1
    /\ fb' \in IF pc \in {"cleanup", "restore"} /\ save # NoSave THEN {fb, save} ELSE {fb}
    /\ bound' \in IF pc \in {"cleanup2", "rebind"} /\ mark THEN {bound, TRUE} ELSE {bound}
    /\ pc' = "idle" /\ status' = 1
    /\ UNCHANGED <<mishaps, files, process, originally, exits>>

-----------------------------------------------------------------------------
(* stop-demo-cart.sh *)

StopCall ==
    /\ pc = "idle"
    /\ pc' = "stop"
    /\ status' = 0
    /\ UNCHANGED <<mishaps, files, hardware, process, counters>>

\* A pid file that does not name the cart is removed, never signalled.
StopCheck ==
    /\ pc = "stop"
    /\ IF PidMatches THEN pc' = "kill" /\ UNCHANGED pidfile
                     ELSE pidfile' = FALSE /\ pc' = "restore"
    /\ UNCHANGED <<mishaps, status, mark, save, hardware, process, counters>>

\* SIGTERM; the renderer may have exited since the check.
StopKill ==
    /\ pc = "kill"
    /\ pc' = "wait"
    /\ IF PidMatches THEN term' = TRUE /\ UNCHANGED status
                     ELSE status' = 1 /\ UNCHANGED term
    /\ UNCHANGED <<mishaps, files, hardware, renderer, counters>>

\* Mutant: the wait has no limit.
GaveUpMutant == FALSE
GaveUp == SlowRenderer /\ PidMatches

\* Up to thirty looks at the pid; a renderer that stays keeps its record, and
\* the script goes on.
StopWait ==
    /\ pc = "wait"
    /\ pc' = "restore"
    /\ \/ GaveUp /\ status' = 1 /\ Note("slow") /\ UNCHANGED pidfile
       \/ ~PidMatches /\ pidfile' = FALSE /\ UNCHANGED <<status, mishaps>>
    /\ UNCHANGED <<mark, save, hardware, process, counters>>

StopRestore ==
    /\ pc = "restore"
    /\ pc' = "rebind"
    /\ RestoreFrame
    /\ UNCHANGED <<mark, pidfile, bound, process, counters>>

StopRebind ==
    /\ pc = "rebind"
    /\ pc' = "stopped"
    /\ Rebind
    /\ UNCHANGED <<save, pidfile, fb, process, counters>>

StopReturn ==
    /\ pc = "stopped"
    /\ pc' = "idle"
    /\ UNCHANGED <<mishaps, status, files, hardware, process, counters>>

-----------------------------------------------------------------------------
(* The renderer and the console *)

Paint ==
    /\ renderer
    /\ fb' = "cart"
    /\ UNCHANGED <<pc, status, mishaps, files, bound, process, counters>>

Terminate ==
    /\ renderer /\ term
    /\ renderer' = FALSE /\ term' = FALSE
    /\ UNCHANGED <<pc, status, mishaps, files, hardware, counters>>

ExitAlone ==
    /\ renderer
    /\ exits < MaxExits
    /\ exits' = exits + 1
    /\ renderer' = FALSE /\ term' = FALSE
    /\ UNCHANGED <<pc, status, mishaps, files, hardware, originally, signals>>

Repaint ==
    /\ bound
    /\ fb' = "console"
    /\ UNCHANGED <<pc, status, mishaps, files, bound, process, counters>>

Next ==
    \/ StartCall \/ StartCheck \/ Capture \/ MarkConsole \/ UnbindConsole
    \/ Launch \/ Verify \/ CleanupFrame \/ CleanupConsole \/ SignalStart \/ KillScript
    \/ StopCall \/ StopCheck \/ StopKill \/ StopWait \/ StopRestore \/ StopRebind \/ StopReturn
    \/ Paint \/ Terminate \/ ExitAlone \/ Repaint

Spec == Init /\ [][Next]_vars

\* The shell runs on, whatever the renderer does.
FairSpec ==
    /\ Spec
    /\ WF_vars(StartCheck \/ Capture \/ MarkConsole \/ UnbindConsole \/ Launch \/ Verify
               \/ CleanupFrame \/ CleanupConsole)
    /\ WF_vars(StopCheck \/ StopKill \/ StopWait \/ StopRestore \/ StopRebind \/ StopReturn)

-----------------------------------------------------------------------------
(* Properties *)

\* While no start was interrupted after its launch and no stop gave up waiting,
\* the console and the renderer never share the screen, also when launches
\* fail, writes fail or the renderer exits (start-demo-cart.sh:80-97,
\* stop-demo-cart.sh:24-66).
ScreenShared == renderer /\ bound
ExclusiveFb == ScreenShared => mishaps \cap {"signal", "slow"} # {}

\* What each step of the scripts may rely on when it is reached, whatever was
\* interrupted before: a start has nothing running until its launch, has its
\* save and its marker before it takes the screen, and only a console that was
\* bound is ever marked or bound (start-demo-cart.sh:60-97).
StartsInOrder ==
    /\ pc \in {"capture", "mark", "unbind", "launch"} => ~renderer
    /\ pc \in {"launch", "verify"} => ~bound
    /\ pc \in {"capture", "mark"} => ~mark
    /\ pc = "unbind" => mark
    /\ pc \in {"mark", "unbind", "launch", "verify"} => save # NoSave
    /\ bound \/ mark => originally

\* Without a mishap a live renderer has the screen to itself and no script is
\* past its wait, and the console's picture is on the screen or in the save
\* until it is restored (stop-demo-cart.sh:24-66).
NothingLost ==
    /\ renderer /\ mishaps \cap {"signal", "slow"} = {} =>
          ~bound /\ pc \in {"idle", "start", "verify", "stop", "kill", "wait"}
    /\ mishaps = {} =>
          /\ save # "cart"
          /\ fb = "cart" \/ renderer => save # NoSave
          /\ pc \in {"capture", "rebind", "stopped"} => save = NoSave
          /\ pc = "stopped" /\ status = 0 => ~mark

\* The state keeps its types, the screen one owner and the scripts their order.
WrapperInv == TypeOK /\ ExclusiveFb /\ StartsInOrder /\ NothingLost

\* Wherever a script fails or is interrupted, a console that was bound is bound
\* or marked for rebinding, until a start removes the marker of an earlier run
\* (start-demo-cart.sh:67, 80-83, stop-demo-cart.sh:59-66).
ConsoleRecoverable == originally => bound \/ mark \/ "relaunch" \in mishaps

\* Where nothing went wrong but the renderer itself, a stop that reports success
\* leaves the screen and the console as they were before the cart, and what it
\* restores is never the cart's own picture (stop-demo-cart.sh:45-68).
Restored == fb = "console" /\ bound = originally
StopRestores ==
    mishaps = {} => /\ save # "cart"
                    /\ pc = "stopped" /\ status = 0 => Restored

\* Every start and every stop comes to an end, also with a renderer that
\* ignores SIGTERM (stop-demo-cart.sh:29-33).
ScriptsReturn == pc # "idle" ~> pc = "idle"

\* "Restores the saved framebuffer bytes. Rebinds fbcon only if it was
\* originally bound" (cart/README.md:91-92): a stop that reports success leaves a
\* console that was bound before the cart bound again.
StopAlwaysRebinds == originally /\ pc = "stopped" /\ status = 0 => bound

=============================================================================
