----------------------------- MODULE VitaControl -----------------------------
(***************************************************************************)
(* toolkit/share/vita-control.c: several invocations against one pid file  *)
(* and one rate-limit file under flock.  The clock is read before the lock *)
(* is taken and the target is inspected before both, so everything may     *)
(* have moved on when a caller acts on what it read.                       *)
(***************************************************************************)
EXTENDS Integers, FiniteSets

CONSTANTS
    Callers,        \* invocations that may be running at a time
    Pids,           \* process ids
    Intervals,      \* --min-interval-ms arguments
    MaxInterval,    \* 3600000, the longest accepted
    Unit,           \* clock ticks per millisecond
    MaxTime,        \* bound: clock ticks
    MaxCalls,       \* bound: invocations
    MaxTurns        \* bound: processes that come and go

NoPid   == "invalid_pidfile"
Nobody  == "nobody"
Blank   == -1       \* no readable time in the file, or none accepted yet

ASSUME ControlAssumption ==
    /\ NoPid \notin Pids /\ Nobody \notin Callers
    /\ Intervals \subseteq Nat /\ MaxInterval \in Nat
    /\ Unit \in Nat \ {0}
    /\ MaxTime \in Nat /\ MaxCalls \in Nat /\ MaxTurns \in Nat

VARIABLES
    clock,
    proc,           \* the program each pid runs, "none" if it is free
    pidfile,
    record,         \* the time in the state file
    lock,           \* who holds its flock
    pc,             \* per caller: the next step, and main's variables
    action, pid, interval, now,
    calls, turns,
    moved,          \* observation only: the caller's target is not the process it checked
    accepted,       \* observation only: the latest clock reading of an accepted request
    overtaken,      \* observation only: a request was accepted after the caller's reading
    disturbed,      \* observation only: record is not that reading
    advice          \* observation only: the last retry_after_ms and what it was for

local  == <<action, pid, interval, now>>
world  == <<proc, pidfile>>
seen   == <<moved, accepted, overtaken, disturbed, advice>>
vars   == <<clock, world, record, lock, pc, local, calls, turns, seen>>

Labels  == {"idle", "pidfile", "inspect", "clock", "lock", "compare", "truncate", "write", "signal"}
Checked == {"clock", "lock", "compare", "truncate", "write", "signal"}
Locked  == {"compare", "truncate", "write"}
Times   == 0 .. MaxTime
NoAdvice == [base |-> Blank, interval |-> 0, until |-> 0]

TypeOK ==
    /\ clock \in Times
    /\ proc \in [Pids -> {"none", "cart", "other"}] /\ pidfile \in Pids \cup {NoPid}
    /\ record \in Times \cup {Blank}
    /\ lock \in Callers \cup {Nobody}
    /\ pc \in [Callers -> Labels]
    /\ action \in [Callers -> {"status", "next"}] /\ pid \in [Callers -> Pids \cup {NoPid}]
    /\ interval \in [Callers -> Intervals \cup {0}] /\ now \in [Callers -> Times]
    /\ calls \in 0 .. MaxCalls /\ turns \in 0 .. MaxTurns
    /\ moved \in [Callers -> BOOLEAN] /\ overtaken \in [Callers -> BOOLEAN]
    /\ accepted \in Times \cup {Blank} /\ disturbed \in BOOLEAN
    /\ advice \in [base : Times \cup {Blank}, interval : Intervals \cup {0}, until : Nat]

Init ==
    /\ clock = 0
    /\ proc = [p \in Pids |-> "none"] /\ pidfile = NoPid
    /\ record = Blank /\ lock = Nobody
    /\ pc = [c \in Callers |-> "idle"]
    /\ action = [c \in Callers |-> "status"] /\ pid = [c \in Callers |-> NoPid]
    /\ interval = [c \in Callers |-> 0] /\ now = [c \in Callers |-> 0]
    /\ calls = 0 /\ turns = 0
    /\ moved = [c \in Callers |-> FALSE] /\ overtaken = [c \in Callers |-> FALSE]
    /\ accepted = Blank /\ disturbed = FALSE /\ advice = NoAdvice

-----------------------------------------------------------------------------
(* The world: time, the cart and its pid file, other processes *)

Tick ==
    /\ clock < MaxTime
    /\ clock' = clock + 1
    /\ UNCHANGED <<world, record, lock, pc, local, calls, turns, seen>>

\* A pid changes hands under the callers that have checked it.
Becomes(p, program) ==
    /\ turns < MaxTurns
    /\ turns' = turns + 1
    /\ proc' = [proc EXCEPT ![p] = program]
    /\ moved' = [c \in Callers |-> moved[c] \/ (pid[c] = p /\ pc[c] \in Checked)]
    /\ UNCHANGED <<clock, record, lock, pc, local, calls, accepted, overtaken, disturbed, advice>>

CartStarts(p) ==
    /\ proc[p] = "none" /\ \A q \in Pids : proc[q] # "cart"
    /\ Becomes(p, "cart")
    /\ pidfile' = p

\* The stop script removes the pid file, a crash or Esc leaves it.
CartEnds(p) ==
    /\ proc[p] = "cart"
    /\ Becomes(p, "none")
    /\ pidfile' \in {pidfile, NoPid}

OtherStarts(p) == proc[p] = "none" /\ Becomes(p, "other") /\ UNCHANGED pidfile

-----------------------------------------------------------------------------
(* One invocation *)

Go(c, label) == pc' = [pc EXCEPT ![c] = label]

\* The process ends: its variables and its flock are gone.
End(c) ==
    /\ Go(c, "idle")
    /\ action' = [action EXCEPT ![c] = "status"] /\ pid' = [pid EXCEPT ![c] = NoPid]
    /\ interval' = [interval EXCEPT ![c] = 0] /\ now' = [now EXCEPT ![c] = 0]
    /\ moved' = [moved EXCEPT ![c] = FALSE] /\ overtaken' = [overtaken EXCEPT ![c] = FALSE]
    /\ lock' = IF lock = c THEN Nobody ELSE lock

Call(c, what, ms) ==
    /\ pc[c] = "idle"
    /\ calls < MaxCalls
    /\ calls' = calls + 1
    /\ action' = [action EXCEPT ![c] = what]
    /\ interval' = [interval EXCEPT ![c] = ms]
    /\ Go(c, "pidfile")
    /\ UNCHANGED <<clock, world, record, lock, pid, now, turns, seen>>

\* load_target, first half: the pid file is read and parsed.
ReadPid(c) ==
    /\ pc[c] = "pidfile"
    /\ IF pidfile = NoPid
       THEN End(c)
       ELSE /\ pid' = [pid EXCEPT ![c] = pidfile]
            /\ Go(c, "inspect")
            /\ UNCHANGED <<lock, action, interval, now, moved, overtaken>>
    /\ UNCHANGED <<clock, world, record, calls, turns, accepted, disturbed, advice>>

\* Mutant: any live process will do.
MatchesMutant(p) == proc[p] # "none"

\* The process is alive and /proc/pid/exe is the cart.
Matches(p) == proc[p] = "cart"

\* load_target, second half; status reports and ends here.
Inspect(c) ==
    /\ pc[c] = "inspect"
    /\ IF action[c] = "next" /\ Matches(pid[c])
       THEN Go(c, "clock") /\ UNCHANGED <<lock, local, moved, overtaken>>
       ELSE End(c)
    /\ UNCHANGED <<clock, world, record, calls, turns, accepted, disturbed, advice>>

\* load_interval refuses text that is no number, and more than an hour.
ValidInterval(ms) == ms <= MaxInterval

\* Then monotonic_ns.
ReadClock(c) ==
    /\ pc[c] = "clock"
    /\ IF ValidInterval(interval[c])
       THEN /\ now' = [now EXCEPT ![c] = clock]
            /\ Go(c, "lock")
            /\ UNCHANGED <<lock, action, pid, interval, moved, overtaken>>
       ELSE End(c)
    /\ UNCHANGED <<clock, world, record, calls, turns, accepted, disturbed, advice>>

\* update_rate_state: open and flock, which waits; rate_state_unavailable.
TakeLock(c) ==
    /\ pc[c] = "lock"
    /\ \/ /\ lock = Nobody
          /\ lock' = c
          /\ Go(c, "compare")
          /\ UNCHANGED <<local, moved, overtaken>>
       \/ End(c)
    /\ UNCHANGED <<clock, world, record, calls, turns, accepted, disturbed, advice>>

Wait(c) == interval[c] * Unit

\* Mutant: milliseconds are compared with clock ticks.
LimitedMutant(c) == record # Blank /\ now[c] >= record /\ now[c] - record < interval[c]

\* A reading older than the record is not limited at all.
Limited(c) == record # Blank /\ now[c] >= record /\ now[c] - record < Wait(c)

\* Mutant: retry_after_ms is rounded down.
RetryMutant(c) == (Wait(c) - (now[c] - record)) \div Unit
Retry(c) == (Wait(c) - (now[c] - record) + (Unit - 1)) \div Unit

Compare(c) ==
    /\ pc[c] = "compare"
    /\ IF Limited(c)
       THEN /\ advice' = [base |-> record, interval |-> interval[c],
                          until |-> now[c] + Retry(c) * Unit]
            /\ End(c)
       ELSE Go(c, "truncate") /\ UNCHANGED <<lock, local, moved, overtaken, advice>>
    /\ UNCHANGED <<clock, world, record, calls, turns, accepted, disturbed>>

Truncate(c) ==
    /\ pc[c] = "truncate"
    /\ \/ record' = Blank /\ Go(c, "write") /\ UNCHANGED <<lock, local, moved, overtaken>>
       \/ End(c) /\ UNCHANGED record
    /\ UNCHANGED <<clock, world, calls, turns, accepted, disturbed, advice>>

\* The request is accepted once its reading is in the file.
Accept(c) ==
    /\ record' = now[c]
    /\ accepted' = IF now[c] < accepted THEN accepted ELSE now[c]
    /\ disturbed' = (now[c] < accepted)
    /\ overtaken' = [d \in Callers |-> IF d = c THEN FALSE ELSE overtaken[d] \/ pc[d] = "lock"]
    /\ lock' = Nobody
    /\ Go(c, "signal")
    /\ UNCHANGED <<local, moved>>

\* A failed write leaves nothing, or the leading digits.
Spoil(c) ==
    /\ record' \in {Blank, now[c] \div 10}
    /\ disturbed' = TRUE
    /\ End(c)
    /\ UNCHANGED accepted

Write(c) ==
    /\ pc[c] = "write"
    /\ Accept(c) \/ Spoil(c)
    /\ UNCHANGED <<clock, world, calls, turns, advice>>

\* kill(pid, SIGUSR1), to whoever has the pid by now; it may fail.
Signal(c) ==
    /\ pc[c] = "signal"
    /\ End(c)
    /\ UNCHANGED <<clock, world, record, calls, turns, accepted, disturbed, advice>>

\* The invocation is interrupted; between truncate and write the file stays empty.
Interrupt(c) ==
    /\ pc[c] # "idle"
    /\ End(c)
    /\ disturbed' = (disturbed \/ pc[c] = "write")
    /\ UNCHANGED <<clock, world, record, calls, turns, accepted, advice>>

Step(c) ==
    \/ ReadPid(c) \/ Inspect(c) \/ ReadClock(c) \/ TakeLock(c)
    \/ Compare(c) \/ Truncate(c) \/ Write(c) \/ Signal(c)

Next ==
    \/ Tick
    \/ \E p \in Pids : CartStarts(p) \/ CartEnds(p) \/ OtherStarts(p)
    \/ \E c \in Callers :
          \/ \E what \in {"status", "next"}, ms \in Intervals : Call(c, what, ms)
          \/ Step(c) \/ Interrupt(c)

Spec == Init /\ [][Next]_vars

-----------------------------------------------------------------------------
(* Properties *)

\* One caller at a time is between its comparison and its write, and between
\* critical sections the file holds the latest accepted reading, unless a write
\* was cut short or an older reading was written over it (vita-control.c:167-202).
RecordKept ==
    /\ \A c \in Callers : pc[c] \in Locked <=> lock = c
    /\ ~disturbed => \/ record = accepted
                     \/ \E c \in Callers : pc[c] = "write" /\ record = Blank

\* The action fails closed: the pid of every caller past the inspection is a
\* cart's, unless the process behind it has changed since
\* (vita-control.c:76-105, 298-301, 314).
TargetChecked ==
    \A c \in Callers : pc[c] \in Checked /\ ~moved[c] => proc[pid[c]] = "cart"

\* A caller that comes back when its retry_after_ms is over is not refused
\* because of the same record (vita-control.c:178-186).
AdviceHolds ==
    \A c \in Callers :
        pc[c] = "compare" /\ Limited(c) /\ record = advice.base /\ interval[c] = advice.interval =>
            now[c] < advice.until

\* A reading is never ahead of the clock, and one that is behind the latest
\* accepted one was overtaken while its caller waited (vita-control.c:306-312).
ReadingsOrdered ==
    /\ accepted <= clock
    /\ \A c \in Callers :
          /\ pc[c] \in Checked \cup {"inspect"} => pid[c] \in Pids
          /\ now[c] <= clock
          /\ pc[c] \in Locked \cup {"lock"} /\ now[c] < accepted => overtaken[c]

\* What AcceptsSpaced says of a request when it is accepted holds from the
\* comparison on, although others wait, come and go (vita-control.c:178-202).
Spaced(c) == now[c] - accepted >= Wait(c) \/ (overtaken[c] /\ now[c] < accepted)
Permitted ==
    \A c \in Callers :
        pc[c] \in {"truncate", "write"} /\ ~disturbed /\ accepted # Blank => Spaced(c)

\* The last advice covers the whole interval after its record (line 181).
AdviceCovers ==
    advice.base # Blank => advice.base + advice.interval * Unit <= advice.until

\* The lock, the target and the advice, with the types.
ControlInv ==
    /\ TypeOK /\ RecordKept /\ TargetChecked /\ AdviceHolds
    /\ ReadingsOrdered /\ Permitted /\ AdviceCovers

\* An accepted request is its full interval after the latest accepted one, or it
\* read its clock before that one was recorded and waited for the lock, or the
\* file had been spoiled (vita-control.c:178-180, 306-312).
AcceptsSpaced ==
    [][\A c \in Callers :
        pc[c] = "write" /\ pc'[c] = "signal" /\ ~disturbed /\ accepted # Blank => Spaced(c)]_vars

=============================================================================
