-------------------------- MODULE VitaControlProofs --------------------------
(***************************************************************************)
(* ControlInv is inductive and AcceptsSpaced follows from it: for any      *)
(* number of invocations, processes, intervals and clock readings.         *)
(***************************************************************************)
EXTENDS VitaControl, TLAPS

-----------------------------------------------------------------------------
(* Arithmetic *)

\* Integer division, as the remaining wait is rounded up to milliseconds
\* (vita-control.c:181).
LEMMA DivFacts ==
    ASSUME NEW a \in Nat, NEW n \in Nat \ {0}
    PROVE  /\ a \div n \in Nat
           /\ n * (a \div n) <= a
           /\ a < n * (a \div n) + n
  BY SMT

-----------------------------------------------------------------------------
(* The invariant *)

\* The part of the invariant that the comparison's result does not follow from.
Order == RecordKept /\ TargetChecked /\ ReadingsOrdered /\ Permitted

\* A process's own variables, and one process's left alone by a step.
LocalTypes ==
    /\ pc \in [Callers -> Labels]
    /\ action \in [Callers -> {"status", "next"}] /\ pid \in [Callers -> Pids \cup {NoPid}]
    /\ interval \in [Callers -> Intervals \cup {0}] /\ now \in [Callers -> Times]
    /\ moved \in [Callers -> BOOLEAN] /\ overtaken \in [Callers -> BOOLEAN]
SharedTypes ==
    /\ clock \in Times
    /\ proc \in [Pids -> {"none", "cart", "other"}] /\ pidfile \in Pids \cup {NoPid}
    /\ record \in Times \cup {Blank} /\ lock \in Callers \cup {Nobody}
    /\ calls \in 0 .. MaxCalls /\ turns \in 0 .. MaxTurns
    /\ accepted \in Times \cup {Blank} /\ disturbed \in BOOLEAN
    /\ advice \in [base : Times \cup {Blank}, interval : Intervals \cup {0}, until : Nat]
Same(d) ==
    /\ pc'[d] = pc[d] /\ pid'[d] = pid[d] /\ interval'[d] = interval[d]
    /\ now'[d] = now[d] /\ moved'[d] = moved[d] /\ overtaken'[d] = overtaken[d]

\* A refused caller's advice covers the interval, so no one who waited is
\* refused again (vita-control.c:178-186).
LEMMA AdviceFollows == TypeOK /\ AdviceCovers => AdviceHolds
<1> SUFFICES ASSUME TypeOK, AdviceCovers, NEW c \in Callers, Limited(c),
                    record = advice.base, interval[c] = advice.interval
             PROVE  now[c] < advice.until
    BY DEF AdviceHolds
<1>1. /\ advice.base \in Int /\ advice.base # Blank /\ now[c] \in Int /\ record \in Int
      /\ advice.interval \in Int /\ advice.until \in Int
    <2>1. now[c] \in Int /\ record \in Int /\ record # Blank
        BY ControlAssumption DEF TypeOK, Times, Limited, Blank
    <2>2. interval[c] \in Int
        BY ControlAssumption DEF TypeOK
    <2>3. advice.until \in Int
        BY DEF TypeOK
    <2>4. QED
        BY <2>1, <2>2, <2>3
<1> DEFINE wait == advice.interval * Unit
<1>2. wait \in Int
    BY <1>1, ControlAssumption
<1>3. advice.base + wait <= advice.until /\ now[c] - advice.base < wait
    BY <1>1 DEF AdviceCovers, Limited, Wait
<1> HIDE DEF wait
<1>4. QED
    BY <1>1, <1>2, <1>3

LEMMA Assemble ==
    ASSUME LocalTypes', SharedTypes', Order', AdviceCovers'
    PROVE  ControlInv'
<1>1. TypeOK'
    BY DEF LocalTypes, SharedTypes, TypeOK
<1>2. AdviceHolds'
    <2>1. (TypeOK /\ AdviceCovers => AdviceHolds)'
        BY AdviceFollows, PTL
    <2>2. QED
        BY <1>1, <2>1
<1>3. QED
    BY <1>1, <1>2 DEF Order, ControlInv

LEMMA Parts ==
    ASSUME ControlInv
    PROVE  LocalTypes /\ SharedTypes /\ Order /\ AdviceCovers
PROOF BY DEF ControlInv, TypeOK, LocalTypes, SharedTypes, Order

\* One process ends, the others are as they were.
LEMMA EndFacts ==
    ASSUME LocalTypes, SharedTypes, NEW c \in Callers, End(c)
    PROVE  /\ LocalTypes' /\ lock' \in Callers \cup {Nobody}
           /\ pc'[c] = "idle" /\ now'[c] = 0
           /\ \A d \in Callers : d # c => Same(d)
<1>1. /\ pc' \in [Callers -> Labels] /\ action' \in [Callers -> {"status", "next"}]
      /\ pid' \in [Callers -> Pids \cup {NoPid}] /\ interval' \in [Callers -> Intervals \cup {0}]
    BY DEF LocalTypes, End, Go, Labels
<1>2. now' \in [Callers -> Times]
    BY ControlAssumption DEF LocalTypes, End, Times
<1>3. moved' \in [Callers -> BOOLEAN] /\ overtaken' \in [Callers -> BOOLEAN]
    BY DEF LocalTypes, End
<1>4. lock' \in Callers \cup {Nobody}
    BY DEF SharedTypes, End
<1>5. pc'[c] = "idle" /\ now'[c] = 0 /\ \A d \in Callers : d # c => Same(d)
    BY DEF LocalTypes, End, Go, Same
<1>6. QED
    BY <1>1, <1>2, <1>3, <1>4, <1>5 DEF LocalTypes

\* Steps in which a process ends: it leaves the file and the observations alone,
\* or the file is known to be disturbed.
LEMMA EndKeeps ==
    ASSUME ControlInv, NEW c \in Callers, End(c),
           UNCHANGED <<clock, world, accepted>>,
           \/ UNCHANGED <<record, disturbed>> /\ pc[c] # "write"
           \/ disturbed' = TRUE /\ (record' = record \/ pc[c] = "write")
    PROVE  Order'
<1>1. LocalTypes /\ SharedTypes /\ Order
    BY Parts
<1>2. /\ LocalTypes' /\ pc'[c] = "idle" /\ now'[c] = 0
      /\ \A d \in Callers : d # c => Same(d)
    BY <1>1, EndFacts
<1>3. RecordKept'
    <2>1. \A d \in Callers : pc'[d] \in Locked <=> lock' = d
        BY <1>1, <1>2, ControlAssumption DEF Order, RecordKept, End, Same, Locked
    <2>2. ASSUME ~disturbed'
          PROVE  \/ record' = accepted'
                 \/ \E d \in Callers : pc'[d] = "write" /\ record' = Blank
        <3>1. UNCHANGED <<record, disturbed>> /\ pc[c] # "write"
            BY <2>2
        <3>2. QED
            BY <1>1, <1>2, <2>2, <3>1 DEF Order, RecordKept, Same
    <2>3. QED
        BY <2>1, <2>2 DEF RecordKept
<1>4. TargetChecked'
    BY <1>1, <1>2 DEF Order, TargetChecked, Same, Checked, world
<1>5. ReadingsOrdered'
    <2>1. 0 <= clock
        BY <1>1, ControlAssumption DEF SharedTypes, Times
    <2>2. QED
        BY <1>1, <1>2, <2>1 DEF Order, ReadingsOrdered, Same, Checked, Locked
<1>6. Permitted'
    BY <1>1, <1>2 DEF Order, Permitted, Spaced, Wait, Same
<1>7. QED
    BY <1>3, <1>4, <1>5, <1>6 DEF Order

\* A step that leaves the advice alone.
LEMMA AdviceKept ==
    ASSUME ControlInv, UNCHANGED advice
    PROVE  AdviceCovers'
PROOF BY DEF ControlInv, AdviceCovers

\* A process that ends leaves the types alone.
LEMMA EndTyped ==
    ASSUME ControlInv, NEW c \in Callers, End(c),
           UNCHANGED <<clock, world, calls, turns, accepted>>,
           record' \in Times \cup {Blank}, disturbed' \in BOOLEAN,
           advice' \in [base : Times \cup {Blank}, interval : Intervals \cup {0}, until : Nat]
    PROVE  LocalTypes' /\ SharedTypes'
<1>1. LocalTypes /\ SharedTypes
    BY Parts
<1>2. LocalTypes' /\ lock' \in Callers \cup {Nobody}
    BY <1>1, EndFacts
<1>3. QED
    BY <1>1, <1>2 DEF SharedTypes, world

\* A process that just ends, as most early returns do.
LEMMA PlainEnd ==
    ASSUME ControlInv, NEW c \in Callers, End(c), pc[c] # "write",
           UNCHANGED <<clock, world, record, calls, turns, accepted, disturbed, advice>>
    PROVE  ControlInv'
<1>1. LocalTypes /\ SharedTypes
    BY Parts
<1>2. LocalTypes' /\ SharedTypes'
    BY <1>1, EndTyped DEF SharedTypes
<1>3. Order' /\ AdviceCovers'
    BY EndKeeps, AdviceKept
<1>4. QED
    BY <1>2, <1>3, Assemble

\* One process goes on to its next step, the others are where they were.
LEMMA GoFacts ==
    ASSUME LocalTypes, NEW c \in Callers, NEW label \in Labels, Go(c, label)
    PROVE  /\ pc' \in [Callers -> Labels] /\ pc'[c] = label
           /\ \A d \in Callers : d # c => pc'[d] = pc[d]
PROOF BY DEF LocalTypes, Go

\* Time passes.
LEMMA TickKeeps == ControlInv /\ Tick => ControlInv'
<1> SUFFICES ASSUME ControlInv, Tick PROVE ControlInv'
    OBVIOUS
<1>1. LocalTypes /\ SharedTypes /\ Order /\ AdviceCovers
    BY Parts
<1>2. LocalTypes'
    BY <1>1 DEF LocalTypes, Tick, local, seen
<1>3. SharedTypes'
    <2>1. clock' \in Times
        BY <1>1, ControlAssumption DEF SharedTypes, Tick, Times
    <2>2. QED
        BY <1>1, <2>1 DEF SharedTypes, Tick, world, seen
<1>4. Order'
    <2>1. RecordKept' /\ TargetChecked' /\ Permitted'
        BY <1>1 DEF Order, RecordKept, TargetChecked, Permitted, Spaced, Wait, Tick, world, local, seen
    <2>2. clock \in Int /\ accepted \in Int /\ \A d \in Callers : now[d] \in Int
        BY <1>1, ControlAssumption DEF LocalTypes, SharedTypes, Times, Blank
    <2>3. ReadingsOrdered'
        BY <1>1, <2>2 DEF Order, ReadingsOrdered, Tick, local, seen
    <2>4. QED
        BY <2>1, <2>3 DEF Order
<1>5. QED
    BY <1>2, <1>3, <1>4, AdviceKept, Assemble DEF Tick, seen

\* A pid changes hands; whoever had checked it is marked.
LEMMA WorldKeeps ==
    ASSUME ControlInv, NEW p \in Pids, CartStarts(p) \/ CartEnds(p) \/ OtherStarts(p)
    PROVE  ControlInv'
<1>1. LocalTypes /\ SharedTypes /\ Order /\ AdviceCovers
    BY Parts
<1>2. PICK program \in {"none", "cart", "other"} : Becomes(p, program)
    BY DEF CartStarts, CartEnds, OtherStarts
<1>3. pidfile' \in Pids \cup {NoPid}
    BY <1>1 DEF CartStarts, CartEnds, OtherStarts, SharedTypes
<1>4. LocalTypes'
    <2>1. moved' \in [Callers -> BOOLEAN]
        BY <1>2 DEF Becomes
    <2>2. QED
        BY <1>1, <1>2, <2>1 DEF LocalTypes, Becomes, local
<1>5. SharedTypes'
    <2>1. turns' \in 0 .. MaxTurns
        BY <1>1, <1>2, ControlAssumption DEF SharedTypes, Becomes
    <2>2. QED
        BY <1>1, <1>2, <1>3, <2>1 DEF SharedTypes, Becomes
<1>6. Order'
    <2>1. RecordKept' /\ ReadingsOrdered' /\ Permitted'
        BY <1>1, <1>2 DEF Order, RecordKept, ReadingsOrdered, Permitted, Spaced, Wait, Becomes, local
    <2>2. TargetChecked'
        <3> SUFFICES ASSUME NEW d \in Callers, pc[d] \in Checked, ~moved'[d]
                     PROVE  proc'[pid[d]] = "cart"
            BY <1>2 DEF TargetChecked, Becomes, local
        <3>1. pid[d] # p /\ ~moved[d]
            BY <1>2 DEF Becomes
        <3>2. pid[d] \in Pids /\ proc[pid[d]] = "cart"
            BY <1>1, <3>1 DEF Order, ReadingsOrdered, TargetChecked
        <3>3. QED
            BY <1>1, <1>2, <3>1, <3>2 DEF Becomes, SharedTypes
    <2>3. QED
        BY <2>1, <2>2 DEF Order
<1>7. QED
    BY <1>2, <1>4, <1>5, <1>6, AdviceKept, Assemble DEF Becomes

\* One process goes on outside the critical section.
LEMMA AdvanceKeeps ==
    ASSUME ControlInv, NEW c \in Callers, \A d \in Callers : d # c => Same(d),
           pc[c] \notin Locked, pc'[c] \notin Locked,
           UNCHANGED <<clock, world, record, lock, accepted, disturbed>>,
           pc'[c] \in Checked /\ ~moved'[c] => proc[pid'[c]] = "cart",
           pc'[c] \in Checked \cup {"inspect"} => pid'[c] \in Pids,
           now'[c] <= clock,
           pc'[c] = "lock" => accepted <= now'[c],
           accepted \in Int, now'[c] \in Int
    PROVE  Order'
<1>1. Order
    BY Parts
<1>2. RecordKept'
    BY <1>1 DEF Order, RecordKept, Same, Locked
<1>3. TargetChecked'
    BY <1>1 DEF Order, TargetChecked, Same, world
<1>4. ReadingsOrdered'
    BY <1>1 DEF Order, ReadingsOrdered, Same
<1>5. Permitted'
    BY <1>1 DEF Order, Permitted, Spaced, Wait, Same, Locked
<1>6. QED
    BY <1>2, <1>3, <1>4, <1>5 DEF Order

LEMMA Numbers ==
    ASSUME ControlInv
    PROVE  /\ clock \in Int /\ accepted \in Int /\ record \in Int
           /\ \A d \in Callers : now[d] \in Nat /\ now[d] <= clock /\ interval[d] \in Nat
<1>1. LocalTypes /\ SharedTypes /\ Order
    BY Parts
<1>2. \A d \in Callers : now[d] \in Nat /\ now[d] <= clock
    BY <1>1, ControlAssumption DEF LocalTypes, Times, Order, ReadingsOrdered
<1>3. \A d \in Callers : interval[d] \in Nat
    <2>1. \A d \in Callers : interval[d] \in Intervals \cup {0}
        BY <1>1 DEF LocalTypes
    <2>2. ASSUME NEW i \in Intervals \cup {0} PROVE i \in Nat
        BY ControlAssumption
    <2>3. QED
        BY <2>1, <2>2
<1>4. clock \in Int /\ accepted \in Int /\ record \in Int
    BY <1>1, ControlAssumption DEF SharedTypes, Times, Blank
<1>5. QED
    BY <1>2, <1>3, <1>4

\* The steps before the lock: the call, load_target and the clock.
LEMMA CallKeeps ==
    ASSUME ControlInv, NEW c \in Callers, NEW what \in {"status", "next"}, NEW ms \in Intervals,
           Call(c, what, ms)
    PROVE  ControlInv'
<1>1. LocalTypes /\ SharedTypes
    BY Parts
<1>2. /\ pc' \in [Callers -> Labels] /\ pc'[c] = "pidfile"
      /\ \A d \in Callers : d # c => pc'[d] = pc[d]
    BY <1>1, GoFacts DEF Call, Labels
<1>3. LocalTypes'
    BY <1>1, <1>2 DEF LocalTypes, Call, seen
<1>4. SharedTypes'
    <2>1. calls' \in 0 .. MaxCalls
        BY <1>1, ControlAssumption DEF SharedTypes, Call
    <2>2. QED
        BY <1>1, <2>1 DEF SharedTypes, Call, world, seen
<1>5. \A d \in Callers : d # c => Same(d)
    BY <1>1, <1>2 DEF LocalTypes, Same, Call, seen
<1>6. now'[c] = now[c]
    BY DEF Call
<1>7. Order'
    BY <1>2, <1>5, <1>6, Numbers, AdvanceKeeps DEF Call, seen, Locked, Checked
<1>8. QED
    BY <1>3, <1>4, <1>7, AdviceKept, Assemble DEF Call, seen

LEMMA ReadPidKeeps == \A c \in Callers : ControlInv /\ ReadPid(c) => ControlInv'
<1> SUFFICES ASSUME NEW c \in Callers, ControlInv, ReadPid(c) PROVE ControlInv'
    OBVIOUS
<1>1. LocalTypes /\ SharedTypes
    BY Parts
<1>2. CASE pidfile = NoPid
    BY <1>2, PlainEnd DEF ReadPid
<1>3. CASE pidfile # NoPid
    <2>1. /\ pc' \in [Callers -> Labels] /\ pc'[c] = "inspect"
          /\ \A d \in Callers : d # c => pc'[d] = pc[d]
        BY <1>1, <1>3, GoFacts DEF ReadPid, Labels
    <2>2. LocalTypes'
        BY <1>1, <1>3, <2>1 DEF LocalTypes, SharedTypes, ReadPid
    <2>3. SharedTypes'
        BY <1>1, <1>3 DEF SharedTypes, ReadPid, world
    <2>4. \A d \in Callers : d # c => Same(d)
        BY <1>1, <1>3, <2>1 DEF LocalTypes, Same, ReadPid
    <2>5. pid'[c] \in Pids /\ now'[c] = now[c]
        BY <1>1, <1>3 DEF ReadPid, LocalTypes, SharedTypes
    <2>6. Order'
        BY <1>3, <2>1, <2>4, <2>5, Numbers, AdvanceKeeps DEF ReadPid, Locked, Checked
    <2>7. QED
        BY <2>2, <2>3, <2>6, AdviceKept, Assemble DEF ReadPid
<1>4. QED
    BY <1>2, <1>3

LEMMA InspectKeeps == \A c \in Callers : ControlInv /\ Inspect(c) => ControlInv'
<1> SUFFICES ASSUME NEW c \in Callers, ControlInv, Inspect(c) PROVE ControlInv'
    OBVIOUS
<1>1. LocalTypes /\ SharedTypes /\ Order
    BY Parts
<1>2. CASE ~(action[c] = "next" /\ Matches(pid[c]))
    BY <1>2, PlainEnd DEF Inspect
<1>3. CASE action[c] = "next" /\ Matches(pid[c])
    <2>1. /\ pc' \in [Callers -> Labels] /\ pc'[c] = "clock"
          /\ \A d \in Callers : d # c => pc'[d] = pc[d]
        BY <1>1, <1>3, GoFacts DEF Inspect, Labels
    <2>2. LocalTypes' /\ SharedTypes'
        BY <1>1, <1>3, <2>1 DEF LocalTypes, SharedTypes, Inspect, local, world
    <2>3. \A d \in Callers : d # c => Same(d)
        BY <1>3, <2>1 DEF Same, Inspect, local
    <2>4. proc[pid'[c]] = "cart" /\ pid'[c] \in Pids /\ now'[c] = now[c]
        BY <1>1, <1>3 DEF Inspect, Matches, local, Order, ReadingsOrdered
    <2>5. Order'
        BY <1>3, <2>1, <2>3, <2>4, Numbers, AdvanceKeeps DEF Inspect, Locked
    <2>6. QED
        BY <2>2, <2>5, AdviceKept, Assemble DEF Inspect
<1>4. QED
    BY <1>2, <1>3

LEMMA ReadClockKeeps == \A c \in Callers : ControlInv /\ ReadClock(c) => ControlInv'
<1> SUFFICES ASSUME NEW c \in Callers, ControlInv, ReadClock(c) PROVE ControlInv'
    OBVIOUS
<1>1. LocalTypes /\ SharedTypes /\ Order
    BY Parts
<1>2. CASE ~ValidInterval(interval[c])
    BY <1>2, PlainEnd DEF ReadClock
<1>3. CASE ValidInterval(interval[c])
    <2>1. /\ pc' \in [Callers -> Labels] /\ pc'[c] = "lock"
          /\ \A d \in Callers : d # c => pc'[d] = pc[d]
        BY <1>1, <1>3, GoFacts DEF ReadClock, Labels
    <2>2. LocalTypes' /\ SharedTypes'
        BY <1>1, <1>3, <2>1 DEF LocalTypes, SharedTypes, ReadClock, world
    <2>3. \A d \in Callers : d # c => Same(d)
        BY <1>1, <1>3, <2>1 DEF LocalTypes, Same, ReadClock
    <2>4. now'[c] = clock /\ pid'[c] = pid[c] /\ moved'[c] = moved[c]
        BY <1>1, <1>3 DEF LocalTypes, ReadClock
    <2>5. /\ ~moved[c] => proc[pid[c]] = "cart"
          /\ pid[c] \in Pids /\ accepted <= clock
        BY <1>1 DEF Order, TargetChecked, ReadingsOrdered, ReadClock, Checked
    <2>6. Order'
        BY <1>3, <2>1, <2>3, <2>4, <2>5, Numbers, AdvanceKeeps DEF ReadClock, Locked
    <2>7. QED
        BY <2>2, <2>6, AdviceKept, Assemble DEF ReadClock
<1>4. QED
    BY <1>2, <1>3

\* flock: one holder.
LEMMA TakeLockKeeps == \A c \in Callers : ControlInv /\ TakeLock(c) => ControlInv'
<1> SUFFICES ASSUME NEW c \in Callers, ControlInv, TakeLock(c) PROVE ControlInv'
    OBVIOUS
<1>1. LocalTypes /\ SharedTypes /\ Order
    BY Parts
<1>2. CASE End(c)
    BY <1>2, PlainEnd DEF TakeLock
<1>3. CASE /\ lock = Nobody /\ lock' = c /\ Go(c, "compare")
           /\ UNCHANGED <<local, moved, overtaken>>
    <2>1. /\ pc' \in [Callers -> Labels] /\ pc'[c] = "compare"
          /\ \A d \in Callers : d # c => pc'[d] = pc[d]
        BY <1>1, <1>3, GoFacts DEF Labels
    <2>2. LocalTypes' /\ SharedTypes'
        BY <1>1, <1>3, <2>1 DEF LocalTypes, SharedTypes, TakeLock, local, world
    <2>3. RecordKept'
        <3>1. \A d \in Callers : pc[d] \notin Locked
            BY <1>1, <1>3, ControlAssumption DEF Order, RecordKept
        <3>2. \A d \in Callers : pc'[d] \in Locked <=> lock' = d
            BY <1>3, <2>1, <3>1 DEF Locked
        <3>3. QED
            BY <1>1, <3>1, <3>2 DEF Order, RecordKept, TakeLock, Locked
    <2>4. TargetChecked'
        BY <1>1, <1>3, <2>1 DEF Order, TargetChecked, TakeLock, local, world, Checked
    <2>5. ReadingsOrdered'
        BY <1>1, <1>3, <2>1 DEF Order, ReadingsOrdered, TakeLock, local, Checked, Locked
    <2>6. Permitted'
        BY <1>1, <1>3, <2>1 DEF Order, Permitted, Spaced, Wait, TakeLock, local
    <2>7. QED
        BY <2>2, <2>3, <2>4, <2>5, <2>6, AdviceKept, Assemble DEF Order, TakeLock
<1>4. QED
    BY <1>2, <1>3 DEF TakeLock

\* retry_after_ms is rounded up: never short of the interval, and a number
\* (vita-control.c:181).
LEMMA RetryEnough ==
    ASSUME ControlInv, NEW c \in Callers, Limited(c)
    PROVE  /\ now[c] + Retry(c) * Unit \in Nat
           /\ record + interval[c] * Unit <= now[c] + Retry(c) * Unit
<1>1. now[c] \in Nat /\ record \in Int /\ interval[c] \in Nat /\ Unit \in Nat \ {0}
    BY Numbers, ControlAssumption
<1> DEFINE wait == interval[c] * Unit
           left == wait - (now[c] - record)
           q == (left + (Unit - 1)) \div Unit
<1>2. wait \in Nat
    BY <1>1
<1>3. left \in Nat
    <2>1. now[c] - record < wait
        BY DEF Limited, Wait
    <2>2. QED
        BY <1>1, <1>2, <2>1
<1>4. left + (Unit - 1) \in Nat
    BY <1>1, <1>3
<1>5. q \in Nat /\ left + (Unit - 1) < Unit * q + Unit
    BY <1>1, <1>4, DivFacts
<1>6. Retry(c) = q
    BY DEF Retry, Wait
<1>7. q * Unit \in Nat /\ left <= q * Unit
    BY <1>1, <1>3, <1>5
<1>8. record + wait = now[c] + left
    BY <1>1, <1>2
<1> HIDE DEF wait, left, q
<1>9. now[c] + q * Unit \in Nat /\ record + wait <= now[c] + q * Unit
    BY <1>1, <1>2, <1>3, <1>7, <1>8
<1>10. QED
    BY <1>6, <1>9 DEF wait

LEMMA CompareKeeps == \A c \in Callers : ControlInv /\ Compare(c) => ControlInv'
<1> SUFFICES ASSUME NEW c \in Callers, ControlInv, Compare(c) PROVE ControlInv'
    OBVIOUS
<1>1. LocalTypes /\ SharedTypes /\ Order
    BY Parts
<1>2. CASE Limited(c)
    <2> DEFINE until == now[c] + Retry(c) * Unit
    <2>1. until \in Nat /\ record + interval[c] * Unit <= until
        BY <1>2, RetryEnough
    <2>2. advice' = [base |-> record, interval |-> interval[c], until |-> until]
        BY <1>2 DEF Compare
    <2> HIDE DEF until
    <2>3. advice' \in [base : Times \cup {Blank}, interval : Intervals \cup {0}, until : Nat]
        BY <1>1, <2>1, <2>2 DEF LocalTypes, SharedTypes
    <2>4. AdviceCovers'
        BY <2>1, <2>2 DEF AdviceCovers
    <2>5. End(c) /\ UNCHANGED <<clock, world, record, calls, turns, accepted, disturbed>>
        BY <1>2 DEF Compare
    <2>6. LocalTypes' /\ SharedTypes'
        BY <1>1, <2>3, <2>5, EndTyped DEF SharedTypes
    <2>7. Order'
        BY <2>5, EndKeeps DEF Compare
    <2>8. QED
        BY <2>4, <2>6, <2>7, Assemble
<1>3. CASE ~Limited(c)
    <2>1. /\ pc' \in [Callers -> Labels] /\ pc'[c] = "truncate"
          /\ \A d \in Callers : d # c => pc'[d] = pc[d]
        BY <1>1, <1>3, GoFacts DEF Compare, Labels
    <2>2. LocalTypes' /\ SharedTypes'
        BY <1>1, <1>3, <2>1 DEF LocalTypes, SharedTypes, Compare, local, world
    <2>3. lock = c /\ \A d \in Callers : pc[d] \in Locked => d = c
        BY <1>1 DEF Order, RecordKept, Compare, Locked
    <2>4. RecordKept'
        BY <1>1, <1>3, <2>1 DEF Order, RecordKept, Compare, Locked
    <2>5. TargetChecked' /\ ReadingsOrdered'
        BY <1>1, <1>3, <2>1 DEF Order, TargetChecked, ReadingsOrdered, Compare, local, world, Checked, Locked
    <2>6. ASSUME ~disturbed, accepted # Blank PROVE Spaced(c)
        <3>1. record = accepted
            BY <1>1, <2>3, <2>6 DEF Order, RecordKept, Compare, Locked
        <3>2. now[c] < record \/ now[c] - record >= Wait(c)
            <4>1. Wait(c) \in Int
                BY Numbers, ControlAssumption DEF Wait
            <4>2. QED
                BY <1>3, <2>6, <3>1, <4>1, Numbers DEF Limited
        <3>3. now[c] < accepted => overtaken[c]
            BY <1>1 DEF Order, ReadingsOrdered, Compare, Locked
        <3>4. QED
            BY <3>1, <3>2, <3>3 DEF Spaced
    <2>7. Permitted'
        BY <1>1, <1>3, <2>1, <2>6 DEF Order, Permitted, Spaced, Wait, Compare, local
    <2>8. QED
        BY <1>3, <2>2, <2>4, <2>5, <2>7, AdviceKept, Assemble DEF Order, Compare
<1>4. QED
    BY <1>2, <1>3

LEMMA TruncateKeeps == \A c \in Callers : ControlInv /\ Truncate(c) => ControlInv'
<1> SUFFICES ASSUME NEW c \in Callers, ControlInv, Truncate(c) PROVE ControlInv'
    OBVIOUS
<1>1. LocalTypes /\ SharedTypes /\ Order
    BY Parts
<1>2. CASE End(c) /\ UNCHANGED record
    BY <1>2, PlainEnd DEF Truncate
<1>3. CASE record' = Blank /\ Go(c, "write") /\ UNCHANGED <<lock, local, moved, overtaken>>
    <2>1. /\ pc' \in [Callers -> Labels] /\ pc'[c] = "write"
          /\ \A d \in Callers : d # c => pc'[d] = pc[d]
        BY <1>1, <1>3, GoFacts DEF Labels
    <2>2. LocalTypes' /\ SharedTypes'
        BY <1>1, <1>3, <2>1 DEF LocalTypes, SharedTypes, Truncate, local, world
    <2>3. RecordKept'
        BY <1>1, <1>3, <2>1 DEF Order, RecordKept, Truncate, Locked
    <2>4. TargetChecked' /\ ReadingsOrdered'
        BY <1>1, <1>3, <2>1 DEF Order, TargetChecked, ReadingsOrdered, Truncate, local, world, Checked, Locked
    <2>5. Permitted'
        BY <1>1, <1>3, <2>1 DEF Order, Permitted, Spaced, Wait, Truncate, local
    <2>6. QED
        BY <2>2, <2>3, <2>4, <2>5, AdviceKept, Assemble DEF Order, Truncate
<1>4. QED
    BY <1>2, <1>3 DEF Truncate

\* The request is recorded; whoever waits for the lock is overtaken.
LEMMA AcceptKeeps ==
    ASSUME ControlInv, NEW c \in Callers, pc[c] = "write", Accept(c),
           UNCHANGED <<clock, world, calls, turns, advice>>
    PROVE  ControlInv'
<1>1. LocalTypes /\ SharedTypes /\ Order
    BY Parts
<1>2. /\ pc' \in [Callers -> Labels] /\ pc'[c] = "signal"
      /\ \A d \in Callers : d # c => pc'[d] = pc[d]
    BY <1>1, GoFacts DEF Accept, Labels
<1>3. lock = c /\ \A d \in Callers : pc[d] \in Locked => d = c
    BY <1>1 DEF Order, RecordKept, Locked
<1>4. accepted' \in Times \cup {Blank} /\ record' \in Times \cup {Blank} /\ disturbed' \in BOOLEAN
    BY <1>1 DEF LocalTypes, SharedTypes, Accept
<1>5. LocalTypes'
    <2>1. overtaken' \in [Callers -> BOOLEAN]
        BY DEF Accept
    <2>2. QED
        BY <1>1, <1>2, <2>1 DEF LocalTypes, Accept, local
<1>6. SharedTypes'
    BY <1>1, <1>4 DEF SharedTypes, Accept, world
<1>7. RecordKept'
    <2>1. \A d \in Callers : pc'[d] \in Locked <=> lock' = d
        BY <1>2, <1>3, ControlAssumption DEF Accept, Locked
    <2>2. ~disturbed' => record' = accepted'
        BY DEF Accept
    <2>3. QED
        BY <2>1, <2>2 DEF RecordKept
<1>8. TargetChecked'
    BY <1>1, <1>2 DEF Order, TargetChecked, Accept, local, world, Checked
<1>9. ReadingsOrdered'
    <2>1. accepted' <= clock'
        BY <1>1, Numbers DEF Order, ReadingsOrdered, Accept
    <2>2. ASSUME NEW d \in Callers
          PROVE  /\ pc'[d] \in Checked \cup {"inspect"} => pid'[d] \in Pids
                 /\ now'[d] <= clock'
        BY <1>1, <1>2 DEF Order, ReadingsOrdered, Accept, local, Checked
    <2>3. ASSUME NEW d \in Callers, pc'[d] \in Locked \cup {"lock"} PROVE overtaken'[d]
        <3>1. d # c /\ pc[d] = "lock"
            BY <1>2, <1>3, <2>3 DEF Locked
        <3>2. QED
            BY <3>1 DEF Accept
    <2>4. QED
        BY <2>1, <2>2, <2>3 DEF ReadingsOrdered
<1>10. Permitted'
    BY <1>2, <1>3 DEF Permitted, Locked
<1>11. QED
    BY <1>5, <1>6, <1>7, <1>8, <1>9, <1>10, AdviceKept, Assemble DEF Order

\* A process ends with the file disturbed: a write cut short, or before it.
LEMMA DisturbedEnd ==
    ASSUME ControlInv, NEW c \in Callers, End(c), disturbed' = TRUE,
           record' \in Times \cup {Blank}, record' = record \/ pc[c] = "write",
           UNCHANGED <<clock, world, calls, turns, accepted, advice>>
    PROVE  ControlInv'
<1>1. SharedTypes
    BY Parts
<1>2. LocalTypes' /\ SharedTypes'
    BY <1>1, EndTyped DEF SharedTypes
<1>3. Order' /\ AdviceCovers'
    BY EndKeeps, AdviceKept
<1>4. QED
    BY <1>2, <1>3, Assemble

LEMMA WriteKeeps == \A c \in Callers : ControlInv /\ Write(c) => ControlInv'
<1> SUFFICES ASSUME NEW c \in Callers, ControlInv, Write(c) PROVE ControlInv'
    OBVIOUS
<1>1. CASE Accept(c)
    BY <1>1, AcceptKeeps DEF Write
<1>2. CASE Spoil(c)
    <2>1. now[c] \in Times /\ MaxTime \in Nat
        BY Parts, ControlAssumption DEF LocalTypes
    <2>2. now[c] \div 10 \in Times
        BY <2>1, DivFacts DEF Times
    <2>3. record' \in Times \cup {Blank}
        BY <1>2, <2>2 DEF Spoil
    <2>4. QED
        BY <1>2, <2>3, DisturbedEnd DEF Spoil, Write
<1>3. QED
    BY <1>1, <1>2 DEF Write

LEMMA InterruptKeeps == \A c \in Callers : ControlInv /\ Interrupt(c) => ControlInv'
<1> SUFFICES ASSUME NEW c \in Callers, ControlInv, Interrupt(c) PROVE ControlInv'
    OBVIOUS
<1>1. disturbed \in BOOLEAN /\ record \in Times \cup {Blank}
    BY Parts DEF SharedTypes
<1>2. CASE disturbed \/ pc[c] = "write"
    <2>1. disturbed' = TRUE
        BY <1>2 DEF Interrupt
    <2>2. QED
        BY <1>1, <2>1, DisturbedEnd DEF Interrupt
<1>3. CASE ~disturbed /\ pc[c] # "write"
    <2>1. disturbed' = disturbed
        BY <1>1, <1>3 DEF Interrupt
    <2>2. QED
        BY <1>3, <2>1, PlainEnd DEF Interrupt
<1>4. QED
    BY <1>2, <1>3

LEMMA ControlInit == Init => ControlInv
<1> SUFFICES ASSUME Init PROVE ControlInv
    OBVIOUS
<1>1. TypeOK
    <2>1. LocalTypes
        BY ControlAssumption DEF Init, LocalTypes, Labels, Times
    <2>2. SharedTypes
        <3>1. advice \in [base : Times \cup {Blank}, interval : Intervals \cup {0}, until : Nat]
            BY DEF Init, NoAdvice
        <3>2. clock \in Times /\ calls \in 0 .. MaxCalls /\ turns \in 0 .. MaxTurns
            BY ControlAssumption DEF Init, Times
        <3>3. QED
            BY <3>1, <3>2 DEF Init, SharedTypes
    <2>3. QED
        BY <2>1, <2>2 DEF TypeOK, LocalTypes, SharedTypes
<1>2. RecordKept /\ TargetChecked /\ Permitted
    BY ControlAssumption DEF Init, RecordKept, TargetChecked, Permitted, Locked, Checked
<1>3. ReadingsOrdered
    BY DEF Init, ReadingsOrdered, Locked, Checked, Blank
<1>4. AdviceCovers
    BY DEF Init, AdviceCovers, NoAdvice
<1>5. QED
    BY <1>1, <1>2, <1>3, <1>4, AdviceFollows DEF ControlInv

LEMMA StutterKeeps == ControlInv /\ UNCHANGED vars => ControlInv'
<1> SUFFICES ASSUME ControlInv, UNCHANGED vars PROVE ControlInv'
    OBVIOUS
<1>1. LocalTypes /\ SharedTypes /\ Order
    BY Parts
<1>2. LocalTypes' /\ SharedTypes'
    BY <1>1 DEF vars, LocalTypes, SharedTypes, local, world, seen
<1>3. Order'
    BY <1>1 DEF vars, Order, RecordKept, TargetChecked, ReadingsOrdered, Permitted, Spaced, Wait,
       local, world, seen
<1>4. QED
    BY <1>2, <1>3, AdviceKept, Assemble DEF vars, seen

\* The inductive step, an action at a time.
LEMMA ControlKept == ControlInv /\ [Next]_vars => ControlInv'
<1> SUFFICES ASSUME ControlInv, [Next]_vars PROVE ControlInv'
    OBVIOUS
<1>1. CASE Tick
    BY <1>1, TickKeeps
<1>2. CASE \E p \in Pids : CartStarts(p) \/ CartEnds(p) \/ OtherStarts(p)
    BY <1>2, WorldKeeps
<1>3. ASSUME NEW c \in Callers,
             \E what \in {"status", "next"}, ms \in Intervals : Call(c, what, ms)
      PROVE  ControlInv'
    BY <1>3, CallKeeps
<1>4. ASSUME NEW c \in Callers, Signal(c) PROVE ControlInv'
    BY <1>4, PlainEnd DEF Signal
<1>5. ASSUME NEW c \in Callers, Step(c) PROVE ControlInv'
    BY <1>4, <1>5, ReadPidKeeps, InspectKeeps, ReadClockKeeps, TakeLockKeeps, CompareKeeps,
       TruncateKeeps, WriteKeeps DEF Step
<1>6. ASSUME NEW c \in Callers, Interrupt(c) PROVE ControlInv'
    BY <1>6, InterruptKeeps
<1>7. CASE UNCHANGED vars
    BY <1>7, StutterKeeps
<1>8. QED
    BY <1>1, <1>2, <1>3, <1>5, <1>6, <1>7 DEF Next

\* One invocation at a time compares and writes, the file holds the latest
\* accepted reading, whoever is past the inspection has a cart's pid, and an
\* advised wait is long enough, however many invocations interleave with
\* interruptions, failed writes and reused pids (vita-control.c:76-202).
THEOREM ControlCorrect == Spec => []ControlInv
<1>1. QED
    BY ControlInit, ControlKept, PTL DEF Spec

\* An accepted request is its interval after the latest accepted one, or it was
\* overtaken while it waited for the lock (vita-control.c:178-180, 306-312).
THEOREM RequestsSpaced == Spec => AcceptsSpaced
<1> DEFINE Accepts ==
        \A c \in Callers :
            pc[c] = "write" /\ pc'[c] = "signal" /\ ~disturbed /\ accepted # Blank => Spaced(c)
<1>1. ControlInv => Accepts
    BY DEF ControlInv, Permitted
<1>2. ControlInv /\ [Next]_vars => [Accepts]_vars
    BY <1>1
<1>3. QED
    BY <1>2, ControlCorrect, PTL DEF Spec, AcceptsSpaced

=============================================================================
