----------------------------- MODULE InputEvdev -----------------------------
(***************************************************************************)
(* The input engine of cart/src/input_evdev.c: discovery of ranked event   *)
(* nodes, the poll that drains them source by source, recovery from        *)
(* SYN_DROPPED, disconnects and the queue of pending actions.  The kernel  *)
(* side (one queue per open descriptor, overflow, unplugging) is external; *)
(* its steps interleave with the steps of a poll.                          *)
(***************************************************************************)
EXTENDS Naturals, FiniteSets, Sequences

CONSTANTS
    Nodes,          \* event nodes
    Number,         \* the N of eventN
    Device,         \* what sysfs and the ioctls say of the device behind a node
    Slots,          \* CART_INPUT_MAX_SOURCES slots, 1 .. n
    CandidateCap,   \* CANDIDATE_CAP
    PendingCap,     \* capacity of pending.item
    Keys,           \* the key codes that are pressed
    QueueCap,       \* events a kernel client queue holds
    BufCap,         \* events partial[].buf holds
    MaxPresses,     \* bound: key presses and repeats
    MaxRescans      \* bound: calls of cart_input_rescan

ASSUME InputAssumption ==
    /\ Number \in [Nodes -> Nat]
    /\ \A m, n \in Nodes : Number[m] = Number[n] => m = n
    /\ IsFiniteSet(Slots) /\ IsFiniteSet(Nodes)
    /\ Slots = 1 .. Cardinality(Slots)
    /\ CandidateCap \in Nat /\ PendingCap \in Nat
    /\ Keys \subseteq Nat
    /\ QueueCap \in Nat /\ BufCap \in Nat \ {0}
    /\ MaxPresses \in Nat /\ MaxRescans \in Nat
    /\ "none" \notin Nodes

VARIABLES
    plugged,        \* nodes that exist
    down,           \* the keys the kernel has as pressed, per node
    client,         \* the kernel's side of every descriptor
    source,         \* input->source[]
    pending,        \* input->pending
    at,             \* the source poll has come to; Idle outside poll, Off before init
    pumping,        \* pump_source is at work on it
    buf,            \* partial[at].buf: events read and not yet consumed
    raced,          \* observation: sources resynced across newer and older events
    pressed,        \* key presses and repeats so far
    queued,         \* observation: actions queued for every press, and for none (0)
    rescans         \* rescans so far

kernel == <<plugged, down>>
pump == <<pumping, buf, raced>>
vars == <<kernel, client, source, pending, at, pump, pressed, queued, rescans>>

NoFd    == 0
Fds     == 1 .. Cardinality(Slots) + Cardinality(Nodes)
NoNode  == "none"
Idle    == 0
Emit    == Cardinality(Slots) + 1
Off     == Cardinality(Slots) + 2

Syn        == [type |-> "SYN_REPORT"]
Drop       == [type |-> "SYN_DROPPED"]
Numbers    == 0 .. MaxPresses

\* A key event knows, for the properties only, which press it reports; 0 is none.
Key(k, v, p) == [type |-> "EV_KEY", key |-> k, value |-> v, press |-> p]
Event        == {Syn, Drop} \cup {Key(k, v, p) : k \in Keys, v \in 0 .. 2, p \in Numbers}

\* cart_input_map_key
Actions == {"NEXT", "PREVIOUS", "SELECT", "BACK", "MENU", "QUIT"}
MapKey(code) ==
    CASE code \in {1, 16, 316}    -> "QUIT"
      [] code \in {307, 311, 547} -> "NEXT"
      [] code \in {308, 310, 546} -> "PREVIOUS"
      [] code = 304               -> "SELECT"
      [] code = 305               -> "BACK"
      [] code \in {314, 315}      -> "MENU"
      [] OTHER                    -> "NONE"

\* The codes held_keys has a bit for.
Tracked == {k \in Keys : k < 64}

Closed == [node |-> NoNode, queue |-> <<>>, gone |-> FALSE]
Absent == [fd |-> NoFd, node |-> NoNode, state |-> "ABSENT", generation |-> 0, held_keys |-> {}]

Client == [node : Nodes \cup {NoNode}, queue : Seq(Event), gone : BOOLEAN]
Source == [fd : Fds \cup {NoFd}, node : Nodes \cup {NoNode},
           state : {"ABSENT", "CONNECTED", "DESYNC"}, generation : Nat,
           held_keys : SUBSET Tracked]

TypeOK ==
    /\ plugged \subseteq Nodes
    /\ down \in [Nodes -> SUBSET Keys]
    /\ client \in [Fds -> Client]
    /\ source \in [Slots -> Source]
    /\ pending \in Seq(Actions) /\ Len(pending) <= PendingCap
    /\ at \in 0 .. Off /\ pumping \in BOOLEAN
    /\ buf \in Seq(Event)
    /\ raced \subseteq Slots
    /\ pressed \in Numbers /\ queued \in [Numbers -> Nat] /\ rescans \in 0 .. MaxRescans

-----------------------------------------------------------------------------
(* The kernel *)

OpenOn(n) == {f \in Fds : client[f].node = n /\ ~client[f].gone}

\* A queue that would overflow keeps SYN_DROPPED and what arrives.
Delivered(queue, events) ==
    IF Len(queue) + Len(events) > QueueCap THEN <<Drop>> \o events ELSE queue \o events

Deliver(n, events) ==
    client' = [f \in Fds |-> IF f \in OpenOn(n)
                             THEN [client[f] EXCEPT !.queue = Delivered(@, events)]
                             ELSE client[f]]

\* evdev hands a client whole packets: a key event and the report that ends it.
Packet(event) == <<event, Syn>>

Press(n, k) ==
    /\ n \in plugged /\ k \in Device[n].keys /\ k \notin down[n]
    /\ pressed < MaxPresses
    /\ pressed' = pressed + 1
    /\ down' = [down EXCEPT ![n] = @ \cup {k}]
    /\ Deliver(n, Packet(Key(k, 1, pressed')))
    /\ UNCHANGED <<plugged, source, pending, at, pump, queued, rescans>>

Release(n, k) ==
    /\ n \in plugged /\ k \in down[n]
    /\ down' = [down EXCEPT ![n] = @ \ {k}]
    /\ Deliver(n, Packet(Key(k, 0, 0)))
    /\ UNCHANGED <<plugged, source, pending, at, pump, pressed, queued, rescans>>

\* The kernel repeats a key that stays down.
Repeat(n, k) ==
    /\ n \in plugged /\ k \in down[n]
    /\ pressed < MaxPresses
    /\ pressed' = pressed + 1
    /\ Deliver(n, Packet(Key(k, 2, 0)))
    /\ UNCHANGED <<kernel, source, pending, at, pump, queued, rescans>>

Unplug(n) ==
    /\ n \in plugged
    /\ plugged' = plugged \ {n}
    /\ down' = [down EXCEPT ![n] = {}]
    /\ client' = [f \in Fds |-> IF client[f].node = n
                                THEN [client[f] EXCEPT !.gone = TRUE, !.queue = <<>>]
                                ELSE client[f]]
    /\ UNCHANGED <<source, pending, at, pump, pressed, queued, rescans>>

Plug(n) ==
    /\ n \notin plugged
    /\ plugged' = plugged \cup {n}
    /\ UNCHANGED <<down, client, source, pending, at, pump, pressed, queued, rescans>>

-----------------------------------------------------------------------------
(* Discovery *)

\* probe_is_gamepad; an ioctl that fails shows no bits.
Buttons == {304, 305, 306, 307, 308, 310, 311, 314, 315, 316}
Sticks  == {"ABS_X", "ABS_Y", "ABS_RX", "ABS_RY"}
IsGamepad(d) == Cardinality(d.keys \cap Buttons) >= 4 /\ Cardinality(d.abs \cap Sticks) >= 2

\* probe_is_action_keyboard: KEY_ESC or KEY_Q
IsActionKeyboard(d) == {1, 16} \cap d.keys # {}

\* The hint of the strings in sysfs.
SysfsRank(d) == IF d.phys = "vita" THEN 4 ELSE IF d.name = "vita" THEN 3 ELSE 0

\* classify_source: nothing is admitted on the strings alone.
Probed(d) == CASE IsGamepad(d) -> 2 [] IsActionKeyboard(d) -> 1 [] OTHER -> 0
Classify(d) ==
    IF ~d.named \/ Probed(d) = 0 THEN 0
    ELSE IF SysfsRank(d) > Probed(d) THEN SysfsRank(d) ELSE Probed(d)

Rank == [n \in Nodes |-> Classify(Device[n])]

\* probe_snapshot_axes; of the eight axes the model follows one.
Axis == "ABS_X"
WithAxis == {n \in Nodes : Axis \in Device[n].abs /\ Axis \in Device[n].calibrated}

\* _cart_input_plan: rank descending, number ascending.
Before(m, n) == Rank[m] > Rank[n] \/ (Rank[m] = Rank[n] /\ Number[m] < Number[n])

\* The nodes the probes admit; the others are closed again.
Admitted == {n \in plugged : Rank[n] > 0}

\* The candidates: those readdir yields before the array is full, in any
\* order, less those that do not open or whose ioctls fail this time.
CandidateSets == {C \in SUBSET Admitted : Cardinality(C) <= CandidateCap}

FreeSlots == {i \in Slots : source[i].fd = NoFd}
FreeFds   == {f \in Fds : client[f] = Closed}

\* Candidates that find a slot.
Placed(C) == {n \in C : Cardinality({m \in C : Before(m, n)}) < Cardinality(FreeSlots)}

\* Mutant: a candidate that finds no slot keeps its descriptor open.
KeptMutant(C) == C

\* Candidates that keep their descriptor; the others are closed again.
Kept(C) == Placed(C)

\* The members of K, best first, have the lowest members of S.
InOrder(K, S) ==
    {g \in [K -> S] :
        /\ \A m, n \in K : Before(m, n) => g[m] < g[n]
        /\ \A n \in K, x \in S : x < g[n] => \E m \in K : g[m] = x}

Holder(g, x) == CHOOSE n \in DOMAIN g : g[n] = x

Opened(fdOf) ==
    [f \in Fds |-> IF \E n \in DOMAIN fdOf : fdOf[n] = f
                   THEN [Closed EXCEPT !.node = Holder(fdOf, f)]
                   ELSE client[f]]

\* A claimed slot is zeroed first, so its generation starts again.
Claimed(slotOf, fdOf) ==
    [i \in Slots |-> IF \E n \in DOMAIN slotOf : slotOf[n] = i
                     THEN [fd |-> fdOf[Holder(slotOf, i)], node |-> Holder(slotOf, i),
                           state |-> "CONNECTED", generation |-> 1, held_keys |-> {}]
                     ELSE source[i]]

Discover ==
    \E C \in CandidateSets :
        \E slotOf \in InOrder(Placed(C), FreeSlots), fdOf \in InOrder(Kept(C), FreeFds) :
            /\ client' = Opened(fdOf)
            /\ source' = Claimed(slotOf, fdOf)
            /\ raced' = raced \ {slotOf[n] : n \in DOMAIN slotOf}

InitEx ==
    /\ at = Off
    /\ at' = Idle
    /\ Discover
    /\ UNCHANGED <<kernel, pending, pumping, buf, pressed, queued, rescans>>

Rescan ==
    /\ at = Idle
    /\ rescans < MaxRescans
    /\ rescans' = rescans + 1
    /\ Discover
    /\ UNCHANGED <<kernel, pending, at, pumping, buf, pressed, queued>>

-----------------------------------------------------------------------------
(* Poll *)

\* The state pump_source works on: one source and the queue of actions.  An
\* action that finds the queue full is dropped.
Enqueue(p, action, press) ==
    IF action # "NONE" /\ Len(p.pending) < PendingCap
    THEN [p EXCEPT !.pending = Append(@, action), !.queued[press] = @ + 1]
    ELSE p

Noted(p, k, value) ==
    IF k \notin Tracked THEN p
    ELSE [p EXCEPT !.source.held_keys = IF value # 0 THEN @ \cup {k} ELSE @ \ {k}]

\* Mutant: a repeat counts as a press.
ProcessKeyMutant(p, event) ==
    IF event.value # 0
    THEN Enqueue(Noted(p, event.key, event.value), MapKey(event.key), event.press)
    ELSE Noted(p, event.key, event.value)

\* process_key_event; cart_input_key_emits_action wants a press.
ProcessKey(p, event) ==
    IF event.value = 1
    THEN Enqueue(Noted(p, event.key, event.value), MapKey(event.key), event.press)
    ELSE Noted(p, event.key, event.value)

\* Mutant: the source is connected again with the keys it remembers.
ResyncMutant(p) == [p EXCEPT !.source.state = "CONNECTED"]

\* Mutant: the source is not connected again.
ResyncStateMutant(p) == [p EXCEPT !.source.held_keys = down[p.source.node] \cap Tracked]

\* resync_after_desync: held_keys from EVIOCGKEY, that is from the device; if
\* that fails the old ones stay.
Resync(p) ==
    [p EXCEPT !.source.state = "CONNECTED",
              !.source.held_keys = IF client[p.source.fd].gone THEN @
                                   ELSE down[p.source.node] \cap Tracked]

Resyncs(s, event) == event = Syn /\ s.state = "DESYNC"

Consume(p, event) ==
    CASE event = Drop /\ p.source.state = "CONNECTED" -> [p EXCEPT !.source.state = "DESYNC"]
      [] Resyncs(p.source, event)                     -> Resync(p)
      [] event.type = "EV_KEY" /\ p.source.state = "CONNECTED" ->
            ProcessKey(p, event)
      [] OTHER -> p

HasKey(events) == \E e \in DOMAIN events : events[e].type = "EV_KEY"

\* EVIOCGKEY also drops the key events the client has not read yet, and the
\* reports but the first, which are empty without them.
Flushed(queue) ==
    IF queue = <<>> THEN <<>> ELSE IF Head(queue) = Drop THEN <<Drop, Syn>> ELSE <<Syn>>

\* handle_disconnect
Disconnected(s) ==
    [s EXCEPT !.fd = NoFd, !.state = "ABSENT", !.generation = @ + 1, !.held_keys = {}]

PollStart ==
    /\ at = Idle
    /\ at' = 1
    /\ UNCHANGED <<kernel, client, source, pending, pump, pressed, queued, rescans>>

Skipped(i) == source[i].fd = NoFd \/ source[i].state = "DESYNC"

\* The loop over the sources: pump this one or go on to the next.
PollVisit ==
    /\ at \in Slots /\ ~pumping
    /\ IF Skipped(at) THEN at' = at + 1 /\ UNCHANGED pumping
                      ELSE pumping' = TRUE /\ UNCHANGED at
    /\ UNCHANGED <<kernel, client, source, pending, buf, raced, pressed, queued, rescans>>

\* Mutant: ENODEV is taken for EAGAIN.
UnreadableMutant(fd) == FALSE

\* read fails with ENODEV, whatever is still queued.
Unreadable(fd) == client[fd].gone

\* pump_source reads: the device is gone, there is nothing, or some events.
PumpRead ==
    /\ pumping /\ buf = <<>>
    /\ LET s == source[at]
           queue == client[s.fd].queue
           n == IF Len(queue) < BufCap THEN Len(queue) ELSE BufCap
       IN  IF Unreadable(s.fd)
           THEN /\ client' = [client EXCEPT ![s.fd] = Closed]
                /\ source' = [source EXCEPT ![at] = Disconnected(s)]
                /\ pumping' = FALSE /\ at' = at + 1 /\ buf' = <<>>
           ELSE /\ client' = [client EXCEPT ![s.fd].queue = SubSeq(queue, n + 1, Len(queue))]
                /\ buf' = SubSeq(queue, 1, n)
                /\ pumping' = (n > 0)
                /\ at' = IF n > 0 THEN at ELSE at + 1
                /\ UNCHANGED source
    /\ UNCHANGED <<kernel, pending, raced, pressed, queued, rescans>>

\* pump_source consumes one event of those it has read.
PumpConsume ==
    /\ pumping /\ buf # <<>>
    /\ LET s == source[at]
           queue == client[s.fd].queue
           done == Consume([source |-> s, pending |-> pending, queued |-> queued], Head(buf))
       IN  /\ source' = [source EXCEPT ![at] = done.source]
           /\ pending' = done.pending
           /\ queued' = done.queued
           /\ IF Resyncs(s, Head(buf)) /\ ~client[s.fd].gone
              THEN /\ client' = [client EXCEPT ![s.fd].queue = Flushed(queue)]
                   /\ raced' = IF HasKey(Tail(buf)) /\ HasKey(queue) THEN raced \cup {at}
                                                                    ELSE raced \ {at}
              ELSE UNCHANGED <<client, raced>>
    /\ buf' = Tail(buf)
    /\ UNCHANGED <<kernel, at, pumping, pressed, rescans>>

\* build_frame: what the sources report together, and of the sources that have
\* the axis the first in the array owns it; 0 is nobody.
Present == {i \in Slots : source[i].state # "ABSENT"}
Owners  == {i \in Present : source[i].node \in WithAxis}
Frame   == [connected_mask |-> Present,
            held_keys  |-> UNION {source[i].held_keys : i \in Present},
            axis_owner |-> IF Owners = {} THEN 0 ELSE CHOOSE i \in Owners : \A j \in Owners : i <= j]

\* Hand out one action, build the frame.
PollEmit ==
    /\ at = Emit
    /\ at' = Idle
    /\ pending' = IF pending = <<>> THEN <<>> ELSE Tail(pending)
    /\ UNCHANGED <<kernel, client, source, pump, pressed, queued, rescans>>

\* cart_input_shutdown; the engine may be initialised again.
Shutdown ==
    /\ at = Idle
    /\ at' = Off
    /\ client' = [f \in Fds |-> IF \E i \in Slots : source[i].fd = f THEN Closed ELSE client[f]]
    /\ source' = [i \in Slots |-> Absent]
    /\ pending' = <<>>
    /\ raced' = {}
    /\ UNCHANGED <<kernel, pumping, buf, pressed, queued, rescans>>

-----------------------------------------------------------------------------

Init ==
    /\ plugged \in SUBSET Nodes
    /\ down = [n \in Nodes |-> {}]
    /\ client = [f \in Fds |-> Closed]
    /\ source = [i \in Slots |-> Absent]
    /\ pending = <<>>
    /\ at = Off /\ pumping = FALSE /\ buf = <<>> /\ raced = {}
    /\ pressed = 0 /\ queued = [p \in Numbers |-> 0] /\ rescans = 0

Kernel ==
    \E n \in Nodes :
        \/ \E k \in Keys : Press(n, k) \/ Repeat(n, k) \/ Release(n, k)
        \/ Unplug(n) \/ Plug(n)

Poll == PollStart \/ PollVisit \/ PumpRead \/ PumpConsume \/ PollEmit

Next == Kernel \/ InitEx \/ Rescan \/ Poll \/ Shutdown

Spec == Init /\ [][Next]_vars

\* The cart starts its input and its frame loop polls once per frame.
FairSpec == Spec /\ WF_vars(InitEx \/ Poll)

-----------------------------------------------------------------------------
(* Properties *)

\* Every open descriptor belongs to exactly one source, whatever was probed,
\* found no slot, was lost or discovered again (input_evdev.c:408-453, 528-540).
FdsAccounted ==
    /\ \A f \in Fds : client[f] # Closed <=> \E i \in Slots : source[i].fd = f
    /\ \A i, j \in Slots : i # j /\ source[i].fd = source[j].fd => source[i].fd = NoFd

\* No stuck key: once a source's events are read, the frame reports no key as
\* held that the device does not have down, after lost events, a resync and a
\* disconnect too (input_evdev.c:528-540, 557-581, 666-670).  The one exception
\* is a resync with key events still ahead of it in the buffer and newer ones in
\* the kernel: EVIOCGKEY drops the newer, and the older are replayed over its
\* answer.
NoStuckKey ==
    \A i \in Slots \ raced :
        IF source[i].fd = NoFd THEN source[i].held_keys = {}
        ELSE LET c == client[source[i].fd]
             IN  c.queue = <<>> /\ ~c.gone /\ (at = i => buf = <<>>) =>
                     source[i].held_keys \subseteq down[source[i].node]

Lost(i) == source[i].fd # NoFd /\ client[source[i].fd].gone

\* A device that is lost is noticed and its descriptor closed by a later poll
\* (input_evdev.c:615-653).
LostDeviceClosed == \A i \in Slots : Lost(i) ~> ~Lost(i)

\* "A press ... advances one scene" (cart/README.md:43): only a press queues an
\* action, and none queues two, resyncs and replays included.  A rescan may claim
\* a node a second time (input_evdev.c:421-439), so this is for the devices
\* found at init.
OnePressOneAction ==
    rescans = 0 => queued[0] = 0 /\ \A p \in Numbers : queued[p] <= 1

\* "Lower source index == higher-or-equal rank" (input_evdev.c:682-683): the
\* source a frame takes an axis from has the best rank of those that have it,
\* whichever come and go; true of the devices found at init.
AxisFromBest ==
    rescans = 0 /\ Frame.axis_owner # 0 =>
        \A j \in Owners : Rank[source[Frame.axis_owner].node] >= Rank[source[j].node]

\* A frame reports keys of connected devices only (input_evdev.c:666-670).
FrameIsLive ==
    /\ Frame.connected_mask = {i \in Slots : source[i].fd # NoFd}
    /\ \A i \in Slots : source[i].held_keys \subseteq Frame.held_keys

\* A source that lost events is back, or gone, by the end of a poll, though the
\* poll reads no source it finds desynced (input_evdev.c:589-597, 703-704).
DesyncEnds ==
    \A i \in Slots : source[i].state = "DESYNC" ~> source[i].state # "DESYNC"

-----------------------------------------------------------------------------
(* The inductive invariant *)

Open(i)   == source[i].fd # NoFd
Queue(i)  == client[source[i].fd].queue
Buffer(i) == IF at = i THEN buf ELSE <<>>

IsPress(e)   == e.type = "EV_KEY" /\ e.value = 1
IsHeld(e)    == e.type = "EV_KEY" /\ e.value # 0
IsRelease(e) == e.type = "EV_KEY" /\ e.value = 0
Releases(q, k) == \E e \in DOMAIN q : IsRelease(q[e]) /\ q[e].key = k
Dropped(q) == \E e \in DOMAIN q : q[e] = Drop

\* SYN_DROPPED only comes first in q; q ends with a report; every press and
\* repeat of k in q is followed in q by a release.
First(q)  == \A e \in DOMAIN q : q[e] = Drop => e = 1
Closes(q) == q # <<>> => q[Len(q)] = Syn
Ended(q, k) ==
    \A e \in DOMAIN q : IsHeld(q[e]) /\ q[e].key = k =>
        \E r \in DOMAIN q : r > e /\ IsRelease(q[r]) /\ q[r].key = k

\* A source reads from a descriptor on its node while it is pumped, and nothing
\* is open before init and after shutdown.
SourcesKept ==
    /\ \A i \in Slots : /\ source[i].state = "ABSENT" <=> ~Open(i)
                        /\ ~Open(i) => source[i].held_keys = {}
                        /\ Open(i) => /\ source[i].node \in Nodes
                                      /\ client[source[i].fd].node = source[i].node
    /\ pumping => at \in Slots /\ Open(at)
    /\ buf # <<>> => pumping
    /\ at = Off => \A i \in Slots : ~Open(i)

\* Without a rescan the sources are in the order of their ranks and none has the
\* node of another.
RanksKept ==
    rescans = 0 => \A i, j \in Slots : i < j /\ Open(i) /\ Open(j) =>
        source[i].node # source[j].node /\ Rank[source[i].node] >= Rank[source[j].node]

\* The kernel hands out whole packets, so a source that lost events has a report
\* to read.
PacketsKept ==
    /\ \A f \in Fds : First(client[f].queue) /\ Closes(client[f].queue)
    /\ First(buf)
    /\ \A i \in Slots : Open(i) /\ ~client[source[i].fd].gone /\ Queue(i) = <<>> =>
          Closes(Buffer(i)) /\ (Buffer(i) = <<>> => source[i].state # "DESYNC")

\* The buffer is not one that was replayed over a newer resync.
Fresh(i) == i \notin raced \/ source[i].state = "DESYNC" \/ Dropped(buf)

\* For a key that is up: what is queued ends with its release, and what is
\* buffered does or its release is queued or lost.
StreamKept(q, b, k, fresh) ==
    /\ Ended(q, k)
    /\ fresh => Ended(b, k) \/ Releases(q, k) \/ Dropped(q)

\* For a key that is up and held: a release or a resync is still to come.
Settling(q, b, k, desync) ==
    Releases(b, k) \/ Releases(q, k) \/ Dropped(b) \/ Dropped(q) \/ desync

KeysKept ==
    \A i \in Slots : Open(i) /\ ~client[source[i].fd].gone =>
        \A k \in Tracked \ down[source[i].node] :
            /\ StreamKept(Queue(i), Buffer(i), k, Fresh(i))
            /\ i \notin raced /\ k \in source[i].held_keys =>
                  Settling(Queue(i), Buffer(i), k, source[i].state = "DESYNC")

\* Without a rescan a press is in one queue or in the buffer, once, or was
\* consumed, and is none of these before it happens.
Waiting(q, p) == \E e \in DOMAIN q : IsPress(q[e]) /\ q[e].press = p
Once(q) ==
    \A d, e \in DOMAIN q : IsPress(q[d]) /\ IsPress(q[e]) /\ q[d].press = q[e].press => d = e

PressesKept ==
    /\ \A f \in Fds : ~Waiting(client[f].queue, 0)
    /\ ~Waiting(buf, 0)
    /\ rescans = 0 =>
          /\ Once(buf) /\ \A f \in Fds : Once(client[f].queue)
          /\ \A p \in Numbers :
                /\ queued[p] <= IF p > pressed THEN 0 ELSE 1
                /\ queued[p] # 0 \/ p > pressed =>
                      ~Waiting(buf, p) /\ \A f \in Fds : ~Waiting(client[f].queue, p)
                /\ \A f \in Fds : Waiting(client[f].queue, p) =>
                      ~Waiting(buf, p) /\ \A g \in Fds \ {f} : ~Waiting(client[g].queue, p)
          /\ queued[0] = 0

\* The sources and what a frame makes of them, with what keeps it so.
InputInv ==
    /\ TypeOK /\ FdsAccounted /\ AxisFromBest /\ FrameIsLive
    /\ SourcesKept /\ RanksKept /\ PacketsKept /\ KeysKept /\ PressesKept

=============================================================================
