--------------------------- MODULE DashboardProofs ---------------------------
(***************************************************************************)
(* DashboardInv is inductive: for any number of dashboards, command lines, *)
(* keys, signals, and starts and stops of the cart.                        *)
(***************************************************************************)
EXTENDS Dashboard, TLAPS

\* What the invariant says of the console and its owners.
Ownership == NeverOrphaned /\ HeldIsGuarded /\ TakenAsFound

\* A process that starts or has ended owns nothing.
LEMMA FreshOwnsNothing ==
    ASSUME NEW label \in Ended \cup {"input"}, NEW r, r = Fresh(label)
    PROVE  /\ r \in App /\ r.pc = label
           /\ r.unbound_by_us = FALSE /\ r.was_bound = FALSE
PROOF BY DashboardAssumption DEF Fresh, App, Unguarded, Guarded, Ended

\* One process changes: the others are as they were.
LEMMA OneChanges ==
    ASSUME TypeOK, NEW a \in Apps, NEW r \in App, app' = [app EXCEPT ![a] = r]
    PROVE  /\ app' \in [Apps -> App]
           /\ app'[a] = r
           /\ \A b \in Apps : b # a => app'[b] = app[b]
PROOF BY DEF TypeOK

\* A step that leaves the console and the changed process's claim to it alone.
LEMMA ClaimKept ==
    ASSUME DashboardInv, NEW a \in Apps, NEW r \in App, app' = [app EXCEPT ![a] = r],
           r.unbound_by_us = app[a].unbound_by_us, r.was_bound = app[a].was_bound,
           r.unbound_by_us => r.pc \in Owning,
           UNCHANGED <<console, cart, origin, mishap>>
    PROVE  app' \in [Apps -> App] /\ Ownership'
<1>1. /\ app' \in [Apps -> App] /\ app'[a] = r
      /\ \A b \in Apps : b # a => app'[b] = app[b]
    BY OneChanges DEF DashboardInv
<1>2. \A b \in Apps : /\ app'[b].unbound_by_us = app[b].unbound_by_us
                      /\ app'[b].was_bound = app[b].was_bound
    BY <1>1
<1>3. NeverOrphaned'
    BY <1>2 DEF DashboardInv, NeverOrphaned, cart
<1>4. HeldIsGuarded' /\ TakenAsFound'
    BY <1>1, <1>2 DEF DashboardInv, HeldIsGuarded, TakenAsFound, Owning, Guarded, cart
<1>5. QED
    BY <1>1, <1>3, <1>4 DEF Ownership

\* A process ends: it had no claim, or gives the console back, or this is noted.
LEMMA ClaimEnds ==
    ASSUME DashboardInv, NEW a \in Apps, NEW label \in Ended, End(a, label),
           UNCHANGED <<cart, origin>>,
           \/ ~app[a].unbound_by_us /\ UNCHANGED <<console, mishap>>
           \/ app[a].unbound_by_us /\ console' = "bound" /\ UNCHANGED mishap
           \/ app[a].unbound_by_us /\ mishap' = TRUE /\ UNCHANGED console
    PROVE  app' \in [Apps -> App] /\ Ownership'
<1> DEFINE r == Fresh(label)
<1>1. r \in App /\ r.unbound_by_us = FALSE /\ r.was_bound = FALSE
    BY FreshOwnsNothing
<1>2. /\ app' \in [Apps -> App] /\ app'[a] = r
      /\ \A b \in Apps : b # a => app'[b] = app[b]
    BY <1>1, OneChanges DEF End, DashboardInv
<1> HIDE DEF r
<1> DEFINE Released == script = "unmark" /\ ~mishap =>
                          console = "bound" \/ \E b \in Apps : app[b].unbound_by_us
<1>3. NeverOrphaned' /\ Released'
    <2>1. CASE ~app[a].unbound_by_us /\ UNCHANGED <<console, mishap>>
        BY <1>1, <1>2, <2>1 DEF DashboardInv, NeverOrphaned, TakenAsFound, cart
    <2>2. CASE app[a].unbound_by_us /\ console' = "bound" /\ UNCHANGED mishap
        BY <2>2 DEF DashboardInv, NeverOrphaned, TakenAsFound, cart
    <2>3. CASE app[a].unbound_by_us /\ mishap' = TRUE /\ UNCHANGED console
        BY <2>3 DEF DashboardInv, NeverOrphaned, cart
    <2>4. QED
        BY <2>1, <2>2, <2>3
<1>4. HeldIsGuarded' /\ TakenAsFound'
    BY <1>1, <1>2, <1>3 DEF DashboardInv, HeldIsGuarded, TakenAsFound, cart
<1>5. QED
    BY <1>2, <1>3, <1>4 DEF Ownership

\* The queues keep their type when one is emptied, hangs up or grows.
LEMMA QueuesTyped ==
    ASSUME TypeOK, NEW a \in Apps,
           \/ UNCHANGED keys
           \/ keys' = [keys EXCEPT ![a] = <<>>]
           \/ keys' = [keys EXCEPT ![a] = HungUp]
           \/ keys[a] # HungUp /\ \E k \in Keys : keys' = [keys EXCEPT ![a] = Append(@, k)]
    PROVE  keys' \in [Apps -> Seq(Keys) \cup {HungUp}]
<1>1. keys \in [Apps -> Seq(Keys) \cup {HungUp}] /\ <<>> \in Seq(Keys)
    BY DEF TypeOK
<1>2. ASSUME NEW k \in Keys, keys[a] # HungUp
      PROVE  Append(keys[a], k) \in Seq(Keys)
    <2>1. keys[a] \in Seq(Keys)
        BY <1>1, <1>2
    <2>2. QED
        BY <2>1
<1>3. CASE UNCHANGED keys
    BY <1>1, <1>3
<1>4. CASE keys' = [keys EXCEPT ![a] = <<>>]
    BY <1>1, <1>4
<1>5. CASE keys' = [keys EXCEPT ![a] = HungUp]
    BY <1>1, <1>5
<1>6. CASE keys[a] # HungUp /\ \E k \in Keys : keys' = [keys EXCEPT ![a] = Append(@, k)]
    BY <1>1, <1>2, <1>6
<1>7. QED
    BY <1>3, <1>4, <1>5, <1>6

LEMMA InitHolds == Init => DashboardInv
<1> SUFFICES ASSUME Init PROVE DashboardInv
    OBVIOUS
<1>1. \A a \in Apps : app[a] \in App /\ app[a].unbound_by_us = FALSE /\ app[a].was_bound = FALSE
    BY FreshOwnsNothing DEF Init
<1>2. TypeOK
    <2>1. app \in [Apps -> App]
        BY <1>1 DEF Init
    <2>2. keys \in [Apps -> Seq(Keys) \cup {HungUp}]
        BY DEF Init
    <2>3. signals \in 0 .. MaxSignals
        BY DashboardAssumption DEF Init
    <2>4. QED
        BY <2>1, <2>2, <2>3 DEF Init, TypeOK, Scripts
<1>3. NeverOrphaned /\ HeldIsGuarded /\ TakenAsFound
    BY <1>1 DEF Init, NeverOrphaned, HeldIsGuarded, TakenAsFound, Consoles
<1>4. QED
    BY <1>2, <1>3 DEF DashboardInv

\* The counters and the cart's state keep their types.
Rest == /\ console \in Consoles /\ origin \in Consoles
        /\ mark \in BOOLEAN /\ script \in Scripts /\ mishap \in BOOLEAN
        /\ signals \in 0 .. MaxSignals

LEMMA Assemble ==
    ASSUME app' \in [Apps -> App], keys' \in [Apps -> Seq(Keys) \cup {HungUp}], Rest', Ownership'
    PROVE  DashboardInv'
PROOF BY DEF Rest, Ownership, DashboardInv, TypeOK

\* The cart's scripts: no dashboard changes.
LEMMA ScriptTypes ==
    ASSUME DashboardInv, CartScript
    PROVE  /\ app' = app /\ keys' = keys /\ signals' = signals /\ origin' = origin
           /\ Rest'
<1>1. app' = app /\ keys' = keys /\ signals' = signals /\ origin' = origin
    BY DEF CartScript, CartStart, CartCheck, CartMark, CartUnbind, CartLaunch, CartFails, CartStop,
           CartRebind, CartUnmark, CartKilled, Others
<1>2. /\ console \in Consoles /\ mark \in BOOLEAN /\ script \in Scripts /\ mishap \in BOOLEAN
      /\ origin \in Consoles /\ signals \in 0 .. MaxSignals
    BY DEF DashboardInv, TypeOK
<1>3. console' \in Consoles /\ script' \in Scripts
    BY <1>2 DEF CartScript, CartStart, CartCheck, CartMark, CartUnbind, CartLaunch, CartFails, CartStop,
           CartRebind, CartUnmark, CartKilled, ScriptGoes, Consoles, Scripts
<1>4. mark' \in BOOLEAN
    BY <1>2 DEF CartScript, CartStart, CartCheck, CartMark, CartUnbind, CartLaunch, CartFails, CartStop,
           CartRebind, CartUnmark, CartKilled
<1>5. mishap' \in BOOLEAN
    <2>1. (mishap \/ (mark /\ console = "unbound")) \in BOOLEAN
        OBVIOUS
    <2>2. QED
        BY <1>2, <2>1 DEF CartScript, CartStart, CartCheck, CartMark, CartUnbind, CartLaunch, CartFails,
              CartStop, CartRebind, CartUnmark, CartKilled
<1>6. QED
    BY <1>1, <1>2, <1>3, <1>4, <1>5 DEF Rest

\* The scripts never leave a console that was bound without marker or owner,
\* unless a start removed the marker, which is noted.
LEMMA ScriptKeeps ==
    ASSUME DashboardInv, CartScript
    PROVE  DashboardInv'
<1>1. app' = app /\ keys' = keys /\ origin' = origin /\ Rest'
    BY ScriptTypes
<1>2. app' \in [Apps -> App] /\ keys' \in [Apps -> Seq(Keys) \cup {HungUp}]
    BY <1>1 DEF DashboardInv, TypeOK
<1>3. HeldIsGuarded'
    BY <1>1 DEF DashboardInv, HeldIsGuarded
<1> DEFINE held == \E a \in Apps : app[a].unbound_by_us
           found == \E a \in Apps : app[a].was_bound
<1>4. /\ held' = held /\ found' = found
      /\ console \in Consoles /\ mark \in BOOLEAN /\ mishap \in BOOLEAN
    BY <1>1 DEF DashboardInv, TypeOK
<1>5. /\ origin = "bound" /\ console # "bound" /\ ~mishap => mark \/ held
      /\ origin # "bound" => console = origin
      /\ script \in {"unbind", "unmark"} => mark
      /\ script = "unmark" /\ ~mishap => console = "bound" \/ held
      /\ origin # "bound" => ~mark /\ script # "mark" /\ ~found
    BY DEF DashboardInv, NeverOrphaned, TakenAsFound
<1> HIDE DEF held, found
<1>6. /\ origin' = "bound" /\ console' # "bound" /\ ~mishap' => mark' \/ held'
      /\ origin' # "bound" => console' = origin'
      /\ script' \in {"unbind", "unmark"} => mark'
      /\ script' = "unmark" /\ ~mishap' => console' = "bound" \/ held'
      /\ origin' # "bound" => ~mark' /\ script' # "mark" /\ ~found'
    <2>1. CASE CartStart
        BY <1>1, <1>4, <1>5, <2>1 DEF CartStart, ScriptGoes, Consoles
    <2>2. CASE CartCheck \/ CartMark \/ CartUnbind
        BY <1>1, <1>4, <1>5, <2>2 DEF CartCheck, CartMark, CartUnbind, ScriptGoes
    <2>3. CASE CartLaunch \/ CartFails \/ CartStop \/ CartKilled
        BY <1>1, <1>4, <1>5, <2>3 DEF CartLaunch, CartFails, CartStop, CartKilled, ScriptGoes
    <2>4. CASE CartRebind \/ CartUnmark
        BY <1>1, <1>4, <1>5, <2>4 DEF CartRebind, CartUnmark, ScriptGoes
    <2>5. QED
        BY <2>1, <2>2, <2>3, <2>4 DEF CartScript
<1>7. NeverOrphaned'
    BY <1>6 DEF NeverOrphaned, held
<1>8. TakenAsFound'
    BY <1>1, <1>6 DEF DashboardInv, TakenAsFound, held, found
<1>9. QED
    BY <1>1, <1>2, <1>3, <1>7, <1>8, Assemble DEF Ownership

\* The world outside leaves every claim alone.
LEMMA WorldKeeps ==
    ASSUME DashboardInv, NEW a \in Apps,
           Elapse(a) \/ Unplug(a) \/ \E k \in Keys : Press(a, k)
    PROVE  DashboardInv'
<1>1. TypeOK /\ app[a] \in App
    BY DEF DashboardInv, TypeOK
<1>2. keys' \in [Apps -> Seq(Keys) \cup {HungUp}]
    BY <1>1, QueuesTyped DEF Elapse, Unplug, Press
<1>3. Rest'
    BY DashboardAssumption DEF Rest, DashboardInv, TypeOK, Elapse, Unplug, Press, cart
<1>4. app' \in [Apps -> App] /\ Ownership'
    <2>1. CASE Elapse(a)
        <3> DEFINE r == [app[a] EXCEPT !.late = TRUE]
        <3>1. /\ r \in App /\ app' = [app EXCEPT ![a] = r]
              /\ r.unbound_by_us = app[a].unbound_by_us /\ r.was_bound = app[a].was_bound
              /\ r.pc = app[a].pc
            BY <1>1, <2>1 DEF Elapse, App
        <3>2. r.unbound_by_us => r.pc \in Owning
            BY <3>1 DEF DashboardInv, TakenAsFound
        <3>3. UNCHANGED <<console, cart, origin, mishap>>
            BY <2>1 DEF Elapse
        <3> HIDE DEF r
        <3>4. QED
            BY <3>1, <3>2, <3>3, ClaimKept
    <2>2. CASE Unplug(a) \/ \E k \in Keys : Press(a, k)
        BY <2>2 DEF Unplug, Press, Ownership, cart, DashboardInv, TypeOK, NeverOrphaned, HeldIsGuarded, TakenAsFound
    <2>3. QED
        BY <2>1, <2>2
<1>5. QED
    BY <1>2, <1>3, <1>4, Assemble

\* A signal sets the flag, or ends a process that owns nothing; SIGKILL may end
\* an owner, which is noted.
LEMMA SignalsKeep ==
    ASSUME DashboardInv, NEW a \in Apps, Signal(a) \/ Kill(a)
    PROVE  DashboardInv'
<1>1. TypeOK /\ app[a] \in App /\ mishap \in BOOLEAN
    BY DEF DashboardInv, TypeOK
<1>2. keys' \in [Apps -> Seq(Keys) \cup {HungUp}]
    BY <1>1, QueuesTyped DEF Signal, Kill, End
<1>3. Rest'
    <2>1. mishap' \in BOOLEAN
        <3>1. app[a].unbound_by_us \in BOOLEAN
            BY <1>1 DEF App
        <3>2. (mishap \/ app[a].unbound_by_us) \in BOOLEAN
            OBVIOUS
        <3>3. QED
            BY <1>1, <3>2 DEF Signal, Kill
    <2>2. signals' \in 0 .. MaxSignals
        BY DashboardAssumption DEF DashboardInv, TypeOK, Signal, Kill
    <2>3. QED
        BY <2>1, <2>2 DEF Rest, DashboardInv, TypeOK, Signal, Kill, cart
<1>4. app' \in [Apps -> App] /\ Ownership'
    <2>1. CASE app' = [app EXCEPT ![a].stop = TRUE] /\ Signal(a)
        <3> DEFINE r == [app[a] EXCEPT !.stop = TRUE]
        <3>1. /\ r \in App /\ app' = [app EXCEPT ![a] = r]
              /\ r.unbound_by_us = app[a].unbound_by_us /\ r.was_bound = app[a].was_bound
              /\ r.pc = app[a].pc
            BY <1>1, <2>1 DEF App
        <3>2. r.unbound_by_us => r.pc \in Owning
            BY <3>1 DEF DashboardInv, TakenAsFound
        <3>3. UNCHANGED <<console, cart, origin, mishap>>
            BY <2>1 DEF Signal
        <3> HIDE DEF r
        <3>4. QED
            BY <3>1, <3>2, <3>3, ClaimKept
    <2>2. CASE app[a].pc \in Unguarded /\ End(a, "killed") /\ Signal(a)
        <3>1. ~app[a].unbound_by_us
            BY <2>2 DEF DashboardInv, TakenAsFound, Owning, Unguarded
        <3>2. UNCHANGED <<console, cart, origin, mishap>> /\ "killed" \in Ended
            BY <2>2 DEF Signal, Ended
        <3>3. QED
            BY <2>2, <3>1, <3>2, ClaimEnds
    <2>3. CASE Kill(a)
        <3>1. UNCHANGED <<console, cart, origin>> /\ "killed" \in Ended /\ End(a, "killed")
            BY <2>3 DEF Kill, Ended
        <3>2. CASE app[a].unbound_by_us
            <4>1. mishap' = TRUE
                BY <2>3, <3>2 DEF Kill
            <4>2. QED
                BY <3>1, <3>2, <4>1, ClaimEnds
        <3>3. CASE ~app[a].unbound_by_us
            <4>1. mishap' = mishap
                BY <1>1, <2>3, <3>3 DEF Kill
            <4>2. QED
                BY <3>1, <3>3, <4>1, ClaimEnds
        <3>4. QED
            BY <3>2, <3>3
    <2>4. QED
        BY <2>1, <2>2, <2>3 DEF Signal
<1>5. QED
    BY <1>2, <1>3, <1>4, Assemble

\* A step of main that keeps its claim, in the form the actions take.
LEMMA GoesOn ==
    ASSUME DashboardInv, NEW a \in Apps, NEW r \in App, Become(a, r), Quiet,
           r.unbound_by_us = app[a].unbound_by_us, r.was_bound = app[a].was_bound,
           r.unbound_by_us => r.pc \in Owning
    PROVE  DashboardInv'
<1>1. app' \in [Apps -> App] /\ Ownership'
    BY ClaimKept DEF Become, Quiet
<1>2. keys' \in [Apps -> Seq(Keys) \cup {HungUp}] /\ Rest'
    BY DEF Become, Quiet, cart, Rest, DashboardInv, TypeOK
<1>3. QED
    BY <1>1, <1>2, Assemble

\* A step of main that returns without a claim.
LEMMA Returns ==
    ASSUME DashboardInv, NEW a \in Apps, End(a, "exited"), ~app[a].unbound_by_us, Quiet
    PROVE  DashboardInv'
<1>1. UNCHANGED <<cart, origin, console, mishap>> /\ "exited" \in Ended
    BY DEF Quiet, Ended
<1>2. app' \in [Apps -> App] /\ Ownership'
    BY <1>1, ClaimEnds
<1>3. keys' \in [Apps -> Seq(Keys) \cup {HungUp}]
    BY QueuesTyped DEF End, DashboardInv
<1>4. Rest'
    BY DEF Quiet, cart, Rest, DashboardInv, TypeOK
<1>5. QED
    BY <1>2, <1>3, <1>4, Assemble

\* The set-up, up to the handlers.
LEMMA SetUpKeeps ==
    ASSUME DashboardInv, NEW a \in Apps, OpenInput(a) \/ Probe(a) \/ PrepareRender(a)
    PROVE  DashboardInv'
<1>1. app[a] \in App
    BY DEF DashboardInv, TypeOK
<1>2. ~app[a].unbound_by_us
    BY DEF OpenInput, Probe, PrepareRender, Prepare, At, DashboardInv, TakenAsFound, Owning
<1>3. ASSUME NEW to \in {"probe", "acquire"}, Become(a, [app[a] EXCEPT !.pc = to]), Quiet
      PROVE  DashboardInv'
    <2> DEFINE r == [app[a] EXCEPT !.pc = to]
    <2>1. /\ r \in App /\ r.unbound_by_us = app[a].unbound_by_us /\ r.was_bound = app[a].was_bound
        BY <1>1 DEF App, Unguarded, Guarded
    <2>2. Become(a, r)
        BY <1>3
    <2> HIDE DEF r
    <2>3. QED
        BY <1>2, <1>3, <2>1, <2>2, GoesOn
<1>4. CASE End(a, "exited") /\ Quiet
    BY <1>2, <1>4, Returns
<1>5. ASSUME NEW bound \in {console = "bound", FALSE}, Quiet,
             Become(a, [app[a] EXCEPT !.pc = "render", !.state = "PROBED", !.was_bound = bound])
      PROVE  DashboardInv'
    <2> DEFINE r == [app[a] EXCEPT !.pc = "render", !.state = "PROBED", !.was_bound = bound]
    <2>1. /\ r \in App /\ r.unbound_by_us = app[a].unbound_by_us /\ r.was_bound = bound
        BY <1>1 DEF App, Unguarded, Guarded
    <2>2. app' = [app EXCEPT ![a] = r] /\ UNCHANGED <<console, cart, origin, mishap>>
        BY <1>5 DEF Become, Quiet
    <2>3. origin # "bound" => ~bound
        BY DEF DashboardInv, NeverOrphaned
    <2> HIDE DEF r
    <2>4. /\ app' \in [Apps -> App] /\ app'[a] = r
          /\ \A b \in Apps : b # a => app'[b] = app[b]
        BY <2>1, <2>2, OneChanges DEF DashboardInv
    <2>5. \A b \in Apps : app'[b].unbound_by_us = app[b].unbound_by_us
        BY <2>1, <2>4
    <2>6. NeverOrphaned'
        BY <2>2, <2>5 DEF DashboardInv, NeverOrphaned, cart
    <2>7. HeldIsGuarded' /\ TakenAsFound'
        BY <1>2, <2>1, <2>2, <2>3, <2>4, <2>5 DEF DashboardInv, HeldIsGuarded, TakenAsFound, cart
    <2>8. keys' \in [Apps -> Seq(Keys) \cup {HungUp}] /\ Rest'
        BY <1>5 DEF Become, Quiet, cart, Rest, DashboardInv, TypeOK
    <2>9. QED
        BY <2>4, <2>6, <2>7, <2>8, Assemble DEF Ownership
<1>6. QED
    BY <1>3, <1>4, <1>5 DEF OpenInput, PrepareRender, Probe, Prepare

\* Acquire takes the console only if probe found it bound, and says so.
LEMMA AcquireKeeps ==
    ASSUME DashboardInv, NEW a \in Apps, Acquire(a)
    PROVE  DashboardInv'
<1>1. app[a] \in App
    BY DEF DashboardInv, TypeOK
<1>2. ~app[a].unbound_by_us
    BY DEF Acquire, At, DashboardInv, TakenAsFound, Owning
<1>3. UNCHANGED <<cart, signals, origin, mishap>>
    BY DEF Acquire
<1> DEFINE r == [app[a] EXCEPT !.pc = "loop", !.state = "OWNED", !.unbound_by_us = app[a].was_bound]
<1>4. CASE Become(a, r) /\ console' = IF app[a].was_bound THEN "unbound" ELSE console
    <2>1. /\ r \in App /\ r.pc = "loop"
          /\ r.unbound_by_us = app[a].was_bound /\ r.was_bound = app[a].was_bound
        BY <1>1 DEF App, Unguarded, Guarded
    <2> HIDE DEF r
    <2>2. /\ app' \in [Apps -> App] /\ app'[a] = r
          /\ \A b \in Apps : b # a => app'[b] = app[b]
        BY <1>4, <2>1, OneChanges DEF DashboardInv, Become
    <2>3. HeldIsGuarded' /\ TakenAsFound'
        BY <1>2, <1>3, <1>4, <2>1, <2>2 DEF DashboardInv, HeldIsGuarded, TakenAsFound, Guarded, Owning, cart
    <2>4. NeverOrphaned'
        <3>1. CASE app[a].was_bound
            BY <1>3, <1>4, <2>1, <2>2, <3>1 DEF DashboardInv, NeverOrphaned, TakenAsFound, cart
        <3>2. CASE ~app[a].was_bound
            BY <1>2, <1>3, <1>4, <2>1, <2>2, <3>2 DEF DashboardInv, NeverOrphaned, cart
        <3>3. QED
            BY <3>1, <3>2
    <2>5. keys' \in [Apps -> Seq(Keys) \cup {HungUp}] /\ Rest'
        BY <1>3, <1>4 DEF Become, cart, Rest, DashboardInv, TypeOK, Consoles
    <2>6. QED
        BY <2>2, <2>3, <2>4, <2>5, Assemble DEF Ownership
<1>5. CASE End(a, "exited") /\ UNCHANGED console
    BY <1>2, <1>3, <1>5, Returns DEF Quiet
<1>6. QED
    BY <1>4, <1>5 DEF Acquire

\* The loop: the claim is kept from acquire to release.
LEMMA LoopKeeps ==
    ASSUME DashboardInv, NEW a \in Apps, Loop(a) \/ WriteFrame(a) \/ Poll(a)
    PROVE  DashboardInv'
<1>1. TypeOK /\ app[a] \in App
    BY DEF DashboardInv, TypeOK
<1>2. CASE Loop(a)
    <2> DEFINE r == [app[a] EXCEPT !.pc = IF LoopEnds(app[a], Options[a]) THEN "release" ELSE "write"]
    <2>1. /\ r \in App /\ r.unbound_by_us = app[a].unbound_by_us /\ r.was_bound = app[a].was_bound
          /\ r.pc \in Owning
        BY <1>1 DEF App, Unguarded, Guarded, Owning
    <2>2. Become(a, r) /\ Quiet
        BY <1>2 DEF Loop
    <2> HIDE DEF r
    <2>3. QED
        BY <2>1, <2>2, GoesOn
<1>3. CASE WriteFrame(a)
    <2> DEFINE r == [app[a] EXCEPT !.pc = "poll", !.frames = Counted(@)]
               q == [app[a] EXCEPT !.pc = "release", !.state = "FAILED"]
    <2>1. Counted(app[a].frames) \in 0 .. MaxFrames
        BY <1>1, DashboardAssumption DEF App, Counted
    <2>2. /\ r \in App /\ r.unbound_by_us = app[a].unbound_by_us /\ r.was_bound = app[a].was_bound
          /\ r.pc \in Owning
        BY <1>1, <2>1 DEF App, Unguarded, Guarded, Owning
    <2>3. /\ q \in App /\ q.unbound_by_us = app[a].unbound_by_us /\ q.was_bound = app[a].was_bound
          /\ q.pc \in Owning
        BY <1>1 DEF App, Unguarded, Guarded, Owning
    <2>4. Quiet /\ (Become(a, r) \/ Become(a, q))
        BY <1>3 DEF WriteFrame
    <2> HIDE DEF r, q
    <2>5. QED
        BY <2>2, <2>3, <2>4, GoesOn
<1>4. CASE Poll(a)
    <2>1. PICK label \in {"release", "loop"} : app' = [app EXCEPT ![a].pc = label]
        BY <1>4 DEF Poll
    <2> DEFINE r == [app[a] EXCEPT !.pc = label]
    <2>2. /\ r \in App /\ r.unbound_by_us = app[a].unbound_by_us /\ r.was_bound = app[a].was_bound
          /\ r.pc \in Owning /\ app' = [app EXCEPT ![a] = r]
        BY <1>1, <2>1 DEF App, Unguarded, Guarded, Owning
    <2>3. UNCHANGED <<console, cart, origin, mishap>>
        BY <1>4 DEF Poll, Quiet
    <2> HIDE DEF r
    <2>4. app' \in [Apps -> App] /\ Ownership'
        BY <2>2, <2>3, ClaimKept
    <2>5. keys' \in [Apps -> Seq(Keys) \cup {HungUp}]
        <3>1. keys' = [keys EXCEPT ![a] = HungUp] \/ keys' = [keys EXCEPT ![a] = <<>>]
            BY <1>4 DEF Poll
        <3>2. QED
            BY <1>1, <3>1, QueuesTyped
    <2>6. Rest'
        BY <1>4 DEF Poll, Quiet, cart, Rest, DashboardInv, TypeOK
    <2>7. QED
        BY <2>4, <2>5, <2>6, Assemble
<1>5. QED
    BY <1>2, <1>3, <1>4

\* Release gives the console back, or notes that it could not.
LEMMA ReleaseKeeps ==
    ASSUME DashboardInv, NEW a \in Apps, Release(a)
    PROVE  DashboardInv'
<1>1. End(a, "exited") /\ UNCHANGED <<cart, signals, origin>> /\ "exited" \in Ended
    BY DEF Release, Ended
<1>2. \/ ~app[a].unbound_by_us /\ UNCHANGED <<console, mishap>>
      \/ app[a].unbound_by_us /\ console' = "bound" /\ UNCHANGED mishap
      \/ app[a].unbound_by_us /\ mishap' = TRUE /\ UNCHANGED console
    BY DEF Release, MustRebind
<1>3. app' \in [Apps -> App] /\ Ownership'
    BY <1>1, <1>2, ClaimEnds
<1>4. keys' \in [Apps -> Seq(Keys) \cup {HungUp}]
    BY <1>1, QueuesTyped DEF End, DashboardInv
<1>5. Rest'
    BY <1>1, <1>2 DEF cart, Rest, DashboardInv, TypeOK, Consoles
<1>6. QED
    BY <1>3, <1>4, <1>5, Assemble

\* The invariant of the run, for any number of dashboards: the types hold, the
\* console is never orphaned, and only guarded processes hold it.
THEOREM DashboardInvariant == Spec => []DashboardInv
<1>1. Init => DashboardInv
    BY InitHolds
<1>2. DashboardInv /\ [Next]_vars => DashboardInv'
    <2> SUFFICES ASSUME DashboardInv, [Next]_vars
                 PROVE  DashboardInv'
        OBVIOUS
    <2>1. CASE CartScript
        BY <2>1, ScriptKeeps
    <2>2. ASSUME NEW a \in Apps, Run(a)
          PROVE  DashboardInv'
        BY <2>2, SetUpKeeps, AcquireKeeps, LoopKeeps, ReleaseKeeps DEF Run
    <2>3. ASSUME NEW a \in Apps, Signal(a) \/ Kill(a)
          PROVE  DashboardInv'
        BY <2>3, SignalsKeep
    <2>4. ASSUME NEW a \in Apps, Elapse(a) \/ Unplug(a) \/ \E k \in Keys : Press(a, k)
          PROVE  DashboardInv'
        BY <2>4, WorldKeeps
    <2>5. CASE UNCHANGED vars
        BY <2>5 DEF vars, cart, DashboardInv, TypeOK, NeverOrphaned, HeldIsGuarded, TakenAsFound
    <2>6. QED
        BY <2>1, <2>2, <2>3, <2>4, <2>5 DEF Next
<1>3. QED
    BY <1>1, <1>2, PTL DEF Spec

\* The console is never orphaned (fb_owner.c:249-267, 329-353).
THEOREM ConsoleNeverOrphaned == Spec => []NeverOrphaned
<1>1. DashboardInv => NeverOrphaned
    BY DEF DashboardInv
<1>2. QED
    BY <1>1, DashboardInvariant, PTL

=============================================================================
