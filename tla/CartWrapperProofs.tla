-------------------------- MODULE CartWrapperProofs --------------------------
(***************************************************************************)
(* WrapperInv with ConsoleRecoverable is inductive, and StopRestores       *)
(* follows from it: for any number of renderer exits and of signals, and   *)
(* whether or not writes fail and the renderer is slow.                    *)
(***************************************************************************)
EXTENDS CartWrapper, TLAPS

\* Everything but the types.
Custody == ExclusiveFb /\ StartsInOrder /\ NothingLost /\ ConsoleRecoverable

CustodyInv == TypeOK /\ Custody

LEMMA CustodyInit == Init => CustodyInv
<1> SUFFICES ASSUME Init PROVE CustodyInv
    OBVIOUS
<1>1. TypeOK
    <2>1. exits \in 0 .. MaxExits /\ signals \in 0 .. MaxSignals
        BY WrapperAssumption DEF Init
    <2>2. /\ fb \in Pictures /\ save \in Pictures \cup {NoSave} /\ status \in {0, 1}
          /\ mishaps \subseteq Mishaps
        BY DEF Init, Pictures
    <2>3. bound \in BOOLEAN /\ originally \in BOOLEAN
        BY DEF Init
    <2>4. QED
        BY <2>1, <2>2, <2>3 DEF Init, TypeOK
<1>2. ExclusiveFb /\ ConsoleRecoverable
    BY DEF Init, ExclusiveFb, ScreenShared, ConsoleRecoverable
<1>3. StartsInOrder
    BY DEF Init, StartsInOrder
<1>4. NothingLost
    BY DEF Init, NothingLost, NoSave
<1>5. QED
    BY <1>1, <1>2, <1>3, <1>4 DEF CustodyInv, Custody

\* The commands of start-demo-cart.sh.
LEMMA StartKeeps ==
    ASSUME CustodyInv,
           StartCall \/ StartCheck \/ Capture \/ MarkConsole \/ UnbindConsole \/ Launch \/ Verify
    PROVE  CustodyInv'
<1> USE DEF CustodyInv, Custody, files, hardware, process, counters, PidMatches, NoSave
<1>1. CASE StartCall
    <2>1. TypeOK'
        BY <1>1 DEF StartCall, TypeOK, Pictures, Mishaps, StartLabels, StopLabels
    <2>2. ExclusiveFb'
        BY <1>1 DEF StartCall, TypeOK, ExclusiveFb, ScreenShared, StartsInOrder, NothingLost
    <2>3. StartsInOrder'
        BY <1>1 DEF StartCall, TypeOK, StartsInOrder
    <2>4. NothingLost'
        BY <1>1 DEF StartCall, TypeOK, Pictures, StartsInOrder, NothingLost
    <2>5. ConsoleRecoverable'
        BY <1>1 DEF StartCall, StartsInOrder, ConsoleRecoverable
    <2>6. QED
        BY <2>1, <2>2, <2>3, <2>4, <2>5
<1>2. CASE StartCheck
    <2>1. TypeOK'
        BY <1>2 DEF StartCheck, AlreadyRunning, Note, TypeOK, Pictures, Mishaps, StartLabels, StopLabels
    <2>2. ExclusiveFb'
        BY <1>2 DEF StartCheck, AlreadyRunning, Note, TypeOK, ExclusiveFb, ScreenShared, StartsInOrder, NothingLost
    <2>3. StartsInOrder'
        BY <1>2 DEF StartCheck, AlreadyRunning, Note, TypeOK, StartsInOrder
    <2>4. NothingLost'
        BY <1>2 DEF StartCheck, AlreadyRunning, Note, TypeOK, Pictures, StartsInOrder, NothingLost
    <2>5. ConsoleRecoverable'
        BY <1>2 DEF StartCheck, AlreadyRunning, Note, StartsInOrder, ConsoleRecoverable
    <2>6. QED
        BY <2>1, <2>2, <2>3, <2>4, <2>5
<1>3. CASE Capture
    <2>1. TypeOK'
        BY <1>3 DEF Capture, TypeOK, Pictures, Mishaps, StartLabels, StopLabels
    <2>2. ExclusiveFb'
        BY <1>3 DEF Capture, TypeOK, ExclusiveFb, ScreenShared, StartsInOrder, NothingLost
    <2>3. StartsInOrder'
        BY <1>3 DEF Capture, TypeOK, Pictures, StartsInOrder
    <2>4. NothingLost'
        BY <1>3 DEF Capture, TypeOK, Pictures, StartsInOrder, NothingLost
    <2>5. ConsoleRecoverable'
        BY <1>3 DEF Capture, StartsInOrder, ConsoleRecoverable
    <2>6. QED
        BY <2>1, <2>2, <2>3, <2>4, <2>5
<1>4. CASE MarkConsole
    <2>1. TypeOK'
        BY <1>4 DEF MarkConsole, TypeOK, Pictures, Mishaps, StartLabels, StopLabels
    <2>2. ExclusiveFb'
        BY <1>4 DEF MarkConsole, TypeOK, ExclusiveFb, ScreenShared, StartsInOrder, NothingLost
    <2>3. StartsInOrder'
        BY <1>4 DEF MarkConsole, TypeOK, StartsInOrder
    <2>4. NothingLost'
        BY <1>4 DEF MarkConsole, TypeOK, Pictures, StartsInOrder, NothingLost
    <2>5. ConsoleRecoverable'
        BY <1>4 DEF MarkConsole, StartsInOrder, ConsoleRecoverable
    <2>6. QED
        BY <2>1, <2>2, <2>3, <2>4, <2>5
<1>5. CASE UnbindConsole
    <2>1. TypeOK'
        BY <1>5 DEF UnbindConsole, Unbound, Note, TypeOK, Pictures, Mishaps, StartLabels, StopLabels
    <2>2. ExclusiveFb'
        BY <1>5 DEF UnbindConsole, Unbound, Note, TypeOK, ExclusiveFb, ScreenShared, StartsInOrder, NothingLost
    <2>3. StartsInOrder'
        BY <1>5 DEF UnbindConsole, Unbound, Note, TypeOK, StartsInOrder
    <2>4. NothingLost'
        BY <1>5 DEF UnbindConsole, Unbound, Note, TypeOK, Pictures, StartsInOrder, NothingLost
    <2>5. ConsoleRecoverable'
        BY <1>5 DEF UnbindConsole, Unbound, Note, StartsInOrder, ConsoleRecoverable
    <2>6. QED
        BY <2>1, <2>2, <2>3, <2>4, <2>5
<1>6. CASE Launch
    <2>1. TypeOK'
        <3>1. renderer = FALSE /\ term = FALSE
            BY <1>6 DEF Launch, StartsInOrder, TypeOK
        <3>2. /\ renderer' \in BOOLEAN /\ pidfile' \in BOOLEAN /\ (renderer' => pidfile')
              /\ term' = FALSE /\ (term' => renderer')
            BY <1>6, <3>1 DEF Launch, TypeOK
        <3>3. pc' \in {"verify", "cleanup"} /\ status' \in {0, 1}
            BY <1>6 DEF Launch, TypeOK
        <3>4. UNCHANGED <<mishaps, mark, save, fb, bound, originally, exits, signals>>
            BY <1>6 DEF Launch
        <3>5. QED
            BY <3>2, <3>3, <3>4 DEF TypeOK, StartLabels
    <2>2. ExclusiveFb'
        BY <1>6 DEF Launch, TypeOK, ExclusiveFb, ScreenShared, StartsInOrder, NothingLost
    <2>3. StartsInOrder'
        BY <1>6 DEF Launch, TypeOK, StartsInOrder
    <2>4. NothingLost'
        BY <1>6 DEF Launch, TypeOK, Pictures, StartsInOrder, NothingLost
    <2>5. ConsoleRecoverable'
        BY <1>6 DEF Launch, StartsInOrder, ConsoleRecoverable
    <2>6. QED
        BY <2>1, <2>2, <2>3, <2>4, <2>5
<1>7. CASE Verify
    <2>1. TypeOK'
        BY <1>7 DEF Verify, TypeOK, Pictures, Mishaps, StartLabels, StopLabels
    <2>2. ExclusiveFb'
        BY <1>7 DEF Verify, TypeOK, ExclusiveFb, ScreenShared, StartsInOrder, NothingLost
    <2>3. StartsInOrder'
        BY <1>7 DEF Verify, TypeOK, StartsInOrder
    <2>4. NothingLost'
        BY <1>7 DEF Verify, TypeOK, Pictures, StartsInOrder, NothingLost
    <2>5. ConsoleRecoverable'
        BY <1>7 DEF Verify, StartsInOrder, ConsoleRecoverable
    <2>6. QED
        BY <2>1, <2>2, <2>3, <2>4, <2>5
<1>8. QED
    BY <1>1, <1>2, <1>3, <1>4, <1>5, <1>6, <1>7

\* Its exit trap, and the signals that end either script.
LEMMA CleanupKeeps ==
    ASSUME CustodyInv,
           CleanupFrame \/ CleanupConsole \/ SignalStart \/ KillScript
    PROVE  CustodyInv'
<1> USE DEF CustodyInv, Custody, files, hardware, process, counters, PidMatches, NoSave
<1>1. CASE CleanupFrame
    <2>1. TypeOK'
        BY <1>1 DEF CleanupFrame, RestoreFrame, Note, TypeOK, Pictures, Mishaps, StartLabels, StopLabels
    <2>2. ExclusiveFb'
        BY <1>1 DEF CleanupFrame, RestoreFrame, Note, TypeOK, ExclusiveFb, ScreenShared, StartsInOrder, NothingLost
    <2>3. StartsInOrder'
        BY <1>1 DEF CleanupFrame, RestoreFrame, Note, TypeOK, StartsInOrder
    <2>4. NothingLost'
        BY <1>1 DEF CleanupFrame, RestoreFrame, Note, TypeOK, Pictures, StartsInOrder, NothingLost
    <2>5. ConsoleRecoverable'
        BY <1>1 DEF CleanupFrame, RestoreFrame, Note, StartsInOrder, ConsoleRecoverable
    <2>6. QED
        BY <2>1, <2>2, <2>3, <2>4, <2>5
<1>2. CASE CleanupConsole
    <2>1. TypeOK'
        BY <1>2 DEF CleanupConsole, Rebind, Note, TypeOK, Pictures, Mishaps, StartLabels, StopLabels
    <2>2. ExclusiveFb'
        BY <1>2 DEF CleanupConsole, Rebind, Note, TypeOK, ExclusiveFb, ScreenShared, StartsInOrder, NothingLost
    <2>3. StartsInOrder'
        BY <1>2 DEF CleanupConsole, Rebind, Note, TypeOK, StartsInOrder
    <2>4. NothingLost'
        BY <1>2 DEF CleanupConsole, Rebind, Note, TypeOK, Pictures, StartsInOrder, NothingLost
    <2>5. ConsoleRecoverable'
        BY <1>2 DEF CleanupConsole, Rebind, Note, StartsInOrder, ConsoleRecoverable
    <2>6. QED
        BY <2>1, <2>2, <2>3, <2>4, <2>5
<1>3. CASE SignalStart
    <2>1. TypeOK'
        <3>1. signals' \in 0 .. MaxSignals
            BY <1>3, WrapperAssumption DEF SignalStart, TypeOK
        <3>2. QED
            BY <1>3, <3>1 DEF SignalStart, Note, TypeOK, Mishaps
    <2>2. ExclusiveFb'
        BY <1>3 DEF SignalStart, Note, StartLabels, TypeOK, ExclusiveFb, ScreenShared, StartsInOrder, NothingLost
    <2>3. StartsInOrder'
        BY <1>3 DEF SignalStart, Note, StartLabels, TypeOK, StartsInOrder
    <2>4. NothingLost'
        BY <1>3 DEF SignalStart, Note, StartLabels, TypeOK, Pictures, StartsInOrder, NothingLost
    <2>5. ConsoleRecoverable'
        BY <1>3 DEF SignalStart, Note, StartLabels, StartsInOrder, ConsoleRecoverable
    <2>6. QED
        BY <2>1, <2>2, <2>3, <2>4, <2>5
<1>4. CASE KillScript
    <2>1. TypeOK'
        <3>1. signals' \in 0 .. MaxSignals
            BY <1>4, WrapperAssumption DEF KillScript, TypeOK
        <3>2. QED
            BY <1>4, <3>1 DEF KillScript, TypeOK, Pictures, StopLabels
    <2>2. ExclusiveFb'
        BY <1>4 DEF KillScript, StopLabels, TypeOK, ExclusiveFb, ScreenShared, StartsInOrder, NothingLost
    <2>3. StartsInOrder'
        BY <1>4 DEF KillScript, StopLabels, TypeOK, StartsInOrder
    <2>4. NothingLost'
        BY <1>4 DEF KillScript, StopLabels, TypeOK, Pictures, StartsInOrder, NothingLost
    <2>5. ConsoleRecoverable'
        BY <1>4 DEF KillScript, StopLabels, StartsInOrder, ConsoleRecoverable
    <2>6. QED
        BY <2>1, <2>2, <2>3, <2>4, <2>5
<1>5. QED
    BY <1>1, <1>2, <1>3, <1>4

\* The commands of stop-demo-cart.sh.
LEMMA StopKeeps ==
    ASSUME CustodyInv,
           StopCall \/ StopCheck \/ StopKill \/ StopWait \/ StopRestore \/ StopRebind \/ StopReturn
    PROVE  CustodyInv'
<1> USE DEF CustodyInv, Custody, files, hardware, process, counters, PidMatches, NoSave
<1>1. CASE StopCall
    <2>1. TypeOK'
        BY <1>1 DEF StopCall, TypeOK, Pictures, Mishaps, StartLabels, StopLabels
    <2>2. ExclusiveFb'
        BY <1>1 DEF StopCall, TypeOK, ExclusiveFb, ScreenShared, StartsInOrder, NothingLost
    <2>3. StartsInOrder'
        BY <1>1 DEF StopCall, TypeOK, StartsInOrder
    <2>4. NothingLost'
        BY <1>1 DEF StopCall, TypeOK, Pictures, StartsInOrder, NothingLost
    <2>5. ConsoleRecoverable'
        BY <1>1 DEF StopCall, StartsInOrder, ConsoleRecoverable
    <2>6. QED
        BY <2>1, <2>2, <2>3, <2>4, <2>5
<1>2. CASE StopCheck
    <2>1. TypeOK'
        BY <1>2 DEF StopCheck, TypeOK, Pictures, Mishaps, StartLabels, StopLabels
    <2>2. ExclusiveFb'
        BY <1>2 DEF StopCheck, TypeOK, ExclusiveFb, ScreenShared, StartsInOrder, NothingLost
    <2>3. StartsInOrder'
        BY <1>2 DEF StopCheck, TypeOK, StartsInOrder
    <2>4. NothingLost'
        BY <1>2 DEF StopCheck, TypeOK, Pictures, StartsInOrder, NothingLost
    <2>5. ConsoleRecoverable'
        BY <1>2 DEF StopCheck, StartsInOrder, ConsoleRecoverable
    <2>6. QED
        BY <2>1, <2>2, <2>3, <2>4, <2>5
<1>3. CASE StopKill
    <2>1. TypeOK'
        BY <1>3 DEF StopKill, TypeOK, Pictures, Mishaps, StartLabels, StopLabels
    <2>2. ExclusiveFb'
        BY <1>3 DEF StopKill, TypeOK, ExclusiveFb, ScreenShared, StartsInOrder, NothingLost
    <2>3. StartsInOrder'
        BY <1>3 DEF StopKill, TypeOK, StartsInOrder
    <2>4. NothingLost'
        BY <1>3 DEF StopKill, TypeOK, Pictures, StartsInOrder, NothingLost
    <2>5. ConsoleRecoverable'
        BY <1>3 DEF StopKill, StartsInOrder, ConsoleRecoverable
    <2>6. QED
        BY <2>1, <2>2, <2>3, <2>4, <2>5
<1>4. CASE StopWait
    <2>1. TypeOK'
        BY <1>4 DEF StopWait, GaveUp, Note, TypeOK, Pictures, Mishaps, StartLabels, StopLabels
    <2>2. ExclusiveFb'
        BY <1>4 DEF StopWait, GaveUp, Note, TypeOK, ExclusiveFb, ScreenShared, StartsInOrder, NothingLost
    <2>3. StartsInOrder'
        BY <1>4 DEF StopWait, GaveUp, Note, TypeOK, StartsInOrder
    <2>4. NothingLost'
        BY <1>4 DEF StopWait, GaveUp, Note, TypeOK, Pictures, StartsInOrder, NothingLost
    <2>5. ConsoleRecoverable'
        BY <1>4 DEF StopWait, GaveUp, Note, StartsInOrder, ConsoleRecoverable
    <2>6. QED
        BY <2>1, <2>2, <2>3, <2>4, <2>5
<1>5. CASE StopRestore
    <2>1. TypeOK'
        BY <1>5 DEF StopRestore, RestoreFrame, Note, TypeOK, Pictures, Mishaps, StartLabels, StopLabels
    <2>2. ExclusiveFb'
        BY <1>5 DEF StopRestore, RestoreFrame, Note, TypeOK, ExclusiveFb, ScreenShared, StartsInOrder, NothingLost
    <2>3. StartsInOrder'
        BY <1>5 DEF StopRestore, RestoreFrame, Note, TypeOK, StartsInOrder
    <2>4. NothingLost'
        BY <1>5 DEF StopRestore, RestoreFrame, Note, TypeOK, Pictures, StartsInOrder, NothingLost
    <2>5. ConsoleRecoverable'
        BY <1>5 DEF StopRestore, RestoreFrame, Note, StartsInOrder, ConsoleRecoverable
    <2>6. QED
        BY <2>1, <2>2, <2>3, <2>4, <2>5
<1>6. CASE StopRebind
    <2>1. TypeOK'
        BY <1>6 DEF StopRebind, Rebind, Note, TypeOK, Pictures, Mishaps, StartLabels, StopLabels
    <2>2. ExclusiveFb'
        BY <1>6 DEF StopRebind, Rebind, Note, TypeOK, ExclusiveFb, ScreenShared, StartsInOrder, NothingLost
    <2>3. StartsInOrder'
        BY <1>6 DEF StopRebind, Rebind, Note, TypeOK, StartsInOrder
    <2>4. NothingLost'
        BY <1>6 DEF StopRebind, Rebind, Note, TypeOK, Pictures, StartsInOrder, NothingLost
    <2>5. ConsoleRecoverable'
        BY <1>6 DEF StopRebind, Rebind, Note, StartsInOrder, ConsoleRecoverable
    <2>6. QED
        BY <2>1, <2>2, <2>3, <2>4, <2>5
<1>7. CASE StopReturn
    <2>1. TypeOK'
        BY <1>7 DEF StopReturn, TypeOK, Pictures, Mishaps, StartLabels, StopLabels
    <2>2. ExclusiveFb'
        BY <1>7 DEF StopReturn, TypeOK, ExclusiveFb, ScreenShared, StartsInOrder, NothingLost
    <2>3. StartsInOrder'
        BY <1>7 DEF StopReturn, TypeOK, StartsInOrder
    <2>4. NothingLost'
        BY <1>7 DEF StopReturn, TypeOK, Pictures, StartsInOrder, NothingLost
    <2>5. ConsoleRecoverable'
        BY <1>7 DEF StopReturn, StartsInOrder, ConsoleRecoverable
    <2>6. QED
        BY <2>1, <2>2, <2>3, <2>4, <2>5
<1>8. QED
    BY <1>1, <1>2, <1>3, <1>4, <1>5, <1>6, <1>7

\* The renderer and the console.
LEMMA ScreenKeeps ==
    ASSUME CustodyInv,
           Paint \/ Terminate \/ ExitAlone \/ Repaint
    PROVE  CustodyInv'
<1> USE DEF CustodyInv, Custody, files, hardware, process, counters, PidMatches, NoSave
<1>1. CASE Paint
    <2>1. TypeOK'
        BY <1>1 DEF Paint, TypeOK, Pictures, Mishaps, StartLabels, StopLabels
    <2>2. ExclusiveFb'
        BY <1>1 DEF Paint, TypeOK, ExclusiveFb, ScreenShared, StartsInOrder, NothingLost
    <2>3. StartsInOrder'
        BY <1>1 DEF Paint, TypeOK, StartsInOrder
    <2>4. NothingLost'
        BY <1>1 DEF Paint, TypeOK, Pictures, StartsInOrder, NothingLost
    <2>5. ConsoleRecoverable'
        BY <1>1 DEF Paint, StartsInOrder, ConsoleRecoverable
    <2>6. QED
        BY <2>1, <2>2, <2>3, <2>4, <2>5
<1>2. CASE Terminate
    <2>1. TypeOK'
        BY <1>2 DEF Terminate, TypeOK, Pictures, Mishaps, StartLabels, StopLabels
    <2>2. ExclusiveFb'
        BY <1>2 DEF Terminate, TypeOK, ExclusiveFb, ScreenShared, StartsInOrder, NothingLost
    <2>3. StartsInOrder'
        BY <1>2 DEF Terminate, TypeOK, StartsInOrder
    <2>4. NothingLost'
        BY <1>2 DEF Terminate, TypeOK, Pictures, StartsInOrder, NothingLost
    <2>5. ConsoleRecoverable'
        BY <1>2 DEF Terminate, StartsInOrder, ConsoleRecoverable
    <2>6. QED
        BY <2>1, <2>2, <2>3, <2>4, <2>5
<1>3. CASE ExitAlone
    <2>1. TypeOK'
        <3>1. exits' \in 0 .. MaxExits
            BY <1>3, WrapperAssumption DEF ExitAlone, TypeOK
        <3>2. QED
            BY <1>3, <3>1 DEF ExitAlone, TypeOK
    <2>2. ExclusiveFb'
        BY <1>3 DEF ExitAlone, TypeOK, ExclusiveFb, ScreenShared, StartsInOrder, NothingLost
    <2>3. StartsInOrder'
        BY <1>3 DEF ExitAlone, TypeOK, StartsInOrder
    <2>4. NothingLost'
        BY <1>3 DEF ExitAlone, TypeOK, Pictures, StartsInOrder, NothingLost
    <2>5. ConsoleRecoverable'
        BY <1>3 DEF ExitAlone, StartsInOrder, ConsoleRecoverable
    <2>6. QED
        BY <2>1, <2>2, <2>3, <2>4, <2>5
<1>4. CASE Repaint
    <2>1. TypeOK'
        BY <1>4 DEF Repaint, TypeOK, Pictures, Mishaps, StartLabels, StopLabels
    <2>2. ExclusiveFb'
        BY <1>4 DEF Repaint, TypeOK, ExclusiveFb, ScreenShared, StartsInOrder, NothingLost
    <2>3. StartsInOrder'
        BY <1>4 DEF Repaint, TypeOK, StartsInOrder
    <2>4. NothingLost'
        BY <1>4 DEF Repaint, TypeOK, Pictures, StartsInOrder, NothingLost
    <2>5. ConsoleRecoverable'
        BY <1>4 DEF Repaint, StartsInOrder, ConsoleRecoverable
    <2>6. QED
        BY <2>1, <2>2, <2>3, <2>4, <2>5
<1>5. QED
    BY <1>1, <1>2, <1>3, <1>4

LEMMA StutterKeeps == CustodyInv /\ UNCHANGED vars => CustodyInv'
PROOF BY DEF CustodyInv, Custody, vars, files, hardware, process, counters, TypeOK, ExclusiveFb,
         ScreenShared, StartsInOrder, NothingLost, ConsoleRecoverable

\* CustodyInv is inductive.
LEMMA CustodyKept == CustodyInv /\ [Next]_vars => CustodyInv'
PROOF BY StartKeeps, CleanupKeeps, StopKeeps, ScreenKeeps, StutterKeeps DEF Next

LEMMA CustodyAlways == Spec => []CustodyInv
<1>1. QED
    BY CustodyInit, CustodyKept, PTL DEF Spec

\* The console and the renderer never share the screen unless a start was cut
\* off after its launch or a stop gave up waiting (start-demo-cart.sh:80-97,
\* stop-demo-cart.sh:24-66).
THEOREM ScreenHasOneOwner == Spec => []WrapperInv
<1>1. CustodyInv => WrapperInv
    BY DEF CustodyInv, Custody, WrapperInv
<1>2. QED
    BY <1>1, CustodyAlways, PTL

\* However the scripts fail or are interrupted, a console that was bound is
\* bound or marked, until a start removes an earlier run's marker
\* (start-demo-cart.sh:67, 80-83, stop-demo-cart.sh:59-66).
THEOREM ConsoleStaysRecoverable == Spec => []ConsoleRecoverable
<1>1. CustodyInv => ConsoleRecoverable
    BY DEF CustodyInv, Custody
<1>2. QED
    BY <1>1, CustodyAlways, PTL

\* With no mishap a stop that reports success has given back the picture and
\* the console as they were (stop-demo-cart.sh:45-68).
THEOREM StopGivesBack == Spec => []StopRestores
<1>1. CustodyInv => StopRestores
    <2> SUFFICES ASSUME CustodyInv, mishaps = {}
                 PROVE  /\ save # "cart"
                        /\ pc = "stopped" /\ status = 0 => Restored
        BY DEF StopRestores
    <2>1. save # "cart"
        BY DEF CustodyInv, Custody, NothingLost
    <2>2. ASSUME pc = "stopped", status = 0 PROVE fb = "console" /\ bound = originally
        <3>1. fb = "console"
            BY <2>2 DEF CustodyInv, Custody, NothingLost, TypeOK, Pictures
        <3>2. bound <=> originally
            BY <2>2 DEF CustodyInv, Custody, NothingLost, StartsInOrder, ConsoleRecoverable
        <3>3. QED
            BY <3>1, <3>2 DEF CustodyInv, TypeOK
    <2>3. QED
        BY <2>1, <2>2 DEF Restored
<1>2. QED
    BY <1>1, CustodyAlways, PTL

=============================================================================
