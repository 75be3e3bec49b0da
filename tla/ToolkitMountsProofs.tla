------------------------- MODULE ToolkitMountsProofs -------------------------
(***************************************************************************)
(* Proofs about the toolkit's mounts for any number of runs of the init    *)
(* script and of commands at the shell, any payloads and any contents of   *)
(* the card.                                                               *)
(***************************************************************************)
EXTENDS ToolkitMounts, TLAPS

-----------------------------------------------------------------------------
(* The mount table *)

\* A stack of mounts with one more on it.
LEMMA PushFacts ==
    ASSUME NEW s \in Seq(Mount), NEW m \in Mount, NEW r, r = Append(s, m)
    PROVE  /\ r \in Seq(Mount) /\ r # <<>>
           /\ Len(s) \in Nat /\ Len(r) = Len(s) + 1
           /\ DOMAIN s = 1 .. Len(s) /\ DOMAIN r = 1 .. Len(s) + 1
           /\ \A i \in 1 .. Len(s) : r[i] = s[i]
           /\ r[Len(s) + 1] = m
  OBVIOUS

\* A stack of mounts with one less.
LEMMA PopFacts ==
    ASSUME NEW s \in Seq(Mount), s # <<>>, NEW r, r = Front(s)
    PROVE  /\ r \in Seq(Mount)
           /\ Len(s) \in Nat \ {0} /\ Len(r) = Len(s) - 1
           /\ DOMAIN s = 1 .. Len(s) /\ DOMAIN r = 1 .. Len(s) - 1
           /\ \A i \in 1 .. Len(s) - 1 : r[i] = s[i]
  <1> DEFINE n == Len(s) - 1
  <1>1. Len(s) \in Nat \ {0} /\ DOMAIN s = 1 .. Len(s)
    OBVIOUS
  <1>2. n \in 0 .. Len(s)
    BY <1>1
  <1>3. r = SubSeq(s, 1, n)
    BY DEF Front
  <1> HIDE DEF n
  <1>4. \A i \in 1 .. n : s[i] \in Mount
    BY <1>1, <1>2
  <1>5. r = [i \in 1 .. n |-> s[i]]
    BY <1>1, <1>2, <1>3
  <1>6. r \in Seq(Mount) /\ Len(r) = n
    BY <1>2, <1>4, <1>5
  <1> QED BY <1>1, <1>5, <1>6 DEF n

\* A stack is empty when its length is 0.
LEMMA StackFacts ==
    ASSUME NEW s \in Seq(Mount)
    PROVE  /\ Len(s) \in Nat /\ DOMAIN s = 1 .. Len(s)
           /\ s = <<>> <=> Len(s) = 0
           /\ \A i \in 1 .. Len(s) : s[i] \in Mount
           /\ s # <<>> => Last(s) = s[Len(s)] /\ Last(s) \in Mount
  BY DEF Last

\* Loop images, and nothing else, lie on a transport.
Placing(p, m) == p \in {Target, Work} <=> m.from # None

Table ==
    /\ mounts \in [Points -> Seq(Mount)]
    /\ \A p \in Points : \A i \in DOMAIN mounts[p] : Placing(p, mounts[p][i])

LEMMA TableTyped == TypeOK => Table
  BY DEF TypeOK, Table, Placing

\* The other stacks stay.
Others(p) == \A q \in Points : q # p => mounts'[q] = mounts[q]

\* The stacks after mount.
LEMMA Pushed ==
    ASSUME Table, NEW p \in Points, NEW m \in Mount, Placing(p, m),
           mounts' = [mounts EXCEPT ![p] = Append(@, m)]
    PROVE  /\ Table' /\ Others(p)
           /\ Len(mounts[p]) \in Nat /\ Len(mounts'[p]) = Len(mounts[p]) + 1
           /\ DOMAIN mounts[p] = 1 .. Len(mounts[p])
           /\ DOMAIN mounts'[p] = 1 .. Len(mounts[p]) + 1
           /\ \A i \in 1 .. Len(mounts[p]) : mounts'[p][i] = mounts[p][i]
           /\ mounts'[p][Len(mounts[p]) + 1] = m
  <1> DEFINE s == mounts[p]
             r == Append(s, m)
  <1>1. mounts \in [Points -> Seq(Mount)] /\ s \in Seq(Mount)
    BY DEF Table
  <1>2. mounts' = [mounts EXCEPT ![p] = r]
    OBVIOUS
  <1>3. /\ r \in Seq(Mount) /\ Len(s) \in Nat /\ Len(r) = Len(s) + 1
        /\ DOMAIN s = 1 .. Len(s) /\ DOMAIN r = 1 .. Len(s) + 1
        /\ \A i \in 1 .. Len(s) : r[i] = s[i]
        /\ r[Len(s) + 1] = m
    BY <1>1, PushFacts
  <1> HIDE DEF r
  <1>4. mounts' \in [Points -> Seq(Mount)] /\ mounts'[p] = r /\ Others(p)
    BY <1>1, <1>2, <1>3 DEF Others
  <1>5. \A i \in DOMAIN s : Placing(p, s[i])
    BY DEF Table
  <1> HIDE DEF s
  <1>6. \A i \in DOMAIN r : Placing(p, r[i])
    <2> SUFFICES ASSUME NEW i \in 1 .. Len(s) + 1 PROVE Placing(p, r[i])
      BY <1>3
    <2>1. CASE i \in 1 .. Len(s)
      BY <1>3, <1>5, <2>1
    <2>2. CASE i = Len(s) + 1
      BY <1>3, <2>2
    <2> QED BY <1>3, <2>1, <2>2
  <1>7. Table'
    <2> SUFFICES ASSUME NEW q \in Points, NEW i \in DOMAIN mounts'[q]
                 PROVE  Placing(q, mounts'[q][i])
      BY <1>4 DEF Table, Placing
    <2>1. CASE q = p
      BY <1>4, <1>6, <2>1
    <2>2. CASE q # p
      BY <1>4, <2>2 DEF Others, Table
    <2> QED BY <2>1, <2>2
  <1> QED BY <1>3, <1>4, <1>7 DEF s

\* The stacks after umount.
LEMMA Popped ==
    ASSUME Table, NEW p \in Points, Mounted(p), mounts' = [mounts EXCEPT ![p] = Front(@)]
    PROVE  /\ Table' /\ Others(p)
           /\ Len(mounts[p]) \in Nat \ {0} /\ Len(mounts'[p]) = Len(mounts[p]) - 1
           /\ DOMAIN mounts[p] = 1 .. Len(mounts[p])
           /\ DOMAIN mounts'[p] = 1 .. Len(mounts[p]) - 1
           /\ \A i \in 1 .. Len(mounts[p]) - 1 : mounts'[p][i] = mounts[p][i]
  <1> DEFINE s == mounts[p]
             r == Front(s)
  <1>1. mounts \in [Points -> Seq(Mount)] /\ s \in Seq(Mount) /\ s # <<>>
    BY DEF Table, Mounted
  <1>2. mounts' = [mounts EXCEPT ![p] = r]
    OBVIOUS
  <1>3. /\ r \in Seq(Mount) /\ Len(s) \in Nat \ {0} /\ Len(r) = Len(s) - 1
        /\ DOMAIN s = 1 .. Len(s) /\ DOMAIN r = 1 .. Len(s) - 1
        /\ \A i \in 1 .. Len(s) - 1 : r[i] = s[i]
    BY <1>1, PopFacts
  <1> HIDE DEF r
  <1>4. mounts' \in [Points -> Seq(Mount)] /\ mounts'[p] = r /\ Others(p)
    BY <1>1, <1>2, <1>3 DEF Others
  <1>5. \A i \in DOMAIN s : Placing(p, s[i])
    BY DEF Table
  <1> HIDE DEF s
  <1>6. \A i \in DOMAIN r : Placing(p, r[i])
    BY <1>3, <1>5
  <1>7. Table'
    <2> SUFFICES ASSUME NEW q \in Points, NEW i \in DOMAIN mounts'[q]
                 PROVE  Placing(q, mounts'[q][i])
      BY <1>4 DEF Table, Placing
    <2>1. CASE q = p
      BY <1>4, <1>6, <2>1
    <2>2. CASE q # p
      BY <1>4, <2>2 DEF Others, Table
    <2> QED BY <2>1, <2>2
  <1> QED BY <1>3, <1>4, <1>7 DEF s

-----------------------------------------------------------------------------
(* What a step may do to each part of the invariant *)

LEMMA FreshFacts ==
    /\ Fresh \in Shell /\ Fresh.owned = FALSE /\ Fresh.at = Storage /\ Fresh.seen = 0
    /\ Fresh.file = None /\ Fresh.hash = None
    /\ NoSession.owned = FALSE /\ NoSession.at = Storage /\ NoSession \notin Session
    /\ None \notin Transports
  BY DEF Fresh, Shell, NoSession, Session, Transports, Storage, None

LEMMA NumberFacts ==
    ASSUME TypeOK
    PROVE  /\ edits \in Nat /\ commands \in Nat /\ sh.seen \in Nat /\ sh \in Shell
           /\ \A k \in Jobs : job[k].seen \in Nat
  BY ToolkitAssumption DEF TypeOK, Shell, Job

\* What has been noted stays noted.
LEMMA LeftKept ==
    ASSUME mishaps \subseteq mishaps'
    PROVE  TransportLeft => TransportLeft'
  BY DEF TransportLeft

\* A step that leaves the record of the session alone.
LEMMA SessionApart ==
    ASSUME MountInv, mishaps \subseteq mishaps', session' = session,
           Len(mounts'[Storage]) <= 1,
           pc' \in Stopping => session # NoSession,
           "session" \notin mishaps' =>
              /\ pc' \in Mounting => session = NoSession
              /\ pc' \in Placed <=> pc \in Placed
              /\ pc' = "unmount_transport" <=> pc = "unmount_transport"
              /\ Mounted(Storage)' /\ ~TransportLeft' => session.owned \/ sh'.owned
              /\ Len(mounts[Target]) <= 1 =>
                   Len(mounts'[Target]) <= 1 /\ (OwnTarget' <=> OwnTarget)
    PROVE  SessionKept'
  BY DEF MountInv, SessionKept

\* What is known of a mount at the target when its hash is still that of the file.
Honest(m) ==
    /\ m.seen <= edits
    /\ m.seen = edits => /\ m.by = "session" => image = content.sidecar
                         /\ m.by = "boot" => content.recorded \in {None, image}

HashTaken ==
    /\ sh.seen <= edits
    /\ pc \in {"target", "mount_target"} /\ sh.seen = edits => image = content.sidecar

HashesTaken ==
    \A k \in Jobs :
        /\ job[k].seen <= edits
        /\ job[k].pc \in {"target", "mount_target"} /\ job[k].seen = edits =>
              content.recorded \in {None, image}

LEMMA HashParts ==
    HashKept <=> /\ \A i \in DOMAIN mounts[Target] : Honest(mounts[Target][i])
                 /\ HashTaken /\ HashesTaken
  BY DEF HashKept, VerifiedPayload, Honest, HashTaken, HashesTaken

LEMMA HashPartsNext ==
    (HashKept <=> /\ \A i \in DOMAIN mounts[Target] : Honest(mounts[Target][i])
                  /\ HashTaken /\ HashesTaken)'
  BY HashParts, PTL

\* A step that does not write the payload.
LEMMA HashStep ==
    ASSUME MountInv, UNCHANGED <<image, content, edits>>, HashTaken', HashesTaken',
           \A i \in DOMAIN mounts'[Target] :
              \/ i \in DOMAIN mounts[Target] /\ mounts'[Target][i] = mounts[Target][i]
              \/ Honest(mounts'[Target][i])
    PROVE  HashKept'
  <1>1. \A i \in DOMAIN mounts[Target] : Honest(mounts[Target][i])
    BY HashParts DEF MountInv
  <1>2. \A i \in DOMAIN mounts'[Target] : Honest(mounts'[Target][i])
    BY <1>1
  <1>3. (\A i \in DOMAIN mounts[Target] : Honest(mounts[Target][i]))'
    BY <1>2 DEF Honest
  <1> QED BY <1>3, HashPartsNext

\* A step that is none of S06toolkit's.
LEMMA BootApart ==
    ASSUME MountInv, UNCHANGED <<job, halting>>, mishaps \subseteq mishaps',
           mounts'[Work] = mounts[Work]
    PROVE  BootKept' /\ WorkspaceOnce'
  BY DEF MountInv, BootKept, WorkspaceOnce, Waiting, Mounted

\* A mount that others than the session make or take down at the target.
LEMMA OthersPush ==
    ASSUME MountInv, NEW m \in Mount, m.by # "session", Placing(Target, m), MountAt(Target, m)
    PROVE  /\ Table' /\ Others(Target) /\ mishaps \subseteq mishaps'
           /\ "session" \notin mishaps' => Len(mounts'[Target]) <= 1 /\ (OwnTarget' <=> OwnTarget)
           /\ \A i \in DOMAIN mounts'[Target] :
                 \/ i \in DOMAIN mounts[Target] /\ mounts'[Target][i] = mounts[Target][i]
                 \/ mounts'[Target][i] = m
           /\ mishaps' \subseteq mishaps \cup {"session"}
  <1>1. Target \in Points /\ Table
    BY TableTyped DEF MountInv, Points
  <1>2. mounts' = [mounts EXCEPT ![Target] = Append(@, m)]
    BY DEF MountAt
  <1>3. /\ Table' /\ Others(Target)
        /\ Len(mounts[Target]) \in Nat /\ Len(mounts'[Target]) = Len(mounts[Target]) + 1
        /\ DOMAIN mounts[Target] = 1 .. Len(mounts[Target])
        /\ DOMAIN mounts'[Target] = 1 .. Len(mounts[Target]) + 1
        /\ \A i \in 1 .. Len(mounts[Target]) : mounts'[Target][i] = mounts[Target][i]
        /\ mounts'[Target][Len(mounts[Target]) + 1] = m
    BY <1>1, <1>2, Pushed
  <1>4. mishaps \subseteq mishaps' /\ (Mounted(Target) => "session" \in mishaps')
        /\ mishaps' \subseteq mishaps \cup {"session"}
    BY DEF MountAt, Note
  <1>5. Mounted(Target) \/ Len(mounts[Target]) = 0
    BY <1>1, StackFacts DEF Mounted, Table
  <1>6. ASSUME Len(mounts[Target]) = 0
        PROVE  Len(mounts'[Target]) <= 1 /\ (OwnTarget' <=> OwnTarget)
    <2>1. DOMAIN mounts[Target] = {} /\ DOMAIN mounts'[Target] = {1} /\ mounts'[Target][1] = m
      BY <1>3, <1>6
    <2> QED BY <1>3, <1>6, <2>1 DEF OwnTarget
  <1> QED BY <1>3, <1>4, <1>5, <1>6

LEMMA OthersPop ==
    ASSUME MountInv, Unmount(Target), NoteForeign(Target)
    PROVE  /\ Table' /\ Others(Target) /\ mishaps \subseteq mishaps'
           /\ "session" \notin mishaps' => Len(mounts'[Target]) <= 1 /\ (OwnTarget' <=> OwnTarget)
           /\ \A i \in DOMAIN mounts'[Target] :
                 i \in DOMAIN mounts[Target] /\ mounts'[Target][i] = mounts[Target][i]
           /\ mishaps' \subseteq mishaps \cup {"session"}
  <1>1. Target \in Points /\ Table
    BY TableTyped DEF MountInv, Points
  <1>2. Mounted(Target) /\ mounts' = [mounts EXCEPT ![Target] = Front(@)]
    BY DEF Unmount
  <1>3. /\ Table' /\ Others(Target)
        /\ Len(mounts[Target]) \in Nat \ {0} /\ Len(mounts'[Target]) = Len(mounts[Target]) - 1
        /\ DOMAIN mounts[Target] = 1 .. Len(mounts[Target])
        /\ DOMAIN mounts'[Target] = 1 .. Len(mounts[Target]) - 1
        /\ \A i \in 1 .. Len(mounts[Target]) - 1 : mounts'[Target][i] = mounts[Target][i]
    BY <1>1, <1>2, Popped
  <1>4. /\ mishaps \subseteq mishaps' /\ mishaps' \subseteq mishaps \cup {"session"}
        /\ mounts[Target][Len(mounts[Target])].by = "session" => "session" \in mishaps'
    BY DEF NoteForeign, Note, Last
  <1>5. ASSUME "session" \notin mishaps'
        PROVE  Len(mounts'[Target]) <= 1 /\ (OwnTarget' <=> OwnTarget)
    <2> DEFINE n == Len(mounts[Target])
    <2>1. n = 1
      <3>1. n <= 1
        BY <1>4, <1>5 DEF MountInv, SessionKept
      <3>2. n \in Nat \ {0}
        BY <1>3
      <3> HIDE DEF n
      <3> QED BY <3>1, <3>2
    <2>2. DOMAIN mounts[Target] = {1} /\ DOMAIN mounts'[Target] = {}
          /\ mounts[Target][1].by # "session"
      BY <1>3, <1>4, <1>5, <2>1
    <2> QED BY <1>3, <2>1, <2>2 DEF OwnTarget
  <1>6. \A i \in DOMAIN mounts'[Target] :
           i \in DOMAIN mounts[Target] /\ mounts'[Target][i] = mounts[Target][i]
    BY <1>3
  <1> QED BY <1>3, <1>4, <1>5, <1>6

-----------------------------------------------------------------------------
(* S06toolkit *)

\* Everything but the boot's own variables and the mount table stays.
Beside == UNCHANGED <<card, content, image, edits, pc, sh, session, commands>>

LEMMA BesideFacts ==
    ASSUME MountInv, Beside
    PROVE  ShellKept' /\ HashTaken'
  BY HashParts DEF MountInv, Beside, ShellKept, HashTaken

\* A step of a run of start, to the record j.
LEMMA JobStep ==
    ASSUME MountInv, Beside, NEW k \in Waiting, NEW j \in Job,
           job' = [job EXCEPT ![k] = j], front' \in Jobs \cup {0}, halting' = halting,
           j.pc # "off", j.seen <= edits,
           j.pc \in {"target", "mount_target"} /\ j.seen = edits =>
              content.recorded \in {None, image},
           j.pc = "mount_work" => ~Mounted(Work)',
           mishaps \subseteq mishaps', mishaps' \subseteq mishaps \cup {"session"},
           Table', mounts'[Storage] = mounts[Storage],
           \/ mounts'[Work] = mounts[Work]
           \/ job[k].pc = "mount_work" /\ Len(mounts'[Work]) = Len(mounts[Work]) + 1,
           "session" \notin mishaps' /\ Len(mounts[Target]) <= 1 =>
              Len(mounts'[Target]) <= 1 /\ (OwnTarget' <=> OwnTarget),
           \A i \in DOMAIN mounts'[Target] :
              \/ i \in DOMAIN mounts[Target] /\ mounts'[Target][i] = mounts[Target][i]
              \/ Honest(mounts'[Target][i])
    PROVE  MountInv'
  <1>1. k \in Jobs /\ job \in [Jobs -> Job] /\ job[k].pc \notin {"off", "done"}
    BY DEF Waiting, MountInv, TypeOK
  <1>2. job' \in [Jobs -> Job] /\ job'[k] = j /\ \A l \in Jobs : l # k => job'[l] = job[l]
    BY <1>1
  <1>3. TypeOK'
    BY <1>2 DEF MountInv, TypeOK, Table, Placing, Beside
  <1>4. SessionKept'
    BY SessionApart, LeftKept DEF MountInv, SessionKept, Mounted, Beside
  <1>5. HashKept'
    <2>1. HashesTaken'
      <3>1. HashesTaken
        BY HashParts DEF MountInv
      <3> QED BY <1>2, <3>1 DEF HashesTaken, Beside
    <2> QED BY <2>1, BesideFacts, HashStep DEF Beside
  <1>6. Waiting' \subseteq Waiting
    BY <1>2 DEF Waiting
  <1>7. BootKept'
    <2> SUFFICES ASSUME "overlap" \notin mishaps
                 PROVE  /\ \A i, l \in Waiting' : i = l
                        /\ halting # None => Waiting' = {}
                        /\ \A l \in Jobs : job'[l].pc = "mount_work" => ~Mounted(Work)'
      BY DEF BootKept
    <2>1. /\ \A i, l \in Waiting : i = l
          /\ halting # None => Waiting = {}
      BY DEF MountInv, BootKept
    <2>2. ASSUME NEW l \in Jobs, job'[l].pc = "mount_work" PROVE ~Mounted(Work)'
      <3>1. l \in Waiting'
        BY <2>2 DEF Waiting
      <3>2. l = k
        BY <1>6, <2>1, <3>1
      <3> QED BY <1>2, <2>2, <3>2
    <2> QED BY <1>6, <2>1, <2>2
  <1>8. WorkspaceOnce'
    <2> SUFFICES ASSUME "overlap" \notin mishaps PROVE Len(mounts'[Work]) <= 1
      BY DEF WorkspaceOnce
    <2>1. CASE mounts'[Work] = mounts[Work]
      BY <2>1 DEF MountInv, WorkspaceOnce
    <2>2. CASE job[k].pc = "mount_work" /\ Len(mounts'[Work]) = Len(mounts[Work]) + 1
      <3>1. ~Mounted(Work)
        BY <1>1, <2>2 DEF MountInv, BootKept
      <3>2. Len(mounts[Work]) = 0
        BY <3>1 DEF Mounted
      <3> QED BY <2>2, <3>2
    <2> QED BY <2>1, <2>2
  <1> QED BY <1>3, <1>4, <1>5, <1>7, <1>8, BesideFacts DEF MountInv

\* A step of a run of start that leaves the mount table alone.
LEMMA JobLooks ==
    ASSUME MountInv, Beside, UNCHANGED <<mounts, halting, mishaps>>,
           NEW k \in Waiting, NEW j \in Job,
           job' = [job EXCEPT ![k] = j], front' \in Jobs \cup {0},
           j.pc # "off", j.seen <= edits,
           j.pc \in {"target", "mount_target"} /\ j.seen = edits =>
              content.recorded \in {None, image},
           j.pc = "mount_work" => ~Mounted(Work)
    PROVE  MountInv'
  <1>1. Table'
    BY TableTyped DEF MountInv, Table
  <1>2. OwnTarget' <=> OwnTarget
    BY DEF OwnTarget
  <1> QED BY <1>1, <1>2, JobStep DEF Mounted

\* The record of a run after it went on to another label, looked, or ended.
LEMMA JobFields ==
    ASSUME MountInv, NEW k \in Jobs, NEW label \in JobLabels, NEW looks \in 0 .. WaitRounds,
           NEW seen \in Nat, NEW j, j = [pc |-> label, looks |-> looks, seen |-> seen]
    PROVE  /\ j \in Job /\ j.pc = label /\ j.looks = looks /\ j.seen = seen
           /\ job \in [Jobs -> Job]
           /\ job[k] = [pc |-> job[k].pc, looks |-> job[k].looks, seen |-> job[k].seen]
           /\ job[k].pc \in JobLabels /\ job[k].looks \in 0 .. WaitRounds /\ job[k].seen \in Nat
           /\ job[k].seen <= edits
           /\ job[k].pc \in {"target", "mount_target"} /\ job[k].seen = edits =>
                 content.recorded \in {None, image}
           /\ 0 \in 0 .. WaitRounds /\ 0 <= edits
  <1>1. job \in [Jobs -> Job] /\ edits \in Nat /\ WaitRounds \in Nat
    BY ToolkitAssumption DEF MountInv, TypeOK
  <1>2. HashesTaken
    BY HashParts DEF MountInv
  <1>3. j \in Job /\ j.pc = label /\ j.looks = looks /\ j.seen = seen
    BY DEF Job
  <1>4. job[k] \in Job
    BY <1>1
  <1> QED BY <1>1, <1>2, <1>3, <1>4 DEF Job, HashesTaken

\* The run goes on to a label; what it saw stays.
LEMMA JobGoes ==
    ASSUME MountInv, NEW k \in Waiting, NEW label \in JobLabels, Step(k, label)
    PROVE  \E j \in Job : /\ job' = [job EXCEPT ![k] = j]
                          /\ j.pc = label /\ j.seen = job[k].seen /\ j.seen <= edits
  <1> DEFINE j == [pc |-> label, looks |-> job[k].looks, seen |-> job[k].seen]
  <1>1. k \in Jobs
    BY DEF Waiting
  <1>2. job \in [Jobs -> Job] /\ job[k].looks \in 0 .. WaitRounds /\ job[k].seen \in Nat
    BY <1>1 DEF MountInv, TypeOK, Job
  <1>3. /\ j \in Job /\ j.pc = label /\ j.seen = job[k].seen /\ job[k].seen <= edits
        /\ job[k] = [pc |-> job[k].pc, looks |-> job[k].looks, seen |-> job[k].seen]
    BY <1>1, <1>2, JobFields
  <1>4. [job[k] EXCEPT !.pc = label] = j
    BY <1>3
  <1>5. job' = [job EXCEPT ![k] = [job[k] EXCEPT !.pc = label]]
    BY <1>1, <1>2 DEF Step
  <1> QED BY <1>3, <1>4, <1>5

\* The run ends.
LEMMA JobEnds ==
    ASSUME MountInv, NEW k \in Waiting, Finish(k)
    PROVE  /\ \E j \in Job : /\ job' = [job EXCEPT ![k] = j]
                             /\ j.pc = "done" /\ j.seen <= edits
           /\ front' \in Jobs \cup {0}
  <1> DEFINE j == [pc |-> "done", looks |-> 0, seen |-> 0]
  <1>1. k \in Jobs /\ "done" \in JobLabels /\ 0 \in Nat /\ 0 \in 0 .. WaitRounds
    BY ToolkitAssumption DEF Waiting, JobLabels
  <1>2. j \in Job /\ j.pc = "done" /\ j.seen = 0 /\ 0 <= edits
    BY <1>1, NumberFacts DEF Job, MountInv
  <1>3. job' = [job EXCEPT ![k] = j]
    BY DEF Finish
  <1>4. front' \in Jobs \cup {0}
    BY DEF Finish, MountInv, TypeOK
  <1> QED BY <1>2, <1>3, <1>4

LEMMA LookSteps ==
    ASSUME MountInv, NEW k \in Jobs,
           FindCard(k) \/ BootCheckCard(k) \/ BootHash(k) \/ BootCheckTarget(k) \/ BootCheckWork(k)
    PROVE  MountInv'
  <1>1. k \in Waiting /\ Beside /\ UNCHANGED <<mounts, halting, mishaps>>
    BY DEF FindCard, BootCheckCard, BootHash, BootCheckTarget, BootCheckWork, Waiting, Beside,
           disk, shell
  <1>2. job \in [Jobs -> Job] /\ front \in Jobs \cup {0} /\ edits \in Nat /\ WaitRounds \in Nat
        /\ job[k] \in Job
    BY ToolkitAssumption DEF MountInv, TypeOK
  <1>3. {"find", "card", "hash", "mount_card", "target", "mount_target", "work", "mount_work"}
           \subseteq JobLabels
    BY DEF JobLabels
  <1>4. ASSUME Finish(k) PROVE MountInv'
    BY <1>1, <1>4, JobEnds, JobLooks
  <1>5. ASSUME NEW label \in JobLabels, Step(k, label), UNCHANGED front,
               label \notin {"off", "target"}, label = "mount_target" => job[k].pc = "target",
               label = "mount_work" => ~Mounted(Work)
        PROVE  MountInv'
    <2>1. PICK j \in Job : /\ job' = [job EXCEPT ![k] = j]
                           /\ j.pc = label /\ j.seen = job[k].seen /\ j.seen <= edits
      BY <1>1, <1>5, JobGoes
    <2>2. job[k].pc \in {"target", "mount_target"} /\ job[k].seen = edits =>
             content.recorded \in {None, image}
      BY HashParts DEF MountInv, HashesTaken
    <2> QED BY <1>1, <1>2, <1>5, <2>1, <2>2, JobLooks
  <1>6. CASE BootCheckCard(k)
    BY <1>3, <1>5, <1>6 DEF BootCheckCard
  <1>7. CASE BootCheckTarget(k)
    BY <1>3, <1>5, <1>7 DEF BootCheckTarget
  <1>8. CASE BootCheckWork(k)
    BY <1>3, <1>4, <1>5, <1>8 DEF BootCheckWork, WorkFree
  <1>9. CASE BootHash(k)
    <2> DEFINE label == IF Visible(Card) /\ BootVerified THEN "target" ELSE "work"
    <2>1. label \in JobLabels /\ (label = "target" => content.recorded \in {None, image})
          /\ label \notin {"off", "mount_target", "mount_work"}
      BY <1>3 DEF BootVerified
    <2>2. job' = [job EXCEPT ![k] = [job[k] EXCEPT !.pc = label, !.seen = edits]]
      BY <1>2, <1>9 DEF BootHash
    <2> HIDE DEF label
    <2>j. PICK j : j = [job[k] EXCEPT !.pc = label, !.seen = edits]
      OBVIOUS
    <2>3. j \in Job /\ j.pc = label /\ j.seen = edits
      BY <1>2, <2>1, <2>j DEF Job
    <2>4. job' = [job EXCEPT ![k] = j]
      BY <2>2, <2>j
    <2>5. front' \in Jobs \cup {0} /\ edits <= edits
      BY <1>2, <1>9 DEF BootHash
    <2> QED BY <1>1, <2>1, <2>3, <2>4, <2>5, JobLooks
  <1>10. CASE FindCard(k)
    <2>1. job[k].pc = "find"
      BY <1>10 DEF FindCard
    <2>2. ASSUME NEW label \in {"find", "card"}, NEW n \in 0 .. WaitRounds,
                 job' = [job EXCEPT ![k] = [job[k] EXCEPT !.pc = label, !.looks = n]],
                 front' \in Jobs \cup {0}
          PROVE  MountInv'
      <3>0. PICK j : j = [job[k] EXCEPT !.pc = label, !.looks = n]
        OBVIOUS
      <3>1. label \in JobLabels
        BY <1>3
      <3>2. j \in Job /\ j.pc = label /\ j.seen = job[k].seen
        BY <1>2, <3>0, <3>1 DEF Job
      <3>3. job' = [job EXCEPT ![k] = j]
        BY <2>2, <3>0
      <3>4. job[k].seen <= edits
        BY HashParts DEF MountInv, HashesTaken
      <3> QED BY <1>1, <2>2, <3>1, <3>2, <3>3, <3>4, JobLooks
    <2>3. CASE job' = [job EXCEPT ![k].pc = "card", ![k].looks = 0] /\ UNCHANGED front
      <3>1. job' = [job EXCEPT ![k] = [job[k] EXCEPT !.pc = "card", !.looks = 0]]
        BY <1>2, <2>3
      <3>2. 0 \in 0 .. WaitRounds /\ front' \in Jobs \cup {0}
        BY <1>2, <2>3
      <3> QED BY <2>2, <3>1, <3>2
    <2>4. CASE front' = 0 /\ UNCHANGED job
      <3>1. [job[k] EXCEPT !.pc = "find", !.looks = job[k].looks] = job[k]
        BY <1>2, <2>1 DEF Job
      <3>2. job' = [job EXCEPT ![k] = [job[k] EXCEPT !.pc = "find", !.looks = job[k].looks]]
        BY <1>2, <2>4, <3>1
      <3>3. job[k].looks \in 0 .. WaitRounds
        BY <1>2 DEF Job
      <3> QED BY <2>2, <2>4, <3>2, <3>3
    <2>5. CASE Looked(k) /\ job[k].looks < WaitRounds /\ UNCHANGED front
      <3>1. job[k].looks + 1 \in 0 .. WaitRounds
        BY <1>2, <2>5 DEF Job
      <3>2. [job[k] EXCEPT !.looks = job[k].looks + 1]
               = [job[k] EXCEPT !.pc = "find", !.looks = job[k].looks + 1]
        BY <1>2, <2>1 DEF Job
      <3>3. job' = [job EXCEPT ![k] = [job[k] EXCEPT !.pc = "find", !.looks = job[k].looks + 1]]
        BY <1>2, <2>5, <3>2 DEF Looked
      <3> QED BY <1>2, <2>2, <2>5, <3>1, <3>3
    <2> QED BY <1>4, <1>10, <2>3, <2>4, <2>5 DEF FindCard
  <1> QED BY <1>6, <1>7, <1>8, <1>9, <1>10

\* The run mounts the card, where no session mounts.
LEMMA CardStep ==
    ASSUME MountInv, NEW k \in Jobs, BootMountCard(k)
    PROVE  MountInv'
  <1>1. k \in Waiting /\ Beside /\ halting' = halting /\ job[k].pc = "mount_card"
    BY DEF BootMountCard, Waiting, Beside, disk, shell
  <1>2. CASE Finish(k) /\ UNCHANGED <<mounts, mishaps>>
    BY <1>1, <1>2, JobEnds, JobLooks
  <1>3. CASE /\ MountAt(Card, [by |-> "boot", from |-> None, rw |-> TRUE, seen |-> 0])
             /\ Step(k, "hash") /\ UNCHANGED front
    <2> DEFINE m == [by |-> "boot", from |-> None, rw |-> TRUE, seen |-> 0]
    <2>1. m \in Mount /\ Placing(Card, m) /\ Card \in Points /\ Table
      BY TableTyped DEF Mount, Placing, Card, Target, Work, Points, MountInv
    <2>2. mounts' = [mounts EXCEPT ![Card] = Append(@, m)] /\ UNCHANGED mishaps
      BY <1>3 DEF MountAt, Card, Target
    <2> HIDE DEF m
    <2>3. Table' /\ Others(Card)
      BY <2>1, <2>2, Pushed
    <2>4. /\ mounts'[Storage] = mounts[Storage] /\ mounts'[Work] = mounts[Work]
          /\ mounts'[Target] = mounts[Target]
      BY <2>3 DEF Others, Points, Card, Storage, Target, Work
    <2>5. OwnTarget' <=> OwnTarget
      BY <2>4 DEF OwnTarget
    <2>6. PICK j \in Job : /\ job' = [job EXCEPT ![k] = j]
                           /\ j.pc = "hash" /\ j.seen = job[k].seen /\ j.seen <= edits
      BY <1>1, <1>3, JobGoes DEF JobLabels
    <2>7. front' \in Jobs \cup {0}
      BY <1>3 DEF MountInv, TypeOK
    <2> QED BY <1>1, <2>2, <2>3, <2>4, <2>5, <2>6, <2>7, JobStep
  <1> QED BY <1>2, <1>3 DEF BootMountCard

\* The run mounts the payload whose hash it took, or something in its place.
LEMMA TargetStep ==
    ASSUME MountInv, NEW k \in Jobs, BootMountTarget(k)
    PROVE  MountInv'
  <1>1. k \in Waiting /\ Beside /\ UNCHANGED <<halting, front>> /\ job[k].pc = "mount_target"
    BY DEF BootMountTarget, Waiting, Beside, disk, shell
  <1>2. job \in [Jobs -> Job] /\ job[k] \in Job /\ job[k].seen \in Nat /\ front \in Jobs \cup {0}
        /\ edits \in Nat
    BY NumberFacts DEF MountInv, TypeOK
  <1>3. PICK j : j = [job[k] EXCEPT !.pc = "work", !.seen = 0]
    OBVIOUS
  <1>4. j \in Job /\ j.pc = "work" /\ j.seen = 0 /\ 0 <= edits /\ front' \in Jobs \cup {0}
    <2>1. j \in Job /\ j.pc = "work" /\ j.seen = 0
      BY <1>2, <1>3 DEF Job, JobLabels
    <2> QED BY <1>1, <1>2, <2>1
  <1>5. job' = [job EXCEPT ![k] = j]
    BY <1>2, <1>3 DEF BootMountTarget
  <1>6. CASE UNCHANGED <<mounts, mishaps>>
    BY <1>1, <1>4, <1>5, <1>6, JobLooks
  <1>7. CASE MountAt(Target, [by |-> "boot", from |-> Card, rw |-> FALSE, seen |-> job[k].seen])
    <2> DEFINE m == [by |-> "boot", from |-> Card, rw |-> FALSE, seen |-> job[k].seen]
    <2>1. m \in Mount /\ Placing(Target, m) /\ m.by = "boot" /\ m.seen = job[k].seen
      BY <1>2 DEF Mount, Placing, Card, Target, Transports, None
    <2>2. Honest(m)
      BY <1>1, <2>1, HashParts DEF MountInv, HashesTaken, Honest
    <2> HIDE DEF m
    <2>3. /\ Table' /\ Others(Target) /\ mishaps \subseteq mishaps'
          /\ "session" \notin mishaps' => Len(mounts'[Target]) <= 1 /\ (OwnTarget' <=> OwnTarget)
          /\ \A i \in DOMAIN mounts'[Target] :
                \/ i \in DOMAIN mounts[Target] /\ mounts'[Target][i] = mounts[Target][i]
                \/ mounts'[Target][i] = m
          /\ mishaps' \subseteq mishaps \cup {"session"}
      BY <1>7, <2>1, OthersPush DEF m
    <2>4. mounts'[Storage] = mounts[Storage] /\ mounts'[Work] = mounts[Work]
      BY <2>3 DEF Others, Points, Card, Storage, Target, Work
    <2> QED BY <1>1, <1>4, <1>5, <2>2, <2>3, <2>4, JobStep
  <1> QED BY <1>6, <1>7 DEF BootMountTarget

\* The run mounts the workspace it found unmounted.
LEMMA WorkStep ==
    ASSUME MountInv, NEW k \in Jobs, BootMountWork(k)
    PROVE  MountInv'
  <1>1. k \in Waiting /\ Beside /\ halting' = halting /\ job[k].pc = "mount_work" /\ Finish(k)
    BY DEF BootMountWork, Waiting, Beside, disk, shell
  <1>2. CASE UNCHANGED <<mounts, mishaps>>
    BY <1>1, <1>2, JobEnds, JobLooks
  <1>3. CASE MountAt(Work, [by |-> "boot", from |-> Card, rw |-> TRUE, seen |-> 0])
    <2> DEFINE m == [by |-> "boot", from |-> Card, rw |-> TRUE, seen |-> 0]
    <2>1. m \in Mount /\ Placing(Work, m) /\ Work \in Points /\ Table
      BY TableTyped DEF Mount, Placing, Card, Target, Work, Points, MountInv, Transports, None
    <2>2. mounts' = [mounts EXCEPT ![Work] = Append(@, m)] /\ UNCHANGED mishaps
      BY <1>3 DEF MountAt, Work, Target
    <2> HIDE DEF m
    <2>3. Table' /\ Others(Work) /\ Len(mounts'[Work]) = Len(mounts[Work]) + 1
      BY <2>1, <2>2, Pushed
    <2>4. mounts'[Storage] = mounts[Storage] /\ mounts'[Target] = mounts[Target]
      BY <2>3 DEF Others, Points, Card, Storage, Target, Work
    <2>5. OwnTarget' <=> OwnTarget
      BY <2>4 DEF OwnTarget
    <2>6. PICK j \in Job : job' = [job EXCEPT ![k] = j] /\ j.pc = "done" /\ j.seen <= edits
      BY <1>1, JobEnds
    <2>7. front' \in Jobs \cup {0}
      BY <1>1, JobEnds
    <2> QED BY <1>1, <2>2, <2>3, <2>4, <2>5, <2>6, <2>7, JobStep
  <1> QED BY <1>2, <1>3 DEF BootMountWork

\* Starting a run, or a stop, notes that another run is out.
LEMMA StartStep ==
    ASSUME MountInv, NEW k \in Jobs, BootStart(k)
    PROVE  MountInv'
  <1>1. /\ Beside /\ UNCHANGED <<mounts, halting>> /\ halting = None /\ job[k].pc = "off"
        /\ front' = k /\ Step(k, "find") /\ mishaps \subseteq mishaps'
        /\ mishaps' \subseteq mishaps \cup {"overlap"}
        /\ Waiting # {} => "overlap" \in mishaps'
    BY DEF BootStart, Beside, disk, shell, NoteOverlap, Note
  <1>2. job \in [Jobs -> Job] /\ job[k] \in Job
    BY DEF MountInv, TypeOK
  <1>3. PICK j : j = [job[k] EXCEPT !.pc = "find"]
    OBVIOUS
  <1>4. j \in Job /\ j.pc = "find" /\ j.seen = job[k].seen
    BY <1>2, <1>3 DEF Job, JobLabels
  <1>5. job' = [job EXCEPT ![k] = j]
    BY <1>1, <1>2, <1>3 DEF Step
  <1>6. job' \in [Jobs -> Job] /\ job'[k] = j /\ \A l \in Jobs : l # k => job'[l] = job[l]
    BY <1>2, <1>4, <1>5
  <1>7. TypeOK'
    BY <1>1, <1>6 DEF MountInv, TypeOK, Beside
  <1>8. SessionKept'
    BY <1>1, LeftKept DEF MountInv, SessionKept, OwnTarget, Mounted, Beside
  <1>9. HashKept'
    <2>1. HashesTaken'
      <3>1. HashesTaken
        BY HashParts DEF MountInv
      <3> QED BY <1>1, <1>4, <1>6, <3>1 DEF HashesTaken, Beside
    <2> QED BY <1>1, <2>1, BesideFacts, HashStep DEF Beside
  <1>10. WorkspaceOnce'
    BY <1>1 DEF MountInv, WorkspaceOnce
  <1>11. BootKept'
    <2> SUFFICES ASSUME "overlap" \notin mishaps'
                 PROVE  /\ \A i, l \in Waiting' : i = l
                        /\ halting' = None
                        /\ \A l \in Jobs : job'[l].pc # "mount_work"
      BY DEF BootKept
    <2>1. Waiting = {}
      BY <1>1
    <2>2. \A l \in Jobs : l # k => job'[l].pc \in {"off", "done"}
      BY <1>6, <2>1 DEF Waiting
    <2> QED BY <1>1, <1>4, <1>6, <2>2 DEF Waiting
  <1> QED BY <1>1, <1>7, <1>8, <1>9, <1>10, <1>11, BesideFacts DEF MountInv

LEMMA StopCalled ==
    ASSUME MountInv, BootStop
    PROVE  MountInv'
  <1>1. /\ UNCHANGED <<card, content, image, edits, mounts, job, front, pc, sh, session>>
        /\ halting' = Work /\ commands < MaxCommands /\ commands' = commands + 1
        /\ mishaps \subseteq mishaps' /\ (Waiting # {} => "overlap" \in mishaps')
        /\ mishaps' \subseteq mishaps \cup {"overlap"}
    BY DEF BootStop, disk, NoteOverlap, Note
  <1>2. commands' \in 0 .. MaxCommands
    BY <1>1, ToolkitAssumption DEF MountInv, TypeOK
  <1>3. TypeOK'
    BY <1>1, <1>2 DEF MountInv, TypeOK
  <1>4. ShellKept' /\ SessionKept'
    BY <1>1 DEF MountInv, ShellKept, SessionKept, OwnTarget, Mounted, TransportLeft
  <1>5. HashKept'
    BY <1>1 DEF MountInv, HashKept, VerifiedPayload
  <1>6. WorkspaceOnce' /\ BootKept'
    BY <1>1 DEF MountInv, WorkspaceOnce, BootKept, Waiting, Mounted
  <1> QED BY <1>3, <1>4, <1>5, <1>6 DEF MountInv

\* umount of one point by stop.
LEMMA UnmountStep ==
    ASSUME MountInv, NEW p \in {Work, Target, Card}, NEW next \in {None, Target, Card},
           BootUnmount(p, next)
    PROVE  MountInv'
  <1>1. Beside /\ UNCHANGED <<job, front>> /\ halting = p /\ halting' = next /\ p # None
    BY DEF BootUnmount, Beside, disk, shell, Work, Target, Card, None
  <1>2. /\ Table' /\ mounts'[Storage] = mounts[Storage]
        /\ mishaps \subseteq mishaps' /\ mishaps' \subseteq mishaps \cup {"session"}
        /\ "session" \notin mishaps' /\ Len(mounts[Target]) <= 1 =>
              Len(mounts'[Target]) <= 1 /\ (OwnTarget' <=> OwnTarget)
        /\ \A i \in DOMAIN mounts'[Target] :
              i \in DOMAIN mounts[Target] /\ mounts'[Target][i] = mounts[Target][i]
        /\ mounts'[Work] = mounts[Work] \/ Len(mounts'[Work]) = Len(mounts[Work]) - 1
    <2>1. CASE UNCHANGED <<mounts, mishaps>>
      <3>1. Table'
        BY <2>1, TableTyped DEF MountInv, Table
      <3> QED BY <2>1, <3>1 DEF OwnTarget
    <2>2. CASE Unmount(p) /\ NoteForeign(p) /\ p = Target
      <3>1. /\ Table' /\ Others(Target) /\ mishaps \subseteq mishaps'
            /\ "session" \notin mishaps' => Len(mounts'[Target]) <= 1 /\ (OwnTarget' <=> OwnTarget)
            /\ \A i \in DOMAIN mounts'[Target] :
                  i \in DOMAIN mounts[Target] /\ mounts'[Target][i] = mounts[Target][i]
            /\ mishaps' \subseteq mishaps \cup {"session"}
        BY <2>2, OthersPop
      <3>2. mounts'[Storage] = mounts[Storage] /\ mounts'[Work] = mounts[Work]
        BY <3>1 DEF Others, Points, Card, Storage, Target, Work
      <3> QED BY <3>1, <3>2
    <2>3. CASE Unmount(p) /\ NoteForeign(p) /\ p # Target
      <3>1. p \in Points /\ p # Storage /\ Table
        BY <2>3, TableTyped DEF Points, MountInv, Work, Card, Target, Storage
      <3>2. Table' /\ Others(p) /\ Len(mounts'[p]) = Len(mounts[p]) - 1
        BY <2>3, <3>1, Popped DEF Unmount
      <3>3. mounts'[Storage] = mounts[Storage] /\ mounts'[Target] = mounts[Target]
        BY <2>3, <3>1, <3>2 DEF Others, Points
      <3>4. mounts'[Work] = mounts[Work] \/ Len(mounts'[Work]) = Len(mounts[Work]) - 1
        BY <3>2 DEF Others, Points
      <3>5. mishaps \subseteq mishaps' /\ mishaps' \subseteq mishaps \cup {"session"}
        BY <2>3 DEF NoteForeign, Note
      <3>6. OwnTarget' <=> OwnTarget
        BY <3>3 DEF OwnTarget
      <3> QED BY <3>2, <3>3, <3>4, <3>5, <3>6
    <2> QED BY <2>1, <2>2, <2>3 DEF BootUnmount
  <1>3. halting' \in {None, Work, Target, Card}
    BY <1>1
  <1>4. TypeOK'
    BY <1>1, <1>2, <1>3 DEF MountInv, TypeOK, Table, Placing, Beside
  <1>5. SessionKept'
    BY <1>1, <1>2, SessionApart, LeftKept DEF MountInv, SessionKept, Mounted, Beside
  <1>6. HashKept'
    <2>1. HashesTaken'
      <3>1. HashesTaken
        BY HashParts DEF MountInv
      <3> QED BY <1>1, <3>1 DEF HashesTaken, Beside
    <2> QED BY <1>1, <1>2, <2>1, BesideFacts, HashStep DEF Beside
  <1>7. BootKept'
    <2> SUFFICES ASSUME "overlap" \notin mishaps' PROVE Waiting' = {}
      BY DEF BootKept, Waiting
    <2> QED BY <1>1, <1>2 DEF MountInv, BootKept, Waiting
  <1>8. WorkspaceOnce'
    <2> SUFFICES ASSUME "overlap" \notin mishaps' PROVE Len(mounts'[Work]) <= 1
      BY DEF WorkspaceOnce
    <2>1. Len(mounts[Work]) <= 1
      BY <1>2 DEF MountInv, WorkspaceOnce
    <2>2. Len(mounts[Work]) \in Nat
      BY StackFacts DEF MountInv, TypeOK, Points
    <2> QED BY <1>2, <2>1, <2>2
  <1> QED BY <1>1, <1>4, <1>5, <1>6, <1>7, <1>8, BesideFacts DEF MountInv

-----------------------------------------------------------------------------
(* The commands at the shell *)

Around == UNCHANGED <<card, content, image, edits, job, front, halting>>

LEMMA AroundFacts ==
    ASSUME MountInv, Around
    PROVE  HashesTaken'
  BY HashParts DEF MountInv, Around, HashesTaken

\* A step of a command that leaves the mounts and the record alone.
LEMMA ShellStep ==
    ASSUME MountInv, Around, UNCHANGED <<mounts, session>>,
           commands' \in 0 .. MaxCommands, pc' \in ShellLabels, sh' \in Shell,
           mishaps \subseteq mishaps', ShellKept', HashTaken',
           pc' \in Stopping => session # NoSession,
           "session" \notin mishaps' =>
              /\ pc' \in Mounting => session = NoSession
              /\ pc' \in Placed <=> pc \in Placed
              /\ pc' = "unmount_transport" <=> pc = "unmount_transport"
              /\ sh.owned => sh'.owned \/ TransportLeft'
    PROVE  MountInv'
  <1>1. TypeOK'
    BY DEF MountInv, TypeOK, Around
  <1>2. Len(mounts[Storage]) <= 1
        /\ ("session" \notin mishaps => (Mounted(Storage) /\ ~TransportLeft => session.owned \/ sh.owned))
    BY DEF MountInv, SessionKept
  <1>3. (OwnTarget' <=> OwnTarget) /\ (Mounted(Storage)' <=> Mounted(Storage))
    BY DEF OwnTarget, Mounted
  <1>4. SessionKept'
    BY <1>2, <1>3, SessionApart, LeftKept
  <1>5. HashKept'
    BY AroundFacts, HashStep DEF Around
  <1>6. BootKept' /\ WorkspaceOnce'
    BY BootApart DEF Around
  <1> QED BY <1>1, <1>4, <1>5, <1>6 DEF MountInv

\* The end of a command parks the shell.
LEMMA EndFacts ==
    ASSUME MountInv, End, UNCHANGED edits
    PROVE  /\ pc' \in ShellLabels /\ sh' \in Shell /\ ShellKept' /\ HashTaken'
           /\ pc' = "idle" /\ sh' = Fresh /\ sh'.owned = FALSE
  <1>1. pc' = "idle" /\ sh' = Fresh /\ edits \in Nat
    BY NumberFacts DEF End, MountInv
  <1>2. ShellKept'
    BY <1>1, FreshFacts DEF ShellKept, Mounting, Stopping
  <1>3. HashTaken'
    BY <1>1, FreshFacts DEF HashTaken
  <1> QED BY <1>1, <1>2, <1>3, FreshFacts DEF ShellLabels

LEMMA EndStep ==
    ASSUME MountInv, Around, UNCHANGED <<mounts, session, commands>>, End,
           mishaps \subseteq mishaps',
           \/ "session" \in mishaps'
           \/ (sh.owned => TransportLeft') /\ pc \notin Placed /\ pc # "unmount_transport"
    PROVE  MountInv'
  <1>1. /\ pc' \in ShellLabels /\ sh' \in Shell /\ ShellKept' /\ HashTaken'
        /\ pc' = "idle" /\ sh' = Fresh /\ sh'.owned = FALSE
    BY EndFacts DEF Around
  <1>2. commands' \in 0 .. MaxCommands
    BY DEF MountInv, TypeOK
  <1>3. pc' \notin Stopping /\ pc' \notin Mounting /\ pc' \notin Placed /\ pc' # "unmount_transport"
    BY <1>1 DEF Stopping, Mounting, Placed
  <1> QED BY <1>1, <1>2, <1>3, ShellStep

LEMMA AbortStep ==
    ASSUME MountInv, Around, UNCHANGED <<mounts, session, commands>>, Abort \/ AlreadyMounted,
           pc \notin Placed, pc # "unmount_transport"
    PROVE  MountInv'
  <1>1. End /\ mishaps \subseteq mishaps' /\ (sh.owned => TransportLeft')
    BY DEF Abort, AlreadyMounted, Leave, Note, TransportLeft
  <1> QED BY <1>1, EndStep

\* A command is typed.
LEMMA TypedStep ==
    ASSUME MountInv,
           \/ \E rw \in BOOLEAN : SessionStart(rw)
           \/ SessionStop \/ ToolMount \/ ToolUnmountCall
    PROVE  MountInv'
  <1>1. ASSUME NEW command \in {"discover", "explicit", "stop", "tool_check", "tool_unmount"},
               Type(command), sh' \in Shell, ~sh'.owned, sh'.at = Storage, sh'.seen = 0,
               command \in {"stop", "tool_check", "tool_unmount"} => sh' = Fresh
        PROVE  MountInv'
    <2>1. /\ Around /\ UNCHANGED <<mounts, session, mishaps>>
          /\ pc = "idle" /\ pc' = command /\ commands < MaxCommands /\ commands' = commands + 1
      BY <1>1 DEF Type, Around, disk, boot
    <2>2. commands' \in 0 .. MaxCommands /\ edits \in Nat
      BY <2>1, ToolkitAssumption DEF MountInv, TypeOK
    <2>3. ~sh.owned
      BY <2>1, FreshFacts DEF MountInv, ShellKept
    <2>4. ShellKept'
      BY <1>1, <2>1 DEF ShellKept, Mounting, Stopping
    <2>5. HashTaken'
      BY <1>1, <2>1, <2>2 DEF HashTaken, Around
    <2>6. /\ pc' \in ShellLabels /\ pc' \notin Stopping /\ pc' \notin Mounting
          /\ pc' \notin Placed /\ pc \notin Placed
      BY <1>1, <2>1 DEF ShellLabels, Stopping, Mounting, Placed
    <2> QED BY <1>1, <2>1, <2>2, <2>3, <2>4, <2>5, <2>6, ShellStep
  <1>2. ASSUME NEW rw \in BOOLEAN, SessionStart(rw) PROVE MountInv'
    <2>1. sh' = [Fresh EXCEPT !.rw = rw]
      BY <1>2 DEF SessionStart
    <2>2. sh' \in Shell /\ ~sh'.owned /\ sh'.at = Storage /\ sh'.seen = 0
      BY <2>1, FreshFacts DEF Shell, Fresh
    <2> QED BY <1>1, <1>2, <2>2 DEF SessionStart
  <1>3. ASSUME NEW command \in {"stop", "tool_check", "tool_unmount"}, Type(command), UNCHANGED sh
        PROVE  MountInv'
    <2>1. sh' = Fresh
      BY <1>3 DEF Type, MountInv, ShellKept
    <2> QED BY <1>1, <1>3, <2>1, FreshFacts
  <1> QED BY <1>2, <1>3 DEF SessionStop, ToolMount, ToolUnmountCall

\* The looks of a command, with the shell variable each sets.
LEMMA ShellLooks ==
    ASSUME MountInv,
           Explicit \/ Discover \/ Payload \/ Verify \/ CheckTarget \/ Workspace \/ ToolCheck
           \/ Recheck
    PROVE  MountInv'
  <1>1. Around /\ UNCHANGED <<mounts, session, commands>>
    BY DEF Explicit, Discover, Payload, Verify, CheckTarget, Workspace, ToolCheck, Recheck,
           Around, disk, boot
  <1>2. /\ sh \in Shell /\ edits \in Nat /\ sh.seen \in Nat /\ sh.seen <= edits
        /\ commands' \in 0 .. MaxCommands /\ image \in Images /\ None \notin Images
        /\ sh.at \in Transports /\ sh.file \in Transports \cup {None} /\ sh.hash \in Images \cup {None}
    BY <1>1, NumberFacts, HashParts, ToolkitAssumption DEF MountInv, TypeOK, Shell, HashTaken
  <1>3. ASSUME NEW label \in ShellLabels \ (Stopping \cup Mounting \cup {"target"}), pc' = label,
               sh' \in Shell, sh'.seen <= edits, ShellKept', mishaps' = mishaps,
               sh'.owned = sh.owned, pc \notin Placed, pc # "unmount_transport"
        PROVE  MountInv'
    <2>1. HashTaken'
      BY <1>1, <1>3 DEF HashTaken, Around, Mounting
    <2>2. pc' \notin Placed /\ pc' # "unmount_transport" /\ pc' \in ShellLabels
      BY <1>3 DEF Mounting, Placed, Stopping
    <2> QED BY <1>1, <1>2, <1>3, <2>1, <2>2, ShellStep
  <1>4. CASE Explicit
    <2>1. CASE End /\ UNCHANGED mishaps
      BY <1>1, <1>4, <2>1, EndStep DEF Explicit, Placed, MountInv, ShellKept
    <2>2. ASSUME NEW p \in Transports, GoWith("remount", [sh EXCEPT !.file = p]) PROVE MountInv'
      <3>1. pc = "explicit" /\ pc' = "remount" /\ mishaps' = mishaps
            /\ sh' = [sh EXCEPT !.file = p]
        BY <1>4, <2>2 DEF Explicit, GoWith
      <3>2. sh' \in Shell /\ sh'.owned = sh.owned /\ sh'.seen = sh.seen /\ sh'.at = sh.at
            /\ sh'.file # None
        BY <1>2, <3>1, FreshFacts DEF Shell
      <3>3. ShellKept'
        BY <3>1, <3>2 DEF MountInv, ShellKept, Stopping, Mounting
      <3> QED BY <1>2, <1>3, <3>1, <3>2, <3>3 DEF ShellLabels, Stopping, Mounting, Placed
    <2> QED BY <1>4, <2>1, <2>2 DEF Explicit
  <1>5. CASE Discover
    <2>1. CASE End /\ UNCHANGED mishaps
      BY <1>1, <1>5, <2>1, EndStep DEF Discover, Placed, MountInv, ShellKept
    <2>2. CASE Go("mount_transport")
      <3>1. pc = "discover" /\ pc' = "mount_transport" /\ mishaps' = mishaps /\ sh' = sh
        BY <1>5, <2>2 DEF Discover, Go
      <3>2. ShellKept'
        BY <3>1 DEF MountInv, ShellKept, Stopping, Mounting
      <3> QED BY <1>2, <1>3, <3>1, <3>2 DEF ShellLabels, Stopping, Mounting, Placed
    <2>3. ASSUME NEW p \in Transports, GoWith("payload", [sh EXCEPT !.at = p]) PROVE MountInv'
      <3>1. pc = "discover" /\ pc' = "payload" /\ mishaps' = mishaps
            /\ sh' = [sh EXCEPT !.at = p]
        BY <1>5, <2>3 DEF Discover, GoWith
      <3>2. sh' \in Shell /\ sh'.owned = sh.owned /\ sh'.seen = sh.seen
        BY <1>2, <3>1 DEF Shell
      <3>3. ShellKept'
        BY <3>1, <3>2 DEF MountInv, ShellKept, Stopping, Mounting
      <3> QED BY <1>2, <1>3, <3>1, <3>2, <3>3 DEF ShellLabels, Stopping, Mounting, Placed
    <2> QED BY <1>5, <2>1, <2>2, <2>3 DEF Discover, Mountpoints
  <1>6. CASE Payload
    <2>1. CASE Abort
      BY <1>1, <1>6, <2>1, AbortStep DEF Payload, Placed
    <2>2. CASE GoWith("remount", [sh EXCEPT !.file = sh.at]) /\ UNCHANGED mishaps
      <3>1. pc = "payload" /\ pc' = "remount" /\ sh' = [sh EXCEPT !.file = sh.at]
        BY <1>6, <2>2 DEF Payload, GoWith
      <3>2. sh' \in Shell /\ sh'.owned = sh.owned /\ sh'.seen = sh.seen /\ sh'.at = sh.at
            /\ sh'.file # None
        BY <1>2, <3>1, FreshFacts DEF Shell
      <3>3. ShellKept'
        BY <3>1, <3>2 DEF MountInv, ShellKept, Stopping, Mounting
      <3> QED BY <1>2, <1>3, <2>2, <3>1, <3>2, <3>3 DEF ShellLabels, Stopping, Mounting, Placed
    <2> QED BY <1>6, <2>1, <2>2 DEF Payload
  <1>7. CASE Verify
    <2>1. CASE Abort
      BY <1>1, <1>7, <2>1, AbortStep DEF Verify, Placed
    <2>2. CASE Verified /\ GoWith("target", [sh EXCEPT !.hash = image, !.seen = edits])
               /\ UNCHANGED mishaps
      <3>1. pc = "verify" /\ pc' = "target" /\ sh' = [sh EXCEPT !.hash = image, !.seen = edits]
        BY <1>7, <2>2 DEF Verify, GoWith
      <3>2. sh' \in Shell /\ sh'.owned = sh.owned /\ sh'.seen = edits /\ sh'.at = sh.at
            /\ sh'.file = sh.file /\ sh'.hash # None
        BY <1>2, <3>1 DEF Shell
      <3>3. ShellKept'
        BY <3>1, <3>2 DEF MountInv, ShellKept, Stopping, Mounting
      <3>4. HashTaken'
        BY <1>1, <1>2, <2>2, <3>2 DEF HashTaken, Around, Verified
      <3>5. pc' \in ShellLabels /\ pc' \notin Stopping /\ pc' \notin Mounting /\ pc' \notin Placed
            /\ pc \notin Placed
        BY <3>1 DEF ShellLabels, Stopping, Mounting, Placed
      <3> QED BY <1>1, <1>2, <2>2, <3>1, <3>2, <3>3, <3>4, <3>5, ShellStep
    <2> QED BY <1>7, <2>1, <2>2 DEF Verify
  <1>8. CASE CheckTarget
    <2>1. CASE AlreadyMounted
      BY <1>1, <1>8, <2>1, AbortStep DEF CheckTarget, Placed
    <2>2. CASE ~Mounted(Target) /\ Go("mount_target") /\ UNCHANGED mishaps
      <3>1. pc = "target" /\ pc' = "mount_target" /\ sh' = sh
        BY <1>8, <2>2 DEF CheckTarget, Go
      <3>2. ShellKept'
        BY <3>1 DEF MountInv, ShellKept, Stopping, Mounting
      <3>3. HashTaken'
        BY <1>1, <3>1, HashParts DEF MountInv, HashTaken, Around
      <3>4. ~OwnTarget
        BY <2>2 DEF Mounted, OwnTarget
      <3>5. "session" \notin mishaps => session = NoSession
        BY <3>1, <3>4 DEF MountInv, SessionKept
      <3>6. pc' \in ShellLabels /\ pc' \notin Stopping /\ pc' \notin Placed /\ pc \notin Placed
        BY <3>1 DEF ShellLabels, Stopping, Placed
      <3> QED BY <1>1, <1>2, <2>2, <3>1, <3>2, <3>3, <3>5, <3>6, ShellStep
    <2> QED BY <1>8, <2>1, <2>2 DEF CheckTarget
  <1>9. CASE Workspace
    <2>1. CASE End /\ Note("session")
      BY <1>1, <2>1, EndStep DEF Note
    <2>2. CASE Go("record") /\ UNCHANGED mishaps
      <3>1. pc = "workspace" /\ pc' = "record" /\ sh' = sh
        BY <1>9, <2>2 DEF Workspace, Go
      <3>2. ShellKept'
        BY <3>1 DEF MountInv, ShellKept, Stopping, Mounting
      <3>3. HashTaken'
        BY <1>1, <3>1, HashParts DEF MountInv, HashTaken, Around
      <3>4. "session" \notin mishaps => session = NoSession
        BY <3>1 DEF MountInv, SessionKept, Mounting
      <3>5. pc' \in ShellLabels /\ pc' \notin Stopping /\ pc' \in Placed /\ pc \in Placed
        BY <3>1 DEF ShellLabels, Stopping, Placed
      <3> QED BY <1>1, <1>2, <2>2, <3>1, <3>2, <3>3, <3>4, <3>5, ShellStep
    <2> QED BY <1>9, <2>1, <2>2 DEF Workspace
  <1>10. CASE ToolCheck
    <2>1. pc = "tool_check" /\ sh = Fresh /\ mishaps' = mishaps
      BY <1>10 DEF ToolCheck, MountInv, ShellKept
    <2>2. CASE End
      BY <1>1, <2>1, <2>2, EndStep, FreshFacts DEF Placed
    <2>3. ASSUME NEW p \in Transports, GoWith("tool_mount", [Fresh EXCEPT !.file = p])
          PROVE  MountInv'
      <3>1. pc' = "tool_mount" /\ sh' = [Fresh EXCEPT !.file = p]
        BY <2>3 DEF GoWith
      <3>2. sh' \in Shell /\ sh'.owned = FALSE /\ sh'.seen = 0 /\ sh'.at = Storage /\ sh'.file = p
            /\ p # None
        BY <3>1, FreshFacts DEF Shell, Fresh
      <3>3. ShellKept'
        BY <3>1, <3>2 DEF ShellKept, Stopping, Mounting
      <3> QED BY <1>2, <1>3, <2>1, <3>1, <3>2, <3>3, FreshFacts
              DEF ShellLabels, Stopping, Mounting, Placed
    <2> QED BY <1>10, <2>2, <2>3 DEF ToolCheck
  <1>11. CASE Recheck
    <2>1. pc = "recheck" /\ sh = Fresh /\ mishaps' = mishaps /\ session # NoSession
      BY <1>11 DEF Recheck, MountInv, ShellKept, SessionKept, Stopping
    <2>2. CASE End
      BY <1>1, <2>1, <2>2, EndStep, FreshFacts DEF Placed
    <2>3. CASE Go("unmount_target")
      <3>1. pc' = "unmount_target" /\ sh' = sh
        BY <2>3 DEF Go
      <3>2. ShellKept'
        BY <2>1, <3>1, FreshFacts DEF ShellKept, Stopping, Mounting
      <3>3. HashTaken'
        BY <1>1, <1>2, <3>1 DEF HashTaken, Around
      <3>4. pc' \in ShellLabels /\ pc' \notin Mounting /\ pc' \notin Placed /\ pc \notin Placed
        BY <2>1, <3>1 DEF ShellLabels, Mounting, Placed
      <3> QED BY <1>1, <1>2, <2>1, <3>1, <3>2, <3>3, <3>4, ShellStep
    <2> QED BY <1>11, <2>2, <2>3 DEF Recheck
  <1> QED BY <1>4, <1>5, <1>6, <1>7, <1>8, <1>9, <1>10, <1>11

\* A step of a command that mounts, unmounts or writes the record.
LEMMA TableStep ==
    ASSUME MountInv, Around, UNCHANGED commands, Table', mounts'[Work] = mounts[Work],
           pc' \in ShellLabels, sh' \in Shell, session' \in Session \cup {NoSession},
           mishaps \subseteq mishaps', ShellKept', HashTaken', SessionKept',
           \A i \in DOMAIN mounts'[Target] :
              \/ i \in DOMAIN mounts[Target] /\ mounts'[Target][i] = mounts[Target][i]
              \/ Honest(mounts'[Target][i])
    PROVE  MountInv'
  <1>1. TypeOK'
    BY DEF MountInv, TypeOK, Table, Placing, Around
  <1>2. HashKept'
    BY AroundFacts, HashStep DEF Around
  <1>3. BootKept' /\ WorkspaceOnce'
    BY BootApart DEF Around
  <1> QED BY <1>1, <1>2, <1>3 DEF MountInv

LEMMA TransportStep ==
    ASSUME MountInv, MountTransport
    PROVE  MountInv'
  <1>1. pc = "mount_transport" /\ Around /\ UNCHANGED <<session, commands>>
    BY DEF MountTransport, Around, disk, boot
  <1>2. CASE End /\ UNCHANGED <<mounts, mishaps>>
    BY <1>1, <1>2, EndStep DEF Placed, MountInv, ShellKept
  <1>3. CASE /\ ~Mounted(Storage)
             /\ MountAt(Storage, [by |-> "session", from |-> None, rw |-> sh.rw, seen |-> 0])
             /\ GoWith("payload", [sh EXCEPT !.owned = TRUE])
    <2>1. sh \in Shell /\ sh.rw \in BOOLEAN /\ sh.at = Storage /\ sh.seen <= edits
          /\ session \in Session \cup {NoSession}
      BY <1>1, HashParts DEF MountInv, TypeOK, Shell, ShellKept, HashTaken
    <2> DEFINE m == [by |-> "session", from |-> None, rw |-> sh.rw, seen |-> 0]
    <2>2. m \in Mount /\ Placing(Storage, m) /\ Storage \in Points /\ Table
      BY <2>1, TableTyped DEF Mount, Placing, Storage, Target, Work, Points, MountInv
    <2>3. mounts' = [mounts EXCEPT ![Storage] = Append(@, m)] /\ UNCHANGED mishaps
      BY <1>3 DEF MountAt, Storage, Target
    <2> HIDE DEF m
    <2>4. Table' /\ Others(Storage) /\ Len(mounts'[Storage]) = Len(mounts[Storage]) + 1
      BY <2>2, <2>3, Pushed
    <2>5. Len(mounts[Storage]) = 0
      BY <1>3 DEF Mounted
    <2>6. mounts'[Target] = mounts[Target] /\ mounts'[Work] = mounts[Work]
      BY <2>4 DEF Others, Points, Storage, Target, Work
    <2>7. pc' = "payload" /\ sh' = [sh EXCEPT !.owned = TRUE]
      BY <1>3 DEF GoWith
    <2>8. sh' \in Shell /\ sh'.owned = TRUE /\ sh'.at = Storage /\ sh'.seen = sh.seen
      BY <2>1, <2>7 DEF Shell
    <2>9. ShellKept'
      BY <2>7, <2>8 DEF ShellKept, Stopping, Mounting
    <2>10. HashTaken'
      BY <1>1, <2>1, <2>7, <2>8 DEF HashTaken, Around
    <2>11. SessionKept'
      <3>1. Len(mounts'[Storage]) <= 1
        BY <2>4, <2>5
      <3>2. OwnTarget' <=> OwnTarget
        BY <2>6 DEF OwnTarget
      <3>3. pc' \notin Stopping /\ pc' \notin Mounting /\ pc' \notin Placed /\ pc \notin Placed
        BY <1>1, <2>7 DEF Stopping, Mounting, Placed
      <3> QED BY <1>1, <2>3, <2>6, <2>7, <2>8, <3>1, <3>2, <3>3, SessionApart
    <2> QED BY <1>1, <2>1, <2>3, <2>4, <2>6, <2>7, <2>8, <2>9, <2>10, <2>11, TableStep
            DEF ShellLabels
  <1> QED BY <1>2, <1>3 DEF MountTransport

\* A stack whose top is remounted has its length and the places below.
LEMMA RemountFacts ==
    ASSUME NEW s \in Seq(Mount), s # <<>>, NEW r,
           r = Append(Front(s), [Last(s) EXCEPT !.rw = TRUE])
    PROVE  /\ r \in Seq(Mount) /\ Len(r) = Len(s) /\ r # <<>>
           /\ DOMAIN r = 1 .. Len(s)
           /\ \A i \in 1 .. Len(s) : r[i].from = s[i].from
  <1>1. /\ Front(s) \in Seq(Mount) /\ Len(s) \in Nat \ {0} /\ Len(Front(s)) = Len(s) - 1
        /\ \A i \in 1 .. Len(s) - 1 : Front(s)[i] = s[i]
    BY PopFacts
  <1>2. Last(s) = s[Len(s)] /\ Last(s) \in Mount
    BY StackFacts
  <1>3. PICK m : m = [Last(s) EXCEPT !.rw = TRUE]
    OBVIOUS
  <1>4. m \in Mount /\ m.from = Last(s).from
    BY <1>2, <1>3 DEF Mount
  <1>5. PICK f : f = Front(s)
    OBVIOUS
  <1>6. /\ r \in Seq(Mount) /\ r # <<>> /\ Len(r) = Len(f) + 1 /\ DOMAIN r = 1 .. Len(f) + 1
        /\ \A i \in 1 .. Len(f) : r[i] = f[i]
        /\ r[Len(f) + 1] = m
    BY <1>1, <1>3, <1>4, <1>5, PushFacts
  <1>7. Len(f) = Len(s) - 1 /\ Len(f) + 1 = Len(s)
    BY <1>1, <1>5
  <1>8. \A i \in 1 .. Len(s) : r[i].from = s[i].from
    <2> SUFFICES ASSUME NEW i \in 1 .. Len(s) PROVE r[i].from = s[i].from
      OBVIOUS
    <2>1. CASE i = Len(s)
      BY <1>2, <1>4, <1>6, <1>7, <2>1
    <2>2. CASE i # Len(s)
      <3>1. i \in 1 .. Len(s) - 1
        BY <1>1, <2>2
      <3>2. r[i] = f[i] /\ Front(s)[i] = s[i]
        BY <1>1, <1>6, <1>7, <3>1
      <3> QED BY <1>5, <3>2
    <2> QED BY <2>1, <2>2
  <1> QED BY <1>6, <1>7, <1>8

LEMMA RemountStep ==
    ASSUME MountInv, Remount
    PROVE  MountInv'
  <1>1. pc = "remount" /\ Around /\ UNCHANGED <<session, commands>>
    BY DEF Remount, Around, disk, boot
  <1>2. /\ sh \in Shell /\ sh.at \in Transports /\ sh.seen <= edits
        /\ session \in Session \cup {NoSession} /\ commands \in 0 .. MaxCommands
    BY HashParts DEF MountInv, TypeOK, Shell, HashTaken
  <1>3. CASE Abort /\ UNCHANGED mounts
    BY <1>1, <1>3, AbortStep DEF Placed
  <1>4. ASSUME Go("verify")
        PROVE  /\ ShellKept' /\ HashTaken' /\ pc' = "verify" /\ sh' = sh
               /\ pc' \in ShellLabels /\ pc' \notin Stopping /\ pc' \notin Mounting
               /\ pc' \notin Placed /\ pc \notin Placed
    <2>1. pc' = "verify" /\ sh' = sh
      BY <1>4 DEF Go
    <2>2. ShellKept'
      BY <1>1, <2>1 DEF MountInv, ShellKept, Stopping, Mounting
    <2>3. HashTaken'
      BY <1>1, <1>2, <2>1 DEF HashTaken, Around
    <2> QED BY <1>1, <2>1, <2>2, <2>3 DEF ShellLabels, Stopping, Mounting, Placed
  <1>5. CASE Go("verify") /\ UNCHANGED <<mounts, mishaps>>
    BY <1>1, <1>2, <1>4, <1>5, ShellStep
  <1>6. CASE /\ Mounted(sh.at)
             /\ mounts' = [mounts EXCEPT ![sh.at] =
                              Append(Front(@), [Last(@) EXCEPT !.rw = TRUE])]
             /\ Go("verify") /\ UNCHANGED mishaps
    <2>1. Table /\ mounts \in [Points -> Seq(Mount)] /\ sh.at \in Points
          /\ sh.at # Target /\ sh.at # Work
      BY <1>2, TableTyped DEF MountInv, Table, Transports, Points, Card, Storage, Target, Work
    <2>2. PICK s : s = mounts[sh.at]
      OBVIOUS
    <2>3. PICK r : r = Append(Front(s), [Last(s) EXCEPT !.rw = TRUE])
      OBVIOUS
    <2>4. /\ r \in Seq(Mount) /\ Len(r) = Len(s) /\ r # <<>> /\ s # <<>>
          /\ DOMAIN r = 1 .. Len(s) /\ DOMAIN s = 1 .. Len(s)
          /\ \A i \in 1 .. Len(s) : r[i].from = s[i].from
      <3>1. s \in Seq(Mount) /\ s # <<>>
        BY <1>6, <2>1, <2>2 DEF Mounted
      <3>2. /\ r \in Seq(Mount) /\ Len(r) = Len(s) /\ r # <<>>
            /\ DOMAIN r = 1 .. Len(s)
            /\ \A i \in 1 .. Len(s) : r[i].from = s[i].from
        BY <2>3, <3>1, RemountFacts
      <3>3. DOMAIN s = 1 .. Len(s)
        BY <3>1, StackFacts
      <3> QED BY <3>1, <3>2, <3>3
    <2>5. mounts' = [mounts EXCEPT ![sh.at] = r]
      BY <1>6, <2>2, <2>3
    <2>6. /\ mounts' \in [Points -> Seq(Mount)] /\ mounts'[sh.at] = r /\ Others(sh.at)
      BY <2>1, <2>4, <2>5 DEF Others
    <2>7. Table'
      <3> SUFFICES ASSUME NEW q \in Points, NEW i \in DOMAIN mounts'[q]
                   PROVE  Placing(q, mounts'[q][i])
        BY <2>6 DEF Table, Placing
      <3>1. CASE q # sh.at
        BY <2>1, <2>6, <3>1 DEF Others, Table
      <3>2. CASE q = sh.at
        <4>1. i \in DOMAIN s /\ mounts'[q][i].from = s[i].from
          BY <2>4, <2>6, <3>2
        <4> QED BY <2>1, <2>2, <3>2, <4>1 DEF Table, Placing
      <3> QED BY <3>1, <3>2
    <2>8. mounts'[Target] = mounts[Target] /\ mounts'[Work] = mounts[Work]
      BY <2>1, <2>6 DEF Others, Points
    <2>9. Len(mounts'[Storage]) = Len(mounts[Storage]) /\ (Mounted(Storage)' => Mounted(Storage))
      <3>1. CASE sh.at = Storage
        BY <2>2, <2>4, <2>6, <3>1 DEF Mounted
      <3>2. CASE sh.at # Storage
        BY <2>6, <3>2 DEF Others, Points, Mounted
      <3> QED BY <3>1, <3>2
    <2>10. OwnTarget' <=> OwnTarget
      BY <2>8 DEF OwnTarget
    <2>11. SessionKept'
      <3>1. Len(mounts'[Storage]) <= 1
            /\ ("session" \notin mishaps => (Mounted(Storage) /\ ~TransportLeft => session.owned \/ sh.owned))
        BY <2>9 DEF MountInv, SessionKept
      <3> QED BY <1>1, <1>4, <1>6, <2>8, <2>9, <2>10, <3>1, SessionApart, LeftKept
    <2> QED BY <1>1, <1>2, <1>4, <1>6, <2>7, <2>8, <2>11, TableStep
  <1> QED BY <1>3, <1>5, <1>6 DEF Remount

\* The session mounts the payload it has verified.
LEMMA TargetMounted ==
    ASSUME MountInv, MountTarget
    PROVE  MountInv'
  <1>1. pc = "mount_target" /\ Around /\ UNCHANGED <<session, commands>>
    BY DEF MountTarget, Around, disk, boot
  <1>2. CASE Abort /\ UNCHANGED mounts
    BY <1>1, <1>2, AbortStep DEF Placed
  <1>3. CASE /\ MountAt(Target, [by |-> "session", from |-> sh.file, rw |-> FALSE,
                                 seen |-> sh.seen])
             /\ Go("recognize")
    <2>1. /\ sh \in Shell /\ sh.seen \in Nat /\ sh.seen <= edits /\ sh.file \in Transports
          /\ session \in Session \cup {NoSession}
      BY <1>1, NumberFacts, HashParts
         DEF MountInv, TypeOK, Shell, ShellKept, HashTaken, Mounting
    <2> DEFINE m == [by |-> "session", from |-> sh.file, rw |-> FALSE, seen |-> sh.seen]
    <2>2. m \in Mount /\ Placing(Target, m) /\ m.by = "session" /\ m.seen = sh.seen
      BY <2>1, FreshFacts DEF Mount, Placing
    <2>3. Honest(m)
      BY <1>1, <2>1, <2>2, HashParts DEF MountInv, HashTaken, Honest
    <2>4. mounts' = [mounts EXCEPT ![Target] = Append(@, m)]
      BY <1>3 DEF MountAt
    <2>5. mishaps \subseteq mishaps' /\ (Mounted(Target) => "session" \in mishaps')
      BY <1>3 DEF MountAt, Note
    <2>6. Target \in Points /\ Table
      BY TableTyped DEF MountInv, Points
    <2> HIDE DEF m
    <2>7. /\ Table' /\ Others(Target)
          /\ Len(mounts[Target]) \in Nat /\ Len(mounts'[Target]) = Len(mounts[Target]) + 1
          /\ DOMAIN mounts[Target] = 1 .. Len(mounts[Target])
          /\ DOMAIN mounts'[Target] = 1 .. Len(mounts[Target]) + 1
          /\ \A i \in 1 .. Len(mounts[Target]) : mounts'[Target][i] = mounts[Target][i]
          /\ mounts'[Target][Len(mounts[Target]) + 1] = m
      BY <2>2, <2>4, <2>6, Pushed
    <2>8. mounts'[Storage] = mounts[Storage] /\ mounts'[Work] = mounts[Work]
      BY <2>7 DEF Others, Points, Storage, Target, Work
    <2>9. \A i \in DOMAIN mounts'[Target] :
             \/ i \in DOMAIN mounts[Target] /\ mounts'[Target][i] = mounts[Target][i]
             \/ Honest(mounts'[Target][i])
      <3> SUFFICES ASSUME NEW i \in 1 .. Len(mounts[Target]) + 1, i \notin 1 .. Len(mounts[Target])
                   PROVE  Honest(mounts'[Target][i])
        BY <2>7
      <3>1. i = Len(mounts[Target]) + 1
        BY <2>7
      <3> QED BY <2>3, <2>7, <3>1
    <2>10. pc' = "recognize" /\ sh' = sh
      BY <1>3 DEF Go
    <2>11. ShellKept'
      BY <1>1, <2>10 DEF MountInv, ShellKept, Stopping, Mounting
    <2>12. HashTaken'
      BY <1>1, <2>1, <2>10 DEF HashTaken, Around
    <2>13. SessionKept'
      <3>1. pc' \notin Stopping /\ pc' \in Placed /\ pc' # "unmount_transport"
        BY <2>10 DEF Stopping, Placed
      <3>2. Len(mounts'[Storage]) <= 1 /\ (session.owned => session.at = Storage)
        BY <2>8 DEF MountInv, SessionKept
      <3>3. ASSUME "session" \notin mishaps'
            PROVE  /\ Len(mounts'[Target]) <= 1 /\ OwnTarget'
                   /\ session = NoSession
                   /\ (Mounted(Storage)' /\ ~TransportLeft' => session.owned \/ sh.owned)
        <4>1. ~Mounted(Target) /\ "session" \notin mishaps
          BY <2>5, <3>3
        <4>2. Len(mounts[Target]) = 0
          BY <4>1 DEF Mounted
        <4>3. Len(mounts'[Target]) <= 1 /\ DOMAIN mounts'[Target] = {1} /\ mounts'[Target][1] = m
          BY <2>7, <4>2
        <4>4. OwnTarget'
          BY <2>2, <4>3 DEF OwnTarget
        <4>5. session = NoSession
          BY <1>1, <4>1 DEF MountInv, SessionKept, Mounting
        <4>6. Mounted(Storage)' /\ ~TransportLeft' => session.owned \/ sh.owned
          BY <2>5, <2>8, <4>1, LeftKept DEF MountInv, SessionKept, Mounted
        <4> QED BY <4>3, <4>4, <4>5, <4>6
      <3> QED BY <1>1, <2>10, <3>1, <3>2, <3>3 DEF SessionKept
    <2> QED BY <1>1, <2>1, <2>5, <2>7, <2>8, <2>9, <2>10, <2>11, <2>12, <2>13, TableStep
            DEF ShellLabels
  <1> QED BY <1>2, <1>3 DEF MountTarget

\* A command that ends with a change of the table or of the record.
LEMMA EndTable ==
    ASSUME MountInv, Around, UNCHANGED commands, End, Table', mounts'[Work] = mounts[Work],
           session' \in Session \cup {NoSession}, mishaps \subseteq mishaps', SessionKept',
           \A i \in DOMAIN mounts'[Target] :
              \/ i \in DOMAIN mounts[Target] /\ mounts'[Target][i] = mounts[Target][i]
              \/ Honest(mounts'[Target][i])
    PROVE  MountInv'
  <1>1. pc' \in ShellLabels /\ sh' \in Shell /\ ShellKept' /\ HashTaken'
    BY EndFacts DEF Around
  <1> QED BY <1>1, TableStep

\* The target with its top taken down.
LEMMA TargetPopped ==
    ASSUME MountInv, Unmount(Target)
    PROVE  /\ Table' /\ mounts'[Work] = mounts[Work] /\ mounts'[Storage] = mounts[Storage]
           /\ Len(mounts[Target]) <= 1 =>
                 Len(mounts'[Target]) = 0 /\ DOMAIN mounts'[Target] = {}
           /\ \A i \in DOMAIN mounts'[Target] :
                 i \in DOMAIN mounts[Target] /\ mounts'[Target][i] = mounts[Target][i]
  <1>1. Target \in Points /\ Table
    BY TableTyped DEF MountInv, Points
  <1>2. Mounted(Target) /\ mounts' = [mounts EXCEPT ![Target] = Front(@)]
    BY DEF Unmount
  <1>3. /\ Table' /\ Others(Target)
        /\ Len(mounts[Target]) \in Nat \ {0} /\ Len(mounts'[Target]) = Len(mounts[Target]) - 1
        /\ DOMAIN mounts[Target] = 1 .. Len(mounts[Target])
        /\ DOMAIN mounts'[Target] = 1 .. Len(mounts[Target]) - 1
        /\ \A i \in 1 .. Len(mounts[Target]) - 1 : mounts'[Target][i] = mounts[Target][i]
    BY <1>1, <1>2, Popped
  <1>4. mounts'[Storage] = mounts[Storage] /\ mounts'[Work] = mounts[Work]
    BY <1>3 DEF Others, Points, Card, Storage, Target, Work
  <1> DEFINE n == Len(mounts[Target])
  <1>5. n \in Nat \ {0} /\ Len(mounts'[Target]) = n - 1 /\ DOMAIN mounts'[Target] = 1 .. n - 1
    BY <1>3
  <1>6. ASSUME n <= 1 PROVE Len(mounts'[Target]) = 0 /\ DOMAIN mounts'[Target] = {}
    <2> HIDE DEF n
    <2>1. n = 1
      BY <1>5, <1>6
    <2> QED BY <1>5, <2>1
  <1>7. \A i \in DOMAIN mounts'[Target] :
           i \in DOMAIN mounts[Target] /\ mounts'[Target][i] = mounts[Target][i]
    BY <1>3
  <1> QED BY <1>3, <1>4, <1>6, <1>7

\* A payload that is not recognised is taken down again.
LEMMA RecognizeStep ==
    ASSUME MountInv, Recognize
    PROVE  MountInv'
  <1>1. pc = "recognize" /\ Around /\ UNCHANGED <<session, commands>>
    BY DEF Recognize, Around, disk, boot
  <1>2. sh \in Shell /\ commands \in 0 .. MaxCommands /\ session \in Session \cup {NoSession}
    BY DEF MountInv, TypeOK
  <1>3. CASE Go("workspace") /\ UNCHANGED <<mounts, mishaps>>
    <2>1. pc' = "workspace" /\ sh' = sh
      BY <1>3 DEF Go
    <2>2. ShellKept'
      BY <1>1, <2>1 DEF MountInv, ShellKept, Stopping, Mounting
    <2>3. HashTaken'
      BY <1>1, <2>1, HashParts DEF MountInv, HashTaken, Around
    <2>4. "session" \notin mishaps => session = NoSession
      BY <1>1 DEF MountInv, SessionKept, Mounting
    <2>5. pc' \in ShellLabels /\ pc' \notin Stopping /\ pc' \in Placed /\ pc \in Placed
      BY <1>1, <2>1 DEF ShellLabels, Stopping, Placed
    <2> QED BY <1>1, <1>2, <1>3, <2>1, <2>2, <2>3, <2>4, <2>5, ShellStep
  <1>4. CASE End /\ Note("session") /\ UNCHANGED mounts
    BY <1>1, <1>4, EndStep DEF Note
  <1>5. ASSUME Unmount(Target), End, mishaps \subseteq mishaps',
               "session" \notin mishaps' => (sh.owned => TransportLeft')
        PROVE  MountInv'
    <2>1. /\ Table' /\ mounts'[Work] = mounts[Work] /\ mounts'[Storage] = mounts[Storage]
          /\ Len(mounts[Target]) <= 1 =>
                Len(mounts'[Target]) = 0 /\ DOMAIN mounts'[Target] = {}
          /\ \A i \in DOMAIN mounts'[Target] :
                i \in DOMAIN mounts[Target] /\ mounts'[Target][i] = mounts[Target][i]
      BY <1>5, TargetPopped
    <2>2. /\ pc' \notin Stopping /\ pc' \notin Mounting /\ pc' \notin Placed
          /\ pc' # "unmount_transport" /\ pc \in Mounting
      BY <1>1, <1>5 DEF End, Stopping, Mounting, Placed
    <2>3. Len(mounts'[Storage]) <= 1 /\ (session.owned => session.at = Storage)
      BY <2>1 DEF MountInv, SessionKept
    <2>4. ASSUME "session" \notin mishaps'
          PROVE  /\ Len(mounts'[Target]) <= 1 /\ ~OwnTarget' /\ session = NoSession
                 /\ Mounted(Storage)' /\ ~TransportLeft' => session.owned
      <3>1. "session" \notin mishaps
        BY <1>5, <2>4
      <3>2. Len(mounts'[Target]) = 0 /\ DOMAIN mounts'[Target] = {} /\ session = NoSession
        BY <2>1, <2>2, <3>1 DEF MountInv, SessionKept
      <3>3. ~OwnTarget'
        BY <3>2 DEF OwnTarget
      <3>4. Mounted(Storage) /\ ~TransportLeft => session.owned \/ sh.owned
        BY <3>1 DEF MountInv, SessionKept
      <3>5. Mounted(Storage)' <=> Mounted(Storage)
        BY <2>1 DEF Mounted
      <3> QED BY <1>5, <2>4, <3>2, <3>3, <3>4, <3>5, LeftKept
    <2>5. SessionKept'
      BY <1>1, <2>2, <2>3, <2>4 DEF SessionKept
    <2> QED BY <1>1, <1>2, <1>5, <2>1, <2>5, EndTable
  <1>6. CASE Unmount(Target) /\ Abort
    <2>1. End /\ mishaps \subseteq mishaps' /\ (sh.owned => TransportLeft')
      BY <1>6 DEF Abort, Leave, Note, TransportLeft
    <2> QED BY <1>5, <1>6, <2>1
  <1>7. CASE Unmount(Target) /\ End /\ Note("session")
    BY <1>5, <1>7 DEF Note
  <1> QED BY <1>3, <1>4, <1>6, <1>7 DEF Recognize

\* The record names what the command has mounted.
LEMMA RecordStep ==
    ASSUME MountInv, Record
    PROVE  MountInv'
  <1>1. pc = "record" /\ Around /\ UNCHANGED <<mounts, commands>> /\ End
    BY DEF Record, Around, disk, boot
  <1>2. CASE Note("session") /\ UNCHANGED session
    BY <1>1, <1>2, EndStep DEF Note
  <1>3. CASE session' = Written /\ UNCHANGED mishaps
    <2>1. /\ sh \in Shell /\ sh.file # None /\ sh.hash # None
          /\ sh.owned => sh.at = Storage
      BY <1>1 DEF MountInv, TypeOK, ShellKept, Mounting
    <2>2. /\ session' \in Session /\ session'.owned = sh.owned /\ session'.at = sh.at
          /\ session' # NoSession
      BY <1>3, <2>1, FreshFacts DEF Written, Shell, Session
    <2>3. Table'
      BY <1>1, TableTyped DEF MountInv, Table
    <2>4. pc' = "idle" /\ pc' \notin Stopping /\ pc' \notin Mounting /\ pc' \notin Placed
      BY <1>1 DEF End, Stopping, Mounting, Placed
    <2>5. SessionKept'
      <3>1. Len(mounts'[Storage]) <= 1
        BY <1>1 DEF MountInv, SessionKept
      <3>2. ASSUME "session" \notin mishaps
            PROVE  /\ Len(mounts[Target]) <= 1 /\ OwnTarget
                   /\ Mounted(Storage) /\ ~TransportLeft => sh.owned
        <4>1. session = NoSession
          BY <1>1, <3>2 DEF MountInv, SessionKept, Mounting
        <4> QED BY <1>1, <3>2, <4>1, FreshFacts DEF MountInv, SessionKept, Placed
      <3>3. (OwnTarget' <=> OwnTarget) /\ (Mounted(Storage)' <=> Mounted(Storage))
        BY <1>1 DEF OwnTarget, Mounted
      <3> QED BY <1>1, <1>3, <2>1, <2>2, <2>4, <3>1, <3>2, <3>3 DEF SessionKept, TransportLeft
    <2> QED BY <1>1, <1>3, <2>2, <2>3, <2>5, EndTable
  <1> QED BY <1>2, <1>3 DEF Record

\* A record whose target is mounted is looked at again; another one is
\* dropped, and then the session has nothing mounted.
LEMMA StopStep ==
    ASSUME MountInv, Stop
    PROVE  MountInv'
  <1>1. pc = "stop" /\ Around /\ UNCHANGED <<mounts, commands, mishaps>>
    BY DEF Stop, Around, disk, boot
  <1>2. sh = Fresh /\ sh \in Shell /\ commands \in 0 .. MaxCommands
    BY <1>1 DEF MountInv, TypeOK, ShellKept
  <1>3. CASE session # NoSession /\ Go("recheck") /\ UNCHANGED session
    <2>1. pc' = "recheck" /\ sh' = sh
      BY <1>3 DEF Go
    <2>2. ShellKept'
      BY <1>2, <2>1, FreshFacts DEF ShellKept, Stopping, Mounting
    <2>3. HashTaken'
      BY <1>1, <2>1, HashParts DEF MountInv, HashTaken, Around
    <2>4. pc' \in ShellLabels /\ pc' \notin Mounting /\ pc' \notin Placed /\ pc \notin Placed
      BY <1>1, <2>1 DEF ShellLabels, Mounting, Placed
    <2> QED BY <1>1, <1>2, <1>3, <2>1, <2>2, <2>3, <2>4, ShellStep
  <1>4. CASE ~(session # NoSession /\ Mounted(Target)) /\ End /\ session' = NoSession
    <2>1. Table'
      BY <1>1, TableTyped DEF MountInv, Table
    <2>2. pc' = "idle" /\ pc' \notin Stopping /\ pc' \notin Mounting /\ pc' \notin Placed
      BY <1>4 DEF End, Stopping, Mounting, Placed
    <2>3. pc \notin Placed /\ pc # "unmount_transport"
      BY <1>1 DEF Placed
    <2>4. SessionKept'
      <3>1. Len(mounts'[Storage]) <= 1
        BY <1>1 DEF MountInv, SessionKept
      <3>2. ASSUME "session" \notin mishaps
            PROVE  /\ Len(mounts[Target]) <= 1 /\ ~OwnTarget
                   /\ ~TransportLeft => ~Mounted(Storage)
        <4>1. OwnTarget <=> session # NoSession
          BY <2>3, <3>2 DEF MountInv, SessionKept
        <4>2. OwnTarget => Mounted(Target)
          BY DEF OwnTarget, Mounted
        <4>3. session = NoSession
          BY <1>4, <4>1, <4>2
        <4> QED BY <1>2, <3>2, <4>1, <4>3, FreshFacts DEF MountInv, SessionKept
      <3>3. (OwnTarget' <=> OwnTarget) /\ (Mounted(Storage)' <=> Mounted(Storage))
        BY <1>1 DEF OwnTarget, Mounted
      <3> QED BY <1>1, <1>4, <2>2, <3>1, <3>2, <3>3, FreshFacts DEF SessionKept, TransportLeft
    <2> QED BY <1>1, <1>4, <2>1, <2>4, EndTable
  <1> QED BY <1>3, <1>4 DEF Stop

\* stop takes down the one mount at the target.
LEMMA UnmountTargetStep ==
    ASSUME MountInv, UnmountTarget
    PROVE  MountInv'
  <1>1. pc = "unmount_target" /\ Around /\ UNCHANGED <<session, commands, mishaps>>
    BY DEF UnmountTarget, Around, disk, boot
  <1>2. /\ sh = Fresh /\ sh \in Shell /\ session \in Session \cup {NoSession}
        /\ session # NoSession
    BY <1>1 DEF MountInv, TypeOK, ShellKept, SessionKept, Stopping
  <1>3. CASE End /\ UNCHANGED mounts
    BY <1>1, <1>2, <1>3, EndStep, FreshFacts DEF Placed
  <1>4. CASE Unmount(Target) /\ Go("unmount_transport")
    <2>1. /\ Table' /\ mounts'[Work] = mounts[Work] /\ mounts'[Storage] = mounts[Storage]
          /\ Len(mounts[Target]) <= 1 =>
                Len(mounts'[Target]) = 0 /\ DOMAIN mounts'[Target] = {}
          /\ \A i \in DOMAIN mounts'[Target] :
                i \in DOMAIN mounts[Target] /\ mounts'[Target][i] = mounts[Target][i]
      BY <1>4, TargetPopped
    <2>2. pc' = "unmount_transport" /\ sh' = sh
      BY <1>4 DEF Go
    <2>3. ShellKept'
      BY <1>2, <2>2, FreshFacts DEF ShellKept, Stopping, Mounting
    <2>4. HashTaken'
      BY <1>1, <2>2, HashParts DEF MountInv, HashTaken, Around
    <2>5. pc' \in ShellLabels /\ pc' \notin Mounting /\ pc' \notin Placed
      BY <2>2 DEF ShellLabels, Mounting, Placed
    <2>6. SessionKept'
      <3>1. Len(mounts'[Storage]) <= 1 /\ (session.owned => session.at = Storage)
        BY <2>1 DEF MountInv, SessionKept
      <3>2. ASSUME "session" \notin mishaps
            PROVE  /\ Len(mounts'[Target]) <= 1 /\ ~OwnTarget'
                   /\ Mounted(Storage)' /\ ~TransportLeft => session.owned \/ sh.owned
        <4>1. Len(mounts'[Target]) = 0 /\ DOMAIN mounts'[Target] = {}
          BY <2>1, <3>2 DEF MountInv, SessionKept
        <4>2. ~OwnTarget'
          BY <4>1 DEF OwnTarget
        <4>3. Mounted(Storage)' /\ ~TransportLeft => session.owned \/ sh.owned
          BY <2>1, <3>2 DEF MountInv, SessionKept, Mounted
        <4> QED BY <4>1, <4>2, <4>3
      <3> QED BY <1>1, <1>2, <2>2, <2>5, <3>1, <3>2 DEF SessionKept, TransportLeft
    <2> QED BY <1>1, <1>2, <2>1, <2>2, <2>3, <2>4, <2>5, <2>6, TableStep
  <1> QED BY <1>3, <1>4 DEF UnmountTarget

\* stop takes down the transport of the record and drops the record.
LEMMA UnmountTransportStep ==
    ASSUME MountInv, UnmountTransport
    PROVE  MountInv'
  <1>1. pc = "unmount_transport" /\ Around /\ UNCHANGED commands /\ End
    BY DEF UnmountTransport, Around, disk, boot
  <1>2. sh = Fresh /\ (session.owned => session.at = Storage) /\ Table
    BY <1>1, TableTyped DEF MountInv, ShellKept, SessionKept, Stopping
  <1>3. CASE Note("session") /\ UNCHANGED <<mounts, session>>
    BY <1>1, <1>3, EndStep DEF Note
  <1>4. ASSUME session' = NoSession, UNCHANGED mishaps, Table',
               mounts'[Work] = mounts[Work], mounts'[Target] = mounts[Target],
               Len(mounts'[Storage]) <= 1,
               "session" \notin mishaps /\ ~TransportLeft => ~Mounted(Storage)'
        PROVE  MountInv'
    <2>1. pc' = "idle" /\ pc' \notin Stopping /\ pc' \notin Mounting /\ pc' \notin Placed
      BY <1>1 DEF End, Stopping, Mounting, Placed
    <2>2. "session" \notin mishaps => Len(mounts[Target]) <= 1 /\ ~OwnTarget
      BY <1>1 DEF MountInv, SessionKept, Placed
    <2>3. OwnTarget' <=> OwnTarget
      BY <1>4 DEF OwnTarget
    <2>4. SessionKept'
      BY <1>4, <2>1, <2>2, <2>3, FreshFacts DEF SessionKept, TransportLeft
    <2> QED BY <1>1, <1>4, <2>4, EndTable
  <1>5. CASE session.owned /\ Unmount(session.at) /\ session' = NoSession /\ UNCHANGED mishaps
    <2>1. Storage \in Points /\ Mounted(Storage) /\ mounts' = [mounts EXCEPT ![Storage] = Front(@)]
      BY <1>2, <1>5 DEF Unmount, Points
    <2>2. /\ Table' /\ Others(Storage)
          /\ Len(mounts[Storage]) \in Nat \ {0}
          /\ Len(mounts'[Storage]) = Len(mounts[Storage]) - 1
      BY <1>2, <2>1, Popped
    <2>3. mounts'[Work] = mounts[Work] /\ mounts'[Target] = mounts[Target]
      BY <2>2 DEF Others, Points, Storage, Target, Work
    <2>4. Len(mounts[Storage]) <= 1
      BY DEF MountInv, SessionKept
    <2> DEFINE n == Len(mounts[Storage])
    <2>5. Len(mounts'[Storage]) = 0
      <3>1. n \in Nat \ {0} /\ n <= 1 /\ Len(mounts'[Storage]) = n - 1
        BY <2>2, <2>4
      <3> HIDE DEF n
      <3>2. n = 1
        BY <3>1
      <3> QED BY <3>1, <3>2
    <2>6. mounts'[Storage] \in Seq(Mount)
      BY <2>1, <2>2 DEF Table
    <2>7. mounts'[Storage] = <<>>
      BY <2>5, <2>6, StackFacts
    <2>8. ~Mounted(Storage)' /\ Len(mounts'[Storage]) <= 1
      BY <2>5, <2>7 DEF Mounted
    <2> QED BY <1>4, <1>5, <2>2, <2>3, <2>8
  <1>6. CASE /\ ~(session.owned /\ Mounted(session.at)) /\ session' = NoSession
             /\ UNCHANGED <<mounts, mishaps>>
    <2>1. "session" \notin mishaps /\ ~TransportLeft => ~Mounted(Storage)
      BY <1>2, <1>6, FreshFacts DEF MountInv, SessionKept
    <2>2. Table' /\ Len(mounts'[Storage]) <= 1
      BY <1>2, <1>6 DEF Table, MountInv, SessionKept
    <2> QED BY <1>4, <1>6, <2>1, <2>2 DEF Mounted
  <1> QED BY <1>3, <1>5, <1>6 DEF UnmountTransport

\* vita-toolkit-mount mounts and unmounts at the target without a record.
LEMMA ToolSteps ==
    ASSUME MountInv, ToolMountTarget \/ ToolUnmount
    PROVE  MountInv'
  <1>1. pc \in {"tool_mount", "tool_unmount"} /\ Around /\ UNCHANGED <<session, commands>> /\ End
    BY DEF ToolMountTarget, ToolUnmount, Around, disk, boot
  <1>2. ~sh.owned /\ pc \notin Placed /\ pc # "unmount_transport"
        /\ session \in Session \cup {NoSession}
    BY <1>1, FreshFacts DEF MountInv, TypeOK, ShellKept, Placed
  <1>3. CASE UNCHANGED <<mounts, mishaps>>
    BY <1>1, <1>2, <1>3, EndStep
  <1>4. ASSUME Table', Others(Target), mishaps \subseteq mishaps',
               "session" \notin mishaps' => Len(mounts'[Target]) <= 1 /\ (OwnTarget' <=> OwnTarget),
               \A i \in DOMAIN mounts'[Target] :
                  \/ i \in DOMAIN mounts[Target] /\ mounts'[Target][i] = mounts[Target][i]
                  \/ Honest(mounts'[Target][i])
        PROVE  MountInv'
    <2>1. mounts'[Storage] = mounts[Storage] /\ mounts'[Work] = mounts[Work]
      BY <1>4 DEF Others, Points, Storage, Target, Work
    <2>2. /\ pc' \notin Stopping /\ pc' \notin Mounting /\ pc' \notin Placed
          /\ pc' # "unmount_transport"
      BY <1>1 DEF End, Stopping, Mounting, Placed
    <2>3. /\ Len(mounts'[Storage]) <= 1
          /\ "session" \notin mishaps => (Mounted(Storage)' /\ ~TransportLeft => session.owned)
      BY <1>2, <2>1 DEF MountInv, SessionKept, Mounted
    <2>4. SessionKept'
      BY <1>1, <1>2, <1>4, <2>2, <2>3, SessionApart, LeftKept
    <2> QED BY <1>1, <1>2, <1>4, <2>1, <2>4, EndTable
  <1>5. CASE /\ pc = "tool_mount"
             /\ MountAt(Target, [by |-> "user", from |-> sh.file, rw |-> FALSE, seen |-> 0])
    <2>1. sh.file \in Transports /\ edits \in Nat
      BY <1>5, NumberFacts DEF MountInv, TypeOK, ShellKept, Shell
    <2> DEFINE m == [by |-> "user", from |-> sh.file, rw |-> FALSE, seen |-> 0]
    <2>2. m \in Mount /\ Placing(Target, m) /\ m.by = "user" /\ m.seen = 0
      BY <2>1, FreshFacts DEF Mount, Placing
    <2>3. MountAt(Target, m)
      BY <1>5
    <2> HIDE DEF m
    <2>4. Honest(m)
      BY <2>1, <2>2 DEF Honest
    <2>5. /\ Table' /\ Others(Target) /\ mishaps \subseteq mishaps'
          /\ "session" \notin mishaps' => Len(mounts'[Target]) <= 1 /\ (OwnTarget' <=> OwnTarget)
          /\ \A i \in DOMAIN mounts'[Target] :
                \/ i \in DOMAIN mounts[Target] /\ mounts'[Target][i] = mounts[Target][i]
                \/ mounts'[Target][i] = m
      BY <2>2, <2>3, OthersPush
    <2>6. \A i \in DOMAIN mounts'[Target] :
             \/ i \in DOMAIN mounts[Target] /\ mounts'[Target][i] = mounts[Target][i]
             \/ Honest(mounts'[Target][i])
      BY <2>4, <2>5
    <2> QED BY <1>4, <2>5, <2>6
  <1>6. CASE Unmount(Target) /\ NoteForeign(Target)
    BY <1>4, <1>6, OthersPop
  <1> QED BY <1>3, <1>5, <1>6 DEF ToolMountTarget, ToolUnmount

-----------------------------------------------------------------------------
(* The world *)

LEMMA CardAppearsStep ==
    ASSUME MountInv, CardAppears
    PROVE  MountInv'
  <1>1. /\ UNCHANGED <<content, image, edits, mounts, job, front, halting, pc, sh, session,
                       commands, mishaps>>
        /\ card' \in BOOLEAN
    BY DEF CardAppears, boot, shell
  <1>2. TypeOK'
    BY <1>1 DEF MountInv, TypeOK
  <1>3. ShellKept' /\ SessionKept'
    BY <1>1 DEF MountInv, ShellKept, SessionKept, OwnTarget, Mounted, TransportLeft
  <1>4. HashKept'
    BY <1>1 DEF MountInv, HashKept, VerifiedPayload
  <1>5. WorkspaceOnce' /\ BootKept'
    BY <1>1 DEF MountInv, WorkspaceOnce, BootKept, Waiting, Mounted
  <1> QED BY <1>2, <1>3, <1>4, <1>5 DEF MountInv

\* A write over the payload makes every hash that was taken an old one.
LEMMA EditStep ==
    ASSUME MountInv, Edit
    PROVE  MountInv'
  <1>1. /\ UNCHANGED <<card, content, mounts, job, front, halting, pc, sh, session,
                       commands, mishaps>>
        /\ edits < MaxEdits /\ edits' = edits + 1 /\ image' \in Images
    BY DEF Edit, boot, shell
  <1>2. edits \in Nat /\ edits' \in 0 .. MaxEdits
    BY <1>1, ToolkitAssumption DEF MountInv, TypeOK
  <1>3. TypeOK'
    BY <1>1, <1>2 DEF MountInv, TypeOK
  <1>4. ShellKept' /\ SessionKept'
    BY <1>1 DEF MountInv, ShellKept, SessionKept, OwnTarget, Mounted, TransportLeft
  <1>5. /\ \A p \in Points : mounts[p] \in Seq(Mount)
        /\ sh.seen \in Nat /\ \A k \in Jobs : job[k].seen \in Nat
    BY NumberFacts DEF MountInv, TypeOK
  <1>6. \A i \in DOMAIN mounts[Target] : mounts[Target][i].seen \in Nat
    <2>1. mounts[Target] \in Seq(Mount)
      BY <1>5 DEF Points
    <2> QED BY <2>1, StackFacts DEF Mount
  <1>7. \A n \in Nat : n <= edits => n <= edits' /\ n # edits'
    BY <1>1, <1>2
  <1>8. /\ \A i \in DOMAIN mounts[Target] : mounts[Target][i].seen <= edits
        /\ sh.seen <= edits /\ \A k \in Jobs : job[k].seen <= edits
    BY DEF MountInv, HashKept
  <1>9. /\ \A i \in DOMAIN mounts[Target] :
              mounts[Target][i].seen <= edits' /\ mounts[Target][i].seen # edits'
        /\ sh.seen <= edits' /\ sh.seen # edits'
        /\ \A k \in Jobs : job[k].seen <= edits' /\ job[k].seen # edits'
    BY <1>5, <1>6, <1>7, <1>8
  <1>10. HashKept'
    BY <1>1, <1>9 DEF HashKept, VerifiedPayload
  <1>11. WorkspaceOnce' /\ BootKept'
    BY <1>1 DEF MountInv, WorkspaceOnce, BootKept, Waiting, Mounted
  <1> QED BY <1>3, <1>4, <1>10, <1>11 DEF MountInv

-----------------------------------------------------------------------------
(* The theorems *)

LEMMA MountInit == Init => MountInv
  <1> SUFFICES ASSUME Init PROVE MountInv
    OBVIOUS
  <1>1. \A p \in Points : mounts[p] = <<>>
    BY DEF Init
  <1>2. Target \in Points /\ Storage \in Points /\ Work \in Points
    BY DEF Points
  <1>3. mounts[Target] = <<>> /\ mounts[Storage] = <<>> /\ mounts[Work] = <<>>
    BY <1>1, <1>2
  <1>4. \A k \in Jobs : job[k].pc = "off" /\ job[k].seen = 0
    BY DEF Init
  <1>5. TypeOK
    <2>1. mounts \in [Points -> Seq(Mount)]
      BY DEF Init
    <2>2. job \in [Jobs -> Job]
      <3>1. [pc |-> "off", looks |-> 0, seen |-> 0] \in Job
        BY ToolkitAssumption DEF Job, JobLabels
      <3> QED BY <3>1 DEF Init
    <2>3. 0 \in 0 .. MaxCommands /\ 0 \in 0 .. MaxEdits
      BY ToolkitAssumption
    <2>4. \A p \in Points : DOMAIN mounts[p] = {}
      BY <1>1
    <2> QED BY <2>1, <2>2, <2>3, <2>4, FreshFacts DEF TypeOK, Init, ShellLabels
  <1>6. ShellKept
    BY FreshFacts DEF Init, ShellKept, Stopping, Mounting
  <1>7. SessionKept
    BY <1>3, FreshFacts DEF Init, SessionKept, OwnTarget, Mounted, Stopping, Mounting, Placed
  <1>8. HashKept
    BY <1>3, <1>4, FreshFacts DEF Init, HashKept, VerifiedPayload
  <1>9. WorkspaceOnce
    BY <1>3 DEF WorkspaceOnce
  <1>10. BootKept
    BY <1>4 DEF Init, BootKept, Waiting
  <1> QED BY <1>5, <1>6, <1>7, <1>8, <1>9, <1>10 DEF MountInv

LEMMA MountStep == MountInv /\ [Next]_vars => MountInv'
  <1> SUFFICES ASSUME MountInv, [Next]_vars PROVE MountInv'
    OBVIOUS
  <1>1. CASE CardAppears \/ Edit
    BY <1>1, CardAppearsStep, EditStep
  <1>2. ASSUME NEW k \in Jobs, BootStart(k) \/ BootJob(k) PROVE MountInv'
    BY <1>2, StartStep, LookSteps, CardStep, TargetStep, WorkStep DEF BootJob
  <1>3. CASE BootStop
    BY <1>3, StopCalled
  <1>4. CASE BootUnmount(Work, Target) \/ BootUnmount(Target, Card) \/ BootUnmount(Card, None)
    BY <1>4, UnmountStep
  <1>5. CASE \/ \E rw \in BOOLEAN : SessionStart(rw)
             \/ SessionStop \/ ToolMount \/ ToolUnmountCall
    BY <1>5, TypedStep
  <1>6. CASE SessionStep
    <2>1. CASE Explicit \/ Discover \/ Payload \/ Verify \/ CheckTarget \/ Workspace \/ ToolCheck
               \/ Recheck
      BY <2>1, ShellLooks
    <2>2. CASE MountTransport \/ Remount \/ MountTarget \/ Recognize \/ Record
      BY <2>2, TransportStep, RemountStep, TargetMounted, RecognizeStep, RecordStep
    <2>3. CASE Stop \/ UnmountTarget \/ UnmountTransport
      BY <2>3, StopStep, UnmountTargetStep, UnmountTransportStep
    <2>4. CASE ToolMountTarget \/ ToolUnmount
      BY <2>4, ToolSteps
    <2> QED BY <1>6, <2>1, <2>2, <2>3, <2>4 DEF SessionStep
  <1>7. CASE UNCHANGED vars
    <2>1. UNCHANGED <<card, content, image, edits, mounts, job, front, halting, pc, sh, session,
                      commands, mishaps>>
      BY <1>7 DEF vars, disk, boot, shell
    <2>2. TypeOK'
      BY <2>1 DEF MountInv, TypeOK
    <2>3. ShellKept' /\ SessionKept'
      BY <2>1 DEF MountInv, ShellKept, SessionKept, OwnTarget, Mounted, TransportLeft
    <2>4. HashKept'
      BY <2>1 DEF MountInv, HashKept, VerifiedPayload
    <2>5. WorkspaceOnce' /\ BootKept'
      BY <2>1 DEF MountInv, WorkspaceOnce, BootKept, Waiting, Mounted
    <2> QED BY <2>2, <2>3, <2>4, <2>5 DEF MountInv
  <1> QED BY <1>1, <1>2, <1>3, <1>4, <1>5, <1>6, <1>7 DEF Next

\* The mount table agrees with what the scripts have noted about it, however
\* the init script, its waiters, the commands at the shell and the writes to
\* the card interleave; the workspace image in particular is mounted once,
\* unless start or stop overlaps a waiter (S06toolkit:96-139,
\* vita-toolkit-session:263-381).
THEOREM MountsCorrect == Spec => []MountInv
  <1>1. Init => MountInv
    BY MountInit
  <1>2. MountInv /\ [Next]_vars => MountInv'
    BY MountStep
  <1> QED BY <1>1, <1>2, PTL DEF Spec

\* Between commands a session's mount at the target has a record, unless it was
\* hidden, removed by others or its record could not be written; and the
\* transport is mounted on account of a record, unless besides a start that
\* failed, or one that succeeded with already_mounted, left it
\* (vita-toolkit-session:44-53, 181-193, 263-307, 312-408).
THEOREM NoMountForgotten == Spec => []NothingForgotten
  <1>1. MountInv => NothingForgotten
    <2> SUFFICES ASSUME MountInv, pc = "idle", "session" \notin mishaps
                 PROVE  /\ \A i \in DOMAIN mounts[Target] :
                              mounts[Target][i].by = "session" => session # NoSession
                        /\ Mounted(Storage) /\ ~TransportLeft =>
                              session # NoSession /\ session.owned
      BY DEF NothingForgotten
    <2>1. sh = Fresh /\ pc \notin Placed
      BY DEF MountInv, ShellKept, Placed
    <2>2. OwnTarget => session # NoSession
      BY <2>1 DEF MountInv, SessionKept
    <2>3. Mounted(Storage) /\ ~TransportLeft => session.owned
      BY <2>1, FreshFacts DEF MountInv, SessionKept
    <2> QED BY <2>2, <2>3, FreshFacts DEF OwnTarget
  <1> QED BY <1>1, MountsCorrect, PTL

\* What is mounted at the target is what was hashed, unless the file was
\* written afterwards (vita-toolkit-session:350-368, S06toolkit:66-83).
THEOREM MountedIsVerified == Spec => []VerifiedPayload
  <1>1. MountInv => VerifiedPayload
    BY DEF MountInv, HashKept
  <1> QED BY <1>1, MountsCorrect, PTL

\* stop never takes down a payload that the boot or a user has mounted, as
\* long as nobody hid or removed the session's own
\* (vita-toolkit-session:269-292, 370-376, 408).
THEOREM StopTakesItsOwn == Spec => StopTakesOwn
  <1>1. ASSUME MountInv, pc = "unmount_target", "session" \notin mishaps
        PROVE  Last(mounts[Target]).by = "session"
    <2>1. session # NoSession /\ Len(mounts[Target]) <= 1
      BY <1>1 DEF MountInv, SessionKept, Stopping
    <2>2. OwnTarget
      BY <1>1, <2>1 DEF MountInv, SessionKept
    <2>3. PICK i \in DOMAIN mounts[Target] : mounts[Target][i].by = "session"
      BY <2>2 DEF OwnTarget
    <2>4. mounts[Target] \in Seq(Mount)
      BY <1>1 DEF MountInv, TypeOK, Points
    <2>5. /\ Len(mounts[Target]) \in Nat /\ i \in 1 .. Len(mounts[Target])
          /\ mounts[Target] # <<>> => Last(mounts[Target]) = mounts[Target][Len(mounts[Target])]
      BY <2>3, <2>4, StackFacts
    <2>6. i = Len(mounts[Target])
      BY <2>1, <2>5
    <2>7. mounts[Target] # <<>>
      BY <2>3
    <2> QED BY <2>3, <2>5, <2>6, <2>7
  <1>2. MountInv /\ [Next]_vars =>
           [pc = "unmount_target" /\ mounts' # mounts /\ pc' = "unmount_transport"
               /\ "session" \notin mishaps
            => Last(mounts[Target]).by = "session"]_vars
    BY <1>1
  <1> QED BY <1>2, MountsCorrect, PTL DEF Spec, StopTakesOwn

=============================================================================
