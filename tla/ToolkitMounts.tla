---------------------------- MODULE ToolkitMounts ----------------------------
(***************************************************************************)
(* The mounts of the toolkit: the init script S06toolkit with its waiter   *)
(* in the background, vita-toolkit-session and vita-toolkit-mount at the   *)
(* shell, all on one game card and one mount table.  Every check of a      *)
(* mount point and the mount after it are two steps, as in the scripts.    *)
(***************************************************************************)
EXTENDS Naturals, SequencesExt

CONSTANTS
    Images,         \* contents of the payload file, by hash
    Contents,       \* what is on the card besides, and the hash in /etc
    Jobs,           \* runs of "S06toolkit start", 1 .. n
    WaitRounds,     \* looks of the waiter, WAIT_SECONDS / 2
    MaxCommands,    \* bound: commands besides "S06toolkit start"
    MaxEdits        \* bound: writes over the payload

None == "none"

ASSUME ToolkitAssumption ==
    /\ None \notin Images
    /\ Contents \subseteq [payloads : 0 .. 2, workspace : BOOLEAN,
                           sidecar : Images \cup {None}, recorded : Images \cup {None}]
    /\ Jobs \subseteq Nat \ {0}
    /\ WaitRounds \in Nat /\ MaxCommands \in Nat /\ MaxEdits \in Nat

VARIABLES
    card,           \* the block device has appeared
    content, image, \* what is on it
    mounts,         \* the mount table: a stack per mount point
    job,            \* every run of start
    front,          \* the run of start in the foreground, or 0
    halting,        \* the mount point a run of "S06toolkit stop" is at
    pc,             \* where the command at the shell is
    sh,             \* its shell variables
    session,        \* /run/vita-toolkit/session
    mishaps,        \* observation only: "session", a session's mount at the
                    \* target was hidden, taken down by others or left without
                    \* its record; "left", a start that failed left its
                    \* transport mounted; "already", a start that succeeded
                    \* with already_mounted did; "overlap", S06toolkit was run
                    \* while a waiter was out
    commands, edits

boot == <<job, front, halting>>
shell == <<pc, sh, session, commands>>
disk == <<card, content, image, edits>>
vars == <<disk, mounts, boot, shell, mishaps>>

Transports == {"/mnt/vita-card", "/mnt/vita-storage"}
Card    == "/mnt/vita-card"
Storage == "/mnt/vita-storage"
Target  == "/opt/vita-toolkit"
Work    == "/mnt/workspace"
Points  == {Card, Storage, Target, Work}

\* Who mounted, the transport a loop image lies on, and the number of writes
\* when the image was hashed.
Mount == [by : {"boot", "session", "user"}, from : Transports \cup {None},
          rw : BOOLEAN, seen : Nat]
JobLabels == {"off", "find", "card", "mount_card", "hash", "target", "mount_target",
              "work", "mount_work", "done"}
Job == [pc : JobLabels, looks : 0 .. WaitRounds, seen : Nat]
ShellLabels == {"idle", "discover", "explicit", "mount_transport", "payload", "remount",
                "verify", "target", "mount_target", "recognize", "workspace", "record",
                "stop", "recheck", "unmount_target", "unmount_transport",
                "tool_check", "tool_mount", "tool_unmount"}
Shell == [rw : BOOLEAN, file : Transports \cup {None}, at : Transports,
          owned : BOOLEAN, hash : Images \cup {None}, seen : Nat]
Fresh == [rw |-> FALSE, file |-> None, at |-> Storage, owned |-> FALSE,
          hash |-> None, seen |-> 0]
Session == [file : Transports, hash : Images, at : Transports, owned : BOOLEAN]
NoSession == [file |-> None, hash |-> None, at |-> Storage, owned |-> FALSE]

TypeOK ==
    /\ card \in BOOLEAN /\ content \in Contents /\ image \in Images
    /\ mounts \in [Points -> Seq(Mount)]
    /\ \A p \in Points : \A i \in DOMAIN mounts[p] : p \in {Target, Work} <=> mounts[p][i].from # None
    /\ job \in [Jobs -> Job]
    /\ front \in Jobs \cup {0} /\ halting \in {None, Work, Target, Card}
    /\ pc \in ShellLabels /\ sh \in Shell
    /\ session \in Session \cup {NoSession}
    /\ commands \in 0 .. MaxCommands /\ edits \in 0 .. MaxEdits

Init ==
    /\ card \in BOOLEAN /\ content \in Contents /\ image \in Images
    /\ mounts = [p \in Points |-> <<>>]
    /\ job = [k \in Jobs |-> [pc |-> "off", looks |-> 0, seen |-> 0]]
    /\ front = 0 /\ halting = None
    /\ pc = "idle" /\ sh = Fresh /\ session = NoSession
    /\ mishaps = {}
    /\ commands = 0 /\ edits = 0

-----------------------------------------------------------------------------
(* The mount table *)

Mounted(p) == mounts[p] # <<>>
Note(mishap) == mishaps' = mishaps \cup {mishap}

\* A loop mount on a mounted point hides it; it does not fail.  (The card
\* itself is refused a second time at the same point.)
MountAt(p, m) ==
    /\ mounts' = [mounts EXCEPT ![p] = Append(@, m)]
    /\ IF Mounted(p) /\ p = Target THEN Note("session") ELSE UNCHANGED mishaps

\* A transport is busy as long as an image on it is mounted.
Busy(p) == \E q \in {Target, Work} : \E i \in DOMAIN mounts[q] : mounts[q][i].from = p

Unmount(p) ==
    /\ Mounted(p) /\ ~Busy(p)
    /\ mounts' = [mounts EXCEPT ![p] = Front(@)]

\* Someone else takes down what a session has mounted.
NoteForeign(p) ==
    IF Last(mounts[p]).by = "session" THEN Note("session") ELSE UNCHANGED mishaps

Visible(p) == Mounted(p) /\ content.payloads > 0

-----------------------------------------------------------------------------
(* The world: the card enumerates late, someone copies a new payload to it *)

CardAppears ==
    /\ ~card
    /\ card' = TRUE
    /\ UNCHANGED <<content, image, edits, mounts, boot, shell, mishaps>>

Edit ==
    /\ edits < MaxEdits
    /\ \E p \in Transports : Mounted(p) /\ Last(mounts[p]).rw
    /\ edits' = edits + 1
    /\ image' \in Images
    /\ UNCHANGED <<card, content, mounts, boot, shell, mishaps>>

-----------------------------------------------------------------------------
(* S06toolkit *)

Waiting == {k \in Jobs : job[k].pc \notin {"off", "done"}}

Step(k, label) == job' = [job EXCEPT ![k].pc = label]

\* A run that ends frees the foreground if it is there.
Finish(k) ==
    /\ job' = [job EXCEPT ![k] = [pc |-> "done", looks |-> 0, seen |-> 0]]
    /\ front' = IF front = k THEN 0 ELSE front

NoteOverlap == IF Waiting # {} THEN Note("overlap") ELSE UNCHANGED mishaps

BootStart(k) ==
    /\ front = 0 /\ halting = None
    /\ job[k].pc = "off" /\ \A j \in Jobs : j < k => job[j].pc # "off"
    /\ front' = k
    /\ Step(k, "find")
    /\ NoteOverlap
    /\ UNCHANGED <<disk, mounts, halting, shell>>

Looked(k) == job' = [job EXCEPT ![k].looks = @ + 1]

\* find_card; without a card the script returns and the waiter looks on.
FindCard(k) ==
    /\ job[k].pc = "find"
    /\ \/ /\ front = k \/ job[k].looks < WaitRounds
          /\ IF card THEN job' = [job EXCEPT ![k].pc = "card", ![k].looks = 0] /\ UNCHANGED front
             ELSE IF front = k THEN front' = 0 /\ UNCHANGED job
             ELSE Looked(k) /\ UNCHANGED front
       \/ front # k /\ job[k].looks = WaitRounds /\ Finish(k)
    /\ UNCHANGED <<disk, mounts, halting, shell, mishaps>>

BootCheckCard(k) ==
    /\ job[k].pc = "card"
    /\ Step(k, IF Mounted(Card) THEN "hash" ELSE "mount_card")
    /\ UNCHANGED <<disk, mounts, front, halting, shell, mishaps>>

BootMountCard(k) ==
    /\ job[k].pc = "mount_card"
    /\ \/ /\ ~Mounted(Card)
          /\ MountAt(Card, [by |-> "boot", from |-> None, rw |-> TRUE, seen |-> 0])
          /\ Step(k, "hash")
          /\ UNCHANGED front
       \/ Finish(k) /\ UNCHANGED <<mounts, mishaps>>
    /\ UNCHANGED <<disk, halting, shell>>

\* Without a recorded hash the payload is mounted unverified.
BootVerified == content.recorded = None \/ content.recorded = image

BootHash(k) ==
    /\ job[k].pc = "hash"
    /\ job' = [job EXCEPT ![k].pc = IF Visible(Card) /\ BootVerified THEN "target" ELSE "work",
                          ![k].seen = edits]
    /\ UNCHANGED <<disk, mounts, front, halting, shell, mishaps>>

BootCheckTarget(k) ==
    /\ job[k].pc = "target"
    /\ Step(k, IF Mounted(Target) THEN "work" ELSE "mount_target")
    /\ UNCHANGED <<disk, mounts, front, halting, shell, mishaps>>

BootMountTarget(k) ==
    /\ job[k].pc = "mount_target"
    /\ \/ /\ Visible(Card)
          /\ MountAt(Target, [by |-> "boot", from |-> Card, rw |-> FALSE, seen |-> job[k].seen])
       \/ UNCHANGED <<mounts, mishaps>>
    /\ job' = [job EXCEPT ![k].pc = "work", ![k].seen = 0]
    /\ UNCHANGED <<disk, front, halting, shell>>

\* Mutant: the workspace is mounted without a look at the mount point.
WorkFreeMutant == TRUE
WorkFree == ~Mounted(Work)

BootCheckWork(k) ==
    /\ job[k].pc = "work"
    /\ IF Mounted(Card) /\ content.workspace /\ WorkFree
       THEN Step(k, "mount_work") /\ UNCHANGED front
       ELSE Finish(k)
    /\ UNCHANGED <<disk, mounts, halting, shell, mishaps>>

BootMountWork(k) ==
    /\ job[k].pc = "mount_work"
    /\ \/ /\ Mounted(Card)
          /\ MountAt(Work, [by |-> "boot", from |-> Card, rw |-> TRUE, seen |-> 0])
       \/ UNCHANGED <<mounts, mishaps>>
    /\ Finish(k)
    /\ UNCHANGED <<disk, halting, shell>>

BootJob(k) ==
    \/ FindCard(k) \/ BootCheckCard(k) \/ BootMountCard(k) \/ BootHash(k)
    \/ BootCheckTarget(k) \/ BootMountTarget(k) \/ BootCheckWork(k) \/ BootMountWork(k)

\* stop does not know of the waiter.
BootStop ==
    /\ front = 0 /\ halting = None
    /\ commands < MaxCommands
    /\ commands' = commands + 1
    /\ halting' = Work
    /\ NoteOverlap
    /\ UNCHANGED <<disk, mounts, job, front, pc, sh, session>>

\* umount of one point; its failure is ignored.
BootUnmount(p, next) ==
    /\ halting = p
    /\ halting' = next
    /\ \/ Unmount(p) /\ NoteForeign(p)
       \/ UNCHANGED <<mounts, mishaps>>
    /\ UNCHANGED <<disk, job, front, shell>>

-----------------------------------------------------------------------------
(* vita-toolkit-session start *)

Type(command) ==
    /\ pc = "idle"
    /\ commands < MaxCommands
    /\ commands' = commands + 1
    /\ pc' = command
    /\ UNCHANGED <<disk, mounts, boot, session, mishaps>>

Go(label) == pc' = label /\ UNCHANGED sh
GoWith(label, variables) == pc' = label /\ sh' = variables

\* The command ends and its shell variables are gone.
End == pc' = "idle" /\ sh' = Fresh

\* A start that ends before write_state leaves the transport it has mounted.
Leave(how) == End /\ IF sh.owned THEN Note(how) ELSE UNCHANGED mishaps

\* fail
Abort == Leave("left")

SessionStart(rw) ==
    \E how \in {"discover", "explicit"} : Type(how) /\ sh' = [Fresh EXCEPT !.rw = rw]

\* --file names a payload on some mounted transport.
Explicit ==
    /\ pc = "explicit"
    /\ \/ \E p \in Transports : Visible(p) /\ GoWith("remount", [sh EXCEPT !.file = p])
       \/ End
    /\ UNCHANGED <<disk, mounts, boot, session, commands, mishaps>>

\* What vita-storage prints as the card's mount point: of two the older one,
\* so either; NONE if it is not mounted.
Mountpoints == {p \in Transports : Mounted(p)}

\* discover_transport
Discover ==
    /\ pc = "discover"
    /\ \/ ~card /\ End
       \/ card /\ Mountpoints = {} /\ Go("mount_transport")
       \/ card /\ \E p \in Mountpoints : GoWith("payload", [sh EXCEPT !.at = p])
    /\ UNCHANGED <<disk, mounts, boot, session, commands, mishaps>>

MountTransport ==
    /\ pc = "mount_transport"
    /\ \/ /\ ~Mounted(Storage)
          /\ MountAt(Storage, [by |-> "session", from |-> None, rw |-> sh.rw, seen |-> 0])
          /\ GoWith("payload", [sh EXCEPT !.owned = TRUE])
       \/ End /\ UNCHANGED <<mounts, mishaps>>
    /\ UNCHANGED <<disk, boot, session, commands>>

\* discover_payload: exactly one.
Payload ==
    /\ pc = "payload"
    /\ IF Mounted(sh.at) /\ content.payloads = 1
       THEN GoWith("remount", [sh EXCEPT !.file = sh.at]) /\ UNCHANGED mishaps
       ELSE Abort
    /\ UNCHANGED <<disk, mounts, boot, session, commands>>

Remount ==
    /\ pc = "remount"
    /\ IF sh.rw /\ Mounted(sh.at) /\ ~Last(mounts[sh.at]).rw
       THEN \/ /\ mounts' = [mounts EXCEPT ![sh.at] = Append(Front(@), [Last(@) EXCEPT !.rw = TRUE])]
               /\ Go("verify") /\ UNCHANGED mishaps
            \/ Abort /\ UNCHANGED mounts
       ELSE Go("verify") /\ UNCHANGED <<mounts, mishaps>>
    /\ UNCHANGED <<disk, boot, session, commands>>

\* resolve_expected_hash and the comparison.
Verified == content.sidecar = image

Verify ==
    /\ pc = "verify"
    /\ IF Visible(sh.file) /\ Verified
       THEN GoWith("target", [sh EXCEPT !.hash = image, !.seen = edits]) /\ UNCHANGED mishaps
       ELSE Abort
    /\ UNCHANGED <<disk, mounts, boot, session, commands>>

\* Mutant: a target that is already mounted is recorded as this session's.
AlreadyMountedMutant == Go("record") /\ UNCHANGED mishaps

\* already_mounted: the command has nothing to do and succeeds, but it too
\* leaves the transport it has mounted, and writes no record.
AlreadyMounted == Leave("already")

CheckTarget ==
    /\ pc = "target"
    /\ IF Mounted(Target) THEN AlreadyMounted ELSE Go("mount_target") /\ UNCHANGED mishaps
    /\ UNCHANGED <<disk, mounts, boot, session, commands>>

MountTarget ==
    /\ pc = "mount_target"
    /\ \/ /\ Visible(sh.file)
          /\ MountAt(Target, [by |-> "session", from |-> sh.file, rw |-> FALSE, seen |-> sh.seen])
          /\ Go("recognize")
       \/ Abort /\ UNCHANGED mounts
    /\ UNCHANGED <<disk, boot, session, commands>>

\* A payload without VERSION and manifest is unmounted again.
Recognize ==
    /\ pc = "recognize"
    /\ \/ Go("workspace") /\ UNCHANGED <<mounts, mishaps>>
       \/ /\ Unmount(Target)
          /\ IF Last(mounts[Target]).by = "session" THEN Abort ELSE End /\ Note("session")
       \/ End /\ Note("session") /\ UNCHANGED mounts
    /\ UNCHANGED <<disk, boot, session, commands>>

Workspace ==
    /\ pc = "workspace"
    /\ \/ Go("record") /\ UNCHANGED mishaps
       \/ sh.rw /\ End /\ Note("session")
    /\ UNCHANGED <<disk, mounts, boot, session, commands>>

\* Mutant: the session forgets that it mounted the transport.
WrittenMutant == [file |-> sh.file, hash |-> sh.hash, at |-> sh.at, owned |-> FALSE]
Written == [file |-> sh.file, hash |-> sh.hash, at |-> sh.at, owned |-> sh.owned]

\* write_state; state_unavailable ends the command with its mounts in place.
Record ==
    /\ pc = "record"
    /\ \/ session' = Written /\ UNCHANGED mishaps
       \/ Note("session") /\ UNCHANGED session
    /\ End
    /\ UNCHANGED <<disk, mounts, boot, commands>>

-----------------------------------------------------------------------------
(* vita-toolkit-session stop *)

SessionStop == Type("stop") /\ UNCHANGED sh

\* A session whose target is not mounted is forgotten.
Stop ==
    /\ pc = "stop"
    /\ IF session # NoSession /\ Mounted(Target)
       THEN Go("recheck") /\ UNCHANGED session
       ELSE End /\ session' = NoSession
    /\ UNCHANGED <<disk, mounts, boot, commands, mishaps>>

\* A payload that has changed or gone keeps everything mounted.
Recheck ==
    /\ pc = "recheck"
    /\ IF Visible(session.file) /\ image = session.hash THEN Go("unmount_target") ELSE End
    /\ UNCHANGED <<disk, mounts, boot, session, commands, mishaps>>

UnmountTarget ==
    /\ pc = "unmount_target"
    /\ \/ Unmount(Target) /\ Go("unmount_transport")
       \/ End /\ UNCHANGED mounts
    /\ UNCHANGED <<disk, boot, session, commands, mishaps>>

UnmountTransport ==
    /\ pc = "unmount_transport"
    /\ End
    /\ IF session.owned /\ Mounted(session.at)
       THEN \/ Unmount(session.at) /\ session' = NoSession /\ UNCHANGED mishaps
            \/ Note("session") /\ UNCHANGED <<mounts, session>>
       ELSE session' = NoSession /\ UNCHANGED <<mounts, mishaps>>
    /\ UNCHANGED <<disk, boot, commands>>

-----------------------------------------------------------------------------
(* vita-toolkit-mount *)

ToolMount == Type("tool_check") /\ UNCHANGED sh
ToolUnmountCall == Type("tool_unmount") /\ UNCHANGED sh

ToolCheck ==
    /\ pc = "tool_check"
    /\ \/ /\ ~Mounted(Target)
          /\ \E p \in Transports : Visible(p) /\ GoWith("tool_mount", [Fresh EXCEPT !.file = p])
       \/ End
    /\ UNCHANGED <<disk, mounts, boot, session, commands, mishaps>>

ToolMountTarget ==
    /\ pc = "tool_mount"
    /\ End
    /\ \/ /\ Visible(sh.file)
          /\ MountAt(Target, [by |-> "user", from |-> sh.file, rw |-> FALSE, seen |-> 0])
       \/ UNCHANGED <<mounts, mishaps>>
    /\ UNCHANGED <<disk, boot, session, commands>>

ToolUnmount ==
    /\ pc = "tool_unmount"
    /\ End
    /\ \/ Unmount(Target) /\ NoteForeign(Target)
       \/ UNCHANGED <<mounts, mishaps>>
    /\ UNCHANGED <<disk, boot, session, commands>>

SessionStep ==
    \/ Explicit \/ Discover \/ MountTransport \/ Payload \/ Remount \/ Verify \/ CheckTarget
    \/ MountTarget \/ Recognize \/ Workspace \/ Record
    \/ Stop \/ Recheck \/ UnmountTarget \/ UnmountTransport
    \/ ToolCheck \/ ToolMountTarget \/ ToolUnmount

Next ==
    \/ CardAppears \/ Edit
    \/ \E k \in Jobs : BootStart(k) \/ BootJob(k)
    \/ BootStop \/ BootUnmount(Work, Target) \/ BootUnmount(Target, Card) \/ BootUnmount(Card, None)
    \/ \E rw \in BOOLEAN : SessionStart(rw)
    \/ SessionStop \/ ToolMount \/ ToolUnmountCall \/ SessionStep

Spec == Init /\ [][Next]_vars

-----------------------------------------------------------------------------
(* Properties *)

TransportLeft == "left" \in mishaps \/ "already" \in mishaps

\* Nothing is forgotten: between commands a session's mount at the target has
\* a record whose stop will take it down, unless the target's mount was hidden
\* or unmounted by another tool, or its start could not write the record; a
\* start that fails earlier, or that succeeds with already_mounted, forgets
\* nothing there.  And the transport is mounted on account of a record that
\* owns it, unless besides a start left it: one that failed (fail), or one that
\* succeeded because the boot had mounted the target meanwhile (370-376)
\* (vita-toolkit-session:44-53, 181-193, 263-307, 312-408).
NothingForgotten ==
    pc = "idle" /\ "session" \notin mishaps =>
        /\ \A i \in DOMAIN mounts[Target] : mounts[Target][i].by = "session" => session # NoSession
        /\ Mounted(Storage) /\ ~TransportLeft =>
              session # NoSession /\ session.owned

\* The workspace image, an ext4 file system, is never mounted twice, unless
\* start or stop is run while the waiter of an earlier start is out
\* (S06toolkit:96-98, 109-139).
WorkspaceOnce == "overlap" \notin mishaps => Len(mounts[Work]) <= 1

\* A session takes down its own mount only: as long as nobody hid or removed
\* it, what stop unmounts at the target is what a session mounted there, never
\* the payload the boot or a user put there (vita-toolkit-session:269-292,
\* 370-376, 408).
StopTakesOwn ==
    [][pc = "unmount_target" /\ mounts' # mounts /\ pc' = "unmount_transport"
          /\ "session" \notin mishaps
       => Last(mounts[Target]).by = "session"]_vars

-----------------------------------------------------------------------------
(* The inductive invariant *)

Mounting == {"mount_target", "recognize", "workspace", "record"}
Placed   == {"recognize", "workspace", "record"}
Stopping == {"recheck", "unmount_target", "unmount_transport"}

\* The shell variables go with the place the command is at, and are gone with
\* it (vita-toolkit-session:312-381).
ShellKept ==
    /\ pc \in {"idle", "stop", "tool_check", "tool_unmount"} \cup Stopping => sh = Fresh
    /\ pc \in {"discover", "explicit", "mount_transport", "tool_mount"} =>
          ~sh.owned /\ sh.at = Storage
    /\ pc \in {"remount", "verify", "target", "tool_mount"} \cup Mounting => sh.file # None
    /\ pc \in {"target"} \cup Mounting => sh.hash # None
    /\ sh.owned => sh.at = Storage

OwnTarget == \E i \in DOMAIN mounts[Target] : mounts[Target][i].by = "session"

\* The record of a session against the mount table: until something goes wrong
\* there is one mount at the target, it is a session's exactly when a record or
\* a command under way says so, and the transport is mounted on their account
\* only (vita-toolkit-session:181-193, 263-307).
SessionKept ==
    /\ Len(mounts[Storage]) <= 1
    /\ pc \in Stopping => session # NoSession
    /\ session.owned => session.at = Storage
    /\ "session" \notin mishaps =>
          /\ Len(mounts[Target]) <= 1
          /\ OwnTarget <=> pc \in Placed \/ (session # NoSession /\ pc # "unmount_transport")
          /\ pc \in Mounting => session = NoSession
          /\ Mounted(Storage) /\ ~TransportLeft => session.owned \/ sh.owned

\* A payload is hashed before it is mounted: what a session mounts is what the
\* sidecar says, what the boot mounts is what /etc records if it records
\* anything, unless the file was written after the hash was taken
\* (vita-toolkit-session:350-368, S06toolkit:66-83).
VerifiedPayload ==
    \A i \in DOMAIN mounts[Target] :
        LET m == mounts[Target][i] IN
        m.seen = edits =>
            /\ m.by = "session" => image = content.sidecar
            /\ m.by = "boot" => content.recorded \in {None, image}

\* A hash that was taken of the file as it is now was the expected one.
HashKept ==
    /\ VerifiedPayload
    /\ \A i \in DOMAIN mounts[Target] : mounts[Target][i].seen <= edits
    /\ sh.seen <= edits /\ \A k \in Jobs : job[k].seen <= edits
    /\ pc \in {"target", "mount_target"} /\ sh.seen = edits => image = content.sidecar
    /\ \A k \in Jobs : job[k].pc \in {"target", "mount_target"} /\ job[k].seen = edits =>
                          content.recorded \in {None, image}

\* One run of S06toolkit at a time, which has looked before it mounts
\* (S06toolkit:96-98, 109-139).
BootKept ==
    "overlap" \notin mishaps =>
        /\ \A j, k \in Waiting : j = k
        /\ halting # None => Waiting = {}
        /\ \A k \in Jobs : job[k].pc = "mount_work" => ~Mounted(Work)

\* The mount table: types, the writable image mounted once, and what the
\* scripts have noted about it.
MountInv == TypeOK /\ WorkspaceOnce /\ ShellKept /\ SessionKept /\ HashKept /\ BootKept

=============================================================================
