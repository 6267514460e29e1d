-------------------------- MODULE SessionPublication --------------------------
(***************************************************************************)
(* The files of one take, from <id>.partial to the published directory.    *)
(*                                                                         *)
(* DeviceSessionRecorder.start/stop/fail (recording/device_session.py),    *)
(* recover_device_session (recording/recovery.py) and the boot recovery of *)
(* the coordinator, one action per file operation.  The daemon may be      *)
(* killed and the power may fail between any two of them.                  *)
(*                                                                         *)
(* Power loss: directory operations reach the disk in the order they were  *)
(* issued (an ordered journal) and at the latest at the next fsync, so the *)
(* disk comes back in any state it had since the last fsync.               *)
(***************************************************************************)
EXTENDS Naturals

CONSTANTS
    MaxCrashes,        \* bound: kills and power losses in one behaviour
    StopTailErrors,    \* TRUE: I/O may fail after stop() removed a control file
    BootErrors,        \* TRUE: I/O may fail while boot settles a take
    StaleAtClose       \* TRUE: close() may meet a take whose last recording.json
                       \* could not be written

ASSUME FaultAssumption ==
    /\ MaxCrashes \in Nat
    /\ {StopTailErrors, BootErrors, StaleAtClose} \subseteq BOOLEAN

VARIABLES
    disk,      \* the directory of the take, see Disks
    undo,      \* states a power loss may still bring back
    footage,   \* segments.json names a complete stereo segment
    begun,     \* start_capture has answered: the take exists for its user
    db,        \* the capture document in SQLite
    mem,       \* the coordinator's view of the take
    pc,        \* the next file operation
    job,       \* who runs it: a stop or failure, close(), boot, boot without space
               \* for recovery, or the recovery postponed by such a boot
    crashes

vars == <<disk, undo, footage, begun, db, mem, pc, job, crashes>>

States == {"none", "live", "terminal"}     \* of a recording.json
Disks == [dir : {"none", "partial", "final"},
          recording : States,               \* recording.json, top level
          capture : BOOLEAN,                \* capture.json, top level
          archived : States,                \* recovery/recording.json
          plan : BOOLEAN,                   \* recovery/capture.json
          interruption : BOOLEAN,           \* recovery/interruption.json
          manifest : {"none", "torn", "full", "prefix"}]

\* retained: the outcome kept for the take; one in state "live" is rejected
\* when it is read back.  active: active_session / _recovery_session.
Views == [retained : States, active : BOOLEAN]
Memory == [retained : States, active : BOOLEAN, state : States]

Running == {"checkpoint", "plan", "startfail", "recording", "finalize", "manifest",
            "msync", "unlink1", "unlink2", "usync", "rename", "rootsync", "commit", "drop",
            "mark", "retain", "fcommit", "pending"}
Recovering == {"scan", "prefix", "move1", "move2", "rsync", "rrename", "rparent"}
Booting == {"inspect", "bmove1", "bmove2", "bsync", "brename", "bparent", "bdrop", "settle",
            "restore", "bpersist"}

TypeDisk == disk \in Disks /\ undo \subseteq Disks
TypeViews == db \in Views /\ mem \in Memory
TypeControl ==
    /\ footage \in BOOLEAN /\ begun \in BOOLEAN
    /\ pc \in {"off", "idle", "deferred"} \cup Running \cup Recovering \cup Booting
    /\ job \in {"run", "close", "boot", "cramped", "late"}
    /\ crashes \in 0 .. MaxCrashes

TypeOK == TypeDisk /\ TypeViews /\ TypeControl

NoDirectory == [dir |-> "none", recording |-> "none", capture |-> FALSE, archived |-> "none",
                plan |-> FALSE, interruption |-> FALSE, manifest |-> "none"]
NoTake == [retained |-> "none", active |-> FALSE]
NoMemory == [retained |-> "none", active |-> FALSE, state |-> "none"]

Init ==
    /\ disk = NoDirectory /\ undo = {}
    /\ footage = FALSE /\ begun = FALSE
    /\ db = NoTake /\ mem = NoMemory
    /\ pc = "idle" /\ job = "run" /\ crashes = 0

-----------------------------------------------------------------------------
(* File operations.                                                         *)

\* An operation that is not durable before the next fsync.
Op(d) == disk' = d /\ undo' = undo \cup {disk}

\* write_json_atomic: fsync, rename over the target, fsync of the directory.
Durable(d) == disk' = d /\ undo' = {}

\* write_json_atomic raised: before its rename, or in the fsync after it.
Raised(d) == UNCHANGED <<disk, undo>> \/ Op(d)

Fsync == UNCHANGED disk /\ undo' = {}
NoOp == UNCHANGED <<disk, undo>>

Valid(d) == d.manifest \in {"full", "prefix"}
Possible == undo \cup {disk}

\* The document that _local_state_write takes of the coordinator's view.
View(m) == [retained |-> m.retained, active |-> m.active]
Goto(label) == pc' = label
Stay == UNCHANGED <<footage, begun, db, mem, job, crashes>>

-----------------------------------------------------------------------------
(* DeviceSessionRecorder.start.                                             *)

StartMkdir ==
    /\ pc = "idle" /\ ~begun
    /\ disk = NoDirectory /\ mem.retained = "none"
    /\ Op([disk EXCEPT !.dir = "partial"])
    /\ mem' = [mem EXCEPT !.active = TRUE, !.state = "none"]
    /\ job' = "run"
    /\ Goto("checkpoint")
    /\ UNCHANGED <<footage, begun, db, crashes>>

StartCheckpoint_NoSink ==
    /\ pc = "checkpoint"
    /\ Durable([disk EXCEPT !.recording = "live"])
    /\ mem' = [mem EXCEPT !.state = "live"]
    /\ Goto("plan")
    /\ UNCHANGED <<footage, begun, db, job, crashes>>

\* _persist_state("recording"): recording.json, then the database through
\* the state sink, which names the active take before any source runs.
StartCheckpoint ==
    LET d == [disk EXCEPT !.recording = "live"] IN
    /\ pc = "checkpoint"
    /\ \/ Durable(d) /\ mem' = [mem EXCEPT !.state = "live"] /\ db' = View(mem) /\ Goto("plan")
       \/ Durable(d) /\ mem' = [mem EXCEPT !.state = "live"] /\ UNCHANGED db /\ Goto("startfail")
       \/ Raised(d) /\ UNCHANGED <<mem, db>> /\ Goto("startfail")
    /\ UNCHANGED <<footage, begun, job, crashes>>

\* capture.json, encoder, threads; then start_capture answers.
StartPlan ==
    LET d == [disk EXCEPT !.capture = TRUE] IN
    /\ pc = "plan"
    /\ \/ Durable(d) /\ begun' = TRUE /\ Goto("recording")
       \/ Durable(d) /\ UNCHANGED begun /\ Goto("startfail")
       \/ Raised(d) /\ UNCHANGED begun /\ Goto("startfail")
    /\ UNCHANGED <<footage, db, mem, job, crashes>>

\* except of start() and of _start_capture_with_network_lease
StartFailed ==
    LET d == [disk EXCEPT !.recording = "terminal"] IN
    /\ pc = "startfail"
    /\ \/ /\ Durable(d)
          /\ mem' = [retained |-> "terminal", active |-> FALSE, state |-> "terminal"]
       \/ /\ Raised(d)
          /\ mem' = [retained |-> mem.state, active |-> FALSE, state |-> mem.state]
    /\ db' \in {db, View(mem')}
    /\ Goto("idle")
    /\ UNCHANGED <<footage, begun, job, crashes>>

-----------------------------------------------------------------------------
(* Recording, DeviceSessionRecorder.stop and its publication.               *)

\* _harvest_segments publishes a checkpoint of complete segments.
CommitSegment ==
    /\ pc \in {"recording", "finalize"} /\ ~footage
    /\ footage' = TRUE
    /\ UNCHANGED <<disk, undo, begun, db, mem, pc, job, crashes>>

\* The "finalizing" checkpoint.
StopBegin ==
    /\ pc = "recording"
    /\ pc' \in {"finalize", "drop"}
    /\ NoOp /\ Stay

StopFinalize_ControlsFirst ==
    /\ pc = "finalize"
    /\ pc' \in {"manifest", "drop"}
    /\ Op([disk EXCEPT !.recording = "none", !.capture = FALSE])
    /\ Stay

\* Drain, artifacts, quality policy, audit and before_publish.
StopFinalize ==
    /\ pc = "finalize"
    /\ pc' \in {"manifest", "drop"}
    /\ NoOp /\ Stay

StopManifest ==
    /\ pc = "manifest"
    /\ \/ Op([disk EXCEPT !.manifest = "torn"]) /\ pc' \in {"msync", "drop"}
       \/ NoOp /\ Goto("drop")
    /\ Stay

StopManifestSync ==
    LET d == [disk EXCEPT !.manifest = "full"] IN
    /\ pc = "msync"
    /\ \/ Durable(d) /\ Goto("unlink1")
       \/ Raised(d) /\ Goto("drop")
    /\ Stay

StopUnlinkRecording ==
    /\ pc = "unlink1"
    /\ \/ Op([disk EXCEPT !.recording = "none"]) /\ Goto("unlink2")
       \/ NoOp /\ Goto("drop")
    /\ Stay

\* An I/O error after a control file has been removed.
StopTailError == StopTailErrors /\ NoOp /\ Goto("drop")

StopUnlinkCapture ==
    /\ pc = "unlink2"
    /\ \/ Op([disk EXCEPT !.capture = FALSE]) /\ Goto("usync")
       \/ StopTailError
    /\ Stay

StopUnlinkSync ==
    /\ pc = "usync"
    /\ \/ Fsync /\ Goto("rename")
       \/ StopTailError
    /\ Stay

StopRename ==
    /\ pc = "rename"
    /\ \/ Op([disk EXCEPT !.dir = "final"]) /\ Goto("rootsync")
       \/ StopTailError
    /\ Stay

\* fsync of the root and the independent check that follows publication.
StopRootSync ==
    /\ pc = "rootsync"
    /\ \/ Fsync /\ pc' \in {"commit", "retain"}
       \/ NoOp /\ Goto("retain")
    /\ Stay

\* The coordinator's end of the take: it becomes idle even when the write
\* fails, or a source failure is found pending.
StopCommit ==
    /\ pc = "commit"
    /\ \/ /\ mem' = [mem EXCEPT !.active = FALSE]
          /\ db' \in {db, View(mem')}
          /\ Goto("idle")
       \/ UNCHANGED <<mem, db>> /\ Goto("retain")
    /\ NoOp
    /\ UNCHANGED <<footage, begun, job, crashes>>

-----------------------------------------------------------------------------
(* Failure: the except of stop(), fail(), abort() and _mark_failed.         *)

Fail == pc = "recording" /\ Goto("drop") /\ NoOp /\ Stay

\* close(): a live take is aborted, one with a pending commit only retained.
Close ==
    /\ \/ pc = "recording" /\ Goto("drop")
       \/ pc = "pending" /\ (mem.state = "terminal" \/ StaleAtClose) /\ Goto("retain")
    /\ job' = "close"
    /\ NoOp
    /\ UNCHANGED <<footage, begun, db, mem, crashes>>

\* unlink of manifest.json; its errors are suppressed.
DropManifest ==
    /\ pc = "drop"
    /\ Op([disk EXCEPT !.manifest = "none"]) \/ NoOp
    /\ Goto("mark")
    /\ Stay

\* _mark_failed rewrites recording.json and, through the state sink, the
\* database; then the prefix is recovered unless the medium is lost.
MarkFailed ==
    LET d == [disk EXCEPT !.recording = "terminal"] IN
    /\ pc = "mark"
    /\ \/ /\ Durable(d)
          /\ mem' = [mem EXCEPT !.state = "terminal"]
          /\ pc' \in {"scan", "retain"} \cup (IF job = "close" THEN {"off"} ELSE {})
       \/ /\ Raised(d)
          /\ UNCHANGED mem
          /\ job = "close" => StaleAtClose
          /\ pc' \in {"scan", "retain"}
    /\ UNCHANGED <<footage, begun, db, job, crashes>>

\* _finish_active_failure replaces a state that is not terminal.
Retained == [mem EXCEPT !.retained = "terminal"]

RetainFailure ==
    /\ pc = "retain" /\ job = "run"
    /\ mem' = Retained
    /\ Goto("fcommit")
    /\ NoOp
    /\ UNCHANGED <<footage, begun, db, job, crashes>>

\* _commit_active_failure: the write still names the take as active.
CommitFailure ==
    /\ pc = "fcommit"
    /\ \/ db' = View(mem) /\ mem' = [mem EXCEPT !.active = FALSE] /\ Goto("idle")
       \/ UNCHANGED <<db, mem>> /\ Goto("pending")
    /\ NoOp
    /\ UNCHANGED <<footage, begun, job, crashes>>

\* An explicit stop retries the commit.
RetryCommit == pc = "pending" /\ Goto("fcommit") /\ NoOp /\ Stay

\* _close_capture retains the recorder's state as it is, then exits.
CloseRetain ==
    /\ pc = "retain" /\ job = "close"
    /\ mem' = [mem EXCEPT !.retained = mem.state, !.active = FALSE]
    /\ db' \in {db, View(mem')}
    /\ Goto("off")
    /\ NoOp
    /\ UNCHANGED <<footage, begun, job, crashes>>

-----------------------------------------------------------------------------
(* recover_device_session, at run time and at boot.                         *)

\* Any error ends the attempt and leaves the directory as it is.
Ended == Goto(IF job \in {"run", "close"} THEN "retain" ELSE "restore")

\* Read and verify the plan and the segments, write interruption.json.
RecoverScan ==
    /\ pc = "scan"
    /\ \/ footage /\ disk.capture /\ Durable([disk EXCEPT !.interruption = TRUE]) /\ Goto("prefix")
       \/ NoOp /\ Ended
    /\ Stay

\* write_json_atomic(manifest.json) and its inspection
RecoverManifest ==
    LET d == [disk EXCEPT !.manifest = "prefix"] IN
    /\ pc = "prefix"
    /\ \/ Durable(d) /\ (Goto("move1") \/ Ended)
       \/ Raised(d) /\ Ended
    /\ Stay

ArchivePlan == [disk EXCEPT !.capture = FALSE, !.plan = disk.plan \/ disk.capture]
ArchiveRecording ==
    IF disk.recording = "none" THEN disk
    ELSE [disk EXCEPT !.recording = "none", !.archived = disk.recording]

RecoverMoveCapture ==
    /\ pc = "move1"
    /\ \/ Op(ArchivePlan) /\ Goto("move2")
       \/ NoOp /\ Ended
    /\ Stay

RecoverMoveRecording ==
    /\ pc = "move2"
    /\ \/ Op(ArchiveRecording) /\ Goto("rsync")
       \/ NoOp /\ Ended
    /\ Stay

RecoverSync ==
    /\ pc = "rsync"
    /\ \/ Fsync /\ Goto("rrename")
       \/ NoOp /\ Ended
    /\ Stay

RecoverRename ==
    /\ pc = "rrename"
    /\ \/ Op([disk EXCEPT !.dir = "final"]) /\ Goto("rparent")
       \/ NoOp /\ Ended
    /\ Stay

RecoverParentSync ==
    /\ pc = "rparent"
    /\ Fsync \/ NoOp
    /\ Ended
    /\ Stay

-----------------------------------------------------------------------------
(* Boot: _restore_local_state, _recover_sessions, _persist_local_state.     *)

FirstStep ==
    IF disk.dir # "partial" THEN "restore"
    ELSE IF disk.manifest # "none" THEN "inspect" ELSE "settle"

Boot_Amnesia ==
    /\ pc = "off"
    /\ mem' = [NoMemory EXCEPT !.active = db.active]
    /\ job' = "boot" /\ Goto(FirstStep)
    /\ NoOp
    /\ UNCHANGED <<footage, begun, db, crashes>>

\* An outcome that is not terminal is rejected when it is read back.  With
\* too little space the take is left alone until the next start.
Boot ==
    /\ pc = "off"
    /\ mem' = [retained |-> IF db.retained = "terminal" THEN "terminal" ELSE "none",
               active |-> db.active, state |-> "none"]
    /\ \/ job' = "boot" /\ Goto(FirstStep)
       \/ job' = "cramped" /\ Goto("bpersist")
    /\ NoOp
    /\ UNCHANGED <<footage, begun, db, crashes>>

\* The next start_capture recovers first, once there is space again.
RecoverDeferred ==
    /\ pc = "deferred"
    /\ job' = "late" /\ Goto(FirstStep)
    /\ NoOp
    /\ UNCHANGED <<footage, begun, db, mem, crashes>>

InspectPasses_AnyManifest == TRUE

\* inspect_device_session_directory
InspectPasses == Valid(disk)
BootError == BootErrors /\ NoOp /\ Goto("bdrop")

BootInspect ==
    /\ pc = "inspect"
    /\ \/ InspectPasses /\ NoOp /\ Goto("bmove1")
       \/ ~InspectPasses /\ NoOp /\ Goto("bdrop")
       \/ BootError
    /\ Stay

BootMoveCapture ==
    /\ pc = "bmove1"
    /\ \/ Op(ArchivePlan) /\ Goto("bmove2")
       \/ BootError
    /\ Stay

BootMoveRecording ==
    /\ pc = "bmove2"
    /\ \/ Op(ArchiveRecording) /\ Goto("bsync")
       \/ BootError
    /\ Stay

BootSync ==
    /\ pc = "bsync"
    /\ \/ Fsync /\ Goto("brename")
       \/ BootError
    /\ Stay

BootRename ==
    /\ pc = "brename"
    /\ \/ Op([disk EXCEPT !.dir = "final"]) /\ Goto("bparent")
       \/ BootError
    /\ Stay

BootParentSync ==
    /\ pc = "bparent"
    /\ Fsync \/ NoOp
    /\ Goto("restore")
    /\ Stay

BootDropManifest ==
    /\ pc = "bdrop"
    /\ Op([disk EXCEPT !.manifest = "none"]) \/ NoOp
    /\ Goto("settle")
    /\ Stay

\* _settle_partial: a readable recording.json makes the take a retained one,
\* and one left live by a crash is rewritten.
Settle ==
    /\ pc = "settle"
    /\ \E m \in {"none", disk.manifest} :
         LET d == [disk EXCEPT !.manifest = m]
             t == [d EXCEPT !.recording = "terminal"]
         IN  \/ /\ disk.recording = "none" \/ BootErrors
                /\ Op(d) /\ Goto("scan") /\ UNCHANGED mem
             \/ /\ disk.recording = "terminal"
                /\ Op(d) /\ Goto("scan") /\ mem' = Retained
             \/ /\ disk.recording = "live"
                /\ \/ Durable(t) /\ Goto("scan")
                   \/ (Op(d) \/ Op(t)) /\ Goto("scan")
                /\ mem' = Retained
    /\ UNCHANGED <<footage, begun, db, job, crashes>>

Restored_Forgotten == {[mem EXCEPT !.active = FALSE]}

\* _restore_published_failure: a prefix published just before a crash is
\* found by the identity kept in the database; a read error keeps it.
Restored ==
    IF ~mem.active THEN {mem}
    ELSE IF mem.retained # "none" THEN {[mem EXCEPT !.active = FALSE]}
    ELSE IF disk.dir = "final" /\ disk.archived # "none" /\ disk.interruption
         THEN IF disk.archived = "terminal" /\ disk.manifest = "prefix"
              THEN {mem, [Retained EXCEPT !.active = FALSE]}
              ELSE {mem}
    ELSE {[mem EXCEPT !.active = FALSE]}

RestoreFailure ==
    /\ pc = "restore"
    /\ mem' \in Restored
    /\ Goto(IF job = "boot" THEN "bpersist" ELSE "idle")
    /\ NoOp
    /\ UNCHANGED <<footage, begun, db, job, crashes>>

\* The constructor raises when its write fails.
BootPersist ==
    /\ pc = "bpersist"
    /\ \/ db' = View(mem) /\ Goto(IF job = "cramped" THEN "deferred" ELSE "idle")
       \/ UNCHANGED db /\ Goto("off")
    /\ NoOp
    /\ UNCHANGED <<footage, begun, mem, job, crashes>>

-----------------------------------------------------------------------------
\* Any later write of the state, for whatever reason.
LaterWrite ==
    /\ pc \in {"idle", "deferred"} /\ db # View(mem)
    /\ db' = View(mem)
    /\ NoOp
    /\ UNCHANGED <<footage, begun, mem, pc, job, crashes>>

\* A shutdown without a take.
Shutdown ==
    /\ pc \in {"idle", "deferred"}
    /\ db' \in {db, View(mem)}
    /\ Goto("off")
    /\ NoOp
    /\ UNCHANGED <<footage, begun, mem, job, crashes>>

Kill ==
    /\ pc # "off" /\ crashes < MaxCrashes
    /\ crashes' = crashes + 1
    /\ Goto("off")
    /\ NoOp
    /\ UNCHANGED <<footage, begun, db, mem, job>>

PowerLoss ==
    /\ crashes < MaxCrashes
    /\ crashes' = crashes + 1
    /\ Goto("off")
    /\ disk' \in Possible /\ undo' = {}
    /\ UNCHANGED <<footage, begun, db, mem, job>>

Take ==
    \/ StartMkdir \/ StartCheckpoint \/ StartPlan \/ StartFailed
    \/ CommitSegment \/ StopBegin \/ StopFinalize \/ StopManifest \/ StopManifestSync
    \/ StopUnlinkRecording \/ StopUnlinkCapture \/ StopUnlinkSync \/ StopRename
    \/ StopRootSync \/ StopCommit

Failure ==
    \/ Fail \/ Close \/ DropManifest \/ MarkFailed \/ RetainFailure \/ CommitFailure
    \/ RetryCommit \/ CloseRetain

Recovery ==
    \/ RecoverScan \/ RecoverManifest \/ RecoverMoveCapture \/ RecoverMoveRecording
    \/ RecoverSync \/ RecoverRename \/ RecoverParentSync

Startup ==
    \/ Boot \/ RecoverDeferred \/ BootInspect \/ BootMoveCapture \/ BootMoveRecording
    \/ BootSync \/ BootRename \/ BootParentSync \/ BootDropManifest \/ Settle
    \/ RestoreFailure \/ BootPersist

Next == Take \/ Failure \/ Recovery \/ Startup \/ LaterWrite \/ Shutdown \/ Kill \/ PowerLoss

Spec == Init /\ [][Next]_vars

-----------------------------------------------------------------------------
(* Properties.                                                              *)

\* A directory under its published name has a complete, valid manifest and no
\* control file left at its top, in every state a power loss can bring back.
PublishedIsComplete ==
    \A d \in Possible : d.dir = "final" => Valid(d) /\ d.recording = "none" /\ ~d.capture

\* A take that has a complete segment can always be finished from its files:
\* its manifest is valid or its plan is where recovery looks for it
\* (README.md:16, docs/recording-v4.md:22).
FootageReachable ==
    footage => \A d \in Possible : d.dir = "partial" => Valid(d) \/ d.capture

\* A take its user saw begin never vanishes: once the daemon is idle again it
\* is published complete, or listed as unsuccessful, or its identity is still
\* kept to list it.
TakeAccounted ==
    pc = "idle" /\ begun =>
        \/ disk.dir = "final" /\ disk.manifest = "full"
        \/ mem.retained # "none"
        \/ disk.dir = "final" /\ mem.active

\* Whatever a crash leaves behind, the database names a take whose prefix is
\* or may become published, until its failure is recorded there.
IdentityKept ==
    \A d \in Possible : d.dir = "final" /\ d.manifest = "prefix" =>
        db.retained = "terminal" \/ db.active

\* How far the take has come, for a reader of the disk after a power loss.
Outcome ==
    IF disk.dir = "final" /\ undo = {}
    THEN IF disk.manifest = "full" THEN "complete" ELSE "interrupted"
    ELSE IF begun THEN "recording" ELSE "none"

\* The files implement the life cycle promised by TakeLifecycle: publication
\* happens at most once, is never withdrawn, and a report is never lost.
Lifecycle == INSTANCE TakeLifecycle WITH outcome <- Outcome, reported <- (db.retained = "terminal")
ImplementsLifecycle == Lifecycle!Spec
=============================================================================
