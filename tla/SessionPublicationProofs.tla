------------------------ MODULE SessionPublicationProofs ------------------------
(***************************************************************************)
(* Proofs about SessionPublication, for any number of crashes: publication *)
(* is complete and the life cycle of a take is kept with every I/O fault   *)
(* of the model; its footage stays reachable, its identity is kept and the *)
(* take accounted for without those that are findings.                     *)
(***************************************************************************)
EXTENDS SessionPublication, TLAPS

\* The document taken of a view has the type of a document.
LEMMA ViewType ==
    ASSUME NEW m \in Memory
    PROVE  View(m) \in Views
  BY DEF View, Views, Memory

\* What a directory operation leaves is a directory of the model.
LEMMA OpType ==
    ASSUME TypeDisk, NEW d \in Disks, Op(d) \/ NoOp
    PROVE  TypeDisk'
  BY DEF TypeDisk, Op, NoOp

\* Moving a control file to recovery/ leaves a directory of the model.
LEMMA ArchiveType ==
    ASSUME disk \in Disks
    PROVE  ArchivePlan \in Disks /\ ArchiveRecording \in Disks
  <1>1. ArchivePlan \in Disks
    BY DEF ArchivePlan, Disks
  <1>2. ArchiveRecording \in Disks
    <2>1. CASE disk.recording = "none"
      BY <2>1 DEF ArchiveRecording
    <2>2. CASE disk.recording # "none"
      <3>1. disk.recording \in States /\ "none" \in States
        BY DEF Disks, States
      <3> QED BY <2>2, <3>1 DEF ArchiveRecording, Disks
    <2> QED BY <2>1, <2>2
  <1> QED BY <1>1, <1>2

\* What boot restores of a published failure is a view of the coordinator.
LEMMA RestoredType ==
    ASSUME disk \in Disks, mem \in Memory
    PROVE  Restored \subseteq Memory
  <1>1. [mem EXCEPT !.active = FALSE] \in Memory
    BY DEF Memory
  <1>2. Retained \in Memory
    BY DEF Retained, Memory, States, Disks
  <1>3. [Retained EXCEPT !.active = FALSE] \in Memory
    BY <1>2 DEF Memory
  <1> QED BY <1>1, <1>3 DEF Restored

\* Every file operation keeps the variables in their types.
LEMMA TypeStep ==
    ASSUME TypeOK, [Next]_vars
    PROVE  TypeOK'
  <1> USE FaultAssumption DEF TypeOK, TypeDisk, NoOp, Stay, Goto, Disks, Views, Memory,
     States, Running, Recovering, Booting, NoDirectory, NoMemory, TypeViews, TypeControl
  <1>1. CASE StartMkdir
    BY <1>1 DEF StartMkdir, Op
  <1>2. CASE StartCheckpoint
    BY <1>2 DEF StartCheckpoint, Durable, Raised, Op, View
  <1>3. CASE StartPlan
    <2>1. TypeDisk' BY <1>3 DEF StartPlan, Durable, Raised, Op
    <2>2. TypeViews' BY <1>3 DEF StartPlan, Durable, Raised, Op
    <2>3. TypeControl' BY <1>3 DEF StartPlan, Durable, Raised, Op
    <2> QED BY <2>1, <2>2, <2>3
  <1>4. CASE StartFailed
    <2>1. TypeDisk' BY <1>4 DEF StartFailed, Durable, Raised, Op
    <2>2. mem' \in Memory
      <3>1. mem.state \in States
        OBVIOUS
      <3>2. \E s \in States : mem' = [retained |-> s, active |-> FALSE, state |-> s]
        BY <1>4, <3>1 DEF StartFailed
      <3> QED BY <3>2
    <2>3. db' \in Views BY <1>4, <2>2, ViewType DEF StartFailed
    <2>4. TypeControl' BY <1>4 DEF StartFailed
    <2> QED BY <2>1, <2>2, <2>3, <2>4
  <1>5. CASE CommitSegment
    BY <1>5 DEF CommitSegment
  <1>6. CASE StopBegin
    BY <1>6 DEF StopBegin
  <1>7. CASE StopFinalize
    BY <1>7 DEF StopFinalize
  <1>8. CASE StopManifest
    BY <1>8 DEF StopManifest, Op
  <1>9. CASE StopManifestSync
    BY <1>9 DEF StopManifestSync, Durable, Raised, Op
  <1>10. CASE StopUnlinkRecording
    BY <1>10 DEF StopUnlinkRecording, Op
  <1>11. CASE StopUnlinkCapture
    <2>1. TypeDisk' BY <1>11 DEF StopUnlinkCapture, Op, StopTailError
    <2>2. TypeViews' BY <1>11 DEF StopUnlinkCapture, Op, StopTailError
    <2>3. TypeControl' BY <1>11 DEF StopUnlinkCapture, Op, StopTailError
    <2> QED BY <2>1, <2>2, <2>3
  <1>12. CASE StopUnlinkSync
    BY <1>12 DEF StopUnlinkSync, Fsync, StopTailError
  <1>13. CASE StopRename
    BY <1>13 DEF StopRename, Op, StopTailError
  <1>14. CASE StopRootSync
    BY <1>14 DEF StopRootSync, Fsync
  <1>15. CASE StopCommit
    <2>1. TypeDisk' BY <1>15 DEF StopCommit
    <2>2. mem' \in Memory BY <1>15 DEF StopCommit
    <2>3. db' \in Views BY <1>15, <2>2, ViewType DEF StopCommit
    <2>4. TypeControl' BY <1>15 DEF StopCommit
    <2> QED BY <2>1, <2>2, <2>3, <2>4
  <1>16. CASE Fail
    BY <1>16 DEF Fail
  <1>17. CASE Close
    BY <1>17 DEF Close
  <1>18. CASE DropManifest
    BY <1>18 DEF DropManifest, Op
  <1>19. CASE MarkFailed
    BY <1>19 DEF MarkFailed, Durable, Raised, Op
  <1>20. CASE RetainFailure
    BY <1>20 DEF RetainFailure, Retained
  <1>21. CASE CommitFailure
    <2>1. TypeDisk' BY <1>21 DEF CommitFailure
    <2>2. mem' \in Memory BY <1>21 DEF CommitFailure
    <2>3. db' \in Views BY <1>21, <2>2, ViewType DEF CommitFailure
    <2>4. TypeControl' BY <1>21 DEF CommitFailure
    <2> QED BY <2>1, <2>2, <2>3, <2>4
  <1>22. CASE RetryCommit
    BY <1>22 DEF RetryCommit
  <1>23. CASE CloseRetain
    <2>1. TypeDisk' BY <1>23 DEF CloseRetain
    <2>2. mem' \in Memory BY <1>23 DEF CloseRetain
    <2>3. db' \in Views BY <1>23, <2>2, ViewType DEF CloseRetain
    <2>4. TypeControl' BY <1>23 DEF CloseRetain
    <2> QED BY <2>1, <2>2, <2>3, <2>4
  <1>24. CASE RecoverScan
    <2>1. TypeDisk' BY <1>24 DEF RecoverScan, Durable, Ended
    <2>2. TypeViews' BY <1>24 DEF RecoverScan, Durable, Ended
    <2>3. TypeControl' BY <1>24 DEF RecoverScan, Durable, Ended
    <2> QED BY <2>1, <2>2, <2>3
  <1>25. CASE RecoverManifest
    BY <1>25 DEF RecoverManifest, Durable, Raised, Op, Ended
  <1>26. CASE RecoverMoveCapture
    <2>1. TypeDisk'
      <3> HIDE DEF TypeDisk, Disks, NoOp
      <3>1. TypeDisk /\ (Op(ArchivePlan) \/ NoOp) BY <1>26 DEF RecoverMoveCapture, Ended
      <3>2. disk \in Disks BY <3>1 DEF TypeDisk
      <3> QED BY <3>1, <3>2, ArchiveType, OpType
    <2>2. TypeViews' BY <1>26 DEF RecoverMoveCapture, Ended
    <2>3. TypeControl' BY <1>26 DEF RecoverMoveCapture, Ended
    <2> QED BY <2>1, <2>2, <2>3
  <1>27. CASE RecoverMoveRecording
    <2>1. TypeDisk'
      <3> HIDE DEF TypeDisk, Disks, NoOp
      <3>1. TypeDisk /\ (Op(ArchiveRecording) \/ NoOp) BY <1>27 DEF RecoverMoveRecording, Ended
      <3>2. disk \in Disks BY <3>1 DEF TypeDisk
      <3> QED BY <3>1, <3>2, ArchiveType, OpType
    <2>2. TypeViews' BY <1>27 DEF RecoverMoveRecording, Ended
    <2>3. TypeControl' BY <1>27 DEF RecoverMoveRecording, Ended
    <2> QED BY <2>1, <2>2, <2>3
  <1>28. CASE RecoverSync
    BY <1>28 DEF RecoverSync, Fsync, Ended
  <1>29. CASE RecoverRename
    BY <1>29 DEF RecoverRename, Op, Ended
  <1>30. CASE RecoverParentSync
    BY <1>30 DEF RecoverParentSync, Fsync, Ended
  <1>31. CASE Boot
    BY <1>31 DEF Boot, FirstStep
  <1>32. CASE RecoverDeferred
    BY <1>32 DEF RecoverDeferred, FirstStep
  <1>33. CASE BootInspect
    BY <1>33 DEF BootInspect, InspectPasses, BootError
  <1>34. CASE BootMoveCapture
    <2>1. TypeDisk'
      <3> HIDE DEF TypeDisk, Disks, NoOp
      <3>1. TypeDisk /\ (Op(ArchivePlan) \/ NoOp) BY <1>34 DEF BootMoveCapture, BootError
      <3>2. disk \in Disks BY <3>1 DEF TypeDisk
      <3> QED BY <3>1, <3>2, ArchiveType, OpType
    <2>2. TypeViews' BY <1>34 DEF BootMoveCapture, BootError
    <2>3. TypeControl' BY <1>34 DEF BootMoveCapture, BootError
    <2> QED BY <2>1, <2>2, <2>3
  <1>35. CASE BootMoveRecording
    <2>1. TypeDisk'
      <3> HIDE DEF TypeDisk, Disks, NoOp
      <3>1. TypeDisk /\ (Op(ArchiveRecording) \/ NoOp) BY <1>35 DEF BootMoveRecording, BootError
      <3>2. disk \in Disks BY <3>1 DEF TypeDisk
      <3> QED BY <3>1, <3>2, ArchiveType, OpType
    <2>2. TypeViews' BY <1>35 DEF BootMoveRecording, BootError
    <2>3. TypeControl' BY <1>35 DEF BootMoveRecording, BootError
    <2> QED BY <2>1, <2>2, <2>3
  <1>36. CASE BootSync
    BY <1>36 DEF BootSync, Fsync, BootError
  <1>37. CASE BootRename
    BY <1>37 DEF BootRename, Op, BootError
  <1>38. CASE BootParentSync
    BY <1>38 DEF BootParentSync, Fsync
  <1>39. CASE BootDropManifest
    BY <1>39 DEF BootDropManifest, Op
  <1>40. CASE Settle
    <2>1. TypeDisk' BY <1>40, ZenonT(40) DEF Settle, Op, Durable, Retained
    <2>2. TypeViews' BY <1>40 DEF Settle, Op, Durable, Retained
    <2>3. TypeControl' BY <1>40 DEF Settle, Op, Durable, Retained
    <2> QED BY <2>1, <2>2, <2>3
  <1>41. CASE RestoreFailure
    <2>1. TypeDisk' BY <1>41 DEF RestoreFailure
    <2>2. TypeViews'
      <3> HIDE DEF TypeDisk, TypeViews, Disks, Memory, Views
      <3>1. disk \in Disks /\ db \in Views /\ mem \in Memory BY DEF TypeDisk, TypeViews
      <3>2. mem' \in Restored /\ db' = db BY <1>41 DEF RestoreFailure
      <3> QED BY <3>1, <3>2, RestoredType DEF TypeViews
    <2>3. TypeControl' BY <1>41 DEF RestoreFailure
    <2> QED BY <2>1, <2>2, <2>3
  <1>42. CASE BootPersist
    BY <1>42 DEF BootPersist, View
  <1>43. CASE LaterWrite
    BY <1>43 DEF LaterWrite, View
  <1>44. CASE Shutdown
    BY <1>44 DEF Shutdown, View
  <1>45. CASE Kill
    BY <1>45 DEF Kill
  <1>46. CASE PowerLoss
    BY <1>46 DEF PowerLoss, Possible
  <1>47. CASE UNCHANGED vars
    BY <1>47 DEF vars
  <1> HIDE DEF TypeOK
  <1> QED
    BY <1>1, <1>2, <1>3, <1>4, <1>5, <1>6, <1>7, <1>8, <1>9, <1>10, <1>11, <1>12, <1>13,
       <1>14, <1>15, <1>16, <1>17, <1>18, <1>19, <1>20, <1>21, <1>22, <1>23, <1>24, <1>25,
       <1>26, <1>27, <1>28, <1>29, <1>30, <1>31, <1>32, <1>33, <1>34, <1>35, <1>36, <1>37,
       <1>38, <1>39, <1>40, <1>41, <1>42, <1>43, <1>44, <1>45, <1>46, <1>47
       DEF Next, Take, Failure, Recovery, Startup

\* The disk, the database and the coordinator's view keep their types.
THEOREM TypeCorrect == Spec => []TypeOK
  <1>1. Init => TypeOK
    <2> SUFFICES ASSUME Init PROVE TypeOK
      OBVIOUS
    <2>1. TypeDisk BY DEF Init, TypeDisk, NoDirectory, Disks, States
    <2>2. TypeViews BY DEF Init, TypeViews, NoTake, NoMemory, Views, Memory, States
    <2>3. crashes \in 0 .. MaxCrashes BY FaultAssumption DEF Init
    <2>4. TypeControl BY <2>3 DEF Init, TypeControl
    <2> QED BY <2>1, <2>2, <2>4 DEF TypeOK
  <1>2. TypeOK /\ [Next]_vars => TypeOK'
    BY TypeStep
  <1> QED BY <1>1, <1>2, PTL DEF Spec

\* Nothing edits a directory that has its published name.
EditsPartial ==
    pc \in {"checkpoint", "plan", "startfail", "recording", "finalize", "manifest", "msync",
            "unlink1", "unlink2", "usync", "rename", "drop", "mark", "scan", "prefix", "move1",
            "move2", "rsync", "rrename", "inspect", "bmove1", "bmove2", "bsync", "brename",
            "bdrop", "settle"} => disk.dir # "final"

\* What the three publication sequences have done before each label.
ReadyToPublish ==
    /\ pc \in {"unlink1", "unlink2", "usync", "rename", "move1", "move2", "rsync", "rrename",
               "bmove1", "bmove2", "bsync", "brename"} => Valid(disk)
    /\ pc \in {"unlink2", "usync", "rename", "rsync", "rrename", "bsync", "brename"} =>
         disk.recording = "none"
    /\ pc \in {"usync", "rename", "move2", "rsync", "rrename", "bmove2", "bsync", "brename"} =>
         ~disk.capture

Published == PublishedIsComplete /\ EditsPartial /\ ReadyToPublish

\* Moving recording.json away touches nothing else that publication needs.
LEMMA Archived ==
    ASSUME disk \in Disks
    PROVE  /\ ArchiveRecording.recording = "none"
           /\ ArchiveRecording.dir = disk.dir
           /\ ArchiveRecording.manifest = disk.manifest
           /\ ArchiveRecording.capture = disk.capture
  BY DEF ArchiveRecording, Disks

\* No file operation, crash or I/O error publishes or damages a directory.
LEMMA PublishedStep ==
    ASSUME TypeOK, Published, [Next]_vars
    PROVE  Published'
  <1> USE FaultAssumption DEF TypeOK, TypeDisk, NoOp, Stay, Goto, Disks, States, Published,
     PublishedIsComplete, EditsPartial, ReadyToPublish, Valid, Possible, NoDirectory
  <1>1. CASE StartMkdir
    BY <1>1 DEF StartMkdir, Op
  <1>2. CASE StartCheckpoint
    BY <1>2 DEF StartCheckpoint, Durable, Raised, Op, View
  <1>3. CASE StartPlan
    BY <1>3 DEF StartPlan, Durable, Raised, Op
  <1>4. CASE StartFailed
    BY <1>4 DEF StartFailed, Durable, Raised, Op, View
  <1>5. CASE CommitSegment
    BY <1>5 DEF CommitSegment
  <1>6. CASE StopBegin
    BY <1>6 DEF StopBegin
  <1>7. CASE StopFinalize
    BY <1>7 DEF StopFinalize
  <1>8. CASE StopManifest
    BY <1>8 DEF StopManifest, Op
  <1>9. CASE StopManifestSync
    BY <1>9 DEF StopManifestSync, Durable, Raised, Op
  <1>10. CASE StopUnlinkRecording
    BY <1>10 DEF StopUnlinkRecording, Op
  <1>11. CASE StopUnlinkCapture
    BY <1>11 DEF StopUnlinkCapture, Op, StopTailError
  <1>12. CASE StopUnlinkSync
    BY <1>12 DEF StopUnlinkSync, Fsync, StopTailError
  <1>13. CASE StopRename
    BY <1>13 DEF StopRename, Op, StopTailError
  <1>14. CASE StopRootSync
    BY <1>14 DEF StopRootSync, Fsync
  <1>15. CASE StopCommit
    BY <1>15 DEF StopCommit, View
  <1>16. CASE Fail
    BY <1>16 DEF Fail
  <1>17. CASE Close
    BY <1>17 DEF Close
  <1>18. CASE DropManifest
    BY <1>18 DEF DropManifest, Op
  <1>19. CASE MarkFailed
    BY <1>19 DEF MarkFailed, Durable, Raised, Op
  <1>20. CASE RetainFailure
    BY <1>20 DEF RetainFailure, Retained
  <1>21. CASE CommitFailure
    BY <1>21 DEF CommitFailure, View
  <1>22. CASE RetryCommit
    BY <1>22 DEF RetryCommit
  <1>23. CASE CloseRetain
    BY <1>23 DEF CloseRetain, View
  <1>24. CASE RecoverScan
    BY <1>24 DEF RecoverScan, Durable, Ended
  <1>25. CASE RecoverManifest
    BY <1>25 DEF RecoverManifest, Durable, Raised, Op, Ended
  <1>26. CASE RecoverMoveCapture
    BY <1>26 DEF RecoverMoveCapture, Op, ArchivePlan, Ended
  <1>27. CASE RecoverMoveRecording
    <2>1. PublishedIsComplete' BY <1>27, Archived DEF RecoverMoveRecording, Op, Ended
    <2>2. EditsPartial' BY <1>27, Archived DEF RecoverMoveRecording, Op, Ended
    <2>3. ReadyToPublish' BY <1>27, Archived DEF RecoverMoveRecording, Op, Ended
    <2> QED BY <2>1, <2>2, <2>3
  <1>28. CASE RecoverSync
    BY <1>28 DEF RecoverSync, Fsync, Ended
  <1>29. CASE RecoverRename
    BY <1>29 DEF RecoverRename, Op, Ended
  <1>30. CASE RecoverParentSync
    BY <1>30 DEF RecoverParentSync, Fsync, Ended
  <1>31. CASE Boot
    BY <1>31 DEF Boot, FirstStep
  <1>32. CASE RecoverDeferred
    BY <1>32 DEF RecoverDeferred, FirstStep
  <1>33. CASE BootInspect
    BY <1>33 DEF BootInspect, InspectPasses, BootError
  <1>34. CASE BootMoveCapture
    BY <1>34 DEF BootMoveCapture, Op, ArchivePlan, BootError
  <1>35. CASE BootMoveRecording
    <2>1. PublishedIsComplete' BY <1>35, Archived DEF BootMoveRecording, Op, BootError
    <2>2. EditsPartial' BY <1>35, Archived DEF BootMoveRecording, Op, BootError
    <2>3. ReadyToPublish' BY <1>35, Archived DEF BootMoveRecording, Op, BootError
    <2> QED BY <2>1, <2>2, <2>3
  <1>36. CASE BootSync
    BY <1>36 DEF BootSync, Fsync, BootError
  <1>37. CASE BootRename
    BY <1>37 DEF BootRename, Op, BootError
  <1>38. CASE BootParentSync
    BY <1>38 DEF BootParentSync, Fsync
  <1>39. CASE BootDropManifest
    BY <1>39 DEF BootDropManifest, Op
  <1>40. CASE Settle
    <2>1. disk'.dir = disk.dir /\ undo' \subseteq undo \cup {disk}
      BY <1>40 DEF Settle, Op, Durable
    <2>2. PublishedIsComplete' BY <1>40, <2>1 DEF Settle
    <2>3. EditsPartial' BY <1>40, <2>1 DEF Settle
    <2>4. ReadyToPublish' BY <1>40 DEF Settle
    <2> QED BY <2>2, <2>3, <2>4
  <1>41. CASE RestoreFailure
    BY <1>41 DEF RestoreFailure, Restored, Retained
  <1>42. CASE BootPersist
    BY <1>42 DEF BootPersist, View
  <1>43. CASE LaterWrite
    BY <1>43 DEF LaterWrite, View
  <1>44. CASE Shutdown
    BY <1>44 DEF Shutdown, View
  <1>45. CASE Kill
    BY <1>45 DEF Kill
  <1>46. CASE PowerLoss
    BY <1>46 DEF PowerLoss
  <1>47. CASE UNCHANGED vars
    BY <1>47 DEF vars
  <1> HIDE DEF TypeOK, Published
  <1> QED
    BY <1>1, <1>2, <1>3, <1>4, <1>5, <1>6, <1>7, <1>8, <1>9, <1>10, <1>11, <1>12, <1>13,
       <1>14, <1>15, <1>16, <1>17, <1>18, <1>19, <1>20, <1>21, <1>22, <1>23, <1>24, <1>25,
       <1>26, <1>27, <1>28, <1>29, <1>30, <1>31, <1>32, <1>33, <1>34, <1>35, <1>36, <1>37,
       <1>38, <1>39, <1>40, <1>41, <1>42, <1>43, <1>44, <1>45, <1>46, <1>47
       DEF Next, Take, Failure, Recovery, Startup

\* Publication stays complete, and the sequences stay ready for it.
LEMMA PublishedInvariant == Spec => []Published
  <1>1. Init => Published
    BY DEF Init, Published, PublishedIsComplete, EditsPartial, ReadyToPublish, Possible,
           NoDirectory
  <1>2. TypeOK /\ Published /\ [Next]_vars => Published'
    BY PublishedStep
  <1> QED BY <1>1, <1>2, TypeCorrect, PTL DEF Spec

\* A directory under its published name is complete, whatever crashes and
\* whichever I/O fails.
THEOREM PublicationCorrect == Spec => []PublishedIsComplete
  <1>1. Published => PublishedIsComplete
    BY DEF Published
  <1> QED BY <1>1, PublishedInvariant, PTL

-----------------------------------------------------------------------------
(* The way back to the footage *)

\* The plan of a take that is being recorded is on disk and stays there until its manifest is.
PlanInPlace ==
    /\ footage => begun
    /\ pc \in {"checkpoint", "plan", "startfail"} => ~begun
    /\ pc \in {"recording", "finalize"} => begun /\ undo = {}
    /\ pc \in {"recording", "finalize", "manifest", "msync", "unlink1", "unlink2", "drop"} =>
         disk.capture

\* Boot withdraws only a manifest that is not valid.
WithdrawsInvalid == pc \in {"bdrop", "settle"} => ~Valid(disk)

Reachable == FootageReachable /\ PlanInPlace /\ WithdrawsInvalid

\* No step loses the plan of a take before its manifest is valid: unless I/O fails after stop()
\* removed a control file, or while boot settles a take.
LEMMA ReachableStep ==
    ASSUME ~StopTailErrors, ~BootErrors, TypeOK, Published, Reachable, [Next]_vars
    PROVE  Reachable'
  <1> USE DEF TypeOK, TypeDisk, NoOp, Stay, Goto, Disks, States, Possible, Valid, NoDirectory,
         EditsPartial, ReadyToPublish, FootageReachable, PlanInPlace, WithdrawsInvalid,
         Published, Reachable
  <1>1. CASE StartMkdir
    BY <1>1 DEF StartMkdir, Op
  <1>2. CASE StartCheckpoint
    BY <1>2 DEF StartCheckpoint, Durable, Raised, Op, View
  <1>3. CASE StartPlan
    BY <1>3 DEF StartPlan, Durable, Raised, Op
  <1>4. CASE StartFailed
    BY <1>4 DEF StartFailed, Durable, Raised, Op, View
  <1>5. CASE CommitSegment
    BY <1>5 DEF CommitSegment
  <1>6. CASE StopBegin
    BY <1>6 DEF StopBegin
  <1>7. CASE StopFinalize
    BY <1>7 DEF StopFinalize
  <1>8. CASE StopManifest
    BY <1>8 DEF StopManifest, Op
  <1>9. CASE StopManifestSync
    BY <1>9 DEF StopManifestSync, Durable, Raised, Op
  <1>10. CASE StopUnlinkRecording
    BY <1>10 DEF StopUnlinkRecording, Op
  <1>11. CASE StopUnlinkCapture
    BY <1>11 DEF StopUnlinkCapture, Op, StopTailError
  <1>12. CASE StopUnlinkSync
    BY <1>12 DEF StopUnlinkSync, Fsync, StopTailError
  <1>13. CASE StopRename
    BY <1>13 DEF StopRename, Op, StopTailError
  <1>14. CASE StopRootSync
    BY <1>14 DEF StopRootSync, Fsync
  <1>15. CASE StopCommit
    BY <1>15 DEF StopCommit, View
  <1>16. CASE Fail
    BY <1>16 DEF Fail
  <1>17. CASE Close
    BY <1>17 DEF Close
  <1>18. CASE DropManifest
    BY <1>18 DEF DropManifest, Op
  <1>19. CASE MarkFailed
    BY <1>19 DEF MarkFailed, Durable, Raised, Op
  <1>20. CASE RetainFailure
    BY <1>20 DEF RetainFailure, Retained
  <1>21. CASE CommitFailure
    BY <1>21 DEF CommitFailure, View
  <1>22. CASE RetryCommit
    BY <1>22 DEF RetryCommit
  <1>23. CASE CloseRetain
    BY <1>23 DEF CloseRetain, View
  <1>24. CASE RecoverScan
    BY <1>24 DEF RecoverScan, Durable, Ended
  <1>25. CASE RecoverManifest
    BY <1>25 DEF RecoverManifest, Durable, Raised, Op, Ended
  <1>26. CASE RecoverMoveCapture
    BY <1>26, ZenonT(40) DEF RecoverMoveCapture, Op, ArchivePlan, Ended
  <1>27. CASE RecoverMoveRecording
    <2>1. disk'.dir = disk.dir /\ disk'.manifest = disk.manifest /\ disk'.capture = disk.capture
      BY <1>27, Archived DEF RecoverMoveRecording, Op, Ended
    <2>2. undo' \subseteq undo \cup {disk} /\ UNCHANGED <<footage, begun>>
      BY <1>27 DEF RecoverMoveRecording, Op, Ended
    <2>3. FootageReachable' BY <2>1, <2>2
    <2>4. PlanInPlace' BY <1>27, <2>1, <2>2 DEF RecoverMoveRecording, Ended
    <2>5. WithdrawsInvalid' BY <1>27 DEF RecoverMoveRecording, Ended
    <2> QED BY <2>3, <2>4, <2>5
  <1>28. CASE RecoverSync
    BY <1>28 DEF RecoverSync, Fsync, Ended
  <1>29. CASE RecoverRename
    BY <1>29 DEF RecoverRename, Op, Ended
  <1>30. CASE RecoverParentSync
    BY <1>30 DEF RecoverParentSync, Fsync, Ended
  <1>31. CASE Boot
    BY <1>31 DEF Boot, FirstStep
  <1>32. CASE RecoverDeferred
    BY <1>32 DEF RecoverDeferred, FirstStep
  <1>33. CASE BootInspect
    BY <1>33 DEF BootInspect, InspectPasses, BootError
  <1>34. CASE BootMoveCapture
    BY <1>34, ZenonT(40) DEF BootMoveCapture, Op, ArchivePlan, BootError
  <1>35. CASE BootMoveRecording
    <2>1. disk'.dir = disk.dir /\ disk'.manifest = disk.manifest /\ disk'.capture = disk.capture
      BY <1>35, Archived DEF BootMoveRecording, Op, BootError
    <2>2. undo' \subseteq undo \cup {disk} /\ UNCHANGED <<footage, begun>>
      BY <1>35 DEF BootMoveRecording, Op, BootError
    <2>3. FootageReachable' BY <2>1, <2>2
    <2>4. PlanInPlace' BY <1>35, <2>1, <2>2 DEF BootMoveRecording, BootError
    <2>5. WithdrawsInvalid' BY <1>35 DEF BootMoveRecording, BootError
    <2> QED BY <2>3, <2>4, <2>5
  <1>36. CASE BootSync
    BY <1>36 DEF BootSync, Fsync, BootError
  <1>37. CASE BootRename
    BY <1>37 DEF BootRename, Op, BootError
  <1>38. CASE BootParentSync
    BY <1>38 DEF BootParentSync, Fsync
  <1>39. CASE BootDropManifest
    BY <1>39 DEF BootDropManifest, Op
  <1>40. CASE Settle
    <2>1. disk'.dir = disk.dir /\ disk'.capture = disk.capture
      BY <1>40 DEF Settle, Op, Durable
    <2>2. undo' \subseteq undo \cup {disk, [disk EXCEPT !.manifest = "none"]}
      BY <1>40 DEF Settle, Op, Durable
    <2>3. disk'.manifest \in {"none", disk.manifest} /\ ~Valid(disk)
      BY <1>40 DEF Settle, Op, Durable
    <2>4. UNCHANGED <<footage, begun>> /\ pc' = "scan" /\ pc = "settle"
      BY <1>40 DEF Settle
    <2>5. FootageReachable' BY <2>1, <2>2, <2>3, <2>4
    <2>6. PlanInPlace' BY <2>4
    <2>7. WithdrawsInvalid' BY <2>4
    <2> QED BY <2>5, <2>6, <2>7
  <1>41. CASE RestoreFailure
    BY <1>41 DEF RestoreFailure, Restored, Retained
  <1>42. CASE BootPersist
    BY <1>42 DEF BootPersist, View
  <1>43. CASE LaterWrite
    BY <1>43 DEF LaterWrite, View
  <1>44. CASE Shutdown
    BY <1>44 DEF Shutdown, View
  <1>45. CASE Kill
    BY <1>45 DEF Kill
  <1>46. CASE PowerLoss
    BY <1>46 DEF PowerLoss
  <1>47. CASE UNCHANGED vars
    BY <1>47 DEF vars
  <1> HIDE DEF TypeOK, TypeDisk, NoOp, Stay, Goto, Disks, States, Possible, Valid, NoDirectory,
         EditsPartial, ReadyToPublish, FootageReachable, PlanInPlace, WithdrawsInvalid,
         Published, Reachable
  <1> QED
    BY <1>1, <1>2, <1>3, <1>4, <1>5, <1>6, <1>7, <1>8, <1>9, <1>10, <1>11, <1>12, <1>13, <1>14,
       <1>15, <1>16, <1>17, <1>18, <1>19, <1>20, <1>21, <1>22, <1>23, <1>24, <1>25, <1>26, <1>27,
       <1>28, <1>29, <1>30, <1>31, <1>32, <1>33, <1>34, <1>35, <1>36, <1>37, <1>38, <1>39, <1>40,
       <1>41, <1>42, <1>43, <1>44, <1>45, <1>46, <1>47
       DEF Next, Take, Failure, Recovery, Startup

\* Nothing has been written when the daemon first starts.
LEMMA InitTake ==
    ASSUME Init
    PROVE  /\ Possible = {NoDirectory} /\ ~footage /\ ~begun /\ pc = "idle"
           /\ db.retained = "none" /\ mem.retained = "none"
  BY DEF Init, Possible, NoTake, NoMemory

\* The footage of a take stays reachable: its manifest is valid or its plan is in place.
LEMMA ReachableInvariant == ~StopTailErrors /\ ~BootErrors /\ Spec => []Reachable
  <1>1. Init => Reachable
    BY InitTake DEF Reachable, FootageReachable, PlanInPlace, WithdrawsInvalid
  <1>2. ~StopTailErrors /\ ~BootErrors /\ TypeOK /\ Published /\ Reachable /\ [Next]_vars
            => Reachable'
    BY ReachableStep
  <1>3. CASE ~StopTailErrors /\ ~BootErrors
    BY <1>1, <1>2, <1>3, TypeCorrect, PublishedInvariant, PTL DEF Spec
  <1> QED BY <1>3

\* A take with a complete segment can be finished from its files in every state a kill or a
\* power loss leaves, as long as no I/O fails after stop() removed a control file or while boot
\* settles a take.
THEOREM FootageCorrect == ~StopTailErrors /\ ~BootErrors /\ Spec => []FootageReachable
  <1>1. Reachable => FootageReachable
    BY DEF Reachable
  <1> QED BY <1>1, ReachableInvariant, PTL

-----------------------------------------------------------------------------
(* The life cycle of the take *)

\* Nothing is written about publication before the take has begun.
BegunFirst ==
    /\ footage => begun
    /\ pc \in {"checkpoint", "plan", "startfail"} => ~begun
    /\ pc \in Running \ {"checkpoint", "plan", "startfail"} => begun
    /\ pc \in Recovering /\ job \in {"run", "close"} => begun
    /\ pc \in Booting => job \notin {"run", "close"}
    /\ pc = "prefix" => begun
    /\ \A d \in Possible : d.manifest # "none" => begun

\* What is recorded as failed in the database, the coordinator knows; and while a take is
\* being run nothing is.
ReportKnown ==
    /\ pc # "off" /\ db.retained = "terminal" => mem.retained = "terminal"
    /\ pc \in Running => db.retained # "terminal"
    /\ pc = "checkpoint" => mem.retained # "terminal"
    /\ pc \in Recovering /\ job \in {"run", "close"} => db.retained # "terminal"

Lived == BegunFirst /\ ReportKnown

\* What a step leaves alone: a published directory, a take that has begun, and the database or
\* the files; a reported failure stays reported.
FilesFrame ==
    /\ disk.dir = "final" /\ undo = {} => disk' = disk /\ undo' = {}
    /\ begun => begun'
    /\ ~begun /\ begun' => disk'.dir # "final"
BaseFrame ==
    /\ \/ db' = db
       \/ UNCHANGED <<disk, undo, begun>>
       \/ ~begun /\ ~begun'
    /\ db.retained = "terminal" => db'.retained = "terminal"

\* No step writes about publication before the take has begun.
LEMMA BegunStep ==
    ASSUME TypeOK, BegunFirst, [Next]_vars
    PROVE  BegunFirst'
  <1> USE DEF TypeOK, TypeDisk, NoOp, Stay, Goto, Disks, States, Possible, NoDirectory, Running,
         Recovering, Booting, BegunFirst
  <1>1. CASE StartMkdir
    BY <1>1 DEF StartMkdir, Op
  <1>2. CASE StartCheckpoint
    BY <1>2 DEF StartCheckpoint, Durable, Raised, Op, View
  <1>3. CASE StartPlan
    BY <1>3 DEF StartPlan, Durable, Raised, Op
  <1>4. CASE StartFailed
    BY <1>4 DEF StartFailed, Durable, Raised, Op, View
  <1>5. CASE CommitSegment
    BY <1>5 DEF CommitSegment
  <1>6. CASE StopBegin
    BY <1>6 DEF StopBegin
  <1>7. CASE StopFinalize
    BY <1>7 DEF StopFinalize
  <1>8. CASE StopManifest
    BY <1>8 DEF StopManifest, Op
  <1>9. CASE StopManifestSync
    BY <1>9 DEF StopManifestSync, Durable, Raised, Op
  <1>10. CASE StopUnlinkRecording
    BY <1>10 DEF StopUnlinkRecording, Op
  <1>11. CASE StopUnlinkCapture
    BY <1>11 DEF StopUnlinkCapture, Op, StopTailError
  <1>12. CASE StopUnlinkSync
    BY <1>12 DEF StopUnlinkSync, Fsync, StopTailError
  <1>13. CASE StopRename
    BY <1>13 DEF StopRename, Op, StopTailError
  <1>14. CASE StopRootSync
    BY <1>14 DEF StopRootSync, Fsync
  <1>15. CASE StopCommit
    BY <1>15 DEF StopCommit, View
  <1>16. CASE Fail
    BY <1>16 DEF Fail
  <1>17. CASE Close
    BY <1>17 DEF Close
  <1>18. CASE DropManifest
    BY <1>18 DEF DropManifest, Op
  <1>19. CASE MarkFailed
    BY <1>19 DEF MarkFailed, Durable, Raised, Op
  <1>20. CASE RetainFailure
    BY <1>20 DEF RetainFailure, Retained
  <1>21. CASE CommitFailure
    BY <1>21 DEF CommitFailure, View
  <1>22. CASE RetryCommit
    BY <1>22 DEF RetryCommit
  <1>23. CASE CloseRetain
    BY <1>23 DEF CloseRetain, View
  <1>24. CASE RecoverScan
    BY <1>24 DEF RecoverScan, Durable, Ended
  <1>25. CASE RecoverManifest
    BY <1>25 DEF RecoverManifest, Durable, Raised, Op, Ended
  <1>26. CASE RecoverMoveCapture
    <2>1. disk'.dir = disk.dir /\ disk'.manifest = disk.manifest
      BY <1>26 DEF RecoverMoveCapture, Op, ArchivePlan, Ended
    <2>2. undo' \subseteq undo \cup {disk} /\ UNCHANGED <<footage, begun>>
      BY <1>26 DEF RecoverMoveCapture, Op, Ended
    <2> QED BY <1>26, <2>1, <2>2 DEF RecoverMoveCapture, Ended
  <1>27. CASE RecoverMoveRecording
    <2>1. disk'.dir = disk.dir /\ disk'.manifest = disk.manifest
      BY <1>27, Archived DEF RecoverMoveRecording, Op, Ended
    <2>2. undo' \subseteq undo \cup {disk} /\ UNCHANGED <<footage, begun>>
      BY <1>27 DEF RecoverMoveRecording, Op, Ended
    <2> QED BY <1>27, <2>1, <2>2 DEF RecoverMoveRecording, Ended
  <1>28. CASE RecoverSync
    BY <1>28 DEF RecoverSync, Fsync, Ended
  <1>29. CASE RecoverRename
    BY <1>29 DEF RecoverRename, Op, Ended
  <1>30. CASE RecoverParentSync
    BY <1>30 DEF RecoverParentSync, Fsync, Ended
  <1>31. CASE Boot
    BY <1>31 DEF Boot, FirstStep
  <1>32. CASE RecoverDeferred
    BY <1>32 DEF RecoverDeferred, FirstStep
  <1>33. CASE BootInspect
    BY <1>33 DEF BootInspect, InspectPasses, BootError
  <1>34. CASE BootMoveCapture
    <2>1. disk'.dir = disk.dir /\ disk'.manifest = disk.manifest
      BY <1>34 DEF BootMoveCapture, Op, ArchivePlan, BootError
    <2>2. undo' \subseteq undo \cup {disk} /\ UNCHANGED <<footage, begun>>
      BY <1>34 DEF BootMoveCapture, Op, BootError
    <2> QED BY <1>34, <2>1, <2>2 DEF BootMoveCapture, BootError
  <1>35. CASE BootMoveRecording
    <2>1. disk'.dir = disk.dir /\ disk'.manifest = disk.manifest
      BY <1>35, Archived DEF BootMoveRecording, Op, BootError
    <2>2. undo' \subseteq undo \cup {disk} /\ UNCHANGED <<footage, begun>>
      BY <1>35 DEF BootMoveRecording, Op, BootError
    <2> QED BY <1>35, <2>1, <2>2 DEF BootMoveRecording, BootError
  <1>36. CASE BootSync
    BY <1>36 DEF BootSync, Fsync, BootError
  <1>37. CASE BootRename
    BY <1>37 DEF BootRename, Op, BootError
  <1>38. CASE BootParentSync
    BY <1>38 DEF BootParentSync, Fsync
  <1>39. CASE BootDropManifest
    BY <1>39 DEF BootDropManifest, Op
  <1>40. CASE Settle
    <2>1. disk'.dir = disk.dir /\ disk'.manifest \in {"none", disk.manifest}
      BY <1>40 DEF Settle, Op, Durable
    <2>2. undo' \subseteq undo \cup {disk, [disk EXCEPT !.manifest = "none"]}
      BY <1>40 DEF Settle, Op, Durable
    <2>3. UNCHANGED <<footage, begun, job>> /\ pc' = "scan" /\ pc = "settle"
      BY <1>40 DEF Settle
    <2> QED BY <2>1, <2>2, <2>3
  <1>41. CASE RestoreFailure
    BY <1>41 DEF RestoreFailure, Restored, Retained
  <1>42. CASE BootPersist
    BY <1>42 DEF BootPersist, View
  <1>43. CASE LaterWrite
    BY <1>43 DEF LaterWrite, View
  <1>44. CASE Shutdown
    BY <1>44 DEF Shutdown, View
  <1>45. CASE Kill
    BY <1>45 DEF Kill
  <1>46. CASE PowerLoss
    BY <1>46 DEF PowerLoss
  <1>47. CASE UNCHANGED vars
    BY <1>47 DEF vars
  <1> HIDE DEF TypeOK, TypeDisk, NoOp, Stay, Goto, Disks, States, Possible, NoDirectory, Running,
         Recovering, Booting, BegunFirst
  <1> QED
    BY <1>1, <1>2, <1>3, <1>4, <1>5, <1>6, <1>7, <1>8, <1>9, <1>10, <1>11, <1>12, <1>13, <1>14,
       <1>15, <1>16, <1>17, <1>18, <1>19, <1>20, <1>21, <1>22, <1>23, <1>24, <1>25, <1>26, <1>27,
       <1>28, <1>29, <1>30, <1>31, <1>32, <1>33, <1>34, <1>35, <1>36, <1>37, <1>38, <1>39, <1>40,
       <1>41, <1>42, <1>43, <1>44, <1>45, <1>46, <1>47
       DEF Next, Take, Failure, Recovery, Startup

\* No step forgets a failure that the database knows.
LEMMA ReportStep ==
    ASSUME TypeOK, BegunFirst, ReportKnown, [Next]_vars
    PROVE  ReportKnown'
  <1> USE DEF TypeOK, TypeViews, Memory, Views, States, Stay, Goto, NoMemory, BegunFirst,
         Running, Recovering, Booting, View, Retained, ReportKnown
  <1>1. CASE StartMkdir
    BY <1>1 DEF StartMkdir
  <1>2. CASE StartCheckpoint
    BY <1>2 DEF StartCheckpoint
  <1>3. CASE StartPlan
    BY <1>3 DEF StartPlan
  <1>4. CASE StartFailed
    BY <1>4 DEF StartFailed
  <1>5. CASE CommitSegment
    BY <1>5 DEF CommitSegment
  <1>6. CASE StopBegin
    BY <1>6 DEF StopBegin
  <1>7. CASE StopFinalize
    BY <1>7 DEF StopFinalize
  <1>8. CASE StopManifest
    BY <1>8 DEF StopManifest
  <1>9. CASE StopManifestSync
    BY <1>9 DEF StopManifestSync
  <1>10. CASE StopUnlinkRecording
    BY <1>10 DEF StopUnlinkRecording
  <1>11. CASE StopUnlinkCapture
    BY <1>11 DEF StopUnlinkCapture, StopTailError
  <1>12. CASE StopUnlinkSync
    BY <1>12 DEF StopUnlinkSync, StopTailError
  <1>13. CASE StopRename
    BY <1>13 DEF StopRename, StopTailError
  <1>14. CASE StopRootSync
    BY <1>14 DEF StopRootSync
  <1>15. CASE StopCommit
    BY <1>15 DEF StopCommit
  <1>16. CASE Fail
    BY <1>16 DEF Fail
  <1>17. CASE Close
    BY <1>17 DEF Close
  <1>18. CASE DropManifest
    BY <1>18 DEF DropManifest
  <1>19. CASE MarkFailed
    BY <1>19 DEF MarkFailed
  <1>20. CASE RetainFailure
    BY <1>20 DEF RetainFailure
  <1>21. CASE CommitFailure
    BY <1>21 DEF CommitFailure
  <1>22. CASE RetryCommit
    BY <1>22 DEF RetryCommit
  <1>23. CASE CloseRetain
    BY <1>23 DEF CloseRetain
  <1>24. CASE RecoverScan
    BY <1>24 DEF RecoverScan, Ended
  <1>25. CASE RecoverManifest
    BY <1>25 DEF RecoverManifest, Ended
  <1>26. CASE RecoverMoveCapture
    BY <1>26 DEF RecoverMoveCapture, Ended
  <1>27. CASE RecoverMoveRecording
    BY <1>27 DEF RecoverMoveRecording, Ended
  <1>28. CASE RecoverSync
    BY <1>28 DEF RecoverSync, Ended
  <1>29. CASE RecoverRename
    BY <1>29 DEF RecoverRename, Ended
  <1>30. CASE RecoverParentSync
    BY <1>30 DEF RecoverParentSync, Ended
  <1>31. CASE Boot
    BY <1>31 DEF Boot, FirstStep
  <1>32. CASE RecoverDeferred
    BY <1>32 DEF RecoverDeferred, FirstStep
  <1>33. CASE BootInspect
    BY <1>33 DEF BootInspect, BootError
  <1>34. CASE BootMoveCapture
    BY <1>34 DEF BootMoveCapture, BootError
  <1>35. CASE BootMoveRecording
    BY <1>35 DEF BootMoveRecording, BootError
  <1>36. CASE BootSync
    BY <1>36 DEF BootSync, BootError
  <1>37. CASE BootRename
    BY <1>37 DEF BootRename, BootError
  <1>38. CASE BootParentSync
    BY <1>38 DEF BootParentSync
  <1>39. CASE BootDropManifest
    BY <1>39 DEF BootDropManifest
  <1>40. CASE Settle
    BY <1>40 DEF Settle
  <1>41. CASE RestoreFailure
    BY <1>41 DEF RestoreFailure, Restored
  <1>42. CASE BootPersist
    BY <1>42 DEF BootPersist
  <1>43. CASE LaterWrite
    BY <1>43 DEF LaterWrite
  <1>44. CASE Shutdown
    BY <1>44 DEF Shutdown
  <1>45. CASE Kill
    BY <1>45 DEF Kill
  <1>46. CASE PowerLoss
    BY <1>46 DEF PowerLoss
  <1>47. CASE UNCHANGED vars
    BY <1>47 DEF vars
  <1> HIDE DEF TypeOK, TypeViews, Memory, Views, States, Stay, Goto, NoMemory, BegunFirst,
         Running, Recovering, Booting, View, Retained, ReportKnown
  <1> QED
    BY <1>1, <1>2, <1>3, <1>4, <1>5, <1>6, <1>7, <1>8, <1>9, <1>10, <1>11, <1>12, <1>13, <1>14,
       <1>15, <1>16, <1>17, <1>18, <1>19, <1>20, <1>21, <1>22, <1>23, <1>24, <1>25, <1>26, <1>27,
       <1>28, <1>29, <1>30, <1>31, <1>32, <1>33, <1>34, <1>35, <1>36, <1>37, <1>38, <1>39, <1>40,
       <1>41, <1>42, <1>43, <1>44, <1>45, <1>46, <1>47
       DEF Next, Take, Failure, Recovery, Startup

\* Nothing is published before it has begun, and what the database knows stays known.
LEMMA LivedInvariant == Spec => []Lived
  <1>1. Init => Lived
    BY InitTake DEF Lived, BegunFirst, ReportKnown, Running, Recovering, Booting, NoDirectory
  <1>2. TypeOK /\ Lived /\ [Next]_vars => Lived'
    BY BegunStep, ReportStep DEF Lived
  <1> QED BY <1>1, <1>2, TypeCorrect, PTL DEF Spec

\* No step touches a published directory or forgets that a take has begun.
LEMMA FilesStep ==
    ASSUME TypeOK, EditsPartial, [Next]_vars
    PROVE  FilesFrame
  <1> USE DEF TypeOK, TypeDisk, NoOp, Stay, Goto, Disks, States, Possible, NoDirectory,
         EditsPartial, FilesFrame
  <1>1. CASE StartMkdir
    BY <1>1 DEF StartMkdir, Op
  <1>2. CASE StartCheckpoint
    BY <1>2 DEF StartCheckpoint, Durable, Raised, Op, View
  <1>3. CASE StartPlan
    BY <1>3 DEF StartPlan, Durable, Raised, Op
  <1>4. CASE StartFailed
    BY <1>4 DEF StartFailed, Durable, Raised, Op, View
  <1>5. CASE CommitSegment
    BY <1>5 DEF CommitSegment
  <1>6. CASE StopBegin
    BY <1>6 DEF StopBegin
  <1>7. CASE StopFinalize
    BY <1>7 DEF StopFinalize
  <1>8. CASE StopManifest
    BY <1>8 DEF StopManifest, Op
  <1>9. CASE StopManifestSync
    BY <1>9 DEF StopManifestSync, Durable, Raised, Op
  <1>10. CASE StopUnlinkRecording
    BY <1>10 DEF StopUnlinkRecording, Op
  <1>11. CASE StopUnlinkCapture
    BY <1>11 DEF StopUnlinkCapture, Op, StopTailError
  <1>12. CASE StopUnlinkSync
    BY <1>12 DEF StopUnlinkSync, Fsync, StopTailError
  <1>13. CASE StopRename
    BY <1>13 DEF StopRename, Op, StopTailError
  <1>14. CASE StopRootSync
    BY <1>14 DEF StopRootSync, Fsync
  <1>15. CASE StopCommit
    BY <1>15 DEF StopCommit, View
  <1>16. CASE Fail
    BY <1>16 DEF Fail
  <1>17. CASE Close
    BY <1>17 DEF Close
  <1>18. CASE DropManifest
    BY <1>18 DEF DropManifest, Op
  <1>19. CASE MarkFailed
    BY <1>19 DEF MarkFailed, Durable, Raised, Op
  <1>20. CASE RetainFailure
    BY <1>20 DEF RetainFailure, Retained
  <1>21. CASE CommitFailure
    BY <1>21 DEF CommitFailure, View
  <1>22. CASE RetryCommit
    BY <1>22 DEF RetryCommit
  <1>23. CASE CloseRetain
    BY <1>23 DEF CloseRetain, View
  <1>24. CASE RecoverScan
    BY <1>24 DEF RecoverScan, Durable, Ended
  <1>25. CASE RecoverManifest
    BY <1>25 DEF RecoverManifest, Durable, Raised, Op, Ended
  <1>26. CASE RecoverMoveCapture
    BY <1>26 DEF RecoverMoveCapture, Op, ArchivePlan, Ended
  <1>27. CASE RecoverMoveRecording
    BY <1>27 DEF RecoverMoveRecording, Op, ArchiveRecording, Ended
  <1>28. CASE RecoverSync
    BY <1>28 DEF RecoverSync, Fsync, Ended
  <1>29. CASE RecoverRename
    BY <1>29 DEF RecoverRename, Op, Ended
  <1>30. CASE RecoverParentSync
    BY <1>30 DEF RecoverParentSync, Fsync, Ended
  <1>31. CASE Boot
    BY <1>31 DEF Boot, FirstStep
  <1>32. CASE RecoverDeferred
    BY <1>32 DEF RecoverDeferred, FirstStep
  <1>33. CASE BootInspect
    BY <1>33 DEF BootInspect, InspectPasses, BootError
  <1>34. CASE BootMoveCapture
    BY <1>34 DEF BootMoveCapture, Op, ArchivePlan, BootError
  <1>35. CASE BootMoveRecording
    BY <1>35 DEF BootMoveRecording, Op, ArchiveRecording, BootError
  <1>36. CASE BootSync
    BY <1>36 DEF BootSync, Fsync, BootError
  <1>37. CASE BootRename
    BY <1>37 DEF BootRename, Op, BootError
  <1>38. CASE BootParentSync
    BY <1>38 DEF BootParentSync, Fsync
  <1>39. CASE BootDropManifest
    BY <1>39 DEF BootDropManifest, Op
  <1>40. CASE Settle
    BY <1>40 DEF Settle, Op, Durable, Retained
  <1>41. CASE RestoreFailure
    BY <1>41 DEF RestoreFailure, Restored, Retained
  <1>42. CASE BootPersist
    BY <1>42 DEF BootPersist, View
  <1>43. CASE LaterWrite
    BY <1>43 DEF LaterWrite, View
  <1>44. CASE Shutdown
    BY <1>44 DEF Shutdown, View
  <1>45. CASE Kill
    BY <1>45 DEF Kill
  <1>46. CASE PowerLoss
    BY <1>46 DEF PowerLoss
  <1>47. CASE UNCHANGED vars
    BY <1>47 DEF vars
  <1> HIDE DEF TypeOK, TypeDisk, NoOp, Stay, Goto, Disks, States, Possible, NoDirectory,
         EditsPartial, FilesFrame
  <1> QED
    BY <1>1, <1>2, <1>3, <1>4, <1>5, <1>6, <1>7, <1>8, <1>9, <1>10, <1>11, <1>12, <1>13, <1>14,
       <1>15, <1>16, <1>17, <1>18, <1>19, <1>20, <1>21, <1>22, <1>23, <1>24, <1>25, <1>26, <1>27,
       <1>28, <1>29, <1>30, <1>31, <1>32, <1>33, <1>34, <1>35, <1>36, <1>37, <1>38, <1>39, <1>40,
       <1>41, <1>42, <1>43, <1>44, <1>45, <1>46, <1>47
       DEF Next, Take, Failure, Recovery, Startup

\* No step forgets a failure in the database, or writes it together with the files.
LEMMA BaseStep ==
    ASSUME TypeOK, Lived, [Next]_vars
    PROVE  BaseFrame
  <1> USE DEF TypeOK, TypeViews, Memory, Views, States, NoOp, Stay, Goto, Running, Recovering,
         Booting, View, Retained, Lived, BegunFirst, ReportKnown, BaseFrame
  <1>1. CASE StartMkdir
    BY <1>1 DEF StartMkdir, Op
  <1>2. CASE StartCheckpoint
    BY <1>2 DEF StartCheckpoint, Durable, Raised, Op
  <1>3. CASE StartPlan
    BY <1>3 DEF StartPlan, Durable, Raised, Op
  <1>4. CASE StartFailed
    BY <1>4 DEF StartFailed, Durable, Raised, Op
  <1>5. CASE CommitSegment
    BY <1>5 DEF CommitSegment
  <1>6. CASE StopBegin
    BY <1>6 DEF StopBegin
  <1>7. CASE StopFinalize
    BY <1>7 DEF StopFinalize
  <1>8. CASE StopManifest
    BY <1>8 DEF StopManifest, Op
  <1>9. CASE StopManifestSync
    BY <1>9 DEF StopManifestSync, Durable, Raised, Op
  <1>10. CASE StopUnlinkRecording
    BY <1>10 DEF StopUnlinkRecording, Op
  <1>11. CASE StopUnlinkCapture
    BY <1>11 DEF StopUnlinkCapture, Op, StopTailError
  <1>12. CASE StopUnlinkSync
    BY <1>12 DEF StopUnlinkSync, Fsync, StopTailError
  <1>13. CASE StopRename
    BY <1>13 DEF StopRename, Op, StopTailError
  <1>14. CASE StopRootSync
    BY <1>14 DEF StopRootSync, Fsync
  <1>15. CASE StopCommit
    BY <1>15 DEF StopCommit
  <1>16. CASE Fail
    BY <1>16 DEF Fail
  <1>17. CASE Close
    BY <1>17 DEF Close
  <1>18. CASE DropManifest
    BY <1>18 DEF DropManifest, Op
  <1>19. CASE MarkFailed
    BY <1>19 DEF MarkFailed, Durable, Raised, Op
  <1>20. CASE RetainFailure
    BY <1>20 DEF RetainFailure
  <1>21. CASE CommitFailure
    BY <1>21 DEF CommitFailure
  <1>22. CASE RetryCommit
    BY <1>22 DEF RetryCommit
  <1>23. CASE CloseRetain
    BY <1>23 DEF CloseRetain
  <1>24. CASE RecoverScan
    BY <1>24 DEF RecoverScan, Durable, Ended
  <1>25. CASE RecoverManifest
    BY <1>25 DEF RecoverManifest, Durable, Raised, Op, Ended
  <1>26. CASE RecoverMoveCapture
    BY <1>26 DEF RecoverMoveCapture, Op, ArchivePlan, Ended
  <1>27. CASE RecoverMoveRecording
    BY <1>27 DEF RecoverMoveRecording, Op, ArchiveRecording, Ended
  <1>28. CASE RecoverSync
    BY <1>28 DEF RecoverSync, Fsync, Ended
  <1>29. CASE RecoverRename
    BY <1>29 DEF RecoverRename, Op, Ended
  <1>30. CASE RecoverParentSync
    BY <1>30 DEF RecoverParentSync, Fsync, Ended
  <1>31. CASE Boot
    BY <1>31 DEF Boot, FirstStep
  <1>32. CASE RecoverDeferred
    BY <1>32 DEF RecoverDeferred, FirstStep
  <1>33. CASE BootInspect
    BY <1>33 DEF BootInspect, InspectPasses, BootError
  <1>34. CASE BootMoveCapture
    BY <1>34 DEF BootMoveCapture, Op, ArchivePlan, BootError
  <1>35. CASE BootMoveRecording
    BY <1>35 DEF BootMoveRecording, Op, ArchiveRecording, BootError
  <1>36. CASE BootSync
    BY <1>36 DEF BootSync, Fsync, BootError
  <1>37. CASE BootRename
    BY <1>37 DEF BootRename, Op, BootError
  <1>38. CASE BootParentSync
    BY <1>38 DEF BootParentSync, Fsync
  <1>39. CASE BootDropManifest
    BY <1>39 DEF BootDropManifest, Op
  <1>40. CASE Settle
    BY <1>40 DEF Settle, Op, Durable
  <1>41. CASE RestoreFailure
    BY <1>41 DEF RestoreFailure, Restored
  <1>42. CASE BootPersist
    BY <1>42 DEF BootPersist
  <1>43. CASE LaterWrite
    BY <1>43 DEF LaterWrite
  <1>44. CASE Shutdown
    BY <1>44 DEF Shutdown
  <1>45. CASE Kill
    BY <1>45 DEF Kill
  <1>46. CASE PowerLoss
    BY <1>46 DEF PowerLoss
  <1>47. CASE UNCHANGED vars
    BY <1>47 DEF vars
  <1> HIDE DEF TypeOK, TypeViews, Memory, Views, States, NoOp, Stay, Goto, Running, Recovering,
         Booting, View, Retained, Lived, BegunFirst, ReportKnown, BaseFrame
  <1> QED
    BY <1>1, <1>2, <1>3, <1>4, <1>5, <1>6, <1>7, <1>8, <1>9, <1>10, <1>11, <1>12, <1>13, <1>14,
       <1>15, <1>16, <1>17, <1>18, <1>19, <1>20, <1>21, <1>22, <1>23, <1>24, <1>25, <1>26, <1>27,
       <1>28, <1>29, <1>30, <1>31, <1>32, <1>33, <1>34, <1>35, <1>36, <1>37, <1>38, <1>39, <1>40,
       <1>41, <1>42, <1>43, <1>44, <1>45, <1>46, <1>47
       DEF Next, Take, Failure, Recovery, Startup

\* Every step is a step of the life cycle, or a stutter.
LEMMA LifecycleStep ==
    ASSUME TypeOK, Published, Published', Lived, Lived', [Next]_vars
    PROVE  [Lifecycle!Next]_<<Outcome, db.retained = "terminal">>
  <1>1. FilesFrame /\ BaseFrame
    BY FilesStep, BaseStep DEF Published
  <1>2. disk.dir = "final" => begun
    BY DEF Published, PublishedIsComplete, Possible, Valid, Lived, BegunFirst
  <1>3. disk'.dir = "final" => begun'
    BY DEF Published, PublishedIsComplete, Possible, Valid, Lived, BegunFirst
  <1>4. \/ Outcome' = Outcome
        \/ Outcome = "none" /\ Outcome' = "recording"
        \/ Outcome = "recording" /\ Outcome' \in {"complete", "interrupted"}
    <2>1. CASE disk.dir = "final" /\ undo = {}
      BY <1>1, <2>1 DEF FilesFrame, Outcome
    <2>2. CASE ~(disk.dir = "final" /\ undo = {}) /\ begun
      BY <1>1, <2>2 DEF FilesFrame, Outcome
    <2>3. CASE ~begun
      BY <1>1, <1>2, <1>3, <2>3 DEF FilesFrame, Outcome
    <2> QED BY <2>1, <2>2, <2>3
  <1>5. CASE db' = db
    BY <1>4, <1>5 DEF Lifecycle!Next, Lifecycle!Begin, Lifecycle!Publish
  <1>6. CASE db' # db
    <2>1. Outcome' = Outcome
      BY <1>1, <1>2, <1>3, <1>6 DEF BaseFrame, Outcome
    <2>2. db.retained = "terminal" => db'.retained = "terminal"
      BY <1>1 DEF BaseFrame
    <2>3. CASE db'.retained = "terminal"
      BY <2>1, <2>3 DEF Lifecycle!Next, Lifecycle!Report
    <2>4. CASE db'.retained # "terminal"
      BY <2>1, <2>2, <2>4
    <2> QED BY <2>3, <2>4
  <1> QED BY <1>5, <1>6

\* The files, the database and the coordinator implement the life cycle of a take, with every
\* fault of the model: it is published at most once, a publication is never withdrawn or
\* replaced, and a failure that is on record stays there.
THEOREM LifecycleCorrect == Spec => ImplementsLifecycle
  <1>1. Init => Lifecycle!Init
    BY DEF Init, Lifecycle!Init, Outcome, NoDirectory, NoTake
  <1>2. TypeOK /\ Published /\ Published' /\ Lived /\ Lived' /\ [Next]_vars
            => [Lifecycle!Next]_<<Outcome, db.retained = "terminal">>
    BY LifecycleStep
  <1> QED BY <1>1, <1>2, TypeCorrect, PublishedInvariant, LivedInvariant, PTL
          DEF Spec, ImplementsLifecycle, Lifecycle!Spec

-----------------------------------------------------------------------------
(* What is kept of a take *)

\* What every state of the directory tells about a take that has begun: an interruption is
\* noted before its prefix is published, and recording.json goes away only from a complete
\* take or into the archive of a prefix.
Tells(d) ==
    /\ d.dir # "none"
    /\ d.manifest = "prefix" => d.interruption
    /\ d.recording = "none" =>
         d.manifest = "full" \/ (d.manifest = "prefix" /\ d.archived # "none")
Traces == begun => \A d \in Possible : Tells(d)

\* What the files are at the labels of the sequences.
Prepared ==
    /\ pc = "checkpoint" => mem.active /\ disk.dir # "none" /\ disk.manifest = "none"
    /\ pc = "plan" => undo = {} /\ disk.dir # "none" /\ disk.recording # "none"
                      /\ disk.manifest = "none" /\ db.active
    /\ begun /\ pc \in {"recording", "finalize", "manifest", "msync", "unlink1", "drop", "mark",
                        "scan", "prefix"} => disk.recording # "none"
    /\ pc = "prefix" => disk.interruption
    /\ pc \in {"unlink1", "unlink2", "usync", "rename", "rootsync", "commit"} =>
         disk.manifest = "full"
    /\ pc \in {"rootsync", "commit", "bparent"} => disk.dir = "final"
    /\ pc \in {"rename", "rrename", "brename", "commit"} => undo = {}
    /\ disk.dir = "final" => \A d \in undo : d.manifest = disk.manifest

\* A complete take that is or will be published as such, and needs no identity any more.
Done ==
    /\ \A d \in Possible : d.manifest = "full"
    /\ pc \in {"off", "idle", "deferred", "inspect", "bmove1", "bmove2", "bsync", "brename",
               "bparent", "restore", "bpersist"}

Rebooted ==
    \/ pc \in {"idle", "deferred"} \cup Booting
    \/ pc \in Recovering /\ job \notin {"run", "close"}
Names(v) == v.retained = "terminal" \/ v.active

\* A take that has begun is named by the database, and after boot by the coordinator.
Named ==
    /\ begun => Names(db) \/ Done
    /\ begun /\ Rebooted => Names(mem) \/ Done

\* What the coordinator keeps of a failure.
Failed ==
    /\ begun => mem.retained # "live"
    /\ pc \in {"checkpoint", "plan"} => mem.retained = "none"
    /\ pc \in {"fcommit", "pending"} => mem.retained = "terminal"
    /\ pc \in {"retain"} \cup Recovering /\ job = "close" => mem.state = "terminal"
    /\ begun /\ pc \in Recovering /\ job \notin {"run", "close"} => mem.retained = "terminal"
    /\ begun /\ pc = "restore" /\ mem.retained = "none" => disk.dir = "final"
    /\ pc \in Running => job \in {"run", "close"}
    /\ pc \in Running \ {"drop", "mark", "retain"} => job = "run"
    /\ pc = "bpersist" => job \in {"boot", "cramped"}

\* How boot ends.
Accounted ==
    /\ TakeAccounted
    /\ pc = "bpersist" /\ job = "boot" /\ begun =>
        \/ disk.dir = "final" /\ disk.manifest = "full"
        \/ mem.retained # "none"
        \/ disk.dir = "final" /\ mem.active

Kept == Traces /\ Prepared /\ Named /\ Failed /\ Accounted
\* No step takes away what the files tell about a take.
LEMMA TracesStep ==
    ASSUME ~StopTailErrors, ~BootErrors, ~StaleAtClose, TypeOK, Published, Reachable, Lived,
       Kept, [Next]_vars
    PROVE  Traces'
  <1> USE DEF TypeOK, TypeDisk, NoOp, Stay, Goto, Disks, States, Possible, NoDirectory, Valid,
         WithdrawsInvalid, BegunFirst, Reachable, Published, ReadyToPublish, Lived, Kept, Traces,
         Tells, Prepared
  <1>1. CASE StartMkdir
    BY <1>1 DEF StartMkdir, Op
  <1>2. CASE StartCheckpoint
    BY <1>2 DEF StartCheckpoint, Durable, Raised, Op, View
  <1>3. CASE StartPlan
    <2>1. undo' = {} \/ begun' = begun
      BY <1>3 DEF StartPlan, Durable
    <2>2. ~begun
      BY <1>3 DEF StartPlan
    <2>3. begun' => undo' = {} /\ disk' = [disk EXCEPT !.capture = TRUE]
      BY <1>3, <2>2 DEF StartPlan, Durable
    <2> QED BY <1>3, <2>3 DEF StartPlan
  <1>4. CASE StartFailed
    BY <1>4 DEF StartFailed, Durable, Raised, Op, View
  <1>5. CASE CommitSegment
    BY <1>5 DEF CommitSegment
  <1>6. CASE StopBegin
    BY <1>6 DEF StopBegin
  <1>7. CASE StopFinalize
    BY <1>7 DEF StopFinalize
  <1>8. CASE StopManifest
    BY <1>8 DEF StopManifest, Op
  <1>9. CASE StopManifestSync
    BY <1>9 DEF StopManifestSync, Durable, Raised, Op
  <1>10. CASE StopUnlinkRecording
    BY <1>10 DEF StopUnlinkRecording, Op
  <1>11. CASE StopUnlinkCapture
    BY <1>11 DEF StopUnlinkCapture, Op, StopTailError
  <1>12. CASE StopUnlinkSync
    BY <1>12 DEF StopUnlinkSync, Fsync, StopTailError
  <1>13. CASE StopRename
    BY <1>13 DEF StopRename, Op, StopTailError
  <1>14. CASE StopRootSync
    BY <1>14 DEF StopRootSync, Fsync
  <1>15. CASE StopCommit
    BY <1>15 DEF StopCommit, View
  <1>16. CASE Fail
    BY <1>16 DEF Fail
  <1>17. CASE Close
    BY <1>17 DEF Close
  <1>18. CASE DropManifest
    BY <1>18 DEF DropManifest, Op
  <1>19. CASE MarkFailed
    BY <1>19 DEF MarkFailed, Durable, Raised, Op
  <1>20. CASE RetainFailure
    BY <1>20 DEF RetainFailure, Retained
  <1>21. CASE CommitFailure
    BY <1>21 DEF CommitFailure, View
  <1>22. CASE RetryCommit
    BY <1>22 DEF RetryCommit
  <1>23. CASE CloseRetain
    BY <1>23 DEF CloseRetain, View
  <1>24. CASE RecoverScan
    BY <1>24 DEF RecoverScan, Durable, Ended
  <1>25. CASE RecoverManifest
    <2>1. begun => disk.recording # "none" /\ disk.interruption
      BY <1>25 DEF RecoverManifest
    <2>2. /\ disk' \in {disk, [disk EXCEPT !.manifest = "prefix"]}
          /\ undo' \subseteq undo \cup {disk}
      BY <1>25 DEF RecoverManifest, Durable, Raised, Op
    <2>3. begun' = begun
      BY <1>25 DEF RecoverManifest
    <2>4. begun => Tells(disk)'
      BY <2>1, <2>2
    <2> QED BY <2>2, <2>3, <2>4
  <1>26. CASE RecoverMoveCapture
    <2>1. /\ disk'.dir = disk.dir /\ disk'.recording = disk.recording
          /\ disk'.manifest = disk.manifest /\ disk'.interruption = disk.interruption
          /\ disk'.archived = disk.archived
      BY <1>26 DEF RecoverMoveCapture, Op, ArchivePlan, Ended
    <2>2. undo' \subseteq undo \cup {disk} /\ begun' = begun
      BY <1>26 DEF RecoverMoveCapture, Op, Ended
    <2> QED BY <2>1, <2>2
  <1>27. CASE RecoverMoveRecording
    <2>1. /\ disk'.dir = disk.dir /\ disk'.manifest = disk.manifest
          /\ disk'.interruption = disk.interruption
          /\ disk'.archived = IF disk.recording = "none" \/ disk' = disk
                              THEN disk.archived ELSE disk.recording
      BY <1>27 DEF RecoverMoveRecording, Op, ArchiveRecording, Ended
    <2>2. undo' \subseteq undo \cup {disk} /\ begun' = begun /\ Valid(disk)
      BY <1>27 DEF RecoverMoveRecording, Op, Ended
    <2>3. begun => Tells(disk)'
      BY <2>1, <2>2
    <2> QED BY <2>2, <2>3
  <1>28. CASE RecoverSync
    BY <1>28 DEF RecoverSync, Fsync, Ended
  <1>29. CASE RecoverRename
    BY <1>29 DEF RecoverRename, Op, Ended
  <1>30. CASE RecoverParentSync
    BY <1>30 DEF RecoverParentSync, Fsync, Ended
  <1>31. CASE Boot
    BY <1>31 DEF Boot, FirstStep
  <1>32. CASE RecoverDeferred
    BY <1>32 DEF RecoverDeferred, FirstStep
  <1>33. CASE BootInspect
    BY <1>33 DEF BootInspect, InspectPasses, BootError
  <1>34. CASE BootMoveCapture
    <2>1. /\ disk'.dir = disk.dir /\ disk'.recording = disk.recording
          /\ disk'.manifest = disk.manifest /\ disk'.interruption = disk.interruption
          /\ disk'.archived = disk.archived
      BY <1>34 DEF BootMoveCapture, Op, ArchivePlan, BootError
    <2>2. undo' \subseteq undo \cup {disk} /\ begun' = begun
      BY <1>34 DEF BootMoveCapture, Op, BootError
    <2> QED BY <2>1, <2>2
  <1>35. CASE BootMoveRecording
    <2>1. /\ disk'.dir = disk.dir /\ disk'.manifest = disk.manifest
          /\ disk'.interruption = disk.interruption
          /\ disk'.archived = IF disk.recording = "none" \/ disk' = disk
                              THEN disk.archived ELSE disk.recording
      BY <1>35 DEF BootMoveRecording, Op, ArchiveRecording, BootError
    <2>2. undo' \subseteq undo \cup {disk} /\ begun' = begun /\ Valid(disk)
      BY <1>35 DEF BootMoveRecording, Op, BootError
    <2>3. begun => Tells(disk)'
      BY <2>1, <2>2
    <2> QED BY <2>2, <2>3
  <1>36. CASE BootSync
    BY <1>36 DEF BootSync, Fsync, BootError
  <1>37. CASE BootRename
    BY <1>37 DEF BootRename, Op, BootError
  <1>38. CASE BootParentSync
    BY <1>38 DEF BootParentSync, Fsync
  <1>39. CASE BootDropManifest
    BY <1>39 DEF BootDropManifest, Op
  <1>40. CASE Settle
    <2>1. /\ disk'.dir = disk.dir /\ disk'.manifest \in {"none", disk.manifest}
          /\ disk'.recording \in {"terminal", disk.recording}
      BY <1>40 DEF Settle, Op, Durable
    <2>2. undo' \subseteq undo \cup {disk} /\ begun' = begun
      BY <1>40 DEF Settle, Op, Durable
    <2>3. begun => disk.recording # "none" /\ ~Valid(disk)
      BY <1>40 DEF Settle
    <2>4. begun => Tells(disk)'
      BY <2>1, <2>3
    <2> QED BY <2>2, <2>4
  <1>41. CASE RestoreFailure
    BY <1>41 DEF RestoreFailure, Restored, Retained
  <1>42. CASE BootPersist
    BY <1>42 DEF BootPersist, View
  <1>43. CASE LaterWrite
    BY <1>43 DEF LaterWrite, View
  <1>44. CASE Shutdown
    BY <1>44 DEF Shutdown, View
  <1>45. CASE Kill
    BY <1>45 DEF Kill
  <1>46. CASE PowerLoss
    BY <1>46 DEF PowerLoss
  <1>47. CASE UNCHANGED vars
    BY <1>47 DEF vars
  <1> HIDE DEF TypeOK, TypeDisk, NoOp, Stay, Goto, Disks, States, Possible, NoDirectory, Valid,
         WithdrawsInvalid, BegunFirst, Reachable, Published, ReadyToPublish, Lived, Kept, Traces,
         Tells, Prepared
  <1> QED
    BY <1>1, <1>2, <1>3, <1>4, <1>5, <1>6, <1>7, <1>8, <1>9, <1>10, <1>11, <1>12, <1>13, <1>14,
       <1>15, <1>16, <1>17, <1>18, <1>19, <1>20, <1>21, <1>22, <1>23, <1>24, <1>25, <1>26, <1>27,
       <1>28, <1>29, <1>30, <1>31, <1>32, <1>33, <1>34, <1>35, <1>36, <1>37, <1>38, <1>39, <1>40,
       <1>41, <1>42, <1>43, <1>44, <1>45, <1>46, <1>47
       DEF Next, Take, Failure, Recovery, Startup

\* The sequences find the files as they left them.
LEMMA PreparedStep ==
    ASSUME ~StopTailErrors, ~BootErrors, ~StaleAtClose, TypeOK, Published, Reachable, Lived,
       Kept, [Next]_vars
    PROVE  Prepared'
  <1> USE DEF TypeOK, TypeDisk, NoOp, Stay, Goto, Disks, States, Possible, NoDirectory, Valid,
         View, Memory, Views, TypeViews, Running, Recovering, Booting, Published, ReadyToPublish,
         EditsPartial, Lived, BegunFirst, Reachable, WithdrawsInvalid, Kept, Traces, Tells,
         Prepared
  <1>1. CASE StartMkdir
    BY <1>1 DEF StartMkdir, Op
  <1>2. CASE StartCheckpoint
    BY <1>2 DEF StartCheckpoint, Durable, Raised, Op
  <1>3. CASE StartPlan
    BY <1>3 DEF StartPlan, Durable, Raised, Op
  <1>4. CASE StartFailed
    BY <1>4 DEF StartFailed, Durable, Raised, Op
  <1>5. CASE CommitSegment
    BY <1>5 DEF CommitSegment
  <1>6. CASE StopBegin
    BY <1>6 DEF StopBegin
  <1>7. CASE StopFinalize
    BY <1>7 DEF StopFinalize
  <1>8. CASE StopManifest
    BY <1>8 DEF StopManifest, Op
  <1>9. CASE StopManifestSync
    BY <1>9 DEF StopManifestSync, Durable, Raised, Op
  <1>10. CASE StopUnlinkRecording
    BY <1>10 DEF StopUnlinkRecording, Op
  <1>11. CASE StopUnlinkCapture
    BY <1>11 DEF StopUnlinkCapture, Op, StopTailError
  <1>12. CASE StopUnlinkSync
    BY <1>12 DEF StopUnlinkSync, Fsync, StopTailError
  <1>13. CASE StopRename
    BY <1>13 DEF StopRename, Op, StopTailError
  <1>14. CASE StopRootSync
    BY <1>14 DEF StopRootSync, Fsync
  <1>15. CASE StopCommit
    BY <1>15 DEF StopCommit
  <1>16. CASE Fail
    BY <1>16 DEF Fail
  <1>17. CASE Close
    BY <1>17 DEF Close
  <1>18. CASE DropManifest
    BY <1>18 DEF DropManifest, Op
  <1>19. CASE MarkFailed
    BY <1>19 DEF MarkFailed, Durable, Raised, Op
  <1>20. CASE RetainFailure
    BY <1>20 DEF RetainFailure, Retained
  <1>21. CASE CommitFailure
    BY <1>21 DEF CommitFailure
  <1>22. CASE RetryCommit
    BY <1>22 DEF RetryCommit
  <1>23. CASE CloseRetain
    BY <1>23 DEF CloseRetain
  <1>24. CASE RecoverScan
    BY <1>24 DEF RecoverScan, Durable, Ended
  <1>25. CASE RecoverManifest
    BY <1>25 DEF RecoverManifest, Durable, Raised, Op, Ended
  <1>26. CASE RecoverMoveCapture
    BY <1>26 DEF RecoverMoveCapture, Op, ArchivePlan, Ended
  <1>27. CASE RecoverMoveRecording
    BY <1>27 DEF RecoverMoveRecording, Op, ArchiveRecording, Ended
  <1>28. CASE RecoverSync
    BY <1>28 DEF RecoverSync, Fsync, Ended
  <1>29. CASE RecoverRename
    BY <1>29 DEF RecoverRename, Op, Ended
  <1>30. CASE RecoverParentSync
    BY <1>30 DEF RecoverParentSync, Fsync, Ended
  <1>31. CASE Boot
    BY <1>31 DEF Boot, FirstStep
  <1>32. CASE RecoverDeferred
    BY <1>32 DEF RecoverDeferred, FirstStep
  <1>33. CASE BootInspect
    BY <1>33 DEF BootInspect, InspectPasses, BootError
  <1>34. CASE BootMoveCapture
    BY <1>34 DEF BootMoveCapture, Op, ArchivePlan, BootError
  <1>35. CASE BootMoveRecording
    BY <1>35 DEF BootMoveRecording, Op, ArchiveRecording, BootError
  <1>36. CASE BootSync
    BY <1>36 DEF BootSync, Fsync, BootError
  <1>37. CASE BootRename
    BY <1>37 DEF BootRename, Op, BootError
  <1>38. CASE BootParentSync
    BY <1>38 DEF BootParentSync, Fsync
  <1>39. CASE BootDropManifest
    BY <1>39 DEF BootDropManifest, Op
  <1>40. CASE Settle
    BY <1>40 DEF Settle, Op, Durable, Retained
  <1>41. CASE RestoreFailure
    BY <1>41 DEF RestoreFailure, Restored, Retained
  <1>42. CASE BootPersist
    BY <1>42 DEF BootPersist
  <1>43. CASE LaterWrite
    BY <1>43 DEF LaterWrite
  <1>44. CASE Shutdown
    BY <1>44 DEF Shutdown
  <1>45. CASE Kill
    BY <1>45 DEF Kill
  <1>46. CASE PowerLoss
    BY <1>46 DEF PowerLoss
  <1>47. CASE UNCHANGED vars
    BY <1>47 DEF vars
  <1> HIDE DEF TypeOK, TypeDisk, NoOp, Stay, Goto, Disks, States, Possible, NoDirectory, Valid,
         View, Memory, Views, TypeViews, Running, Recovering, Booting, Published, ReadyToPublish,
         EditsPartial, Lived, BegunFirst, Reachable, WithdrawsInvalid, Kept, Traces, Tells,
         Prepared
  <1> QED
    BY <1>1, <1>2, <1>3, <1>4, <1>5, <1>6, <1>7, <1>8, <1>9, <1>10, <1>11, <1>12, <1>13, <1>14,
       <1>15, <1>16, <1>17, <1>18, <1>19, <1>20, <1>21, <1>22, <1>23, <1>24, <1>25, <1>26, <1>27,
       <1>28, <1>29, <1>30, <1>31, <1>32, <1>33, <1>34, <1>35, <1>36, <1>37, <1>38, <1>39, <1>40,
       <1>41, <1>42, <1>43, <1>44, <1>45, <1>46, <1>47
       DEF Next, Take, Failure, Recovery, Startup

\* The coordinator keeps every failure.
LEMMA FailedStep ==
    ASSUME ~StopTailErrors, ~BootErrors, ~StaleAtClose, TypeOK, Published, Reachable, Lived,
       Kept, [Next]_vars
    PROVE  Failed'
  <1> USE DEF TypeOK, TypeDisk, NoOp, Stay, Goto, Disks, States, TypeViews, Memory, Views,
         NoMemory, View, Retained, Running, Recovering, Booting, Published, EditsPartial,
         Reachable, WithdrawsInvalid, Lived, BegunFirst, ReportKnown, Possible, Kept, Traces,
         Tells, Prepared, Failed, Valid
  <1>1. CASE StartMkdir
    BY <1>1 DEF StartMkdir, Op
  <1>2. CASE StartCheckpoint
    BY <1>2 DEF StartCheckpoint, Durable, Raised, Op
  <1>3. CASE StartPlan
    BY <1>3 DEF StartPlan, Durable, Raised, Op
  <1>4. CASE StartFailed
    BY <1>4 DEF StartFailed, Durable, Raised, Op
  <1>5. CASE CommitSegment
    BY <1>5 DEF CommitSegment
  <1>6. CASE StopBegin
    BY <1>6 DEF StopBegin
  <1>7. CASE StopFinalize
    BY <1>7 DEF StopFinalize
  <1>8. CASE StopManifest
    BY <1>8 DEF StopManifest, Op
  <1>9. CASE StopManifestSync
    BY <1>9 DEF StopManifestSync, Durable, Raised, Op
  <1>10. CASE StopUnlinkRecording
    BY <1>10 DEF StopUnlinkRecording, Op
  <1>11. CASE StopUnlinkCapture
    BY <1>11 DEF StopUnlinkCapture, Op, StopTailError
  <1>12. CASE StopUnlinkSync
    BY <1>12 DEF StopUnlinkSync, Fsync, StopTailError
  <1>13. CASE StopRename
    BY <1>13 DEF StopRename, Op, StopTailError
  <1>14. CASE StopRootSync
    BY <1>14 DEF StopRootSync, Fsync
  <1>15. CASE StopCommit
    BY <1>15 DEF StopCommit
  <1>16. CASE Fail
    BY <1>16 DEF Fail
  <1>17. CASE Close
    BY <1>17 DEF Close
  <1>18. CASE DropManifest
    BY <1>18 DEF DropManifest, Op
  <1>19. CASE MarkFailed
    BY <1>19 DEF MarkFailed, Durable, Raised, Op
  <1>20. CASE RetainFailure
    BY <1>20 DEF RetainFailure
  <1>21. CASE CommitFailure
    BY <1>21 DEF CommitFailure
  <1>22. CASE RetryCommit
    BY <1>22 DEF RetryCommit
  <1>23. CASE CloseRetain
    BY <1>23 DEF CloseRetain
  <1>24. CASE RecoverScan
    BY <1>24 DEF RecoverScan, Durable, Ended
  <1>25. CASE RecoverManifest
    BY <1>25 DEF RecoverManifest, Durable, Raised, Op, Ended
  <1>26. CASE RecoverMoveCapture
    BY <1>26 DEF RecoverMoveCapture, Op, ArchivePlan, Ended
  <1>27. CASE RecoverMoveRecording
    BY <1>27 DEF RecoverMoveRecording, Op, ArchiveRecording, Ended
  <1>28. CASE RecoverSync
    BY <1>28 DEF RecoverSync, Fsync, Ended
  <1>29. CASE RecoverRename
    BY <1>29 DEF RecoverRename, Op, Ended
  <1>30. CASE RecoverParentSync
    BY <1>30 DEF RecoverParentSync, Fsync, Ended
  <1>31. CASE Boot
    BY <1>31 DEF Boot, FirstStep
  <1>32. CASE RecoverDeferred
    BY <1>32 DEF RecoverDeferred, FirstStep
  <1>33. CASE BootInspect
    BY <1>33 DEF BootInspect, InspectPasses, BootError
  <1>34. CASE BootMoveCapture
    BY <1>34 DEF BootMoveCapture, Op, ArchivePlan, BootError
  <1>35. CASE BootMoveRecording
    BY <1>35 DEF BootMoveRecording, Op, ArchiveRecording, BootError
  <1>36. CASE BootSync
    BY <1>36 DEF BootSync, Fsync, BootError
  <1>37. CASE BootRename
    BY <1>37 DEF BootRename, Op, BootError
  <1>38. CASE BootParentSync
    BY <1>38 DEF BootParentSync, Fsync
  <1>39. CASE BootDropManifest
    BY <1>39 DEF BootDropManifest, Op
  <1>40. CASE Settle
    BY <1>40 DEF Settle, Op, Durable
  <1>41. CASE RestoreFailure
    BY <1>41, ZenonT(40) DEF RestoreFailure, Restored
  <1>42. CASE BootPersist
    BY <1>42 DEF BootPersist
  <1>43. CASE LaterWrite
    BY <1>43 DEF LaterWrite
  <1>44. CASE Shutdown
    BY <1>44 DEF Shutdown
  <1>45. CASE Kill
    BY <1>45 DEF Kill
  <1>46. CASE PowerLoss
    BY <1>46 DEF PowerLoss
  <1>47. CASE UNCHANGED vars
    BY <1>47 DEF vars
  <1> HIDE DEF TypeOK, TypeDisk, NoOp, Stay, Goto, Disks, States, TypeViews, Memory, Views,
         NoMemory, View, Retained, Running, Recovering, Booting, Published, EditsPartial,
         Reachable, WithdrawsInvalid, Lived, BegunFirst, ReportKnown, Possible, Kept, Traces,
         Tells, Prepared, Failed, Valid
  <1> QED
    BY <1>1, <1>2, <1>3, <1>4, <1>5, <1>6, <1>7, <1>8, <1>9, <1>10, <1>11, <1>12, <1>13, <1>14,
       <1>15, <1>16, <1>17, <1>18, <1>19, <1>20, <1>21, <1>22, <1>23, <1>24, <1>25, <1>26, <1>27,
       <1>28, <1>29, <1>30, <1>31, <1>32, <1>33, <1>34, <1>35, <1>36, <1>37, <1>38, <1>39, <1>40,
       <1>41, <1>42, <1>43, <1>44, <1>45, <1>46, <1>47
       DEF Next, Take, Failure, Recovery, Startup

\* What boot leaves of a take that has begun names it, or the take is complete.
LEMMA RestoredAccounts ==
    ASSUME TypeOK, Published, Kept, pc = "restore", begun, NEW m \in Restored
    PROVE  /\ Names(m) \/ \A d \in Possible : d.manifest = "full"
           /\ \/ disk.dir = "final" /\ disk.manifest = "full"
              \/ m.retained # "none"
              \/ disk.dir = "final" /\ m.active
  <1>1. mem \in Memory /\ mem.retained \in {"none", "terminal"}
    BY DEF TypeOK, TypeViews, Memory, States, Kept, Failed
  <1>2. Names(mem) \/ \A d \in Possible : d.manifest = "full"
    BY DEF Kept, Named, Rebooted, Booting, Done
  <1>3. mem.retained = "none" => disk.dir = "final"
    BY DEF Kept, Failed
  <1>4. disk.dir = "final" => /\ disk.manifest \in {"full", "prefix"} /\ disk.recording = "none"
                              /\ \A d \in Possible : d.manifest = disk.manifest
    BY DEF Published, PublishedIsComplete, Possible, Valid, Kept, Prepared
  <1>5. disk.manifest = "prefix" /\ disk.recording = "none" =>
            disk.interruption /\ disk.archived # "none"
    BY DEF Kept, Traces, Tells, Possible
  <1>6. CASE ~mem.active
    <2>1. m = mem
      BY <1>6 DEF Restored
    <2> QED BY <1>1, <1>2, <1>3, <1>4, <1>6, <2>1 DEF Names, Possible
  <1>7. CASE mem.active /\ mem.retained # "none"
    <2>1. m = [mem EXCEPT !.active = FALSE]
      BY <1>7 DEF Restored
    <2>2. m.retained = "terminal"
      BY <1>1, <1>7, <2>1 DEF Memory
    <2> QED BY <2>2 DEF Names
  <1>8. CASE mem.active /\ mem.retained = "none" /\ disk.manifest = "prefix"
    <2>1. m \in {mem, [Retained EXCEPT !.active = FALSE]}
      BY <1>3, <1>4, <1>5, <1>8 DEF Restored
    <2>2. m.active \/ m.retained = "terminal"
      BY <1>1, <1>8, <2>1 DEF Memory, Retained
    <2> QED BY <1>3, <1>8, <2>2 DEF Names
  <1>9. CASE mem.active /\ mem.retained = "none" /\ disk.manifest = "full"
    BY <1>3, <1>4, <1>9
  <1> QED BY <1>3, <1>4, <1>6, <1>7, <1>8, <1>9

\* The database and, after boot, the coordinator name every take that is not done.
LEMMA NamedStep ==
    ASSUME ~StopTailErrors, ~BootErrors, ~StaleAtClose, TypeOK, Published, Reachable, Lived,
       Kept, [Next]_vars
    PROVE  Named'
  <1> USE DEF TypeOK, TypeDisk, NoOp, Stay, Goto, Disks, States, Possible, Valid, TypeViews,
         Memory, Views, NoMemory, View, Retained, Rebooted, Running, Recovering, Booting,
         Published, PublishedIsComplete, EditsPartial, ReadyToPublish, Reachable,
         WithdrawsInvalid, Lived, BegunFirst, Kept, Traces, Tells, Prepared, Failed, Names, Done,
         Named
  <1>1. CASE StartMkdir
    BY <1>1 DEF StartMkdir, Op
  <1>2. CASE StartCheckpoint
    BY <1>2 DEF StartCheckpoint, Durable, Raised, Op
  <1>3. CASE StartPlan
    BY <1>3 DEF StartPlan, Durable, Raised, Op
  <1>4. CASE StartFailed
    BY <1>4 DEF StartFailed, Durable, Raised, Op
  <1>5. CASE CommitSegment
    BY <1>5 DEF CommitSegment
  <1>6. CASE StopBegin
    BY <1>6 DEF StopBegin
  <1>7. CASE StopFinalize
    BY <1>7 DEF StopFinalize
  <1>8. CASE StopManifest
    BY <1>8 DEF StopManifest, Op
  <1>9. CASE StopManifestSync
    BY <1>9 DEF StopManifestSync, Durable, Raised, Op
  <1>10. CASE StopUnlinkRecording
    BY <1>10 DEF StopUnlinkRecording, Op
  <1>11. CASE StopUnlinkCapture
    BY <1>11 DEF StopUnlinkCapture, Op, StopTailError
  <1>12. CASE StopUnlinkSync
    BY <1>12 DEF StopUnlinkSync, Fsync, StopTailError
  <1>13. CASE StopRename
    BY <1>13 DEF StopRename, Op, StopTailError
  <1>14. CASE StopRootSync
    BY <1>14 DEF StopRootSync, Fsync
  <1>15. CASE StopCommit
    BY <1>15 DEF StopCommit
  <1>16. CASE Fail
    BY <1>16 DEF Fail
  <1>17. CASE Close
    BY <1>17 DEF Close
  <1>18. CASE DropManifest
    BY <1>18 DEF DropManifest, Op
  <1>19. CASE MarkFailed
    BY <1>19 DEF MarkFailed, Durable, Raised, Op
  <1>20. CASE RetainFailure
    BY <1>20 DEF RetainFailure
  <1>21. CASE CommitFailure
    BY <1>21 DEF CommitFailure
  <1>22. CASE RetryCommit
    BY <1>22 DEF RetryCommit
  <1>23. CASE CloseRetain
    BY <1>23 DEF CloseRetain
  <1>24. CASE RecoverScan
    BY <1>24 DEF RecoverScan, Durable, Ended
  <1>25. CASE RecoverManifest
    BY <1>25 DEF RecoverManifest, Durable, Raised, Op, Ended
  <1>26. CASE RecoverMoveCapture
    BY <1>26 DEF RecoverMoveCapture, Op, ArchivePlan, Ended
  <1>27. CASE RecoverMoveRecording
    BY <1>27 DEF RecoverMoveRecording, Op, ArchiveRecording, Ended
  <1>28. CASE RecoverSync
    BY <1>28 DEF RecoverSync, Fsync, Ended
  <1>29. CASE RecoverRename
    BY <1>29 DEF RecoverRename, Op, Ended
  <1>30. CASE RecoverParentSync
    BY <1>30 DEF RecoverParentSync, Fsync, Ended
  <1>31. CASE Boot
    BY <1>31 DEF Boot, FirstStep
  <1>32. CASE RecoverDeferred
    BY <1>32 DEF RecoverDeferred, FirstStep
  <1>33. CASE BootInspect
    BY <1>33 DEF BootInspect, InspectPasses, BootError
  <1>34. CASE BootMoveCapture
    <2>1. disk'.manifest = disk.manifest
      BY <1>34, Archived DEF BootMoveCapture, Op, BootError, ArchivePlan
    <2>2. undo' \subseteq undo \cup {disk} /\ UNCHANGED <<db, mem, begun>>
      BY <1>34 DEF BootMoveCapture, Op, BootError
    <2>3. pc \in Booting /\ pc' \in {"bmove2", "bsync"}
      BY <1>34 DEF BootMoveCapture, BootError
    <2>4. Done => Done'
      BY <2>1, <2>2, <2>3
    <2> QED BY <2>2, <2>3, <2>4
  <1>35. CASE BootMoveRecording
    <2>1. disk'.manifest = disk.manifest
      BY <1>35, Archived DEF BootMoveRecording, Op, BootError
    <2>2. undo' \subseteq undo \cup {disk} /\ UNCHANGED <<db, mem, begun>>
      BY <1>35 DEF BootMoveRecording, Op, BootError
    <2>3. pc \in Booting /\ pc' \in {"bmove2", "bsync"}
      BY <1>35 DEF BootMoveRecording, BootError
    <2>4. Done => Done'
      BY <2>1, <2>2, <2>3
    <2> QED BY <2>2, <2>3, <2>4
  <1>36. CASE BootSync
    BY <1>36 DEF BootSync, Fsync, BootError
  <1>37. CASE BootRename
    BY <1>37 DEF BootRename, Op, BootError
  <1>38. CASE BootParentSync
    BY <1>38 DEF BootParentSync, Fsync
  <1>39. CASE BootDropManifest
    BY <1>39 DEF BootDropManifest, Op
  <1>40. CASE Settle
    BY <1>40 DEF Settle, Op, Durable
  <1>41. CASE RestoreFailure
    <2>1. pc = "restore" /\ mem' \in Restored /\ UNCHANGED <<disk, undo, begun, db>>
      BY <1>41 DEF RestoreFailure
    <2>2. pc' \in {"bpersist", "idle"}
      BY <1>41 DEF RestoreFailure
    <2>3. begun => Names(mem') \/ \A d \in Possible : d.manifest = "full"
      BY <2>1, RestoredAccounts
    <2>4. Done => Done'
      BY <2>1, <2>2
    <2>5. begun => Names(db) \/ Done
      BY DEF Named
    <2> QED BY <2>1, <2>2, <2>3, <2>4, <2>5
  <1>42. CASE BootPersist
    BY <1>42 DEF BootPersist
  <1>43. CASE LaterWrite
    BY <1>43 DEF LaterWrite
  <1>44. CASE Shutdown
    BY <1>44 DEF Shutdown
  <1>45. CASE Kill
    BY <1>45 DEF Kill
  <1>46. CASE PowerLoss
    BY <1>46 DEF PowerLoss
  <1>47. CASE UNCHANGED vars
    BY <1>47 DEF vars
  <1> HIDE DEF TypeOK, TypeDisk, NoOp, Stay, Goto, Disks, States, Possible, Valid, TypeViews,
         Memory, Views, NoMemory, View, Retained, Rebooted, Running, Recovering, Booting,
         Published, PublishedIsComplete, EditsPartial, ReadyToPublish, Reachable,
         WithdrawsInvalid, Lived, BegunFirst, Kept, Traces, Tells, Prepared, Failed, Names, Done,
         Named
  <1> QED
    BY <1>1, <1>2, <1>3, <1>4, <1>5, <1>6, <1>7, <1>8, <1>9, <1>10, <1>11, <1>12, <1>13, <1>14,
       <1>15, <1>16, <1>17, <1>18, <1>19, <1>20, <1>21, <1>22, <1>23, <1>24, <1>25, <1>26, <1>27,
       <1>28, <1>29, <1>30, <1>31, <1>32, <1>33, <1>34, <1>35, <1>36, <1>37, <1>38, <1>39, <1>40,
       <1>41, <1>42, <1>43, <1>44, <1>45, <1>46, <1>47
       DEF Next, Take, Failure, Recovery, Startup

\* Boot and the end of a take account for it.
LEMMA AccountedStep ==
    ASSUME ~StopTailErrors, ~BootErrors, ~StaleAtClose, TypeOK, Published, Reachable, Lived,
       Kept, [Next]_vars
    PROVE  Accounted'
  <1> USE DEF TypeOK, TypeDisk, TypeViews, TypeControl, Memory, Views, View, NoOp, Stay, Goto,
         Published, PublishedIsComplete, Possible, Valid, Disks, States, Kept, Prepared, Failed,
         Named, Names, Done, Rebooted, Booting, TakeAccounted, Accounted
  <1>1. CASE StartMkdir
    BY <1>1 DEF StartMkdir, Op
  <1>2. CASE StartCheckpoint
    BY <1>2 DEF StartCheckpoint, Durable, Raised, Op
  <1>3. CASE StartPlan
    BY <1>3 DEF StartPlan, Durable, Raised, Op
  <1>4. CASE StartFailed
    <2>1. ~begun
      BY <1>4 DEF StartFailed, Lived, BegunFirst
    <2> QED BY <1>4, <2>1 DEF StartFailed
  <1>5. CASE CommitSegment
    BY <1>5 DEF CommitSegment
  <1>6. CASE StopBegin
    BY <1>6 DEF StopBegin
  <1>7. CASE StopFinalize
    BY <1>7 DEF StopFinalize
  <1>8. CASE StopManifest
    BY <1>8 DEF StopManifest, Op
  <1>9. CASE StopManifestSync
    BY <1>9 DEF StopManifestSync, Durable, Raised, Op
  <1>10. CASE StopUnlinkRecording
    BY <1>10 DEF StopUnlinkRecording, Op
  <1>11. CASE StopUnlinkCapture
    BY <1>11 DEF StopUnlinkCapture, Op, StopTailError
  <1>12. CASE StopUnlinkSync
    BY <1>12 DEF StopUnlinkSync, Fsync, StopTailError
  <1>13. CASE StopRename
    BY <1>13 DEF StopRename, Op, StopTailError
  <1>14. CASE StopRootSync
    BY <1>14 DEF StopRootSync, Fsync
  <1>15. CASE StopCommit
    BY <1>15 DEF StopCommit
  <1>16. CASE Fail
    BY <1>16 DEF Fail
  <1>17. CASE Close
    BY <1>17 DEF Close
  <1>18. CASE DropManifest
    BY <1>18 DEF DropManifest, Op
  <1>19. CASE MarkFailed
    BY <1>19 DEF MarkFailed, Durable, Raised, Op
  <1>20. CASE RetainFailure
    BY <1>20 DEF RetainFailure, Retained
  <1>21. CASE CommitFailure
    BY <1>21 DEF CommitFailure
  <1>22. CASE RetryCommit
    BY <1>22 DEF RetryCommit
  <1>23. CASE CloseRetain
    BY <1>23 DEF CloseRetain
  <1>24. CASE RecoverScan
    BY <1>24 DEF RecoverScan, Durable, Ended
  <1>25. CASE RecoverManifest
    BY <1>25 DEF RecoverManifest, Durable, Raised, Op, Ended
  <1>26. CASE RecoverMoveCapture
    BY <1>26 DEF RecoverMoveCapture, Op, ArchivePlan, Ended
  <1>27. CASE RecoverMoveRecording
    BY <1>27 DEF RecoverMoveRecording, Op, ArchiveRecording, Ended
  <1>28. CASE RecoverSync
    BY <1>28 DEF RecoverSync, Fsync, Ended
  <1>29. CASE RecoverRename
    BY <1>29 DEF RecoverRename, Op, Ended
  <1>30. CASE RecoverParentSync
    BY <1>30 DEF RecoverParentSync, Fsync, Ended
  <1>31. CASE Boot
    BY <1>31 DEF Boot, FirstStep
  <1>32. CASE RecoverDeferred
    BY <1>32 DEF RecoverDeferred, FirstStep
  <1>33. CASE BootInspect
    BY <1>33 DEF BootInspect, InspectPasses, BootError
  <1>34. CASE BootMoveCapture
    BY <1>34 DEF BootMoveCapture, Op, ArchivePlan, BootError
  <1>35. CASE BootMoveRecording
    BY <1>35 DEF BootMoveRecording, Op, ArchiveRecording, BootError
  <1>36. CASE BootSync
    BY <1>36 DEF BootSync, Fsync, BootError
  <1>37. CASE BootRename
    BY <1>37 DEF BootRename, Op, BootError
  <1>38. CASE BootParentSync
    BY <1>38 DEF BootParentSync, Fsync
  <1>39. CASE BootDropManifest
    BY <1>39 DEF BootDropManifest, Op
  <1>40. CASE Settle
    BY <1>40 DEF Settle, Op, Durable, Retained
  <1>41. CASE RestoreFailure
    <2>1. pc = "restore" /\ mem' \in Restored /\ UNCHANGED <<disk, begun>>
      BY <1>41 DEF RestoreFailure
    <2>2. begun => \/ disk.dir = "final" /\ disk.manifest = "full"
                   \/ mem'.retained # "none"
                   \/ disk.dir = "final" /\ mem'.active
      BY <2>1, RestoredAccounts
    <2> QED BY <2>1, <2>2 DEF Accounted, TakeAccounted
  <1>42. CASE BootPersist
    BY <1>42 DEF BootPersist
  <1>43. CASE LaterWrite
    BY <1>43 DEF LaterWrite
  <1>44. CASE Shutdown
    BY <1>44 DEF Shutdown
  <1>45. CASE Kill
    BY <1>45 DEF Kill
  <1>46. CASE PowerLoss
    BY <1>46 DEF PowerLoss
  <1>47. CASE UNCHANGED vars
    BY <1>47 DEF vars
  <1> HIDE DEF TypeOK, TypeDisk, TypeViews, TypeControl, Memory, Views, View, NoOp, Stay, Goto,
         Published, PublishedIsComplete, Possible, Valid, Disks, States, Kept, Prepared, Failed,
         Named, Names, Done, Rebooted, Booting, TakeAccounted, Accounted
  <1> QED
    BY <1>1, <1>2, <1>3, <1>4, <1>5, <1>6, <1>7, <1>8, <1>9, <1>10, <1>11, <1>12, <1>13, <1>14,
       <1>15, <1>16, <1>17, <1>18, <1>19, <1>20, <1>21, <1>22, <1>23, <1>24, <1>25, <1>26, <1>27,
       <1>28, <1>29, <1>30, <1>31, <1>32, <1>33, <1>34, <1>35, <1>36, <1>37, <1>38, <1>39, <1>40,
       <1>41, <1>42, <1>43, <1>44, <1>45, <1>46, <1>47
       DEF Next, Take, Failure, Recovery, Startup

\* What is kept of a take, without the three faults that are findings or bounds of the model.
LEMMA KeptInvariant == ~StopTailErrors /\ ~BootErrors /\ ~StaleAtClose /\ Spec => []Kept
  <1>1. Init => Kept
    <2> SUFFICES ASSUME Init PROVE Kept
      OBVIOUS
    <2>1. Traces /\ Prepared
      BY InitTake DEF Init, Traces, Prepared, NoDirectory
    <2>2. Named /\ Failed /\ Accounted
      BY InitTake DEF Named, Failed, Accounted, TakeAccounted, Running, Recovering, Booting
    <2> QED BY <2>1, <2>2 DEF Kept
  <1>2. ~StopTailErrors /\ ~BootErrors /\ ~StaleAtClose /\ TypeOK /\ Published /\ Reachable
            /\ Lived /\ Kept /\ [Next]_vars
            => Kept'
    <2> SUFFICES ASSUME ~StopTailErrors, ~BootErrors, ~StaleAtClose, TypeOK, Published,
                        Reachable, Lived, Kept, [Next]_vars
                 PROVE  Kept'
      OBVIOUS
    <2>1. Traces' /\ Prepared'
      BY TracesStep, PreparedStep
    <2>2. Named' /\ Failed' /\ Accounted'
      BY NamedStep, FailedStep, AccountedStep
    <2> QED BY <2>1, <2>2 DEF Kept
  <1>3. CASE ~StopTailErrors /\ ~BootErrors /\ ~StaleAtClose
    BY <1>1, <1>2, <1>3, TypeCorrect, PublishedInvariant, ReachableInvariant, LivedInvariant, PTL
       DEF Spec
  <1> QED BY <1>3

\* Whatever a crash leaves behind, the database names a take whose prefix is or may become
\* published, until its failure is recorded there.
THEOREM IdentityCorrect ==
    ~StopTailErrors /\ ~BootErrors /\ ~StaleAtClose /\ Spec => []IdentityKept
  <1>1. Lived /\ Kept => IdentityKept
    BY DEF Lived, BegunFirst, Kept, Named, Names, Done, IdentityKept
  <1> QED BY <1>1, LivedInvariant, KeptInvariant, PTL

\* A take its user saw begin is accounted for whenever the daemon is idle: published complete,
\* listed as unsuccessful, or still named to be listed.
THEOREM AccountCorrect ==
    ~StopTailErrors /\ ~BootErrors /\ ~StaleAtClose /\ Spec => []TakeAccounted
  <1>1. Kept => TakeAccounted
    BY DEF Kept, Accounted
  <1> QED BY <1>1, KeptInvariant, PTL
=============================================================================
