----------------------------- MODULE AudioCapture ------------------------------
(***************************************************************************)
(* The audio of a take (audio.rs): the reader thread, the bounded queue and*)
(* buffer pool, the disk thread and its WAV segments, the commit worker    *)
(* with its journal and checkpoint header, the recorder's stop and abort;  *)
(* and live sealing (live_seal.py, audio_journal.py), which follows the    *)
(* checkpoint while the take records.                                      *)
(*                                                                         *)
(* The unit is one PCM block.  A segment is the number of blocks up to its *)
(* end.  A power cut keeps what was synced: the segments, the journal rows *)
(* and the header renamed into place.                                      *)
(***************************************************************************)
EXTENDS Naturals, Sequences
LOCAL INSTANCE SequencesExt

CONSTANTS
    SegmentBlocks,     \* blocks of a WAV segment
    QueueBlocks,       \* blocks that may wait for the disk thread
    MaxPendingCommits, \* segments that may wait for their durable commit
    MaxBlocks,         \* bound: blocks captured in a behaviour
    MaxAudioFaults     \* bound: faults of a behaviour

ASSUME AudioAssumption ==
    /\ SegmentBlocks \in Nat \ {0} /\ QueueBlocks \in Nat \ {0}
    /\ MaxPendingCommits \in Nat \ {0} /\ MaxBlocks \in Nat /\ MaxAudioFaults \in Nat

VARIABLES
    pcm,               \* reader thread: [at, captured, error]
    stopFlag,          \* stop requested
    health,            \* progress: whether a failure was recorded
    blocks,            \* blocks waiting for the disk thread
    disk,              \* disk thread: [at, hand, error]
    written,           \* blocks written to segment files
    filled,            \* blocks in the open segment
    inventory,         \* ends of the segments handed to the commit worker
    dropped,           \* whether a segment that was written was lost: its header could
                       \* not be finished, or the commit backlog refused it
    commits,           \* segments waiting for the commit worker
    pendingCommits,    \* segments counted as not yet committed
    commit,            \* commit worker: [at, batch, error]
    synced,            \* segments whose files are synced
    segmentLog,        \* journal: segments of each synced row
    head,              \* header: [rows, segments], the published checkpoint
    audio,             \* recorder: "running", "stopping", "aborting", or its end
    sealer,            \* live sealing: [at, stat, cached, prepared]
    audioFaults        \* faults so far

threadVars == <<pcm, stopFlag, health, blocks, disk, written, filled, inventory, dropped>>
commitVars == <<commits, pendingCommits, commit, synced, segmentLog, head>>
audioVars == <<threadVars, commitVars, audio, sealer, audioFaults>>

NoHead == [rows |-> 0, segments |-> 0]

AudioInit ==
    /\ pcm = [at |-> "read", captured |-> 0, error |-> FALSE]
    /\ stopFlag = FALSE /\ health = TRUE
    /\ blocks = 0
    /\ disk = [at |-> "wait", hand |-> 0, error |-> FALSE]
    /\ written = 0 /\ filled = 0 /\ inventory = <<>> /\ dropped = FALSE
    /\ commits = <<>> /\ pendingCommits = 0
    /\ commit = [at |-> "wait", batch |-> <<>>, error |-> FALSE]
    /\ synced = 0 /\ segmentLog = <<>> /\ head = NoHead
    /\ audio = "running"
    /\ sealer = [at |-> "poll", stat |-> NoHead, cached |-> NoHead, prepared |-> 0]
    /\ audioFaults = 0

AudioFault ==
    /\ audioFaults < MaxAudioFaults
    /\ audioFaults' = audioFaults + 1

-----------------------------------------------------------------------------
(* The reader thread.                                                       *)

(* A full block is queued and a free buffer taken; either may be missing.   *)
ReadBlock ==
    /\ pcm.at = "read" /\ ~stopFlag /\ health
    /\ pcm.captured < MaxBlocks
    /\ LET room == blocks < QueueBlocks
           free == QueueBlocks + 1 > blocks + 1 + disk.hand
       IN  /\ blocks' = IF room THEN blocks + 1 ELSE blocks
           /\ pcm' = [at |-> IF room /\ free THEN "read" ELSE "ended",
                      captured |-> pcm.captured + 1, error |-> ~(room /\ free)]
           /\ health' = (room /\ free)
    /\ UNCHANGED <<stopFlag, disk, written, filled, inventory, dropped, commitVars, audio,
                   sealer, audioFaults>>

(* A stop ends the loop and queues the block that was being filled, if any. *)
ReaderStops ==
    /\ pcm.at = "read" /\ stopFlag
    /\ \E tail \in 0..1 :
        /\ pcm.captured + tail <= MaxBlocks
        /\ LET room == blocks + tail <= QueueBlocks
           IN  /\ blocks' = IF room THEN blocks + tail ELSE blocks
               /\ pcm' = [at |-> "ended", captured |-> pcm.captured + tail, error |-> ~room]
               /\ health' = (health /\ room)
    /\ UNCHANGED <<stopFlag, disk, written, filled, inventory, dropped, commitVars, audio,
                   sealer, audioFaults>>

(* A failure recorded by another thread ends the loop with that error.      *)
ReaderInformed ==
    /\ pcm.at = "read" /\ ~stopFlag /\ ~health
    /\ pcm' = [pcm EXCEPT !.at = "ended", !.error = TRUE]
    /\ UNCHANGED <<stopFlag, health, blocks, disk, written, filled, inventory, dropped,
                   commitVars, audio, sealer, audioFaults>>

ReadFails ==
    /\ pcm.at = "read" /\ ~stopFlag /\ health
    /\ AudioFault
    /\ pcm' = [pcm EXCEPT !.at = "ended", !.error = TRUE]
    /\ health' = FALSE
    /\ UNCHANGED <<stopFlag, blocks, disk, written, filled, inventory, dropped, commitVars,
                   audio, sealer>>

-----------------------------------------------------------------------------
(* The disk thread: it writes the queued blocks and, whatever ended the     *)
(* capture, seals the prefix that was written.                              *)

TakeBlock ==
    /\ disk.at = "wait" /\ blocks > 0
    /\ blocks' = blocks - 1
    /\ disk' = [disk EXCEPT !.at = "write", !.hand = 1]
    /\ UNCHANGED <<pcm, stopFlag, health, written, filled, inventory, dropped, commitVars,
                   audio, sealer, audioFaults>>

(* finish_active: the segment that ends at block e is closed and submitted; *)
(* it is open no longer, whether that succeeds or not.                      *)
SubmitSegment(e) ==
    LET ok == ~commit.error /\ pendingCommits < MaxPendingCommits
    IN  /\ commits' = IF ok THEN Append(commits, e) ELSE commits
        /\ pendingCommits' = IF ok THEN pendingCommits + 1 ELSE pendingCommits
        /\ inventory' = IF ok THEN Append(inventory, e) ELSE inventory
        /\ dropped' = (dropped \/ (~ok /\ ~commit.error))
        /\ filled' = 0
KeepCommits == UNCHANGED <<commits, pendingCommits, inventory, dropped>>

(* set_len or the last write of the header fails: the segment is gone.      *)
LosesSegment ==
    /\ AudioFault
    /\ filled' = 0 /\ dropped' = TRUE
    /\ UNCHANGED <<commits, pendingCommits, inventory>>

(* A failed durable commit stops the writing; a full segment is submitted.  *)
WriteBlock ==
    /\ disk.at = "write"
    /\ LET full == filled + 1 = SegmentBlocks
           bad == commit.error \/ (full /\ pendingCommits >= MaxPendingCommits)
       IN  /\ written' = IF commit.error THEN written ELSE written + 1
           /\ IF full /\ ~commit.error THEN SubmitSegment(written + 1)
              ELSE filled' = (IF commit.error THEN filled ELSE filled + 1) /\ KeepCommits
           /\ disk' = [at |-> IF bad THEN "finish" ELSE "wait", hand |-> 0, error |-> bad]
           /\ health' = (health /\ ~bad)
    /\ UNCHANGED <<pcm, stopFlag, blocks, commit, synced, segmentLog, head, audio, sealer, audioFaults>>

RotationFails ==
    /\ disk.at = "write" /\ ~commit.error /\ filled + 1 = SegmentBlocks
    /\ LosesSegment
    /\ written' = written + 1
    /\ disk' = [at |-> "finish", hand |-> 0, error |-> TRUE]
    /\ health' = FALSE
    /\ UNCHANGED <<pcm, stopFlag, blocks, commit, synced, segmentLog, head, audio, sealer>>

(* A block, or a new segment, that cannot be written leaves the open one.   *)
WriteBlockFails ==
    /\ disk.at = "write"
    /\ AudioFault
    /\ disk' = [at |-> "finish", hand |-> 0, error |-> TRUE]
    /\ health' = FALSE
    /\ UNCHANGED <<pcm, stopFlag, blocks, written, filled, inventory, dropped, commitVars,
                   audio, sealer>>

DiskDrained ==
    /\ disk.at = "wait" /\ blocks = 0 /\ pcm.at = "ended"
    /\ disk' = [disk EXCEPT !.at = "finish"]
    /\ UNCHANGED <<pcm, stopFlag, health, blocks, written, filled, inventory, dropped,
                   commitVars, audio, sealer, audioFaults>>

(* finish: submit the open segment, if it holds a block, and let the commit *)
(* worker end.                                                              *)
(* Mutant: after a write error the open segment is dropped.                 *)
FinishSegments_DropsPrefix ==
    /\ disk.at = "finish"
    /\ IF filled > 0 /\ ~disk.error THEN SubmitSegment(written) ELSE KeepCommits /\ UNCHANGED filled
    /\ disk' = [disk EXCEPT !.at = "join",
           !.error = @ \/ (filled > 0 /\ (commit.error \/ pendingCommits >= MaxPendingCommits))]
    /\ UNCHANGED <<pcm, stopFlag, health, blocks, written, commit, synced, segmentLog, head, audio,
                   sealer, audioFaults>>

FinishSegments ==
    /\ disk.at = "finish"
    /\ IF filled > 0 THEN SubmitSegment(written) ELSE KeepCommits /\ UNCHANGED filled
    /\ disk' = [disk EXCEPT !.at = "join",
           !.error = @ \/ (filled > 0 /\ (commit.error \/ pendingCommits >= MaxPendingCommits))]
    /\ UNCHANGED <<pcm, stopFlag, health, blocks, written, commit, synced, segmentLog, head, audio,
                   sealer, audioFaults>>

FinishFails ==
    /\ disk.at = "finish" /\ filled > 0
    /\ LosesSegment
    /\ disk' = [disk EXCEPT !.at = "join", !.error = TRUE]
    /\ UNCHANGED <<pcm, stopFlag, health, blocks, written, commit, synced, segmentLog, head, audio,
                   sealer>>

(* Joining the commit worker, which ends once its channel is drained.       *)
JoinCommits ==
    /\ disk.at = "join"
    /\ commit.error \/ (commit.at = "wait" /\ commits = <<>>)
    /\ disk' = [disk EXCEPT !.at = "ended", !.error = @ \/ commit.error]
    /\ UNCHANGED <<pcm, stopFlag, health, blocks, written, filled, inventory, dropped,
                   commitVars, audio, sealer, audioFaults>>

-----------------------------------------------------------------------------
(* The commit worker: sync the segments of a batch, append and sync one     *)
(* journal row, then replace the header.                                    *)

CommitTake ==
    /\ commit.at = "wait" /\ ~commit.error /\ commits # <<>>
    /\ commit' = [commit EXCEPT !.at = "sync", !.batch = commits]
    /\ commits' = <<>>
    /\ UNCHANGED <<threadVars, pendingCommits, synced, segmentLog, head, audio, sealer, audioFaults>>

CommitSync ==
    /\ commit.at = "sync"
    /\ synced' = synced + Len(commit.batch)
    /\ commit' = [commit EXCEPT !.at = "append"]
    /\ UNCHANGED <<threadVars, commits, pendingCommits, segmentLog, head, audio, sealer, audioFaults>>

CommitAppend ==
    /\ commit.at = "append"
    /\ segmentLog' = Append(segmentLog, commit.batch)
    /\ commit' = [commit EXCEPT !.at = "head"]
    /\ UNCHANGED <<threadVars, commits, pendingCommits, synced, head, audio, sealer, audioFaults>>

CommitHead ==
    /\ commit.at = "head"
    /\ head' = [rows |-> head.rows + 1, segments |-> head.segments + Len(commit.batch)]
    /\ pendingCommits' = pendingCommits - Len(commit.batch)
    /\ commit' = [commit EXCEPT !.at = "wait", !.batch = <<>>]
    /\ UNCHANGED <<threadVars, commits, synced, segmentLog, audio, sealer, audioFaults>>

(* Any failed sync, append or publication is terminal.  A failed directory  *)
(* sync may leave the new header in place.                                  *)
CommitFails ==
    /\ commit.at \in {"sync", "append", "head"}
    /\ AudioFault
    /\ commit' = [at |-> "wait", batch |-> <<>>, error |-> TRUE]
    /\ health' = FALSE
    /\ \E torn \in {FALSE, commit.at = "append"} :
        segmentLog' = IF torn THEN Append(segmentLog, commit.batch) ELSE segmentLog
    /\ \E renamed \in {FALSE, commit.at = "head"} :
        head' = IF renamed THEN [rows |-> head.rows + 1,
                                 segments |-> head.segments + Len(commit.batch)] ELSE head
    /\ UNCHANGED <<pcm, stopFlag, blocks, disk, written, filled, inventory, dropped, commits,
                   pendingCommits, synced, audio, sealer>>

-----------------------------------------------------------------------------
(* The recorder.                                                            *)

RequestStop ==
    /\ audio = "running"
    /\ stopFlag' = TRUE /\ audio' = "stopping"
    /\ UNCHANGED <<pcm, health, blocks, disk, written, filled, inventory, dropped, commitVars,
                   sealer, audioFaults>>

(* The worker has drained: its result is the first error or the inventory.  *)
Whole ==
    /\ ~pcm.error /\ ~disk.error
    /\ written = pcm.captured
    /\ inventory # <<>>

StopResult ==
    /\ audio \in {"stopping", "aborting"} /\ disk.at = "ended"
    /\ \/ /\ audio' = IF audio = "stopping" /\ Whole THEN "stopped" ELSE "failed"
          /\ UNCHANGED audioFaults
       \/ audio' = "failed" /\ AudioFault      \* pcm.close or capture_clock
    /\ UNCHANGED <<threadVars, commitVars, sealer>>

(* A stop that runs out of time is followed by an abort, which joins the    *)
(* worker without a limit.                                                  *)
StopTimeout ==
    /\ audio = "stopping" /\ disk.at # "ended"
    /\ AudioFault
    /\ audio' = "aborting"
    /\ UNCHANGED <<threadVars, commitVars, sealer>>

-----------------------------------------------------------------------------
(* Live sealing polls the header.  It may have been replaced between stat,  *)
(* open and read: the poll then sees the new one, or gives up until the next*)
(* The identity cached is the one from before the read.                     *)

SealStat ==
    /\ sealer.at = "poll"
    /\ sealer' = [sealer EXCEPT !.stat = head,
           !.at = IF head = sealer.cached THEN "waited" ELSE "read"]
    /\ UNCHANGED <<threadVars, commitVars, audio, audioFaults>>

SealRead ==
    /\ sealer.at = "read"
    /\ \E seen \in BOOLEAN :
        /\ ~seen => head # sealer.stat
        /\ sealer' = [sealer EXCEPT !.at = "waited",
               !.prepared = IF seen THEN head.segments ELSE @,
               !.cached = IF seen THEN sealer.stat ELSE @]
    /\ UNCHANGED <<threadVars, commitVars, audio, audioFaults>>

(* Once the producers have been joined the header is read once more; a      *)
(* failed take cancels the sealing.                                         *)
SealAgain ==
    /\ sealer.at = "waited"
    /\ sealer' =
         CASE audio = "stopped" -> [sealer EXCEPT !.at = "sealed", !.prepared = head.segments]
           [] audio = "failed"  -> [sealer EXCEPT !.at = "cancelled"]
           [] OTHER             -> [sealer EXCEPT !.at = "poll"]
    /\ UNCHANGED <<threadVars, commitVars, audio, audioFaults>>

-----------------------------------------------------------------------------
AudioStep == ReadBlock \/ ReaderStops \/ ReaderInformed \/ ReadFails \/ TakeBlock \/ WriteBlock \/ WriteBlockFails
               \/ RotationFails \/ DiskDrained \/ FinishSegments \/ FinishFails \/ JoinCommits
CommitStep == CommitTake \/ CommitSync \/ CommitAppend \/ CommitHead \/ CommitFails
RecorderStep == RequestStop \/ StopResult \/ StopTimeout
SealStep == SealStat \/ SealRead \/ SealAgain

AudioNext == AudioStep \/ CommitStep \/ RecorderStep \/ SealStep
AudioSpec == AudioInit /\ [][AudioNext]_audioVars

-----------------------------------------------------------------------------
(* Properties.                                                              *)

(* What the checkpoint header names survives a power cut at any point: the  *)
(* rows it counts are in the journal, they list the contiguous first        *)
(* segments, and the files of those are synced (audio.rs commit_checkpoint).*)
AudioCheckpointSound ==
    /\ head.rows <= Len(segmentLog)
    /\ head.segments <= synced
    /\ FlattenSeq(SubSeq(segmentLog, 1, head.rows)) = SubSeq(inventory, 1, head.segments)

End == IF inventory = <<>> THEN 0 ELSE Last(inventory)

(* Whatever ended the capture, once the worker has ended the checkpoint     *)
(* names every block that was written, unless a commit failed; a segment    *)
(* that could not be closed or submitted is missing, it alone, and it is the*)
(* last one (audio.rs start_and_capture, finish_active).                    *)
AudioPrefixKept ==
    disk.at = "ended" /\ ~commit.error =>
        /\ head.segments = Len(inventory)
        /\ written - End \in IF dropped THEN 1..SegmentBlocks ELSE {0}

(* A recorder that stopped with a result captured nothing it did not commit.*)
AudioResultDurable ==
    audio = "stopped" => head.segments = Len(inventory) /\ End = pcm.captured

(* Live sealing has prepared every segment of a stopped recording, however  *)
(* its polls raced the replacement of the header (live_seal.py _audio).     *)
AudioPrepared ==
    sealer.at = "sealed" => sealer.prepared = Len(inventory)

(* The audio that a take claims is on the disk, and claims all it wrote      *)
(* (audio.rs, live_seal.py).                                                 *)
AudioSafe == AudioCheckpointSound /\ AudioPrefixKept /\ AudioResultDurable /\ AudioPrepared
=============================================================================
