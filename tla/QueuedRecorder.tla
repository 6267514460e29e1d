--------------------------- MODULE QueuedRecorder ---------------------------
(***************************************************************************)
(* One take of DeviceSessionRecorder without the native data plane         *)
(* (device_session.py): the camera and the IMU submit through the          *)
(* coordinator into a bounded queue, one writer hands frames to the        *)
(* encoder helper and writes the two journals, and stop() or fail()        *)
(* drains the writer, checks what it left and seals or fails the take.     *)
(* The helper (stereo_encoder.py) is a process that reads a pipe and       *)
(* reports closed segments, which a thread of ours reads.                  *)
(*                                                                         *)
(* An item is its kind and its number: frames are numbered by the frame    *)
(* domain, IMU observations in the order they were handed in.              *)
(***************************************************************************)
EXTENDS Naturals, Sequences

CONSTANTS
    Capacity,         \* queue_capacity
    SegmentLength,    \* frames in a segment of the helper
    MayHang,          \* TRUE: the helper may stop reading its pipe
    MaxItems,         \* bound: items handed in, of each kind
    MaxRecFaults      \* bound: steps that raise by themselves

ASSUME RecorderAssumption ==
    /\ Capacity \in Nat \ {0} /\ SegmentLength \in Nat \ {0} /\ MayHang \in BOOLEAN
    /\ MaxItems \in Nat /\ MaxRecFaults \in Nat

VARIABLES
    recState,          \* _state; "failed" is recoverable too
    stateFile,         \* the state recording.json holds
    stateLock,         \* who holds _state_write_lock
    handed,            \* kind -> items handed in; for frames _frame_domain
    dropped,           \* frames of _drop_events
    offer,             \* what a submit holds the locks for, waiting for room
    recQueue,          \* _queue
    writerAt, hand,    \* the writer's next step, and the item it works on
    journal,           \* kind -> items its journal holds
    recError,          \* _writer_error is set
    writerStopping,    \* _writer_stopping
    closer, sealing,   \* the next step of stop() or fail(), and whether it may still seal
    owned,             \* the journals are open; the encoder is ours
    helper,            \* the helper process and its input
    submitted,         \* frames written to its pipe
    closed, covered,   \* frames in the segments it closed; in those we were told of
    helperError,              \* its error event: none, sent, or read (_failure)
    recFaults

submitVars == <<handed, dropped, offer>>
writerVars == <<writerAt, hand, journal>>
closerVars == <<closer, sealing, writerStopping, owned>>
encoderVars == <<helper, submitted, closed, covered, helperError>>
stateVars == <<stateFile, stateLock>>
recVars == <<recState, stateVars, submitVars, recQueue, writerVars, recError, closerVars,
             encoderVars, recFaults>>

Kinds == {"frame", "imu"}
NoItem == <<"none", 0>>
StopItem == <<"stop", 0>>
Owned == [journals |-> TRUE, encoder |-> TRUE]

\* a recorder before its start()
RecInit ==
    /\ recState = "new" /\ stateFile = "none" /\ stateLock = "free"
    /\ handed = [k \in Kinds |-> 0] /\ dropped = {} /\ offer = NoItem
    /\ recQueue = <<>> /\ writerAt = "none" /\ hand = NoItem
    /\ journal = [k \in Kinds |-> <<>>] /\ recError = FALSE
    /\ writerStopping = FALSE /\ closer = "open" /\ sealing = FALSE
    /\ owned = [journals |-> FALSE, encoder |-> FALSE]
    /\ helper = [process |-> "none", input |-> TRUE]
    /\ submitted = 0 /\ closed = 0 /\ covered = 0 /\ helperError = "none"
    /\ recFaults = 0

Fault == recFaults < MaxRecFaults /\ recFaults' = recFaults + 1
Process(p) == helper' = [helper EXCEPT !.process = p]

\* _raise_if_unavailable
Available == recState = "recording" /\ ~recError
\* _queue_put: within its wait there is room
QueuePut(item) == Len(recQueue) < Capacity /\ recQueue' = Append(recQueue, item)
\* _record_drop
Dropped(n) == dropped' = dropped \cup {n}
\* _write to one of the two journals
Written(item) == journal' = [journal EXCEPT ![item[1]] = Append(@, item[2])]
\* the helper has ended, or has reported a failure that was read: the pipe is of no use
PipeBroken == helperError = "read" \/ helper.process = "failed"
\* StereoEncoderProcess.start: the helper reported ready, or ended without a word
Spawned == Process("running") \/ Process("failed")
\* abort
Killed == Process(IF helper.process \in {"running", "hung"} THEN "failed" ELSE helper.process)

-----------------------------------------------------------------------------
(* start() *)

StartKeeps ==
    UNCHANGED <<stateLock, submitVars, recQueue, hand, journal, recError, sealing,
                writerStopping, submitted, closed, covered>>

StartRecorder ==
    /\ recState = "new" /\ recState' = "recording" /\ stateFile' = "recording"
    /\ owned' = Owned /\ writerAt' = "get" /\ Spawned
    /\ UNCHANGED <<closer, helperError, recFaults>> /\ StartKeeps

\* whatever fails undoes what was opened; the session directory keeps the failure
StartRecorderFails ==
    /\ recState = "new" /\ Fault
    /\ recState' = "failed" /\ stateFile' \in {"none", "recording", "failed"}
    /\ closer' = "done"
    /\ UNCHANGED <<writerAt, owned, helper, helperError>> /\ StartKeeps

-----------------------------------------------------------------------------
(* Coordinator._submit_frame and _submit_imu, and the recorder's submits: the locks of   *)
(* both are held from the check until the item is in the queue or the wait for room ends. *)
(* A submit that finds the take closed or failed raises and leaves everything.            *)

SubmitKeeps ==
    UNCHANGED <<recState, stateVars, writerVars, closerVars, encoderVars, recFaults>>

Submit(k) ==
    /\ Available /\ offer = NoItem /\ handed[k] < MaxItems
    /\ offer' = <<k, handed[k]>> /\ handed' = [handed EXCEPT ![k] = @ + 1]
    /\ UNCHANGED <<dropped, recQueue, recError>> /\ SubmitKeeps

PutItem ==
    /\ offer # NoItem /\ QueuePut(offer) /\ offer' = NoItem
    /\ UNCHANGED <<handed, dropped, recError>> /\ SubmitKeeps

\* The IMU reports a full queue as the writer's failure.
PutTimesOut_ImuLost ==
    /\ offer # NoItem /\ Len(recQueue) = Capacity /\ offer' = NoItem
    /\ dropped' = IF offer[1] = "frame" THEN dropped \cup {offer[2]} ELSE dropped
    /\ UNCHANGED <<handed, recQueue, recError>> /\ SubmitKeeps

PutTimesOut ==
    /\ offer # NoItem /\ Len(recQueue) = Capacity /\ offer' = NoItem
    /\ IF offer[1] = "frame"
       THEN Dropped(offer[2]) /\ UNCHANGED recError
       ELSE recError' = TRUE /\ UNCHANGED dropped
    /\ UNCHANGED <<handed, recQueue>> /\ SubmitKeeps

-----------------------------------------------------------------------------
(* _writer_loop *)

WriterKeeps == UNCHANGED <<recState, submitVars, closerVars>>
WriterTo(step) == writerAt' = step
EncoderKeeps == UNCHANGED encoderVars

WriterGets ==
    /\ writerAt = "get" /\ recQueue # <<>> /\ recQueue' = Tail(recQueue)
    /\ CASE Head(recQueue) = StopItem -> WriterTo("ended") /\ UNCHANGED hand
         [] Head(recQueue) # StopItem /\ recError -> UNCHANGED <<writerAt, hand>>
         [] OTHER -> /\ hand' = Head(recQueue)
                     /\ WriterTo(IF Head(recQueue)[1] = "frame" THEN "encode" ELSE "index")
    /\ UNCHANGED <<stateVars, journal, recError, encoderVars, recFaults>> /\ WriterKeeps

\* encoder.submit() to a helper that reads, and has reported no failure
WriterEncodes ==
    /\ writerAt = "encode" /\ ~PipeBroken /\ helper.process = "running"
    /\ submitted' = submitted + 1 /\ WriterTo("index")
    /\ UNCHANGED <<stateVars, recQueue, hand, journal, recError, recFaults>>
    /\ UNCHANGED <<helper, closed, covered, helperError>> /\ WriterKeeps

WriterIndexes ==
    /\ writerAt = "index" /\ WriterTo("checkpoint") /\ Written(hand) /\ hand' = NoItem
    /\ UNCHANGED <<stateVars, recQueue, recError, recFaults>> /\ EncoderKeeps /\ WriterKeeps

\* _checkpoint_if_due: not due, or the take no longer records
CheckpointSkips ==
    /\ writerAt = "checkpoint" /\ stateLock = "free" /\ WriterTo("get")
    /\ UNCHANGED <<stateVars, recQueue, hand, journal, recError, recFaults>>
    /\ EncoderKeeps /\ WriterKeeps

CheckpointWrites_AnyState ==
    /\ writerAt = "checkpoint" /\ stateLock = "free"
    /\ WriterTo("publish") /\ stateFile' = "recording" /\ stateLock' = "writer"
    /\ UNCHANGED <<recQueue, hand, journal, recError, recFaults>> /\ EncoderKeeps /\ WriterKeeps

CheckpointWrites ==
    /\ writerAt = "checkpoint" /\ stateLock = "free"
    /\ ~writerStopping /\ recState = "recording"
    /\ WriterTo("publish") /\ stateFile' = "recording" /\ stateLock' = "writer"
    /\ UNCHANGED <<recQueue, hand, journal, recError, recFaults>> /\ EncoderKeeps /\ WriterKeeps

\* the document is published under the lock that a waiting submit holds
CheckpointPublishes ==
    /\ writerAt = "publish" /\ offer = NoItem /\ WriterTo("get") /\ stateLock' = "free"
    /\ UNCHANGED <<stateFile, recQueue, hand, journal, recError, recFaults>>
    /\ EncoderKeeps /\ WriterKeeps

WriterRaises_KeepsLock ==
    /\ \/ writerAt \in {"encode", "index", "publish"} /\ Fault
       \/ writerAt = "checkpoint" /\ stateLock = "free" /\ Fault
       \/ writerAt = "encode" /\ PipeBroken /\ UNCHANGED recFaults
    /\ recError' = TRUE /\ hand' = NoItem /\ WriterTo("get")
    /\ UNCHANGED <<stateVars, recQueue, journal>> /\ EncoderKeeps /\ WriterKeeps

WriterRaises ==
    /\ \/ writerAt \in {"encode", "index", "publish"} /\ Fault
       \/ writerAt = "checkpoint" /\ stateLock = "free" /\ Fault
       \/ writerAt = "encode" /\ PipeBroken /\ UNCHANGED recFaults
    /\ recError' = TRUE /\ hand' = NoItem /\ WriterTo("get")
    /\ stateLock' = IF writerAt = "publish" THEN "free" ELSE stateLock
    /\ UNCHANGED <<stateFile, recQueue, journal>> /\ EncoderKeeps /\ WriterKeeps

-----------------------------------------------------------------------------
(* The helper, and the thread that reads its events *)

HelperKeeps ==
    UNCHANGED <<recState, stateVars, submitVars, recQueue, writerVars, closerVars>>

HelperCloses ==
    /\ helper.process = "running" /\ closed + SegmentLength <= submitted
    /\ closed' = closed + SegmentLength
    /\ UNCHANGED <<helper, submitted, covered, helperError, recError, recFaults>> /\ HelperKeeps

\* at the end of its input it closes the last segment
HelperEnds ==
    /\ helper.process = "running" /\ ~helper.input
    /\ closed' = submitted /\ Process("done")
    /\ UNCHANGED <<submitted, covered, helperError, recError, recFaults>> /\ HelperKeeps

HelperFails ==
    /\ helper.process = "running" /\ Fault /\ Process("failed")
    /\ helperError' \in {"none", "sent"}
    /\ UNCHANGED <<submitted, closed, covered, recError>> /\ HelperKeeps

\* a stuck codec: the process stays, and reads no more
HelperHangs ==
    /\ MayHang /\ helper.process = "running" /\ Fault /\ Process("hung")
    /\ UNCHANGED <<submitted, closed, covered, helperError, recError>> /\ HelperKeeps

ReaderReads ==
    /\ covered' = closed /\ helperError' = IF helperError = "sent" THEN "read" ELSE helperError
    /\ UNCHANGED <<helper, submitted, closed, recError, recFaults>> /\ HelperKeeps

\* _harvest_loop hands its failure to the writer
HarvesterFails ==
    /\ owned.encoder /\ closer \notin {"encoder exit", "encoder done", "abandon"}
    /\ Fault /\ recError' = TRUE
    /\ EncoderKeeps /\ HelperKeeps

-----------------------------------------------------------------------------
(* stop() and fail(): one caller at a time *)

CloserKeeps == UNCHANGED <<submitVars, writerVars>>
CloserTo(step) == closer' = step
Raises == CloserTo("abandon") /\ sealing' = FALSE

StopBegins ==
    /\ recState = "recording" /\ closer = "open" /\ offer = NoItem
    /\ recState' = "finalizing" /\ CloserTo("finalize") /\ sealing' = TRUE
    /\ UNCHANGED <<stateVars, recQueue, recError, writerStopping, owned, encoderVars, recFaults>>
    /\ CloserKeeps

FailBegins ==
    /\ recState = "recording" /\ closer = "open" /\ offer = NoItem
    /\ recState' = "stopping" /\ CloserTo("drain")
    /\ UNCHANGED <<stateVars, recQueue, recError, sealing, writerStopping, owned, encoderVars,
                   recFaults>>
    /\ CloserKeeps

\* _persist_state("finalizing"); when it fails the writer is still drained first
MarkFinalizing ==
    /\ closer = "finalize" /\ stateLock = "free" /\ CloserTo("drain")
    /\ \/ stateFile' = "finalizing" /\ UNCHANGED <<sealing, recFaults>>
       \/ Fault /\ sealing' = FALSE /\ UNCHANGED stateFile
    /\ UNCHANGED <<recState, stateLock, recQueue, recError, writerStopping, owned, encoderVars>>
    /\ CloserKeeps

\* _stop_writer
DrainBegins ==
    /\ closer = "drain" /\ writerStopping' = TRUE /\ CloserTo("put")
    /\ UNCHANGED <<recState, stateVars, recQueue, recError, sealing, owned, encoderVars,
                   recFaults>>
    /\ CloserKeeps

PutStop ==
    /\ closer = "put" /\ QueuePut(StopItem) /\ CloserTo("join")
    /\ UNCHANGED <<recState, stateVars, recError, sealing, writerStopping, owned, encoderVars,
                   recFaults>>
    /\ CloserKeeps

\* after ten seconds the writer is told to discard, and is still waited for
JoinTimesOut_Leaves ==
    /\ closer = "join" /\ writerAt # "ended" /\ recError' = TRUE /\ Raises
    /\ UNCHANGED <<recState, stateVars, recQueue, writerStopping, owned, encoderVars, recFaults>>
    /\ CloserKeeps

JoinTimesOut ==
    /\ closer = "join" /\ writerAt # "ended" /\ recError' = TRUE /\ CloserTo("rejoin")
    /\ UNCHANGED <<recState, stateVars, recQueue, sealing, writerStopping, owned, encoderVars,
                   recFaults>>
    /\ CloserKeeps

Joined ==
    /\ closer \in {"join", "rejoin"} /\ writerAt = "ended"
    /\ CloserTo(IF sealing THEN "check" ELSE "abandon")
    /\ UNCHANGED <<recState, stateVars, recQueue, recError, sealing, writerStopping, owned,
                   encoderVars, recFaults>>
    /\ CloserKeeps

\* the writer's error, an empty take, the audio, _sync_and_close_files
SyncFiles ==
    /\ closer = "check"
    /\ \/ ~recError /\ journal["frame"] # <<>> /\ CloserTo("encoder")
          /\ owned' = [owned EXCEPT !.journals = FALSE] /\ UNCHANGED <<sealing, recFaults>>
       \/ (recError \/ journal["frame"] = <<>>) /\ Raises /\ UNCHANGED <<owned, recFaults>>
       \/ Fault /\ Raises /\ UNCHANGED owned
    /\ UNCHANGED <<recState, stateVars, recQueue, recError, writerStopping, encoderVars>>
    /\ CloserKeeps

\* _finish_encoder: the harvester is joined, then the helper's input ends
EndInput ==
    /\ closer = "encoder"
    /\ \/ ~recError /\ CloserTo("encoder exit") /\ helper' = [helper EXCEPT !.input = FALSE]
          /\ UNCHANGED <<sealing, recFaults>>
       \/ recError /\ Raises /\ UNCHANGED <<helper, recFaults>>
       \/ Fault /\ Raises /\ UNCHANGED helper
    /\ UNCHANGED <<recState, stateVars, recQueue, recError, writerStopping, owned>>
    /\ UNCHANGED <<submitted, closed, covered, helperError>> /\ CloserKeeps

\* the helper ends, or is given up after its timeout
WaitEncoder ==
    /\ closer = "encoder exit"
    /\ \/ helper.process \in {"done", "failed"} /\ CloserTo("encoder done") /\ UNCHANGED sealing
       \/ helper.process \in {"running", "hung"} /\ Raises
    /\ UNCHANGED <<recState, stateVars, recQueue, recError, writerStopping, owned, encoderVars,
                   recFaults>>
    /\ CloserKeeps

\* The reader may not have come to the end of the helper's events.
EncoderWhole_Uncovered ==
    /\ helperError # "read" /\ helper.process = "done" /\ submitted = Len(journal["frame"])

EncoderWhole ==
    /\ helperError # "read" /\ helper.process = "done"
    /\ submitted = Len(journal["frame"]) /\ covered = Len(journal["frame"])

FinishEncoder ==
    /\ closer = "encoder done"
    /\ \/ EncoderWhole /\ CloserTo("quality") /\ owned' = [owned EXCEPT !.encoder = FALSE]
          /\ UNCHANGED sealing
       \/ ~EncoderWhole /\ Raises /\ UNCHANGED owned
    /\ UNCHANGED <<recState, stateVars, recQueue, recError, writerStopping, encoderVars,
                   recFaults>>
    /\ CloserKeeps

\* _enforce_quality_policy admits no drop; then the take is published
PublishTake ==
    /\ closer = "quality"
    /\ \/ dropped = {} /\ CloserTo("done") /\ recState' = "sealed" /\ stateFile' = "none"
          /\ UNCHANGED <<sealing, recFaults>>
       \/ dropped # {} /\ Raises /\ UNCHANGED <<recState, stateFile, recFaults>>
       \/ Fault /\ Raises /\ UNCHANGED <<recState, stateFile>>
    /\ UNCHANGED <<stateLock, recQueue, recError, writerStopping, owned, encoderVars>>
    /\ CloserKeeps

\* _abandon_encoder, _close_files and _mark_failed
AbandonTake ==
    /\ closer = "abandon" /\ CloserTo("done")
    /\ owned' = [journals |-> FALSE, encoder |-> FALSE]
    /\ Killed
    /\ recState' = "failed" /\ stateFile' \in {stateFile, "failed"}
    /\ UNCHANGED <<stateLock, recQueue, recError, sealing, writerStopping, recFaults>>
    /\ UNCHANGED <<submitted, closed, covered, helperError>> /\ CloserKeeps

WriterNext ==
    \/ WriterGets \/ WriterEncodes \/ WriterIndexes \/ CheckpointSkips \/ CheckpointWrites
    \/ CheckpointPublishes \/ WriterRaises
HelperNext ==
    \/ HelperCloses \/ HelperEnds \/ HelperFails \/ HelperHangs \/ ReaderReads \/ HarvesterFails
CloserNext ==
    \/ StopBegins \/ FailBegins \/ MarkFinalizing \/ DrainBegins \/ PutStop \/ JoinTimesOut
    \/ Joined \/ SyncFiles \/ EndInput \/ WaitEncoder \/ FinishEncoder \/ PublishTake
    \/ AbandonTake

RecNext ==
    \/ StartRecorder \/ StartRecorderFails
    \/ \E k \in Kinds : Submit(k)
    \/ PutItem \/ PutTimesOut \/ WriterNext \/ HelperNext \/ CloserNext

RecSpec == RecInit /\ [][RecNext]_recVars

\* Threads run; a submit's wait ends; a helper that is not stuck reads to its end.
RecFairness ==
    /\ WF_recVars(PutItem \/ PutTimesOut)
    /\ WF_recVars(WriterNext)
    /\ WF_recVars(HelperCloses \/ HelperEnds)
    /\ WF_recVars(CloserNext /\ closer # "open")

RecFairSpec == RecSpec /\ RecFairness

-----------------------------------------------------------------------------
(* Properties *)

TypeStage ==
    /\ recState \in {"new", "recording", "finalizing", "stopping", "sealed", "failed"}
    /\ stateFile \in {"none", "recording", "finalizing", "failed"}
    /\ stateLock \in {"free", "writer"}
    /\ recError \in BOOLEAN /\ writerStopping \in BOOLEAN /\ sealing \in BOOLEAN
    /\ closer \in {"open", "finalize", "drain", "put", "join", "rejoin", "check", "encoder",
                   "encoder exit", "encoder done", "quality", "abandon", "done"}

TypeItems ==
    /\ handed \in [Kinds -> 0..MaxItems] /\ dropped \subseteq 0..MaxItems
    /\ offer \in (Kinds \X Nat) \cup {NoItem} /\ hand \in (Kinds \X Nat) \cup {NoItem}
    /\ recQueue \in Seq((Kinds \X Nat) \cup {StopItem})
    /\ writerAt \in {"none", "get", "encode", "index", "checkpoint", "publish", "ended"}
    /\ journal \in [Kinds -> Seq(Nat)]

TypeHelper ==
    /\ helper \in [process : {"none", "running", "hung", "failed", "done"}, input : BOOLEAN]
    /\ submitted \in Nat /\ closed \in Nat /\ covered \in Nat
    /\ helperError \in {"none", "sent", "read"}
    /\ owned \in [journals : BOOLEAN, encoder : BOOLEAN] /\ recFaults \in Nat

RecTypeOK == TypeStage /\ TypeItems /\ TypeHelper

\* A sealed take holds every frame and every IMU observation that was handed in, in order and
\* once, and every frame is in a segment the helper closed (stop, _finish_encoder).
SealedIsWhole ==
    recState = "sealed" =>
        /\ \A k \in Kinds : journal[k] = [i \in 1..handed[k] |-> i - 1]
        /\ submitted = handed["frame"] /\ closed = submitted /\ covered = closed

\* The journals and the encoder are given up only when nobody writes to them any more: not
\* even a timeout of the join closes a file under the writer (_stop_writer, fail).
WriterOwnsFiles == writerAt \notin {"none", "ended"} => owned = Owned

\* A frame or an observation that was handed in is written, on its way, or accounted for by a
\* drop or an error, whatever times out in whichever order (submit_frame, submit_imu).
AllAccounted ==
    ~recError => \A k \in Kinds : \A n \in 0..(handed[k] - 1) :
        \/ \E i \in 1..Len(journal[k]) : journal[k][i] = n
        \/ hand = <<k, n>> \/ offer = <<k, n>>
        \/ \E i \in 1..Len(recQueue) : recQueue[i] = <<k, n>>
        \/ k = "frame" /\ n \in dropped

\* No late checkpoint of the writer turns a take that is being sealed back into one that
\* records (_checkpoint_if_due against stop).
FinalizingStays ==
    sealing /\ closer \notin {"open", "finalize", "done"} => stateFile = "finalizing"

\* What a recorder that drains, times out and seals must keep (stop, fail).
RecorderSafe == SealedIsWhole /\ WriterOwnsFiles /\ AllAccounted /\ FinalizingStays

\* A stop or a failure comes to its end, whatever times out or fails under it, as long as the
\* helper is not stuck: _stop_writer waits for the writer without a bound.
CloseReturns == closer # "open" ~> closer = "done" \/ helper.process = "hung"
=============================================================================
