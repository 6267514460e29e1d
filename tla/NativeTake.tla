------------------------------ MODULE NativeTake -------------------------------
(***************************************************************************)
(* One native take from the camera to its durable checkpoint: the capture  *)
(* runtime and its frame gate (capture_runtime.rs, recording.rs), the      *)
(* active take, the segment planner and the index writer behind the        *)
(* recording sink, the encoder helper (stereo_encoder.rs), the session     *)
(* transaction that joins them (session_store.rs) and the harvester, stop  *)
(* and fail of DeviceSessionRecorder (device_session.py).                  *)
(*                                                                         *)
(* A frame is its source sequence number.  The capture thread, the IMU     *)
(* thread, the index writer, the helper, the harvester and the thread that *)
(* closes the take interleave; timeouts and I/O errors are faults.  A power*)
(* cut keeps the checkpoint, the finished media and the synced index rows: *)
(* what must hold after one is an invariant of those.                      *)
(***************************************************************************)
EXTENDS Naturals, Sequences

CONSTANTS
    SegmentFrames,     \* frames of a media segment
    Decimation,        \* every how many source frames one is recorded
    Backlog,           \* rows the index writer may have pending
    MaxSource,         \* bound: source sequence numbers of a behaviour
    MaxTakeFaults      \* bound: faults of a behaviour

ASSUME TakeAssumption ==
    /\ SegmentFrames \in Nat \ {0} /\ Decimation \in Nat \ {0}
    /\ Backlog \in Nat \ {0} /\ MaxSource \in Nat /\ MaxTakeFaults \in Nat

VARIABLES
    camera,            \* source sequence number the camera produced last
    gate,              \* fan-out: "none", "open" or "stopping"
    counted,           \* fan-out: [observed, inflight, failed] of the recording
    attached,          \* runtime: whether it holds the recording's targets
    told,              \* whether the failure callback reached the coordinator
    capture,           \* capture thread: [at, frame, gap, error]
    imu,               \* IMU thread: "off" or "on"
    take,              \* active take: [written, pending, closed]
    planner,           \* planner: [frames, covered]
    helper,            \* encoder: [state, got, coded, ends]
    sink,              \* index: [state, queue, rows, synced]
    lifecycle,         \* session transaction
    harvester,         \* harvester thread: "run", "failed" or "ended"
    harvest,           \* harvest in progress: [by, at, seen, before]
    records,           \* segments with a sealed record
    checkpoint,        \* segments named by segments.json
    closer,            \* thread that stops or fails the take: [at, how, then]
    takeFaults         \* faults so far

runtimeVars == <<camera, gate, counted, attached, told, capture, imu>>
transactionVars == <<take, planner, helper, sink, lifecycle>>
harvestVars == <<harvester, harvest, records, checkpoint>>
takeVars == <<runtimeVars, transactionVars, harvestVars, closer, takeFaults>>

NoFrame == [at |-> "read", frame |-> 0, gap |-> 0, error |-> FALSE]
NoHarvest == [by |-> "none", at |-> "idle", seen |-> 0, before |-> 0]
FreshGate == [observed |-> 0, inflight |-> 0, failed |-> FALSE]

(* A take whose recorder and transaction have begun and whose targets are   *)
(* attached: engine start_recording has returned.                           *)
TakeInit ==
    /\ camera = 0
    /\ gate = "open" /\ counted = FreshGate /\ attached = TRUE /\ told = FALSE
    /\ capture = NoFrame
    /\ imu = "on"
    /\ take = [written |-> 0, pending |-> FALSE, closed |-> FALSE]
    /\ planner = [frames |-> 0, covered |-> 0]
    /\ helper = [state |-> "run", got |-> <<>>, coded |-> 0, ends |-> <<>>]
    /\ sink = [state |-> "open", queue |-> <<>>, rows |-> <<>>, synced |-> 0]
    /\ lifecycle = "recording"
    /\ harvester = "run" /\ harvest = NoHarvest /\ records = 0 /\ checkpoint = 0
    /\ closer = [at |-> "none", how |-> "none", then |-> "none"]
    /\ takeFaults = 0

TakeFault ==
    /\ takeFaults < MaxTakeFaults
    /\ takeFaults' = takeFaults + 1

-----------------------------------------------------------------------------
(* The frame gate.                                                          *)

(* Stopping the gate: a recording with no frame in flight is gone at once.  *)
Stopping == IF gate = "none" \/ counted.inflight = 0 THEN "none" ELSE "stopping"

(* A failure stops the gate; the first one of a recording is told.          *)
MarkFailure ==
    /\ gate' = Stopping
    /\ counted' = [counted EXCEPT !.failed = TRUE]
    /\ attached' = (attached /\ Stopping # "none")
    /\ told' = (told \/ (gate # "none" /\ ~counted.failed))

Recorded(gap) ==
    \/ counted.observed = 0
    \/ gap # 0
    \/ counted.observed % Decimation = 0

(* process_frame under the state lock: the gap before a take's first frame  *)
(* is not the take's; a frame after a gap is dispatched whatever the        *)
(* decimation, so that it fails.                                            *)
BeginFrame ==
    /\ capture.at = "read"
    /\ \E gap \in 0..1 :
        /\ camera + gap + 1 <= MaxSource
        /\ camera' = camera + gap + 1
        /\ IF gate = "open" /\ Recorded(gap)
           THEN /\ counted' = [counted EXCEPT
                       !.observed = IF @ = 0 THEN 1 ELSE @ + gap + 1, !.inflight = @ + 1]
                /\ capture' = [at |-> "reserve", frame |-> camera', error |-> FALSE,
                               gap |-> IF counted.observed = 0 THEN 0 ELSE gap]
           ELSE /\ counted' = IF gate = "open"
                              THEN [counted EXCEPT !.observed = @ + gap + 1] ELSE counted
                /\ UNCHANGED capture
    /\ UNCHANGED <<gate, attached, told, imu, transactionVars, harvestVars, closer, takeFaults>>

(* finish_recording_frame, which precedes the report of a failed write.     *)
FinishFrame ==
    /\ capture.at = "finish"
    /\ counted' = [counted EXCEPT !.inflight = @ - 1]
    /\ gate' = IF gate = "stopping" /\ counted.inflight = 1 THEN "none" ELSE gate
    /\ attached' = (attached /\ gate' # "none")
    /\ capture' = IF capture.error THEN [capture EXCEPT !.at = "report"] ELSE NoFrame
    /\ UNCHANGED <<camera, told, imu, transactionVars, harvestVars, closer, takeFaults>>

ReportFailure ==
    /\ capture.at = "report"
    /\ capture' = NoFrame
    /\ MarkFailure
    /\ UNCHANGED <<camera, imu, transactionVars, harvestVars, closer, takeFaults>>

(* A read error ends the capture thread; it tells only an attached take.    *)
CameraFails ==
    /\ capture.at = "read"
    /\ TakeFault
    /\ capture' = [NoFrame EXCEPT !.at = "dead"]
    /\ gate' = Stopping
    /\ counted' = [counted EXCEPT !.failed = TRUE]
    /\ attached' = FALSE
    /\ told' = (told \/ (gate # "none" /\ ~counted.failed /\ attached))
    /\ UNCHANGED <<camera, imu, transactionVars, harvestVars, closer>>

(* The IMU thread fails: a frame may be in flight.                          *)
ImuFails ==
    /\ imu = "on" /\ attached /\ gate # "none"
    /\ closer.at = "none"
    /\ TakeFault
    /\ imu' = "off"
    /\ MarkFailure
    /\ UNCHANGED <<camera, capture, transactionVars, harvestVars, closer>>

ImuEnds ==
    /\ imu = "on"
    /\ ~(attached /\ gate # "none" /\ closer.at = "none")
    /\ imu' = "off"
    /\ UNCHANGED <<camera, gate, counted, attached, told, capture, transactionVars,
                   harvestVars, closer, takeFaults>>

-----------------------------------------------------------------------------
(* Writing a frame: reserve and plan, submit to the helper, append the      *)
(* index row, finish the reservation.  The first error ends the write.      *)

Fails == capture' = [capture EXCEPT !.at = "finish", !.error = TRUE]
Passes(next) == capture' = [capture EXCEPT !.at = next]

ReserveFrame ==
    /\ capture.at = "reserve"
    /\ IF take.closed \/ capture.gap # 0 \/ take.pending
       THEN Fails /\ UNCHANGED <<take, planner>>
       ELSE /\ take' = [take EXCEPT !.pending = TRUE]
            /\ planner' = [planner EXCEPT !.frames = @ + 1]
            /\ Passes("submit")
    /\ UNCHANGED <<camera, gate, counted, attached, told, imu, helper, sink, lifecycle,
                   harvestVars, closer, takeFaults>>

SubmitFrame ==
    /\ capture.at = "submit"
    /\ IF helper.state = "run"
       THEN /\ helper' = [helper EXCEPT !.got = Append(@, capture.frame)]
            /\ Passes("index")
       ELSE Fails /\ UNCHANGED helper
    /\ UNCHANGED <<camera, gate, counted, attached, told, imu, take, planner, sink,
                   lifecycle, harvestVars, closer, takeFaults>>

IndexFrame ==
    /\ capture.at = "index"
    /\ IF sink.state = "open" /\ Len(sink.queue) < Backlog
       THEN /\ sink' = [sink EXCEPT !.queue = Append(@, capture.frame)]
            /\ Passes("commit")
       ELSE Fails /\ UNCHANGED sink
    /\ UNCHANGED <<camera, gate, counted, attached, told, imu, take, planner, helper,
                   lifecycle, harvestVars, closer, takeFaults>>

CommitFrame ==
    /\ capture.at = "commit"
    /\ IF take.closed
       THEN Fails /\ UNCHANGED take
       ELSE /\ take' = [take EXCEPT !.pending = FALSE, !.written = @ + 1]
            /\ Passes("finish")
    /\ UNCHANGED <<camera, gate, counted, attached, told, imu, planner, helper, sink,
                   lifecycle, harvestVars, closer, takeFaults>>

-----------------------------------------------------------------------------
(* The index writer and the helper.                                         *)

(* A row counts as indexed once written.                                    *)
WriteRow ==
    /\ sink.state # "failed" /\ sink.queue # <<>>
    /\ sink' = [sink EXCEPT !.rows = Append(@, Head(sink.queue)), !.queue = Tail(@)]
    /\ UNCHANGED <<runtimeVars, take, planner, helper, lifecycle, harvestVars, closer, takeFaults>>

(* The first write error ends the writer and fails every later write.       *)
WriteRowFails ==
    /\ sink.state # "failed" /\ sink.queue # <<>>
    /\ TakeFault
    /\ sink' = [sink EXCEPT !.state = "failed"]
    /\ UNCHANGED <<runtimeVars, take, planner, helper, lifecycle, harvestVars, closer>>

LastEnd == IF helper.ends = <<>> THEN 0 ELSE helper.ends[Len(helper.ends)]

(* The encoder helper: a segment is synced before it is announced.  A helper *)
(* that has reported an error still works off the frames it took in, and    *)
(* announces what they complete.                                            *)
EncodeFrame ==
    /\ helper.state \in {"run", "eof", "failing"} /\ helper.coded < Len(helper.got)
    /\ LET n == helper.coded + 1
       IN  helper' = [helper EXCEPT !.coded = n,
               !.ends = IF n % SegmentFrames = 0 THEN Append(@, n) ELSE @]
    /\ UNCHANGED <<runtimeVars, take, planner, sink, lifecycle, harvestVars, closer, takeFaults>>

(* A frame the codec refuses, or an error of the pipeline, is reported first *)
(* and the pipeline finished after it.                                      *)
HelperReports ==
    /\ helper.state \in {"run", "eof"}
    /\ TakeFault
    /\ helper' = [helper EXCEPT !.state = "failing"]
    /\ UNCHANGED <<runtimeVars, take, planner, sink, lifecycle, harvestVars, closer>>

(* At the end of its input, or where an error stopped it, the helper closes *)
(* the last segment; after an error its exit status is a failure.           *)
HelperExits ==
    /\ \/ helper.state = "eof" /\ helper.coded = Len(helper.got)
       \/ helper.state = "failing"
    /\ helper' = [helper EXCEPT
           !.state = IF @ = "eof" THEN "exited" ELSE "failed",
           !.ends = IF LastEnd < helper.coded THEN Append(@, helper.coded) ELSE @]
    /\ UNCHANGED <<runtimeVars, take, planner, sink, lifecycle, harvestVars, closer, takeFaults>>

(* The helper dies, or its events cannot be read any more: nothing else of  *)
(* it is heard.                                                             *)
HelperFails ==
    /\ helper.state \in {"run", "eof", "failing"}
    /\ TakeFault
    /\ helper' = [helper EXCEPT !.state = "failed"]
    /\ UNCHANGED <<runtimeVars, take, planner, sink, lifecycle, harvestVars, closer>>

-----------------------------------------------------------------------------
(* The harvest, by the harvester thread every 200 ms and once more by the   *)
(* thread that closes the take: take the announced segments, make a record  *)
(* of each whose rows are all written, sync the index, replace segments.json*)

LastHarvest == closer.at \in {"tail", "salvage"}

HarvestBegin ==
    /\ harvest.at = "idle"
    /\ \E by \in {"harvester", "closer"} :
        /\ by = "harvester" => harvester = "run" /\ closer.at \in {"none", "drain"}
        /\ by = "closer" => LastHarvest
        /\ harvest' = [by |-> by, at |-> "record", seen |-> Len(helper.ends), before |-> records]
    /\ planner' = [planner EXCEPT !.covered = LastEnd]
    /\ UNCHANGED <<runtimeVars, take, helper, sink, lifecycle, harvester, records, checkpoint,
                   closer, takeFaults>>

Eligible(i) == Len(sink.rows) >= helper.ends[i]

(* Mutant: the segment still being encoded is recorded with the others.     *)
HarvestRecord_OpenSegment ==
    /\ harvest.at = "record"
    /\ IF \/ records < harvest.seen /\ Eligible(records + 1)
          \/ records = harvest.seen /\ Len(sink.rows) > LastEnd
       THEN records' = records + 1 /\ UNCHANGED harvest
       ELSE /\ harvest' = [harvest EXCEPT !.at = IF records = harvest.before THEN "done" ELSE "sync"]
            /\ UNCHANGED records
    /\ UNCHANGED <<runtimeVars, transactionVars, harvester, checkpoint, closer, takeFaults>>

HarvestRecord ==
    /\ harvest.at = "record"
    /\ IF records < harvest.seen /\ Eligible(records + 1)
       THEN records' = records + 1 /\ UNCHANGED harvest
       ELSE /\ harvest' = [harvest EXCEPT !.at = IF records = harvest.before THEN "done" ELSE "sync"]
            /\ UNCHANGED records
    /\ UNCHANGED <<runtimeVars, transactionVars, harvester, checkpoint, closer, takeFaults>>

HarvestSync ==
    /\ harvest.at = "sync"
    /\ sink' = [sink EXCEPT !.synced = Len(sink.rows)]
    /\ harvest' = [harvest EXCEPT !.at = "publish"]
    /\ UNCHANGED <<runtimeVars, take, planner, helper, lifecycle, harvester, records,
                   checkpoint, closer, takeFaults>>

HarvestPublish ==
    /\ harvest.at = "publish"
    /\ checkpoint' = records
    /\ harvest' = [harvest EXCEPT !.at = "done"]
    /\ UNCHANGED <<runtimeVars, transactionVars, harvester, records, closer, takeFaults>>

HarvestDone ==
    /\ harvest.at = "done"
    /\ harvest' = NoHarvest
    /\ closer' = IF harvest.by = "harvester" THEN closer
                 ELSE [closer EXCEPT !.at = IF @ = "tail" THEN "seal" ELSE "release"]
    /\ UNCHANGED <<runtimeVars, transactionVars, harvester, records, checkpoint, takeFaults>>

(* An I/O error in a harvest ends the harvester, fails a stop, and is       *)
(* suppressed while a take is abandoned.                                    *)
HarvestFails ==
    /\ harvest.at \in {"record", "sync", "publish"}
    /\ TakeFault
    /\ harvest' = NoHarvest
    /\ harvester' = IF harvest.by = "harvester" THEN "failed" ELSE harvester
    /\ closer' = IF harvest.by = "harvester" THEN closer
                 ELSE [closer EXCEPT !.at = IF @ = "tail" THEN "except" ELSE "release"]
    /\ UNCHANGED <<runtimeVars, transactionVars, records, checkpoint>>

HarvesterEnds ==
    /\ harvester = "run" /\ harvest.by # "harvester"
    /\ closer.at \notin {"none", "drain"}
    /\ harvester' = "ended"
    /\ UNCHANGED <<runtimeVars, transactionVars, harvest, records, checkpoint, closer, takeFaults>>

-----------------------------------------------------------------------------
(* The session transaction.                                                 *)

Rollback == [closer EXCEPT !.at = "abort",
                           !.then = IF closer.how = "stop" THEN "except" ELSE "abandon"]

(* A reservation that was never finished fails the finish.                  *)
FinishTake ==
    /\ closer.at = "finish"
    /\ lifecycle' = "finishing"
    /\ IF take.pending
       THEN closer' = Rollback /\ UNCHANGED take
       ELSE /\ take' = [take EXCEPT !.closed = TRUE]
            /\ closer' = [closer EXCEPT !.at = "flush"]
    /\ UNCHANGED <<runtimeVars, planner, helper, sink, harvestVars, takeFaults>>

FlushSink ==
    /\ closer.at = "flush"
    /\ sink.queue = <<>> \/ sink.state = "failed"
    /\ IF sink.state = "failed"
       THEN closer' = Rollback /\ UNCHANGED <<sink, helper>>
       ELSE /\ sink' = [sink EXCEPT !.state = "closed", !.synced = Len(sink.rows)]
            /\ helper' = [helper EXCEPT !.state = IF @ = "run" THEN "eof" ELSE @]
            /\ closer' = [closer EXCEPT !.at = "encode"]
    /\ UNCHANGED <<runtimeVars, take, planner, lifecycle, harvestVars, takeFaults>>

FinishEncoder ==
    /\ closer.at = "encode"
    /\ helper.state \notin {"eof", "failing"}
    /\ closer' = IF helper.state = "exited" THEN [closer EXCEPT !.at = "check"] ELSE Rollback
    /\ UNCHANGED <<runtimeVars, transactionVars, harvestVars, takeFaults>>

FinishEncoderTimeout ==
    /\ closer.at = "encode"
    /\ helper.state \in {"eof", "failing"}
    /\ TakeFault
    /\ helper' = [helper EXCEPT !.state = "dead"]
    /\ closer' = Rollback
    /\ UNCHANGED <<runtimeVars, take, planner, sink, lifecycle, harvestVars>>

(* What the helper received, the planner planned and the segments cover, and*)
(* what the take and the index counted, must agree.                         *)
CountsAgree ==
    /\ Len(helper.got) = planner.frames
    /\ LastEnd = planner.frames
    /\ take.written = Len(sink.rows)
    /\ take.written = Len(helper.got)

FinishCheck ==
    /\ closer.at = "check"
    /\ planner' = [planner EXCEPT !.covered = LastEnd]
    /\ IF CountsAgree
       THEN /\ lifecycle' = "finished"
            /\ closer' = [closer EXCEPT !.at = IF closer.how = "stop" THEN "tail" ELSE "abandon"]
       ELSE closer' = Rollback /\ UNCHANGED lifecycle
    /\ UNCHANGED <<runtimeVars, take, helper, sink, harvestVars, takeFaults>>

(* abort_resources: kill the helper, then close the sink, which drains it.  *)
AbortEncoder ==
    /\ closer.at = "abort"
    /\ helper' = [helper EXCEPT !.state = IF @ = "exited" THEN @ ELSE "dead"]
    /\ closer' = [closer EXCEPT !.at = "close"]
    /\ UNCHANGED <<runtimeVars, take, planner, sink, lifecycle, harvestVars, takeFaults>>

CloseSink ==
    /\ closer.at = "close"
    /\ sink.queue = <<>> \/ sink.state = "failed"
    /\ sink' = [sink EXCEPT !.state = IF @ = "failed" THEN @ ELSE "closed"]
    /\ lifecycle' = "aborted"
    /\ closer' = [closer EXCEPT !.at = closer.then]
    /\ UNCHANGED <<runtimeVars, take, planner, helper, harvestVars, takeFaults>>

-----------------------------------------------------------------------------
(* Stop and fail.                                                           *)

(* A stop command: the source closes the gate and drains the frame in       *)
(* flight before the recorder is stopped.                                   *)
StopBegin ==
    /\ closer.at = "none" /\ ~told
    /\ gate' = Stopping
    /\ attached' = (attached /\ Stopping # "none")
    /\ closer' = [at |-> "drain", how |-> "stop", then |-> "none"]
    /\ UNCHANGED <<camera, counted, told, capture, imu, transactionVars, harvestVars, takeFaults>>

(* A failure told while the source was being stopped is handled by the stop.*)
Drained ==
    /\ closer.at = "drain"
    /\ ~attached /\ imu = "off"
    /\ closer' = [closer EXCEPT !.at = "join", !.how = IF told THEN "fail" ELSE "stop"]
    /\ UNCHANGED <<runtimeVars, transactionVars, harvestVars, takeFaults>>

DrainTimeout ==
    /\ closer.at = "drain"
    /\ attached \/ imu = "on"
    /\ TakeFault
    /\ closer' = [closer EXCEPT !.at = "join", !.how = "fail"]
    /\ UNCHANGED <<runtimeVars, transactionVars, harvestVars>>

(* A failure callback fails the recorder without stopping the source.       *)
FailBegin ==
    /\ closer.at = "none" /\ told
    /\ closer' = [at |-> "join", how |-> "fail", then |-> "none"]
    /\ UNCHANGED <<runtimeVars, transactionVars, harvestVars, takeFaults>>

JoinHarvester ==
    /\ closer.at = "join" /\ harvester # "run"
    /\ closer' = [closer EXCEPT !.at = "finish"]
    /\ UNCHANGED <<runtimeVars, transactionVars, harvestVars, takeFaults>>

JoinTimeout ==
    /\ closer.at = "join" /\ harvester = "run"
    /\ TakeFault
    /\ closer' = [closer EXCEPT !.at = IF closer.how = "stop" THEN "except" ELSE "abandon"]
    /\ UNCHANGED <<runtimeVars, transactionVars, harvestVars>>

(* stop's except clause aborts a transaction that has not ended.            *)
StopExcept ==
    /\ closer.at = "except"
    /\ closer' = IF lifecycle \in {"recording", "finishing"}
                 THEN [closer EXCEPT !.at = "abort", !.then = "abandon"]
                 ELSE [closer EXCEPT !.at = "abandon"]
    /\ UNCHANGED <<runtimeVars, transactionVars, harvestVars, takeFaults>>

(* _abandon_encoder harvests once more, but never beside a live harvester.  *)
Abandon ==
    /\ closer.at = "abandon" /\ harvester # "run"
    /\ closer' = [closer EXCEPT !.at = "salvage"]
    /\ UNCHANGED <<runtimeVars, transactionVars, harvestVars, takeFaults>>

AbandonTimeout ==
    /\ closer.at = "abandon" /\ harvester = "run"
    /\ TakeFault
    /\ closer' = [closer EXCEPT !.at = "release"]
    /\ UNCHANGED <<runtimeVars, transactionVars, harvestVars>>

ReleaseTake ==
    /\ closer.at = "release"
    /\ closer' = IF lifecycle \in {"recording", "finishing"}
                 THEN [closer EXCEPT !.at = "abort", !.then = "failed"]
                 ELSE [closer EXCEPT !.at = "failed"]
    /\ UNCHANGED <<runtimeVars, transactionVars, harvestVars, takeFaults>>

(* A take without a frame is refused.                                       *)
SealTake ==
    /\ closer.at = "seal"
    /\ closer' = [closer EXCEPT !.at = IF take.written = 0 THEN "except" ELSE "sealed"]
    /\ UNCHANGED <<runtimeVars, transactionVars, harvestVars, takeFaults>>

SealFails ==
    /\ closer.at = "seal"
    /\ TakeFault
    /\ closer' = [closer EXCEPT !.at = "except"]
    /\ UNCHANGED <<runtimeVars, transactionVars, harvestVars>>

-----------------------------------------------------------------------------
CaptureStep == BeginFrame \/ ReserveFrame \/ SubmitFrame \/ IndexFrame \/ CommitFrame
                 \/ FinishFrame \/ ReportFailure \/ CameraFails \/ ImuFails \/ ImuEnds
StorageStep == WriteRow \/ WriteRowFails \/ EncodeFrame \/ HelperReports
                 \/ HelperExits \/ HelperFails
HarvestStep == HarvestBegin \/ HarvestRecord \/ HarvestSync \/ HarvestPublish
                 \/ HarvestDone \/ HarvestFails \/ HarvesterEnds
FinishStep == FinishTake \/ FlushSink \/ FinishEncoder \/ FinishEncoderTimeout
                 \/ FinishCheck \/ AbortEncoder \/ CloseSink
CloseStep == StopBegin \/ Drained \/ DrainTimeout \/ FailBegin \/ JoinHarvester \/ JoinTimeout
                 \/ StopExcept \/ Abandon \/ AbandonTimeout \/ ReleaseTake \/ SealTake \/ SealFails

TakeNext == CaptureStep \/ StorageStep \/ HarvestStep \/ FinishStep \/ CloseStep
TakeSpec == TakeInit /\ [][TakeNext]_takeVars

-----------------------------------------------------------------------------
(* Properties.                                                              *)

(* segments.json, which boot recovery trusts, names only segments that the  *)
(* helper finished and whose frames all have synced index rows: true after a*)
(* power cut at any point, and while a harvester that outlived its join     *)
(* writes beside a failing take (device_session.py _harvest_segments).      *)
CheckpointHonest ==
    /\ checkpoint <= Len(helper.ends)
    /\ checkpoint > 0 => helper.ends[checkpoint] <= sink.synced

(* A sealed take is whole: its index rows are the encoded frames, evenly    *)
(* spaced source frames with no hole, and its segments cover them all, even *)
(* when the error of a last frame was lost because the gate had already     *)
(* closed when it was reported (capture_runtime.rs process_frame).          *)
SealedTakeWhole ==
    closer.at = "sealed" =>
        /\ sink.rows = helper.got /\ sink.queue = <<>>
        /\ \A i \in 2..Len(sink.rows) : sink.rows[i] = sink.rows[i - 1] + Decimation
        /\ records = Len(helper.ends) /\ LastEnd = Len(sink.rows)

(* A source gap costs the rejected frame only: without another fault, and   *)
(* unless a write failed on a full index backlog, a take that failed has    *)
(* every accepted frame in its checkpoint (device_session.py fail).         *)
GapCostsOneFrame ==
    closer.at = "failed" /\ takeFaults = 0 /\ ~take.pending =>
        /\ checkpoint = Len(helper.ends)
        /\ LastEnd = take.written /\ Len(sink.rows) = take.written

(* What a native take leaves on the disk is what it claims to have recorded, *)
(* whichever of its threads failed or came last (capture_runtime.rs,         *)
(* session_store.rs, device_session.py).                                     *)
NativeTakeSafe == CheckpointHonest /\ SealedTakeWhole /\ GapCostsOneFrame
=============================================================================
