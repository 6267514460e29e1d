--------------------------- MODULE CaptureSources ---------------------------
(***************************************************************************)
(* ContinuousCaptureSources (recording/sources.py): the camera stays open  *)
(* for the preview, and a recording attaches a tap to it.  Callers open    *)
(* the preview, start and stop a recording and close the sources; the      *)
(* camera thread, the IMU thread of each tap and the thread that reports a *)
(* tap's failure run beside them.  The camera is CameraController          *)
(* (camera/controller.py) on a device that one stream at a time may hold.  *)
(*                                                                         *)
(* A frame is its source number.  Joins and waits may time out whenever    *)
(* what they wait for has not happened.                                    *)
(***************************************************************************)
EXTENDS Integers, FiniteSets

CONSTANTS
    Decimation,       \* frame_decimation
    MaxCameras, MaxTaps, MaxSourceFrames, MaxSourceFaults,   \* bounds
    MaxCalls          \* bound: calls of start_preview, start, stop and close

ASSUME SourcesAssumption ==
    /\ Decimation \in Nat \ {0} /\ MaxCameras \in Nat \ {0} /\ MaxTaps \in Nat \ {0}
    /\ MaxSourceFrames \in Nat /\ MaxSourceFaults \in Nat /\ MaxCalls \in Nat

VARIABLES
    stopSet,           \* _stop
    registered,        \* _camera
    attached,          \* _camera_thread, by the camera it reads
    current,           \* _recording
    handles,           \* _open_handles
    streaming, seen,   \* the camera that holds the device, and the last frame it validated
    cameras, taps,     \* how many were made
    pump,              \* camera -> its thread
    tap,               \* tap -> _RecordingTap
    opener,            \* caller -> its start_preview() or start()
    stopper,           \* stop() and close() by their callers; a failure's by its tap
    told,              \* tap -> calls of on_failure
    quiet,             \* history: taps that a stop() took and returned from
    closedWell,        \* history: a close() returned, and nothing was opened since
    sourceFaults, calls

lockVars == <<stopSet, registered, attached, current, handles>>
deviceVars == <<streaming, seen, cameras, taps>>
historyVars == <<told, quiet, closedWell>>
sourceVars == <<lockVars, deviceVars, pump, tap, opener, stopper, historyVars, sourceFaults, calls>>

Cameras == 1..MaxCameras
Taps == 1..MaxTaps
Openers == {"control", "recording"}
\* whoever runs stop() or close(): a caller, or the thread of a tap's failure
Caller(name) == <<name, 0>>
Reporter(t) == <<"failure", t>>
Stoppers ==
    {Caller(name) : name \in Openers \cup {"coordinator", "close"}} \cup {Reporter(t) : t \in Taps}

NoPump == [at |-> "none", tap |-> 0, frame |-> 0, gap |-> 0]
NoTap == [imu |-> "none", thread |-> "none", stopping |-> FALSE, inflight |-> 0,
          reported |-> FALSE, observed |-> 0, count |-> 0, start |-> 0, last |-> 0]
Idle == [at |-> "idle", tap |-> 0, camera |-> 0, late |-> FALSE, closing |-> FALSE]

SourcesInit ==
    /\ stopSet = FALSE /\ registered = 0 /\ attached = 0 /\ current = 0 /\ handles = 0
    /\ streaming = 0 /\ seen = 0 /\ cameras = 0 /\ taps = 0
    /\ pump = [c \in Cameras |-> NoPump] /\ tap = [t \in Taps |-> NoTap]
    /\ opener = [p \in Openers |-> [at |-> "idle", camera |-> 0]]
    /\ stopper = [s \in Stoppers |-> Idle]
    /\ told = [t \in Taps |-> 0] /\ quiet = {} /\ closedWell = FALSE
    /\ sourceFaults = 0 /\ calls = 0

SourceFault == sourceFaults < MaxSourceFaults /\ sourceFaults' = sourceFaults + 1
Called == calls < MaxCalls /\ calls' = calls + 1

-----------------------------------------------------------------------------
(* CameraController *)

\* close() of a camera gives the device back
CameraCloses(c) == streaming' = IF streaming = c THEN 0 ELSE streaming

\* read() validates the number; whatever is wrong with a frame closes the camera
CameraReads(c, gap) ==
    /\ streaming = c /\ seen + 1 + gap <= MaxSourceFrames
    /\ seen' = seen + 1 + gap /\ UNCHANGED streaming

CameraRaises(c) ==
    \/ streaming # c /\ UNCHANGED <<streaming, sourceFaults>>
    \/ streaming = c /\ SourceFault /\ streaming' = 0

-----------------------------------------------------------------------------
(* start_preview(), and start() after it *)

OpenerKeeps == UNCHANGED <<told, quiet, calls>>
OpenerTo(p, step) ==
    opener' = [opener EXCEPT ![p] = IF step \in {"register", "warm", "attach", "launch"}
                                    THEN [@ EXCEPT !.at = step] ELSE [at |-> step, camera |-> 0]]
\* the preview is there: control is done, a recording goes on to its tap
PreviewIsOpen(p) == OpenerTo(p, IF p = "recording" THEN "tap" ELSE "idle")
\* raised after the camera was registered: close() is called first
OpenerCloses(p) ==
    /\ OpenerTo(p, "failed")
    /\ stopper' = [stopper EXCEPT ![Caller(p)] = [Idle EXCEPT !.at = "begin", !.closing = TRUE]]

PreviewBegins(p) ==
    /\ opener[p].at = "idle" /\ Called
    /\ p = "recording" => stopper[Caller("coordinator")].at = "idle"
    /\ IF registered # 0 \/ attached # 0
       THEN PreviewIsOpen(p) /\ UNCHANGED <<stopSet, closedWell>>
       ELSE OpenerTo(p, "open") /\ stopSet' = FALSE /\ closedWell' = FALSE
    /\ UNCHANGED <<registered, attached, current, handles, deviceVars, pump, tap, stopper,
                   sourceFaults, told, quiet>>

\* the device is busy, or something else goes wrong
CameraOpens(p) ==
    /\ opener[p].at = "open"
    /\ \/ /\ streaming = 0 /\ cameras < MaxCameras
          /\ cameras' = cameras + 1 /\ streaming' = cameras + 1 /\ seen' = 0
          /\ opener' = [opener EXCEPT ![p] = [at |-> "register", camera |-> cameras + 1]]
       \/ OpenerTo(p, "idle") /\ UNCHANGED <<cameras, streaming, seen>>
    /\ UNCHANGED <<lockVars, taps, pump, tap, stopper, closedWell, sourceFaults>> /\ OpenerKeeps

CameraRegisters(p) ==
    LET c == opener[p].camera IN
    /\ opener[p].at = "register"
    /\ IF stopSet
       THEN OpenerTo(p, "idle") /\ CameraCloses(c) /\ UNCHANGED <<registered, handles>>
       ELSE OpenerTo(p, "warm") /\ registered' = c /\ handles' = handles + 1
            /\ UNCHANGED streaming
    /\ UNCHANGED <<stopSet, attached, current, seen, cameras, taps, pump, tap, stopper,
                   closedWell, sourceFaults>>
    /\ OpenerKeeps

WarmUp(p) ==
    LET c == opener[p].camera IN
    /\ opener[p].at = "warm"
    /\ \/ stopSet /\ OpenerCloses(p) /\ UNCHANGED <<streaming, seen, sourceFaults>>
       \/ ~stopSet /\ CameraRaises(c) /\ OpenerCloses(p) /\ UNCHANGED seen
       \/ ~stopSet /\ CameraReads(c, 0) /\ OpenerTo(p, "attach")
          /\ UNCHANGED <<stopper, sourceFaults>>
    /\ UNCHANGED <<lockVars, cameras, taps, pump, tap, closedWell>> /\ OpenerKeeps

CameraAttaches(p) ==
    LET c == opener[p].camera IN
    /\ opener[p].at = "attach"
    /\ IF stopSet \/ registered # c
       THEN OpenerCloses(p) /\ UNCHANGED attached
       ELSE OpenerTo(p, "launch") /\ attached' = c /\ UNCHANGED stopper
    /\ UNCHANGED <<stopSet, registered, current, handles, deviceVars, pump, tap, closedWell,
                   sourceFaults>>
    /\ OpenerKeeps

PumpLaunches(p) ==
    /\ opener[p].at = "launch" /\ PreviewIsOpen(p)
    /\ pump' = [pump EXCEPT ![opener[p].camera].at = "loop"]
    /\ UNCHANGED <<lockVars, deviceVars, tap, stopper, closedWell, sourceFaults>> /\ OpenerKeeps

OpenerRaises(p) ==
    /\ opener[p].at = "failed" /\ stopper[Caller(p)].at = "idle" /\ OpenerTo(p, "idle")
    /\ UNCHANGED <<lockVars, deviceVars, pump, tap, stopper, closedWell, sourceFaults>>
    /\ OpenerKeeps

\* The IMU is opened; one recording at a time has a tap.
TapAttaches ==
    /\ opener["recording"].at = "tap"
    /\ IF current # 0
       THEN OpenerTo("recording", "idle") /\ UNCHANGED <<current, handles, taps, tap>>
       ELSE /\ taps < MaxTaps /\ taps' = taps + 1 /\ current' = taps + 1
            /\ handles' = handles + 1 /\ OpenerTo("recording", "imu")
            /\ tap' = [tap EXCEPT ![taps + 1].imu = "open"]
    /\ UNCHANGED <<stopSet, registered, attached, streaming, seen, cameras, pump, stopper,
                   closedWell, sourceFaults>>
    /\ OpenerKeeps

ImuLaunches ==
    /\ opener["recording"].at = "imu" /\ OpenerTo("recording", "idle")
    /\ tap' = [tap EXCEPT ![taps].thread = "loop"]
    /\ UNCHANGED <<lockVars, deviceVars, pump, stopper, closedWell, sourceFaults>> /\ OpenerKeeps

ImuFactoryRaises ==
    /\ opener["recording"].at = "tap" /\ SourceFault /\ OpenerTo("recording", "idle")
    /\ UNCHANGED <<lockVars, deviceVars, pump, tap, stopper, closedWell>> /\ OpenerKeeps

-----------------------------------------------------------------------------
(* _report_recording_failure: the first failure of the tap that records closes its gate  *)
(* and starts a thread that stops the sources and tells the coordinator.                  *)

Reports_Always(t) == TRUE

Reports(t) == current = t /\ ~tap[t].reported
Reported(t) == [tap[t] EXCEPT !.reported = TRUE, !.stopping = TRUE]
Report(t) ==
    IF Reports(t)
    THEN /\ tap' = [tap EXCEPT ![t] = Reported(t)]
         /\ stopper' = [stopper EXCEPT ![Reporter(t)].at = "begin"]
    ELSE UNCHANGED <<tap, stopper>>

-----------------------------------------------------------------------------
(* _camera_loop *)

PumpKeeps == UNCHANGED <<stopSet, current, cameras, taps, opener, historyVars, calls>>
PumpTo(c, step) ==
    pump' = [pump EXCEPT ![c] = IF step \in {"report", "finish"} THEN [@ EXCEPT !.at = step]
                                ELSE [NoPump EXCEPT !.at = step]]

PumpReads(c) ==
    /\ pump[c].at = "loop"
    /\ \/ stopSet /\ PumpTo(c, "release") /\ UNCHANGED <<streaming, seen, sourceFaults>>
       \/ ~stopSet /\ CameraRaises(c) /\ PumpTo(c, "fail") /\ UNCHANGED seen
       \/ ~stopSet /\ \E gap \in {0, 1} : CameraReads(c, gap)
          /\ pump' = [pump EXCEPT ![c] = [at |-> "snapshot", tap |-> 0,
                                          frame |-> seen + 1 + gap, gap |-> gap]]
          /\ UNCHANGED sourceFaults
    /\ UNCHANGED <<registered, attached, handles, tap, stopper>> /\ PumpKeeps

\* the preview is published, and the tap of the moment is read
PumpSnapshots(c) ==
    /\ pump[c].at = "snapshot"
    /\ CASE stopSet -> PumpTo(c, "release")
         [] ~stopSet /\ current = 0 -> PumpTo(c, "loop")
         [] OTHER -> pump' = [pump EXCEPT ![c].at = "begin", ![c].tap = current]
    /\ UNCHANGED <<registered, attached, handles, streaming, seen, tap, stopper, sourceFaults>>
    /\ PumpKeeps

\* _begin_recording_frame: the gate, and every Decimation-th frame; a gap is always handed on
GateOpen_Ungated(t) == current = t

GateOpen(t) == current = t /\ ~tap[t].stopping

Wanted_GapsDecimated(t, gap) == tap[t].observed % Decimation = 0

Wanted(t, gap) == gap # 0 \/ tap[t].observed % Decimation = 0

PumpBegins(c) ==
    LET t == pump[c].tap
        first == tap[t].observed = 0
        gap == IF first THEN 0 ELSE pump[c].gap
    IN
    /\ pump[c].at = "begin"
    /\ IF ~GateOpen(t) THEN PumpTo(c, "loop") /\ UNCHANGED tap
       ELSE /\ tap' = [tap EXCEPT ![t].observed = @ + gap + 1,
                                  ![t].inflight = IF first \/ Wanted(t, gap) THEN @ + 1 ELSE @]
            /\ IF first \/ Wanted(t, gap)
               THEN pump' = [pump EXCEPT ![c].at = "submit", ![c].gap = gap]
               ELSE PumpTo(c, "loop")
    /\ UNCHANGED <<registered, attached, handles, streaming, seen, stopper, sourceFaults>>
    /\ PumpKeeps

\* The coordinator takes the frame, or raises: a gap always, and the take may have failed.
PumpSubmits(c) ==
    LET t == pump[c].tap
        f == pump[c].frame
    IN
    /\ pump[c].at = "submit"
    /\ \/ /\ pump[c].gap = 0 /\ PumpTo(c, "finish") /\ UNCHANGED sourceFaults
          /\ tap' = [tap EXCEPT ![t].count = @ + 1, ![t].last = f,
                                ![t].start = IF tap[t].count = 0 THEN f ELSE @]
       \/ pump[c].gap # 0 /\ PumpTo(c, "report") /\ UNCHANGED <<tap, sourceFaults>>
       \/ SourceFault /\ PumpTo(c, "report") /\ UNCHANGED tap
    /\ UNCHANGED <<registered, attached, handles, streaming, seen, stopper>> /\ PumpKeeps

PumpReports(c) ==
    /\ pump[c].at = "report" /\ PumpTo(c, "finish") /\ Report(pump[c].tap)
    /\ UNCHANGED <<registered, attached, handles, streaming, seen, sourceFaults>> /\ PumpKeeps

PumpFinishes(c) ==
    /\ pump[c].at = "finish" /\ PumpTo(c, "loop")
    /\ tap' = [tap EXCEPT ![pump[c].tap].inflight = @ - 1]
    /\ UNCHANGED <<registered, attached, handles, streaming, seen, stopper, sourceFaults>>
    /\ PumpKeeps

\* the camera failed: the tap that records now is told, unless the sources are closing
PumpFails(c) ==
    /\ pump[c].at = "fail" /\ PumpTo(c, "release")
    /\ IF stopSet \/ current = 0 THEN UNCHANGED <<tap, stopper>> ELSE Report(current)
    /\ UNCHANGED <<registered, attached, handles, streaming, seen, sourceFaults>> /\ PumpKeeps

PumpReleases(c) ==
    /\ pump[c].at = "release" /\ PumpTo(c, "ended")
    /\ IF registered = c
       THEN registered' = 0 /\ attached' = 0 /\ handles' = handles - 1 /\ CameraCloses(c)
       ELSE UNCHANGED <<registered, attached, handles, streaming>>
    /\ UNCHANGED <<seen, tap, stopper, sourceFaults>> /\ PumpKeeps

-----------------------------------------------------------------------------
(* _imu_loop *)

ImuKeeps == UNCHANGED <<stopSet, registered, attached, deviceVars, pump, opener, historyVars,
                        calls>>
ImuTo(t, step) == tap' = [tap EXCEPT ![t].thread = step]
Recording(t) == ~stopSet /\ current = t

ImuReads(t) ==
    /\ tap[t].thread = "loop"
    /\ \/ ~Recording(t) /\ ImuTo(t, "release") /\ UNCHANGED sourceFaults
       \/ Recording(t) /\ tap[t].imu = "open" /\ ImuTo(t, "check") /\ UNCHANGED sourceFaults
       \/ Recording(t) /\ tap[t].imu = "shut" /\ ImuTo(t, "fail") /\ UNCHANGED sourceFaults
       \/ Recording(t) /\ SourceFault /\ ImuTo(t, "fail")
    /\ UNCHANGED <<current, handles, stopper>> /\ ImuKeeps

ImuChecks(t) ==
    /\ tap[t].thread = "check" /\ ImuTo(t, IF Recording(t) THEN "submit" ELSE "release")
    /\ UNCHANGED <<current, handles, stopper, sourceFaults>> /\ ImuKeeps

ImuSubmits(t) ==
    /\ tap[t].thread = "submit"
    /\ \/ ImuTo(t, "loop") /\ UNCHANGED sourceFaults
       \/ ImuTo(t, "fail") /\ SourceFault
    /\ UNCHANGED <<current, handles, stopper>> /\ ImuKeeps

ImuFails(t) ==
    /\ tap[t].thread = "fail"
    /\ IF Recording(t) /\ Reports(t)
       THEN /\ tap' = [tap EXCEPT ![t] = [Reported(t) EXCEPT !.thread = "release"]]
            /\ stopper' = [stopper EXCEPT ![Reporter(t)].at = "begin"]
       ELSE ImuTo(t, "release") /\ UNCHANGED stopper
    /\ UNCHANGED <<current, handles, sourceFaults>> /\ ImuKeeps

\* _release_recording_imu
ImuReleases_Twice(t) ==
    /\ tap[t].thread = "release"
    /\ tap' = [tap EXCEPT ![t].thread = "ended", ![t].imu = "released"]
    /\ handles' = handles - (IF current = t THEN 2 ELSE 1)
    /\ current' = IF current = t THEN 0 ELSE current
    /\ UNCHANGED <<stopper, sourceFaults>> /\ ImuKeeps

ImuReleases(t) ==
    /\ tap[t].thread = "release"
    /\ tap' = [tap EXCEPT ![t].thread = "ended", ![t].imu = "released"]
    /\ handles' = handles - 1
    /\ current' = IF current = t THEN 0 ELSE current
    /\ UNCHANGED <<stopper, sourceFaults>> /\ ImuKeeps

-----------------------------------------------------------------------------
(* stop() and close() *)

CallKeeps == UNCHANGED <<registered, attached, handles, seen, cameras, taps, pump, opener,
                         sourceFaults>>
StopperKeeps == CallKeeps /\ UNCHANGED calls
StopperTo(s, step) == stopper' = [stopper EXCEPT ![s].at = step]
\* what follows a stop() inside close(), in a failure's thread, or for its caller
Returned(s) ==
    stopper' = [stopper EXCEPT ![s] =
                   [Idle EXCEPT !.at = CASE stopper[s].closing -> "camera"
                                         [] ~stopper[s].closing /\ s[1] = "failure" -> "tell"
                                         [] OTHER -> "idle"]]

\* the coordinator stops a recording, or closes the sources
StopCalled ==
    /\ stopper[Caller("coordinator")].at = "idle" /\ opener["recording"].at = "idle" /\ Called
    /\ StopperTo(Caller("coordinator"), "begin")
    /\ UNCHANGED <<stopSet, current, streaming, tap, historyVars>> /\ CallKeeps

\* close() sets _stop and stops the recording
CloseCalled ==
    /\ stopper[Caller("close")].at = "idle" /\ Called
    /\ stopper' = [stopper EXCEPT ![Caller("close")] = [Idle EXCEPT !.at = "begin",
                                                                     !.closing = TRUE]]
    /\ UNCHANGED <<stopSet, current, streaming, tap, historyVars>> /\ CallKeeps

StopTakes(s) ==
    /\ stopper[s].at = "begin" /\ stopSet' = (stopSet \/ stopper[s].closing)
    /\ IF current = 0
       THEN Returned(s) /\ UNCHANGED <<current, tap>>
       ELSE /\ stopper' = [stopper EXCEPT ![s].at = "wait", ![s].tap = current]
            /\ current' = 0 /\ tap' = [tap EXCEPT ![current].stopping = TRUE]
    /\ UNCHANGED <<streaming, historyVars>> /\ StopperKeeps

\* the frame that is being submitted is waited for, for a while
StopWaits_NotAtAll(s) ==
    /\ stopper[s].at = "wait"
    /\ stopper' = [stopper EXCEPT ![s].at = "imu"]
    /\ UNCHANGED <<stopSet, current, streaming, tap, historyVars>> /\ StopperKeeps

StopWaits(s) ==
    /\ stopper[s].at = "wait"
    /\ stopper' = [stopper EXCEPT ![s].at = "imu", ![s].late = tap[stopper[s].tap].inflight # 0]
    /\ UNCHANGED <<stopSet, current, streaming, tap, historyVars>> /\ StopperKeeps

StopShutsImu(s) ==
    LET t == stopper[s].tap IN
    /\ stopper[s].at = "imu" /\ StopperTo(s, "join")
    /\ tap' = [tap EXCEPT ![t].imu = IF @ = "open" THEN "shut" ELSE @]
    /\ UNCHANGED <<stopSet, current, streaming, historyVars>> /\ StopperKeeps

\* An IMU thread that has not ended in time, or has not begun, raises; so does a frame that
\* was not waited for to its end.
StopJoins(s) ==
    LET t == stopper[s].tap IN
    /\ stopper[s].at = "join" /\ Returned(s)
    /\ quiet' = IF tap[t].thread = "ended" /\ ~stopper[s].late THEN quiet \cup {t} ELSE quiet
    /\ UNCHANGED <<stopSet, current, streaming, tap, told, closedWell>> /\ StopperKeeps

FailureTold(t) ==
    /\ stopper[Reporter(t)].at = "tell" /\ StopperTo(Reporter(t), "idle")
    /\ told' = [told EXCEPT ![t] = @ + 1]
    /\ UNCHANGED <<stopSet, current, streaming, tap, quiet, closedWell>> /\ StopperKeeps

CloseShutsCamera(s) ==
    /\ stopper[s].at = "camera" /\ CameraCloses(registered)
    /\ stopper' = [stopper EXCEPT ![s].at = "camera join", ![s].camera = attached]
    /\ UNCHANGED <<stopSet, current, tap, historyVars>> /\ StopperKeeps

\* a camera thread that has not ended in time, or has not begun, raises
CloseJoins(s) ==
    LET c == stopper[s].camera
        ended == c = 0 \/ pump[c].at = "ended"
    IN
    /\ stopper[s].at = "camera join" /\ stopper' = [stopper EXCEPT ![s] = Idle]
    /\ current' = IF ended THEN 0 ELSE current
    /\ closedWell' = (closedWell \/ (ended /\ stopSet))
    /\ UNCHANGED <<stopSet, streaming, tap, told, quiet>> /\ StopperKeeps

SourcesNext ==
    \/ \E p \in Openers :
          \/ PreviewBegins(p) \/ CameraOpens(p) \/ CameraRegisters(p) \/ WarmUp(p)
          \/ CameraAttaches(p) \/ PumpLaunches(p) \/ OpenerRaises(p)
    \/ TapAttaches \/ ImuLaunches \/ ImuFactoryRaises
    \/ \E c \in Cameras :
          \/ PumpReads(c) \/ PumpSnapshots(c) \/ PumpBegins(c) \/ PumpSubmits(c)
          \/ PumpReports(c) \/ PumpFinishes(c) \/ PumpFails(c) \/ PumpReleases(c)
    \/ \E t \in Taps :
          \/ ImuReads(t) \/ ImuChecks(t) \/ ImuSubmits(t) \/ ImuFails(t) \/ ImuReleases(t)
          \/ FailureTold(t)
    \/ StopCalled \/ CloseCalled
    \/ \E s \in Stoppers :
          \/ StopTakes(s) \/ StopWaits(s) \/ StopShutsImu(s) \/ StopJoins(s)
          \/ CloseShutsCamera(s) \/ CloseJoins(s)

SourcesSpec == SourcesInit /\ [][SourcesNext]_sourceVars

-----------------------------------------------------------------------------
(* Properties *)

PumpSteps == {"none", "loop", "snapshot", "begin", "submit", "report", "finish", "fail",
              "release", "ended"}
ImuStates == {"none", "open", "shut", "released"}
ImuSteps == {"none", "loop", "check", "submit", "fail", "release", "ended"}
OpenerSteps == {"idle", "open", "register", "warm", "attach", "launch", "failed", "tap", "imu"}
StopperSteps == {"idle", "begin", "wait", "imu", "join", "tell", "camera", "camera join"}

PumpStates == [at : PumpSteps, tap : 0..MaxTaps, frame : Nat, gap : {0, 1}]
TapStates == [imu : ImuStates, thread : ImuSteps, stopping : BOOLEAN, inflight : Int,
              reported : BOOLEAN, observed : Nat, count : Nat, start : Nat, last : Nat]
OpenerStates == [at : OpenerSteps, camera : 0..MaxCameras]
StopperStates == [at : StopperSteps, tap : 0..MaxTaps, camera : 0..MaxCameras, late : BOOLEAN,
                  closing : BOOLEAN]

TypeThreads ==
    /\ pump \in [Cameras -> PumpStates] /\ tap \in [Taps -> TapStates]
    /\ opener \in [Openers -> OpenerStates] /\ stopper \in [Stoppers -> StopperStates]
TypeShared ==
    /\ stopSet \in BOOLEAN /\ closedWell \in BOOLEAN /\ handles \in Int
    /\ registered \in 0..MaxCameras /\ attached \in 0..MaxCameras
    /\ streaming \in 0..MaxCameras /\ cameras \in 0..MaxCameras
    /\ current \in 0..MaxTaps /\ taps \in 0..MaxTaps /\ seen \in Nat
    /\ told \in [Taps -> Nat] /\ quiet \subseteq Taps
    /\ sourceFaults \in Nat /\ calls \in Nat
SourcesTypeOK == TypeThreads /\ TypeShared

\* _open_handles never counts less than the registered camera and the IMU of every tap that
\* is not released, whoever stops, fails or closes what and when: a safe swap waits for it to
\* reach zero (open_handle_count).
OpenImus == {t \in Taps : tap[t].imu \in {"open", "shut"}}
HandlesHeld == handles >= (IF registered = 0 THEN 0 ELSE 1) + Cardinality(OpenImus)

\* A stop() that returns has the frame that was being submitted and the IMU thread behind it:
\* nothing of that tap reaches the coordinator any more (_begin_recording_frame, stop).
StoppedIsQuiet ==
    \A t \in quiet :
        /\ tap[t].thread = "ended" /\ tap[t].inflight = 0
        /\ \A c \in Cameras : pump[c].at \in {"submit", "report", "finish"} => pump[c].tap # t

\* Two threads of a tap may fail, and a stop may come between; the coordinator is told of one
\* failure at most (_report_recording_failure).
ToldOnce == \A t \in Taps : told[t] <= 1

\* As long as one camera was opened, the frames a tap accepted are every Decimation-th of its
\* numbers, counted from the first: a gap is never decimated away (_begin_recording_frame,
\* _validate_frame).
NoHiddenGap ==
    cameras <= 1 => \A t \in Taps :
        tap[t].count > 0 => tap[t].last = tap[t].start + Decimation * (tap[t].count - 1)

\* What a tap and its camera keep through failures, stops and closes (ContinuousCaptureSources).
SourcesSafe == HandlesHeld /\ StoppedIsQuiet /\ ToldOnce /\ NoHiddenGap

\* Once a close() returned and all threads have ended, the sources hold nothing (close).
ClosedHoldsNothing ==
    /\ closedWell /\ \A p \in Openers : opener[p].at = "idle"
    /\ \A c \in Cameras : pump[c].at \in {"none", "ended"}
    /\ \A t \in Taps : tap[t].thread \in {"none", "ended"}
    => handles = 0
=============================================================================
